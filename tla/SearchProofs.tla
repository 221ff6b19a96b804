---------------------------- MODULE SearchProofs ----------------------------
(***************************************************************************)
(* Proofs about Search, for any processes, configurations, files, rules    *)
(* and arguments of searches.                                              *)
(***************************************************************************)
EXTENDS Search, FiniteSetTheorems, WellFoundedInduction, TLAPS

-----------------------------------------------------------------------------
(* Levels and numbers                                                      *)

\* The highest of some levels is one of them, and none is above it.
LEMMA HighestLevel ==
    ASSUME NEW S \in SUBSET Levels, S # {}
    PROVE  Max(S) \in S /\ \A l \in S : l <= Max(S)
  <1>1. \E x \in S : \A y \in S : x >= y
    <2>1. \A y \in S : y = 0 \/ y = 1 \/ y = 2 \/ y = 3
      BY DEF Levels
    <2>2. CASE 3 \in S
      BY <2>1, <2>2
    <2>3. CASE 3 \notin S /\ 2 \in S
      BY <2>1, <2>3
    <2>4. CASE 3 \notin S /\ 2 \notin S /\ 1 \in S
      BY <2>1, <2>4
    <2>5. CASE 3 \notin S /\ 2 \notin S /\ 1 \notin S
      <3>1. 0 \in S /\ \A y \in S : y = 0
        BY <2>1, <2>5
      <3>2. QED
        BY <3>1
    <2>6. QED
      BY <2>2, <2>3, <2>4, <2>5
  <1>2. Max(S) \in S /\ \A y \in S : Max(S) >= y
    BY <1>1, Zenon DEF Max
  <1>3. QED
    BY <1>2 DEF Levels

\* The smaller of two numbers.
LEMMA SmallerOfTwo ==
    ASSUME NEW m \in Int, NEW n \in Int
    PROVE  Least(m, n) = (IF m <= n THEN m ELSE n)
  <1>1. \E x \in {m, n} : \A y \in {m, n} : x <= y
    OBVIOUS
  <1>2. Min({m, n}) \in {m, n} /\ \A y \in {m, n} : Min({m, n}) <= y
    BY <1>1, Zenon DEF Min
  <1>3. QED
    BY <1>2 DEF Least

-----------------------------------------------------------------------------
(* Configurations                                                          *)

\* What validate() and the format of the file leave of a configuration.
LEMMA ConfigFacts ==
    ASSUME NEW c \in Configs
    PROVE  /\ Valid(c)
           /\ c.max_results \in 1..MaxResults
           /\ c.default_level \in Levels
           /\ \A r \in c.rules : r.level \in Levels
           /\ \A p \in ProfileNames :
                 /\ c.profiles[p].cap \in Levels \cup {Null}
                 /\ c.profiles[p].max \in Int \cup {Null}
  <1>1. PICK raw \in Raws \cup {NoRaw} : c = FromDict(raw)
    BY DEF Configs
  <1>2. Valid(c)
    BY DEF Configs
  <1>3. ASSUME NEW p \in ProfileNames PROVE c.profiles[p].max \in Int \cup {Null}
    <2>1. c.profiles[p] = (IF p \in DOMAIN raw.profiles THEN raw.profiles[p] ELSE Shipped[p])
      BY <1>1 DEF FromDict
    <2>2. CASE p \in DOMAIN raw.profiles
      <3>1. raw \in Raws
        BY <2>2 DEF NoRaw
      <3>2. QED
        BY <2>1, <2>2, <3>1, RawsAssumption
    <2>3. CASE p \notin DOMAIN raw.profiles
      <3>1. Shipped[p].max = Null
        BY DEF Shipped, ProfileNames, Section
      <3>2. QED
        BY <2>1, <2>3, <3>1
    <2>4. QED
      BY <2>2, <2>3
  <1>4. QED
    BY <1>2, <1>3 DEF Valid

\* A configuration gives every file a level of the ladder.
LEMMA LevelFacts ==
    ASSUME NEW c \in Configs, NEW f
    PROVE  LevelBy(c, f) \in Levels
  <1>1. {c.default_level} \cup Matching(c.rules, f) \in SUBSET Levels
    BY ConfigFacts DEF Matching
  <1>2. {c.default_level} \cup Matching(c.rules, f) # {}
    OBVIOUS
  <1>3. QED
    BY <1>1, <1>2, HighestLevel DEF LevelBy

-----------------------------------------------------------------------------
(* Types                                                                   *)

\* A process that runs does so under the configuration it was started with last.
LEMMA CfgFacts ==
    ASSUME SearchTypeOK, NEW s \in Processes
    PROVE  /\ lives[s] \in Seq(Configs \cup {Null}) /\ Len(lives[s]) \in Nat
           /\ DOMAIN lives[s] = 1..Len(lives[s])
           /\ Running(s) => /\ Len(lives[s]) \in DOMAIN lives[s]
                            /\ Cfg(s) = lives[s][Len(lives[s])]
                            /\ Cfg(s) \in Configs
  <1>1. lives[s] \in Seq(Configs \cup {Null})
    BY DEF SearchTypeOK
  <1>2. Len(lives[s]) \in Nat /\ DOMAIN lives[s] = 1..Len(lives[s])
    BY <1>1
  <1>3. ASSUME Running(s)
        PROVE  /\ Len(lives[s]) \in DOMAIN lives[s]
               /\ Cfg(s) = lives[s][Len(lives[s])]
               /\ Cfg(s) \in Configs
    <2>1. lives[s] # <<>> /\ Cfg(s) = lives[s][Len(lives[s])] /\ Cfg(s) # Null
      BY <1>3 DEF Running, Cfg, Last
    <2>2. Len(lives[s]) \in DOMAIN lives[s]
      BY <1>1, <1>2, <2>1
    <2>3. lives[s][Len(lives[s])] \in Configs \cup {Null}
      BY <1>1, <1>2, <2>2
    <2>4. QED
      BY <2>1, <2>2, <2>3
  <1>4. QED
    BY <1>1, <1>2, <1>3

LEMMA AddedFacts ==
    ASSUME SearchTypeOK, NEW s \in Processes, NEW f
    PROVE  Added(s, f) \in SUBSET Levels
  <1>1. rules[s] \in Seq(Rules)
    BY DEF SearchTypeOK
  <1>2. \A r \in Range(rules[s]) : r \in Rules
    BY <1>1 DEF Range
  <1>3. QED
    BY <1>2 DEF Added, Matching, Rules

\* The ratchet of one classification: no rule that was added lowers it.
LEMMA ClassifyFacts ==
    ASSUME SearchTypeOK, NEW s \in Processes, Running(s), NEW f
    PROVE  /\ ClassifyPath(s, f) \in Levels
           /\ ClassifyPath(s, f) \in {LevelBy(Cfg(s), f)} \cup Added(s, f)
           /\ \A l \in {LevelBy(Cfg(s), f)} \cup Added(s, f) : l \in Levels /\ l <= ClassifyPath(s, f)
  <1>1. LevelBy(Cfg(s), f) \in Levels
    BY CfgFacts, LevelFacts
  <1>2. {LevelBy(Cfg(s), f)} \cup Added(s, f) \in SUBSET Levels
    BY <1>1, AddedFacts
  <1>3. {LevelBy(Cfg(s), f)} \cup Added(s, f) # {}
    OBVIOUS
  <1>4. QED
    BY <1>2, <1>3, HighestLevel DEF ClassifyPath

\* A start leaves the lives there were in their places.
LEMMA StartFacts ==
    ASSUME SearchTypeOK, NEW s \in Processes, Start(s)
    PROVE  /\ lives' \in [Processes -> Seq(Configs \cup {Null})]
           /\ Len(lives'[s]) = Len(lives[s]) + 1
           /\ \A t \in Processes : t # s => lives'[t] = lives[t]
           /\ \A t \in Processes : \A n \in DOMAIN lives[t] :
                 n \in DOMAIN lives'[t] /\ lives'[t][n] = lives[t][n]
  <1>1. /\ lives \in [Processes -> Seq(Configs \cup {Null})] /\ lives[s] \in Seq(Configs \cup {Null})
        /\ Len(lives[s]) \in Nat /\ DOMAIN lives[s] = 1..Len(lives[s])
    BY CfgFacts DEF SearchTypeOK
  <1>2. PICK raw \in Raws \cup {NoRaw} : raw = IF s \in NoFile THEN NoRaw ELSE file
    BY DEF SearchTypeOK
  <1>3. PICK c : c = (IF Valid(FromDict(raw)) THEN FromDict(raw) ELSE Null)
    OBVIOUS
  <1>4. c \in Configs \cup {Null}
    BY <1>3 DEF Configs
  <1>5. lives' = [lives EXCEPT ![s] = Append(lives[s], c)]
    BY <1>2, <1>3 DEF Start
  <1>6. /\ Append(lives[s], c) \in Seq(Configs \cup {Null})
        /\ Len(Append(lives[s], c)) = Len(lives[s]) + 1
        /\ DOMAIN Append(lives[s], c) = 1..(Len(lives[s]) + 1)
        /\ \A n \in 1..Len(lives[s]) : Append(lives[s], c)[n] = lives[s][n]
    BY <1>1, <1>4
  <1>7. lives'[s] = Append(lives[s], c) /\ \A t \in Processes : t # s => lives'[t] = lives[t]
    BY <1>1, <1>5
  <1>8. \A n \in DOMAIN lives[s] : n \in DOMAIN lives'[s] /\ lives'[s][n] = lives[s][n]
    BY <1>1, <1>6, <1>7
  <1>9. lives' \in [Processes -> Seq(Configs \cup {Null})]
    BY <1>1, <1>5, <1>6
  <1>10. QED
    BY <1>6, <1>7, <1>8, <1>9

\* A rule that is added leaves the others.
LEMMA AddRuleFacts ==
    ASSUME SearchTypeOK, NEW s \in Processes, NEW files \in Globs, NEW level, AddRule(s, files, level)
    PROVE  /\ rules' \in [Processes -> Seq(Rules)]
           /\ Len(rules'[s]) = Len(rules[s]) + 1 /\ Len(rules[s]) \in Nat
           /\ \A t \in Processes : t # s => rules'[t] = rules[t]
           /\ \A t \in Processes : Range(rules[t]) \subseteq Range(rules'[t])
  <1>1. /\ rules \in [Processes -> Seq(Rules)] /\ rules[s] \in Seq(Rules)
        /\ Len(rules[s]) \in Nat /\ DOMAIN rules[s] = 1..Len(rules[s])
    BY DEF SearchTypeOK
  <1>2. PICK r : r = [files |-> files, level |-> level]
    OBVIOUS
  <1>3. r \in Rules
    BY <1>2 DEF AddRule, Rules
  <1>4. rules' = [rules EXCEPT ![s] = Append(rules[s], r)]
    BY <1>2 DEF AddRule
  <1>5. /\ Append(rules[s], r) \in Seq(Rules)
        /\ Len(Append(rules[s], r)) = Len(rules[s]) + 1
        /\ DOMAIN Append(rules[s], r) = 1..(Len(rules[s]) + 1)
        /\ \A n \in 1..Len(rules[s]) : Append(rules[s], r)[n] = rules[s][n]
    BY <1>1, <1>3
  <1>6. rules'[s] = Append(rules[s], r) /\ \A t \in Processes : t # s => rules'[t] = rules[t]
    BY <1>1, <1>4
  <1>7. Range(rules[s]) \subseteq Range(rules'[s])
    <2>1. \A n \in DOMAIN rules[s] : n \in DOMAIN rules'[s] /\ rules'[s][n] = rules[s][n]
      BY <1>1, <1>5, <1>6
    <2>2. QED
      BY <2>1 DEF Range
  <1>8. rules' \in [Processes -> Seq(Rules)]
    BY <1>1, <1>4, <1>5
  <1>9. QED
    BY <1>1, <1>5, <1>6, <1>7, <1>8

LEMMA NextTyped ==
    ASSUME SearchTypeOK, [SearchNext]_searchVars
    PROVE  SearchTypeOK'
  <1> USE DEF SearchTypeOK
  <1>1. ASSUME NEW raw \in Raws, EditConfig(raw) PROVE SearchTypeOK'
    BY <1>1, BoundsAssumption DEF EditConfig, Indexed
  <1>2. ASSUME NEW s \in Processes, Start(s) PROVE SearchTypeOK'
    <2>1. UNCHANGED <<file, edits, index, order>> /\ rules' = [rules EXCEPT ![s] = <<>>]
      BY <1>2 DEF Start
    <2>2. Len(lives'[s]) <= MaxLives[s]
      <3>1. Len(lives[s]) < MaxLives[s] /\ MaxLives[s] \in Nat /\ Len(lives[s]) \in Nat
        BY <1>2, CfgFacts, BoundsAssumption DEF Start
      <3>2. QED
        BY <1>2, <3>1, StartFacts
    <2>3. \A t \in Processes : Len(lives'[t]) <= MaxLives[t] /\ Len(rules'[t]) <= MaxRules
      <3>1. ASSUME NEW t \in Processes, t # s
            PROVE  Len(lives'[t]) <= MaxLives[t] /\ Len(rules'[t]) <= MaxRules
        BY <1>2, <2>1, <3>1, StartFacts
      <3>2. Len(rules'[s]) <= MaxRules
        BY <2>1, BoundsAssumption
      <3>3. QED
        BY <2>2, <3>1, <3>2
    <2>4. rules' \in [Processes -> Seq(Rules)]
      <3>1. <<>> \in Seq(Rules)
        OBVIOUS
      <3>2. QED
        BY <2>1, <3>1
    <2>5. \A f \in Indexed : index[f].by[2] \in DOMAIN lives'[index[f].by[1]]
      <3>1. ASSUME NEW f \in Indexed PROVE index[f].by[2] \in DOMAIN lives'[index[f].by[1]]
        <4>1. index[f] \in FileRows
          BY DEF Indexed
        <4>2. index[f].by[1] \in Processes
          BY <4>1 DEF FileRows
        <4>3. QED
          BY <1>2, <4>2, StartFacts
      <3>2. QED
        BY <3>1
    <2>6. Indexed' = Indexed
      BY <2>1 DEF Indexed
    <2>7. lives' \in [Processes -> Seq(Configs \cup {Null})]
      BY <1>2, StartFacts
    <2>8. QED
      BY <2>1, <2>3, <2>4, <2>5, <2>6, <2>7
  <1>3. ASSUME NEW s \in Processes, NEW f \in Files, IndexFile(s, f) PROVE SearchTypeOK'
    <2>1. UNCHANGED <<file, edits, lives, rules, order>> /\ Running(s)
      BY <1>3 DEF IndexFile
    <2>2. PICK row : row = [level |-> ClassifyPath(s, f), by |-> Life(s)]
      OBVIOUS
    <2>3. row \in FileRows /\ row.by[1] = s /\ row.by[2] = Len(lives[s])
      <3>1. ClassifyPath(s, f) \in Levels
        BY <2>1, ClassifyFacts
      <3>2. Life(s) \in Processes \X Nat
        BY CfgFacts DEF Life
      <3>3. QED
        BY <2>2, <3>1, <3>2 DEF FileRows, Life
    <2>4. index' = [index EXCEPT ![f] = row]
      BY <1>3, <2>2 DEF IndexFile
    <2>5. index' \in [Files -> FileRows \cup {Null}]
      BY <2>3, <2>4
    <2>6. ASSUME NEW g \in Indexed' PROVE index'[g].by[2] \in DOMAIN lives[index'[g].by[1]]
      <3>1. CASE g = f
        <4>1. index'[g] = row
          BY <2>4, <3>1
        <4>2. Len(lives[s]) \in DOMAIN lives[s]
          BY <2>1, CfgFacts
        <4>3. QED
          BY <2>3, <4>1, <4>2
      <3>2. CASE g # f
        <4>1. index'[g] = index[g] /\ g \in Indexed
          BY <2>4, <2>6, <3>2 DEF Indexed
        <4>2. QED
          BY <4>1
      <3>3. QED
        BY <3>1, <3>2
    <2>7. QED
      BY <2>1, <2>5, <2>6
  <1>4. ASSUME NEW s \in Processes, NEW files \in Globs, NEW level \in Requested, AddRule(s, files, level)
        PROVE  SearchTypeOK'
    <2>1. UNCHANGED <<file, edits, lives, index, order>> /\ Len(rules[s]) < MaxRules
      BY <1>4 DEF AddRule
    <2>2. \A t \in Processes : Len(rules'[t]) <= MaxRules
      <3>1. Len(rules'[s]) <= MaxRules
        BY <1>4, <2>1, AddRuleFacts, BoundsAssumption
      <3>2. QED
        BY <1>4, <3>1, AddRuleFacts
    <2>3. rules' \in [Processes -> Seq(Rules)]
      BY <1>4, AddRuleFacts
    <2>4. Indexed' = Indexed
      BY <2>1 DEF Indexed
    <2>5. QED
      BY <2>1, <2>2, <2>3, <2>4
  <1>5. CASE UNCHANGED searchVars
    BY <1>5 DEF searchVars, Indexed
  <1>6. QED
    BY <1>1, <1>2, <1>3, <1>4, <1>5 DEF SearchNext

-----------------------------------------------------------------------------
(* Rows and the rules they were written by                                 *)

\* Who wrote a row, and under what.
LEMMA WriterFacts ==
    ASSUME SearchTypeOK, NEW f \in Indexed
    PROVE  /\ index[f] \in FileRows /\ index[f].level \in Levels
           /\ index[f].by[1] \in Processes
           /\ index[f].by[2] \in DOMAIN lives[index[f].by[1]]
           /\ index[f].by = <<index[f].by[1], index[f].by[2]>>
           /\ IndexedUnder(f) \in Configs \cup {Null}
           /\ IndexedUnder(f) # Null => LevelBy(IndexedUnder(f), f) \in Levels
  <1>1. index[f] \in FileRows
    BY DEF SearchTypeOK, Indexed
  <1>2. index[f].level \in Levels /\ index[f].by \in Processes \X Nat
    BY <1>1 DEF FileRows
  <1>3. index[f].by[1] \in Processes /\ index[f].by = <<index[f].by[1], index[f].by[2]>>
    BY <1>2
  <1>4. index[f].by[2] \in DOMAIN lives[index[f].by[1]]
    BY DEF SearchTypeOK
  <1>5. IndexedUnder(f) \in Configs \cup {Null}
    BY <1>3, <1>4, CfgFacts DEF IndexedUnder
  <1>6. IndexedUnder(f) # Null => LevelBy(IndexedUnder(f), f) \in Levels
    BY <1>5, LevelFacts
  <1>7. QED
    BY <1>1, <1>2, <1>3, <1>4, <1>5, <1>6

LEMMA NextRows ==
    ASSUME SearchTypeOK, RowsKept, [SearchNext]_searchVars
    PROVE  RowsKept'
  <1>1. \A f \in Indexed : RowKept(f)
    BY DEF RowsKept
  <1>2. (\A f \in Indexed' : RowKept(f)') => RowsKept'
    BY DEF RowsKept
  <1>3. CASE UNCHANGED <<lives, rules, index>>
    BY <1>1, <1>2, <1>3 DEF Indexed, RowKept, IndexedUnder, Life, Cfg, Added
  <1>4. ASSUME NEW s \in Processes, Start(s), NEW f \in Indexed' PROVE RowKept(f)'
    <2>1. index' = index /\ rules' = [rules EXCEPT ![s] = <<>>]
      BY <1>4 DEF Start
    <2>2. f \in Indexed /\ RowKept(f)
      BY <1>1, <1>4, <2>1 DEF Indexed
    <2>3. PICK t \in Processes, n \in Nat : index[f].by = <<t, n>> /\ n \in DOMAIN lives[t]
      <3>1. index[f].by \in Processes \X Nat
        BY <2>2, WriterFacts DEF FileRows
      <3>2. QED
        BY <2>2, <3>1, WriterFacts
    <2>4. lives'[t][n] = lives[t][n]
      BY <1>4, <2>3, StartFacts
    <2>5. IndexedUnder(f)' = IndexedUnder(f)
      BY <2>1, <2>3, <2>4 DEF IndexedUnder
    <2>6. ASSUME NEW u \in Processes, index[f].by = Life(u)'
          PROVE  index[f].level \in {LevelBy(Cfg(u)', f)} \cup Added(u, f)'
      <3>1. u = t /\ n = Len(lives'[u])
        BY <2>3, <2>6 DEF Life
      <3>2. u # s
        <4>1. Len(lives'[s]) = Len(lives[s]) + 1 /\ Len(lives[s]) \in Nat /\ DOMAIN lives[s] = 1..Len(lives[s])
          BY <1>4, StartFacts, CfgFacts
        <4>2. QED
          BY <2>3, <3>1, <4>1
      <3>3. lives'[u] = lives[u] /\ rules'[u] = rules[u]
        BY <1>4, <2>1, <3>2, StartFacts DEF SearchTypeOK
      <3>4. Life(u)' = Life(u) /\ Cfg(u)' = Cfg(u) /\ Added(u, f)' = Added(u, f)
        BY <3>3 DEF Life, Cfg, Added
      <3>5. QED
        BY <2>2, <2>6, <3>4 DEF RowKept
    <2>7. QED
      BY <2>1, <2>2, <2>5, <2>6 DEF RowKept
  <1>5. ASSUME NEW s \in Processes, NEW files \in Globs, NEW level, AddRule(s, files, level),
               NEW f \in Indexed'
        PROVE  RowKept(f)'
    <2>1. UNCHANGED <<lives, index>>
      BY <1>5 DEF AddRule
    <2>2. f \in Indexed /\ RowKept(f)
      BY <1>1, <1>5, <2>1 DEF Indexed
    <2>3. \A u \in Processes : Life(u)' = Life(u) /\ Cfg(u)' = Cfg(u)
      BY <2>1 DEF Life, Cfg
    <2>4. \A u \in Processes : Added(u, f) \subseteq Added(u, f)'
      <3>1. \A u \in Processes : Range(rules[u]) \subseteq Range(rules'[u])
        BY <1>5, AddRuleFacts
      <3>2. QED
        BY <3>1 DEF Added, Matching
    <2>5. IndexedUnder(f)' = IndexedUnder(f)
      BY <2>1 DEF IndexedUnder
    <2>6. QED
      BY <2>1, <2>2, <2>3, <2>4, <2>5 DEF RowKept
  <1>6. ASSUME NEW s \in Processes, NEW g \in Files, IndexFile(s, g), NEW f \in Indexed'
        PROVE  RowKept(f)'
    <2>1. UNCHANGED <<lives, rules>> /\ Running(s)
      BY <1>6 DEF IndexFile
    <2>2. PICK row : row = [level |-> ClassifyPath(s, g), by |-> Life(s)]
      OBVIOUS
    <2>3. row.level = ClassifyPath(s, g) /\ row.by = Life(s)
      BY <2>2
    <2>4. index' = [index EXCEPT ![g] = row] /\ index \in [Files -> FileRows \cup {Null}]
      BY <1>6, <2>2 DEF IndexFile, SearchTypeOK
    <2>5. \A u \in Processes : Life(u)' = Life(u) /\ Cfg(u)' = Cfg(u) /\ Added(u, f)' = Added(u, f)
      BY <2>1 DEF Life, Cfg, Added
    <2>6. CASE f = g
      <3>1. index'[f] = row
        BY <2>4, <2>6
      <3>2. IndexedUnder(f)' = lives[s][Len(lives[s])]
        BY <2>1, <2>3, <3>1 DEF IndexedUnder, Life
      <3>3. IndexedUnder(f)' = Cfg(s) /\ Cfg(s) # Null
        BY <2>1, <3>2, CfgFacts DEF Running
      <3>4. row.level >= LevelBy(Cfg(s), f)
        <4>1. row.level \in Levels /\ LevelBy(Cfg(s), f) \in Levels /\ LevelBy(Cfg(s), f) <= row.level
          BY <2>1, <2>3, <2>6, ClassifyFacts
        <4>2. QED
          BY <4>1 DEF Levels
      <3>5. row.level \in {LevelBy(Cfg(s), f)} \cup Added(s, f)
        BY <2>1, <2>3, <2>6, ClassifyFacts
      <3>6. \A u \in Processes : row.by = Life(u) => u = s
        BY <2>3 DEF Life
      <3>7. QED
        BY <2>5, <3>1, <3>3, <3>4, <3>5, <3>6 DEF RowKept
    <2>7. CASE f # g
      <3>1. index'[f] = index[f] /\ f \in Indexed
        BY <1>6, <2>4, <2>7 DEF Indexed
      <3>2. RowKept(f)
        BY <1>1, <3>1
      <3>3. IndexedUnder(f)' = IndexedUnder(f)
        BY <2>1, <3>1 DEF IndexedUnder
      <3>4. QED
        BY <2>5, <3>1, <3>2, <3>3 DEF RowKept
    <2>8. QED
      BY <2>6, <2>7
  <1>7. ASSUME NEW raw \in Raws, EditConfig(raw) PROVE RowsKept'
    BY <1>3, <1>7 DEF EditConfig
  <1>8. CASE UNCHANGED searchVars
    BY <1>3, <1>8 DEF searchVars
  <1>9. QED
    BY <1>2, <1>4, <1>5, <1>6, <1>7, <1>8 DEF SearchNext

-----------------------------------------------------------------------------
(* The invariant                                                           *)

LEMMA InitSearchInv == SearchInit => SearchInv
  <1> SUFFICES ASSUME SearchInit PROVE SearchInv
    OBVIOUS
  <1> USE DEF SearchInit
  <1>1. SearchTypeOK
    <2>1. \A s \in Processes : lives[s] = <<>> /\ rules[s] = <<>>
      OBVIOUS
    <2>2. \A s \in Processes : Len(lives[s]) <= MaxLives[s] /\ Len(rules[s]) <= MaxRules
      BY <2>1, BoundsAssumption
    <2>3. lives \in [Processes -> Seq(Configs \cup {Null})] /\ rules \in [Processes -> Seq(Rules)]
      <3>1. <<>> \in Seq(Configs \cup {Null}) /\ <<>> \in Seq(Rules)
        OBVIOUS
      <3>2. QED
        BY <3>1
    <2>4. QED
      BY <2>2, <2>3, BoundsAssumption DEF SearchTypeOK, Indexed
  <1>2. RowsKept
    BY DEF RowsKept, Indexed
  <1>3. QED
    BY <1>1, <1>2 DEF SearchInv

LEMMA NextSearchInv == SearchInv /\ [SearchNext]_searchVars => SearchInv'
  BY NextTyped, NextRows DEF SearchInv

\* SearchInv holds in every reachable state: a row has at least the level of the
\* configuration it was written under, and what its writer still knows explains it.
THEOREM SearchInductiveInvariant == SearchSpec => []SearchInv
  BY InitSearchInv, NextSearchInv, PTL DEF SearchSpec

\* Every reachable state is well typed: no process runs with a configuration
\* validate() refuses, and no level is off the ladder (config.py:201-250,
\* classifier.py:63-80).
THEOREM SearchTypeCorrect == SearchSpec => []SearchTypeOK
  <1>1. SearchInv => SearchTypeOK
    BY DEF SearchInv
  <1>2. QED
    BY <1>1, SearchInductiveInvariant, PTL

-----------------------------------------------------------------------------
(* The ratchet and the cap                                                 *)

\* A level in the index is only lowered by another process, or by one that was
\* restarted since (classifier.py:44-57).
THEOREM RatchetHolds == SearchSpec => LoweredByAnotherOnly
  <1>1. ASSUME SearchInv, [SearchNext]_searchVars, NEW f \in Indexed, index'[f].level < index[f].level
        PROVE  index'[f].by # index[f].by
    <2> SUFFICES ASSUME index'[f].by = index[f].by PROVE FALSE
      OBVIOUS
    <2>1. SearchTypeOK /\ RowsKept /\ index[f].level \in Levels
      BY <1>1, WriterFacts DEF SearchInv
    <2>2. CASE index' = index
      <3>1. index[f].level < index[f].level
        BY <1>1, <2>2
      <3>2. QED
        BY <2>1, <3>1 DEF Levels
    <2>3. ASSUME NEW s \in Processes, NEW g \in Files, IndexFile(s, g) PROVE FALSE
      <3>1. Running(s) /\ index \in [Files -> FileRows \cup {Null}]
        BY <2>1, <2>3 DEF IndexFile, SearchTypeOK
      <3>2. PICK row : row = [level |-> ClassifyPath(s, g), by |-> Life(s)]
        OBVIOUS
      <3>3. row.level = ClassifyPath(s, g) /\ row.by = Life(s) /\ index' = [index EXCEPT ![g] = row]
        BY <2>3, <3>2 DEF IndexFile
      <3>4. CASE f = g
        <4>1. index'[f] = row
          BY <3>1, <3>3, <3>4
        <4>2. index[f].level \in {LevelBy(Cfg(s), f)} \cup Added(s, f)
          BY <1>1, <2>1, <3>3, <4>1 DEF RowsKept, RowKept
        <4>3. index[f].level <= ClassifyPath(s, f) /\ ClassifyPath(s, f) \in Levels
          BY <2>1, <3>1, <4>2, ClassifyFacts
        <4>4. ClassifyPath(s, f) < index[f].level
          BY <1>1, <3>3, <3>4, <4>1
        <4>5. QED
          BY <2>1, <4>3, <4>4 DEF Levels
      <3>5. CASE f # g
        <4>1. index'[f] = index[f]
          BY <3>1, <3>3, <3>5 DEF Indexed
        <4>2. index[f].level < index[f].level
          BY <1>1, <4>1
        <4>3. QED
          BY <2>1, <4>2 DEF Levels
      <3>6. QED
        BY <3>4, <3>5
    <2>4. QED
      BY <1>1, <2>2, <2>3 DEF SearchNext, EditConfig, Start, AddRule, searchVars
  <1>2. SearchInv /\ [SearchNext]_searchVars =>
            [\A f \in Indexed : index'[f].level < index[f].level
                                    => index'[f].by # index[f].by]_searchVars
    BY <1>1
  <1>3. QED
    BY <1>2, SearchInductiveInvariant, PTL DEF SearchSpec, LoweredByAnotherOnly

\* What a search lists is indexed, in scope, wanted and under the cap.
LEMMA ResultFacts ==
    ASSUME NEW s, NEW scope, NEW requested, NEW filter,
           NEW i \in Results(s, scope, requested, filter)
    PROVE  i \in DOMAIN order /\ Where(order[i], scope, filter) /\ UnderCap(s, order[i])
  BY DEF Results, Rows, Top, Matches

\* The cap holds against the configuration that classified the file, whatever
\* rules were added where and whatever was restarted (classifier.py:44-57,
\* search.py:113-116, config.py:159-164).
THEOREM CapHoldsWhereClassified == SearchSpec => []ConfigCapHolds
  <1>1. SearchInv => ConfigCapHolds
    <2> SUFFICES ASSUME SearchInv, NEW s \in Servers, NEW scope, NEW requested, NEW filter,
                        NEW i \in Results(s, scope, requested, filter), CapOf(s) # Null
                 PROVE  LevelBy(IndexedUnder(order[i]), order[i]) <= CapOf(s)
      BY DEF ConfigCapHolds
    <2>1. PICK f : f = order[i]
      OBVIOUS
    <2>2. f \in Indexed /\ UnderCap(s, f)
      BY <2>1, ResultFacts DEF Where
    <2>3. index[f].level <= CapOf(s)
      BY <2>2 DEF UnderCap
    <2>4. SearchTypeOK /\ RowsKept
      BY DEF SearchInv
    <2>5. IndexedUnder(f) # Null /\ LevelBy(IndexedUnder(f), f) <= index[f].level
      <3>1. IndexedUnder(f) # Null /\ index[f].level >= LevelBy(IndexedUnder(f), f)
        BY <2>2, <2>4 DEF RowsKept, RowKept
      <3>2. index[f].level \in Levels /\ LevelBy(IndexedUnder(f), f) \in Levels
        BY <2>2, <2>4, <3>1, WriterFacts
      <3>3. QED
        BY <3>1, <3>2 DEF Levels
    <2>6. CapOf(s) \in Levels
      <3>1. Cfg(s) \in Configs
        BY <2>4, CfgFacts DEF Servers
      <3>2. CapOf(s) \in Levels \cup {Null}
        BY <3>1, ConfigFacts DEF CapOf, Profile, ProfileNames
      <3>3. QED
        BY <3>2
    <2>7. index[f].level \in Levels /\ LevelBy(IndexedUnder(f), f) \in Levels
      BY <2>2, <2>4, <2>5, WriterFacts
    <2>8. QED
      BY <2>1, <2>3, <2>5, <2>6, <2>7 DEF Levels
  <1>2. QED
    BY <1>1, SearchInductiveInvariant, PTL

-----------------------------------------------------------------------------
(* Limits                                                                  *)

\* Some place is the last one.
LEMMA Greatest ==
    ASSUME NEW n \in Nat, NEW S \in SUBSET (1..n), S # {}
    PROVE  \E m \in S : \A i \in S : i <= m
  <1> DEFINE T == {n - i : i \in S}
             R == {ss \in Nat \X Nat : ss[1] < ss[2]}
  <1>1. T \subseteq Nat /\ T # {}
    <2>1. \A i \in S : n - i \in Nat
      OBVIOUS
    <2>2. QED
      BY <2>1
  <1>2. IsWellFoundedOn(R, Nat)
    BY NatLessThanWellFounded, Zenon DEF OpToRel
  <1>3. \A x, y \in Nat : y < x => <<y, x>> \in R
    OBVIOUS
  <1>4. \A x \in T : \E i \in S : x = n - i
    OBVIOUS
  <1>5. \A i \in S : n - i \in T
    OBVIOUS
  <1> HIDE DEF R, T
  <1>6. PICK x \in T : \A y \in T : ~(<<y, x>> \in R)
    BY <1>1, <1>2, WFMin, Zenon
  <1>7. PICK m \in S : x = n - m
    BY <1>4
  <1>8. ASSUME NEW i \in S PROVE i <= m
    <2>1. n - i \in Nat /\ x \in Nat /\ ~(n - i < x)
      BY <1>1, <1>3, <1>5, <1>6
    <2>2. QED
      BY <1>7, <2>1
  <1>9. QED
    BY <1>8

\* The first n of some places are at most n.
LEMMA TopBounded ==
    ASSUME NEW len \in Nat, NEW places \in SUBSET (1..len), NEW n \in Nat
    PROVE  IsFiniteSet(Top(places, n)) /\ Cardinality(Top(places, n)) <= n
  <1>1. IsFiniteSet(places)
    <2>1. IsFiniteSet(1..len)
      BY FS_Interval
    <2>2. QED
      BY <2>1, FS_Subset
  <1>2. Top(places, n) = {i \in places : Cardinality({k \in places : k <= i}) <= n}
    BY DEF Top
  <1>3. IsFiniteSet(Top(places, n))
    BY <1>1, <1>2, FS_Subset
  <1>4. CASE Top(places, n) = {}
    BY <1>3, <1>4, FS_EmptySet
  <1>5. CASE Top(places, n) # {}
    <2>1. Top(places, n) \in SUBSET (1..len)
      BY <1>2
    <2>2. PICK m \in Top(places, n) : \A i \in Top(places, n) : i <= m
      BY <1>5, <2>1, Greatest
    <2>3. Cardinality({k \in places : k <= m}) <= n
      BY <1>2, <2>2
    <2>4. Top(places, n) \subseteq {k \in places : k <= m}
      BY <1>2, <2>2
    <2>5. IsFiniteSet({k \in places : k <= m})
      BY <1>1, FS_Subset
    <2>6. Cardinality(Top(places, n)) <= Cardinality({k \in places : k <= m})
      BY <2>4, <2>5, FS_Subset
    <2>7. Cardinality(Top(places, n)) \in Nat /\ Cardinality({k \in places : k <= m}) \in Nat
      BY <1>3, <2>5, FS_CardinalityType
    <2>8. QED
      BY <1>3, <2>3, <2>6, <2>7
  <1>6. QED
    BY <1>4, <1>5

\* The numbers a server goes by.
LEMMA MaximaFacts ==
    ASSUME SearchTypeOK, NEW s \in Servers
    PROVE  /\ AgentMax(s) \in 1..MaxResults /\ AgentMax(s) \in Nat \ {0} /\ MaxResults \in Nat
           /\ ProfileMax(s) \in Int \cup {Null}
  <1>1. Cfg(s) \in Configs
    BY CfgFacts DEF Servers
  <1>2. AgentMax(s) \in 1..MaxResults /\ MaxResults \in Nat
    BY <1>1, ConfigFacts, ResultsAssumption DEF AgentMax
  <1>3. ProfileMax(s) \in Int \cup {Null}
    BY <1>1, ConfigFacts DEF ProfileMax, Profile, ProfileNames
  <1>4. QED
    BY <1>2, <1>3

\* What the two limits amount to, of search() and of its handler.
LEMMA LimitFacts ==
    ASSUME NEW a \in Nat \ {0}, NEW p \in Int \cup {Null}, NEW r \in Int \cup {Null},
           NEW s, AgentMax(s) = a, ProfileMax(s) = p
    PROVE  /\ Limit(s, r) \in Int
           /\ Limit(s, r) <= a
           /\ p # Null /\ p < 0 => Limit(s, r) < 0
           /\ (p = Null \/ p >= 0) /\ (r = Null \/ r >= 0) => Limit(s, r) > 0
           /\ r # Null /\ r < 0 => Limit(s, r) < 0
           /\ (p = Null \/ p >= 0) /\ r \in {Null, 0} => Limit(s, r) = Ceiling(s)
           /\ (p = Null \/ p >= 0) /\ r # Null /\ r > 0 => Limit(s, r) = Least(r, Ceiling(s))
           /\ Ceiling(s) \in Int /\ (p = Null \/ p >= 0 <=> Ceiling(s) > 0)
           /\ p # Null /\ p < 0 => Ceiling(s) < 0
  <1> DEFINE upper == IF p = Null \/ p = 0 THEN a ELSE p
             wish == IF r = Null \/ r = 0 THEN upper ELSE r
             asked == IF wish <= upper THEN wish ELSE upper
             again == IF asked = 0 THEN a ELSE asked
             limit == IF again <= a THEN again ELSE a
  <1>1. upper \in Int /\ wish \in Int /\ asked \in Int /\ again \in Int /\ limit \in Int
    OBVIOUS
  <1>2. Or(p, a) = upper /\ Or(r, upper) = wish
    BY DEF Or
  <1>3. Least(wish, upper) = asked
    BY <1>1, SmallerOfTwo
  <1>4. asked # Null
    BY <1>1, NullAssumption
  <1>5. Or(asked, a) = again
    BY <1>4 DEF Or
  <1>6. Least(again, a) = limit
    BY <1>1, SmallerOfTwo
  <1>7. Limit(s, r) = limit
    <2>1. Limit(s, r) = Least(Or(Least(Or(r, Or(p, a)), Or(p, a)), a), a)
      BY DEF Limit
    <2>2. QED
      BY <1>2, <1>3, <1>5, <1>6, <2>1
  <1>8. Ceiling(s) = IF p = Null \/ p = 0 \/ a <= p THEN a ELSE p
    <2>1. p # Null => Least(p, a) = IF p <= a THEN p ELSE a
      BY SmallerOfTwo
    <2>2. QED
      BY <2>1 DEF Ceiling
  <1>9. r # Null => Least(r, Ceiling(s)) = IF r <= Ceiling(s) THEN r ELSE Ceiling(s)
    <2>1. Ceiling(s) \in Int
      BY <1>8
    <2>2. QED
      BY <2>1, SmallerOfTwo
  <1>10. QED
    BY <1>7, <1>8, <1>9, NullAssumption

\* What matches are places of the order.
LEMMA MatchesFacts ==
    ASSUME SearchTypeOK, NEW scope, NEW filter
    PROVE  /\ Len(order) \in Nat /\ DOMAIN order = 1..Len(order)
           /\ Matches(scope, filter) \in SUBSET (1..Len(order))
           /\ IsFiniteSet(Matches(scope, filter))
  <1>1. order \in Seq(Files)
    BY ArgumentsAssumption DEF SearchTypeOK
  <1>2. Len(order) \in Nat /\ DOMAIN order = 1..Len(order)
    BY <1>1
  <1>3. Matches(scope, filter) \in SUBSET (1..Len(order))
    BY <1>2 DEF Matches
  <1>4. IsFiniteSet(1..Len(order))
    BY <1>2, FS_Interval
  <1>5. QED
    BY <1>2, <1>3, <1>4, FS_Subset

\* No request that is not negative gets more results than validate() allows a
\* configuration, unless the maximum of the profile is negative (config.py:219-223,
\* agent.py:119-121, search.py:57).
THEOREM ResultsAreBounded == SearchSpec => []ResultsBounded
  <1>1. SearchInv => ResultsBounded
    <2> SUFFICES ASSUME SearchInv, NEW s \in Servers, NEW r \in Requests,
                        r = Null \/ r >= 0, ProfileMax(s) = Null \/ ProfileMax(s) >= 0
                 PROVE  Cardinality(Results(s, Null, r, {})) <= MaxResults
      BY DEF ResultsBounded
    <2>1. SearchTypeOK
      BY DEF SearchInv
    <2>2. PICK a \in Nat \ {0}, p \in Int \cup {Null} :
              AgentMax(s) = a /\ ProfileMax(s) = p /\ a <= MaxResults /\ MaxResults \in Nat
      <3>1. /\ AgentMax(s) \in Nat \ {0} /\ AgentMax(s) <= MaxResults /\ MaxResults \in Nat
            /\ ProfileMax(s) \in Int \cup {Null}
        BY <2>1, MaximaFacts
      <3>2. QED
        BY <3>1
    <2>3. PICK n : n = Limit(s, r)
      OBVIOUS
    <2>4. n \in Nat /\ n <= MaxResults
      <3>1. r \in Int \cup {Null}
        BY ArgumentsAssumption
      <3>2. n \in Int /\ n <= a /\ n > 0
        BY <2>2, <2>3, <3>1, LimitFacts
      <3>3. QED
        BY <2>2, <3>2
    <2>5. Rows(s, Null, r, {}) = Top(Matches(Null, {}), n)
      BY <2>3 DEF Rows
    <2>6. IsFiniteSet(Rows(s, Null, r, {})) /\ Cardinality(Rows(s, Null, r, {})) <= n
      BY <2>1, <2>4, <2>5, MatchesFacts, TopBounded
    <2>7. Results(s, Null, r, {}) \subseteq Rows(s, Null, r, {})
      BY DEF Results
    <2>8. /\ Cardinality(Results(s, Null, r, {})) <= Cardinality(Rows(s, Null, r, {}))
          /\ Cardinality(Results(s, Null, r, {})) \in Nat
          /\ Cardinality(Rows(s, Null, r, {})) \in Nat
      BY <2>6, <2>7, FS_Subset, FS_CardinalityType
    <2>9. QED
      BY <2>2, <2>4, <2>6, <2>8
  <1>2. QED
    BY <1>1, SearchInductiveInvariant, PTL

\* The two limits, each with its own idea of none, amount to the window.
LEMMA LimitIsWindow ==
    ASSUME SearchTypeOK, NEW s \in Servers, NEW r \in Requests, NEW c \in Nat \ {0}
    PROVE  (Limit(s, r) < 0 \/ c <= Limit(s, r)) <=> c \in Window(s, r)
  <1>1. PICK a \in Nat \ {0}, p \in Int \cup {Null} : AgentMax(s) = a /\ ProfileMax(s) = p
    BY MaximaFacts
  <1>2. r \in Int \cup {Null}
    BY ArgumentsAssumption
  <1>3. /\ Limit(s, r) \in Int /\ Ceiling(s) \in Int
        /\ p # Null /\ p < 0 => Limit(s, r) < 0 /\ Ceiling(s) < 0
        /\ (p = Null \/ p >= 0) /\ (r = Null \/ r >= 0) => Limit(s, r) > 0
        /\ r # Null /\ r < 0 => Limit(s, r) < 0
        /\ (p = Null \/ p >= 0) /\ r \in {Null, 0} => Limit(s, r) = Ceiling(s)
        /\ (p = Null \/ p >= 0) /\ r # Null /\ r > 0 => Limit(s, r) = Least(r, Ceiling(s))
        /\ (p = Null \/ p >= 0) => Ceiling(s) > 0
    BY <1>1, <1>2, LimitFacts
  <1>4. p = Null \/ (p \in Int /\ p >= 0) \/ (p \in Int /\ p # Null /\ p < 0)
    BY NullAssumption
  <1>5. r \in {Null, 0} \/ (r \in Int /\ r # Null /\ r > 0) \/ (r \in Int /\ r # Null /\ r # 0 /\ r < 0)
    BY <1>2, NullAssumption
  <1>6. CASE p \in Int /\ p # Null /\ p < 0
    <2>1. Limit(s, r) < 0 /\ Ceiling(s) < 0
      BY <1>3, <1>6
    <2>2. Window(s, r) = Nat
      BY <1>3, <2>1 DEF Window
    <2>3. QED
      BY <2>1, <2>2
  <1>7. CASE (p = Null \/ p >= 0) /\ r \in {Null, 0}
    <2>1. Limit(s, r) = Ceiling(s) /\ Ceiling(s) > 0
      BY <1>3, <1>7
    <2>2. Window(s, r) = 1..Ceiling(s)
      BY <1>3, <1>7, <2>1 DEF Window
    <2>3. QED
      BY <1>3, <2>1, <2>2
  <1>8. CASE (p = Null \/ p >= 0) /\ r \in Int /\ r # Null /\ r > 0
    <2>1. Limit(s, r) = Least(r, Ceiling(s)) /\ Ceiling(s) > 0 /\ Limit(s, r) > 0 /\ r \notin {Null, 0}
      BY <1>3, <1>8
    <2>2. Window(s, r) = 1..Least(r, Ceiling(s))
      BY <1>3, <1>8, <2>1 DEF Window
    <2>3. QED
      BY <1>3, <2>1, <2>2
  <1>9. CASE (p = Null \/ p >= 0) /\ r \in Int /\ r # Null /\ r # 0 /\ r < 0
    <2>1. Limit(s, r) < 0 /\ Ceiling(s) > 0
      BY <1>3, <1>9
    <2>2. Window(s, r) = Nat
      BY <1>3, <1>9, <2>1 DEF Window
    <2>3. QED
      BY <2>1, <2>2
  <1>10. QED
    BY <1>4, <1>5, <1>6, <1>7, <1>8, <1>9

\* A search meets its definition (search.py:57, :99-116, agent.py:119-121).
THEOREM SearchIsDefined == SearchSpec => []SearchMeetsDefinition
  <1>1. SearchInv => SearchMeetsDefinition
    <2> SUFFICES ASSUME SearchInv, NEW s \in Servers, NEW scope, NEW r \in Requests, NEW filter
                 PROVE  Results(s, scope, r, filter) =
                            {i \in DOMAIN order :
                                /\ Where(order[i], scope, filter)
                                /\ UnderCap(s, order[i])
                                /\ Cardinality({k \in 1..i : Where(order[k], scope, filter)})
                                       \in Window(s, r)}
      BY DEF SearchMeetsDefinition
    <2> DEFINE M == Matches(scope, filter)
    <2>1. /\ SearchTypeOK
          /\ Len(order) \in Nat /\ DOMAIN order = 1..Len(order)
          /\ M \in SUBSET (1..Len(order)) /\ IsFiniteSet(M)
      BY MatchesFacts DEF SearchInv
    <2>2. \A i \in DOMAIN order : i \in M <=> Where(order[i], scope, filter)
      BY DEF Matches
    <2> HIDE DEF M
    <2>3. ASSUME NEW i \in M
          PROVE  i \in Rows(s, scope, r, filter) <=>
                     Cardinality({k \in 1..i : Where(order[k], scope, filter)}) \in Window(s, r)
      <3>1. i \in 1..Len(order) /\ i \in Nat
        BY <2>1
      <3>2. {k \in 1..i : Where(order[k], scope, filter)} = {k \in M : k <= i}
        <4>1. ASSUME NEW k \in 1..i, Where(order[k], scope, filter) PROVE k \in M /\ k <= i
          <5>1. k \in 1..Len(order) /\ k <= i
            BY <2>1, <3>1
          <5>2. QED
            BY <2>1, <2>2, <4>1, <5>1
        <4>2. ASSUME NEW k \in M, k <= i PROVE k \in 1..i /\ Where(order[k], scope, filter)
          <5>1. k \in 1..Len(order)
            BY <2>1
          <5>2. QED
            BY <2>1, <2>2, <3>1, <4>2, <5>1
        <4>3. QED
          BY <4>1, <4>2
      <3>3. PICK c : c = Cardinality({k \in M : k <= i})
        OBVIOUS
      <3>4. c \in Nat \ {0}
        <4>1. IsFiniteSet({k \in M : k <= i})
          BY <2>1, FS_Subset
        <4>2. i \in {k \in M : k <= i}
          BY <3>1
        <4>3. QED
          BY <3>3, <4>1, <4>2, FS_EmptySet, FS_CardinalityType
      <3>5. i \in Rows(s, scope, r, filter) <=> (Limit(s, r) < 0 \/ c <= Limit(s, r))
        BY <3>3 DEF Rows, Top, M
      <3>6. (Limit(s, r) < 0 \/ c <= Limit(s, r)) <=> c \in Window(s, r)
        BY <2>1, <3>4, LimitIsWindow
      <3>7. QED
        BY <3>2, <3>3, <3>5, <3>6
    <2>4. \A i \in Rows(s, scope, r, filter) : i \in M
      BY DEF Rows, Top, M
    <2>5. \A i : i \in Results(s, scope, r, filter) <=>
                    i \in Rows(s, scope, r, filter) /\ UnderCap(s, order[i])
      BY DEF Results
    <2>6. \A i \in M : i \in DOMAIN order
      BY <2>1
    <2>7. ASSUME NEW i
          PROVE  i \in Results(s, scope, r, filter) <=>
                    /\ i \in DOMAIN order
                    /\ Where(order[i], scope, filter)
                    /\ UnderCap(s, order[i])
                    /\ Cardinality({k \in 1..i : Where(order[k], scope, filter)}) \in Window(s, r)
      BY <2>2, <2>3, <2>4, <2>5, <2>6
    <2>8. QED
      BY <2>7, Zenon
  <1>2. QED
    BY <1>1, SearchInductiveInvariant, PTL
=============================================================================
