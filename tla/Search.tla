------------------------------- MODULE Search -------------------------------
(***************************************************************************)
(* Classification (classifier.py) and search (search.py) over the index    *)
(* that several processes share.  A file gets its level when it is         *)
(* indexed, from the rules of the process that does it: those of the       *)
(* configuration it was started with and those privacy_classify has added, *)
(* which live in that process's memory.  A search goes by the levels in    *)
(* the index and by the profile its server was started with.               *)
(*                                                                         *)
(* The configuration file is the operator's: it may change at any time,    *)
(* and a process sees what was there when it was started.  A command of    *)
(* privacy-cli, or a hook, is started without a file unless it is told of  *)
(* one (agent.py: load_config(None)).                                      *)
(*                                                                         *)
(* A search changes nothing: it is an operator, and the properties apply   *)
(* it in every state, for every argument.  One file is indexed in one step *)
(* (Index has the statements): the rules of a server do not change during  *)
(* its call.  Whether a crawl takes a file up (it is new, it changed, the  *)
(* crawl is forced) is left open.                                          *)
(***************************************************************************)
EXTENDS Config

CONSTANTS Processes,    \* servers, and commands of privacy-cli
          NoFile,       \* those that are started without a configuration file
          Orchestrator, \* Orchestrator[s]: the name s is started under
          Raws,         \* the contents the configuration file may have
          Files,        \* the files that can be indexed, as paths
          Globs,        \* what the patterns of privacy_classify match: sets of files
          Requested,    \* the levels it is called with, right and wrong
          Alike,        \* <<scope, path>>: the path is not the scope, but LIKE takes it for it
          Orders,       \* the orders a query may rank the files in
          ScopeArgs, Requests, Filters,   \* the arguments of searches
          MaxRules, MaxLives, MaxEdits    \* bounds: rules added, starts of each process, edits

ASSUME ProcessesAssumption == NoFile \subseteq Processes
ASSUME RawsAssumption ==
    \A raw \in Raws :
        /\ \A r \in raw.rules : r.files \in SUBSET Files \cup {Null}
        /\ \A p \in DOMAIN raw.profiles : raw.profiles[p].max \in Int \cup {Null}
ASSUME ArgumentsAssumption == Orders \subseteq Seq(Files) /\ Requests \subseteq Int \cup {Null}
ASSUME BoundsAssumption ==
    MaxRules \in Nat /\ MaxEdits \in Nat /\ MaxLives \in [Processes -> Nat]

VARIABLES file,    \* what the configuration file contains
          edits,   \* how often it was edited (history, bounded)
          lives,   \* lives[s]: the configurations s was started with, Null: refused (history)
          rules,   \* rules[s]: what privacy_classify added, in order; s's memory
          index,   \* index[f]: f's row, its level and (history) who wrote it, or Null
          order    \* the files by how well they match the query (bm25)

searchVars == <<file, edits, lives, rules, index, order>>

\* The configurations a process can run with, the rows of the index, and added rules.
Configs == {c \in {FromDict(raw) : raw \in Raws \cup {NoRaw}} : Valid(c)}
FileRows == [level : Levels, by : Processes \X Nat]
Rules == [files : Globs, level : Levels]

Indexed == {f \in Files : index[f] # Null}

\* The process s is: none, or refused, has no configuration.
Cfg(s) == IF lives[s] = <<>> THEN Null ELSE Last(lives[s])
Running(s) == Cfg(s) # Null
Life(s) == <<s, Len(lives[s])>>

SearchInit ==
    /\ file \in Raws
    /\ edits = 0
    /\ lives = [s \in Processes |-> <<>>]
    /\ rules = [s \in Processes |-> <<>>]
    /\ index = [f \in Files |-> Null]
    /\ order \in Orders

-----------------------------------------------------------------------------
(* The file and the processes                                              *)

EditConfig(raw) ==
    /\ edits < MaxEdits
    /\ edits' = edits + 1
    /\ file' = raw
    /\ UNCHANGED <<lives, rules, index, order>>

\* build_agent: s is stopped if it runs, and started; a configuration with
\* errors raises and nothing runs.  The rules that were added are gone.
Start(s) ==
    LET c == FromDict(IF s \in NoFile THEN NoRaw ELSE file) IN
    /\ Len(lives[s]) < MaxLives[s]
    /\ lives' = [lives EXCEPT ![s] = Append(@, IF Valid(c) THEN c ELSE Null)]
    /\ rules' = [rules EXCEPT ![s] = <<>>]
    /\ UNCHANGED <<file, edits, index, order>>

-----------------------------------------------------------------------------
(* Classification                                                          *)

Added(s, f) == Matching(Range(rules[s]), f)

\* Mutant of ClassifyPath: the rule added last wins.
ClassifyPathLast(s, f) ==
    LET hits == SelectSeq(rules[s], LAMBDA r : f \in r.files) IN
    IF hits = <<>> THEN LevelBy(Cfg(s), f) ELSE Last(hits).level

\* Mutant of ClassifyPath: added rules take the place of the configuration's.
ClassifyPathAdded(s, f) ==
    Max(IF Added(s, f) = {} THEN {LevelBy(Cfg(s), f)} ELSE Added(s, f))

\* classify_path: the highest of the default and the levels of matching rules.
ClassifyPath(s, f) == Max({LevelBy(Cfg(s), f)} \cup Added(s, f))

\* Mutant of AddRule: the level is not looked at.
AddAnyRule(s, files, level) ==
    /\ Running(s)
    /\ Len(rules[s]) < MaxRules
    /\ rules' = [rules EXCEPT ![s] = Append(@, [files |-> files, level |-> level])]
    /\ UNCHANGED <<file, edits, lives, index, order>>

\* add_rule, called by a server's privacy_classify; a level that is not on the
\* ladder is a ValueError.
AddRule(s, files, level) ==
    /\ Running(s)
    /\ Len(rules[s]) < MaxRules
    /\ level \in Levels
    /\ rules' = [rules EXCEPT ![s] = Append(@, [files |-> files, level |-> level])]
    /\ UNCHANGED <<file, edits, lives, index, order>>

\* A crawl of s takes f up: the row it writes has f's level by s's rules.
IndexFile(s, f) ==
    /\ Running(s)
    /\ index' = [index EXCEPT ![f] = [level |-> ClassifyPath(s, f), by |-> Life(s)]]
    /\ UNCHANGED <<file, edits, lives, rules, order>>

SearchNext ==
    \/ \E raw \in Raws : EditConfig(raw)
    \/ \E s \in Processes :
          \/ Start(s)
          \/ \E f \in Files : IndexFile(s, f)
    \/ \E s \in Processes \ NoFile, files \in Globs, level \in Requested : AddRule(s, files, level)

SearchSpec == SearchInit /\ [][SearchNext]_searchVars

-----------------------------------------------------------------------------
(* Search                                                                  *)

Least(m, n) == Min({m, n})

\* Python's `x or y`, for a number or None.
Or(x, y) == IF x \in {Null, 0} THEN y ELSE x

CapOf(s) == Profile(Cfg(s), Orchestrator[s]).cap
ProfileMax(s) == Profile(Cfg(s), Orchestrator[s]).max
AgentMax(s) == Cfg(s).max_results

\* Mutant of Limit: search() takes the handler's number as it is.
LimitOfHandler(s, requested) ==
    LET upper == Or(ProfileMax(s), AgentMax(s)) IN Least(Or(requested, upper), upper)

\* _max_results in the handler, and once more in search().
Limit(s, requested) ==
    LET upper == Or(ProfileMax(s), AgentMax(s))
        asked == Least(Or(requested, upper), upper)
    IN  Least(Or(asked, AgentMax(s)), AgentMax(s))

\* abs_path = scope OR abs_path LIKE scope || '/%'
InScope(f, scope) ==
    \/ scope = Null
    \/ IsPrefix(scope, f)
    \/ \E i \in 1..(Len(f) - 1) : <<scope, SubSeq(f, 1, i)>> \in Alike

\* A pattern that goes on past a directory matches only what matches up to there.
ASSUME AlikeAssumption ==
    \A a \in Alike : \A i \in 1..(Len(a[1]) - 1) : InScope(a[2], SubSeq(a[1], 1, i))

\* The JOIN and the WHERE clause; no filter is the same as an empty one.
Where(f, scope, filter) ==
    /\ f \in Indexed
    /\ InScope(f, scope)
    /\ filter = {} \/ index[f].level \in filter

\* What matches, by its place in the order.
Matches(scope, filter) == {i \in DOMAIN order : Where(order[i], scope, filter)}

\* LIMIT n: the first n of some places; a negative n is no limit.
Top(places, n) ==
    IF n < 0 THEN places ELSE {i \in places : Cardinality({k \in places : k <= i}) <= n}

\* Mutant of Rows: the limit is applied to the matches before the scope is.
RowsOfTop(s, scope, requested, filter) ==
    {i \in Top(DOMAIN order, Limit(s, requested)) : Where(order[i], scope, filter)}

\* The rows the SELECT returns.
Rows(s, scope, requested, filter) == Top(Matches(scope, filter), Limit(s, requested))

UnderCap(s, f) == CapOf(s) = Null \/ index[f].level <= CapOf(s)

\* search(): of those rows, the ones the profile's cap admits.
Results(s, scope, requested, filter) ==
    {i \in Rows(s, scope, requested, filter) : UnderCap(s, order[i])}

-----------------------------------------------------------------------------
(* Properties                                                              *)

SearchTypeOK ==
    /\ file \in Raws
    /\ edits \in 0..MaxEdits
    /\ lives \in [Processes -> Seq(Configs \cup {Null})]
    /\ rules \in [Processes -> Seq(Rules)]
    /\ index \in [Files -> FileRows \cup {Null}]
    /\ order \in Orders
    /\ \A s \in Processes : Len(lives[s]) <= MaxLives[s] /\ Len(rules[s]) <= MaxRules
    /\ \A f \in Indexed : index[f].by[2] \in DOMAIN lives[index[f].by[1]]

Servers == {s \in Processes : Running(s)}

\* The ratchet.  A level in the index is only lowered when another process, or
\* one that was restarted since, indexes the file again: no sequence of rules
\* added to one running server, in whatever order and with whatever levels,
\* lowers what it has classified itself (classifier.py:6-7, :44-57).
LoweredByAnotherOnly ==
    [][\A f \in Indexed :
          index'[f].level < index[f].level => index'[f].by # index[f].by]_searchVars

\* The configuration f was classified under.
IndexedUnder(f) == lives[index[f].by[1]][index[f].by[2]]

\* The cap holds against the configuration that classified the file: one it puts
\* above the cap of the profile a server runs with is in none of that server's
\* results, whatever rules were added where, forgotten by which restart, and
\* whatever the file of the configuration says by now (classifier.py:44-57,
\* search.py:113-116, config.py:159-164).
ConfigCapHolds ==
    \A s \in Servers, scope \in ScopeArgs, requested \in Requests, filter \in Filters :
        \A i \in Results(s, scope, requested, filter) :
            CapOf(s) # Null => LevelBy(IndexedUnder(order[i]), order[i]) <= CapOf(s)

\* Goose cannot return a file that its own configuration puts above its cap
\* (docs/goose-setup.md:3).  False: the level in the index is that of the
\* process that indexed the file, and privacy-cli index, as the RUNBOOK calls
\* it, runs without the configuration file, so without its rules (cli.py:94,
\* config.py:169).
CapHolds ==
    \A s \in Servers : \A i \in Results(s, Null, Null, {}) :
        CapOf(s) # Null => LevelBy(Cfg(s), order[i]) <= CapOf(s)

\* No configuration a server starts with, and no request that is not negative,
\* gets more than the 50 results validate() allows, unless the maximum of its
\* profile is negative (config.py:219-223, agent.py:119-121, search.py:57).
ResultsBounded ==
    \A s \in Servers, requested \in Requests :
        (requested = Null \/ requested >= 0) /\ (ProfileMax(s) = Null \/ ProfileMax(s) >= 0) =>
            Cardinality(Results(s, Null, requested, {})) <= MaxResults

\* What limit a request amounts to: a positive one is held to the smaller of
\* the two maxima; a negative one, of the caller or of the profile, is none.
Ceiling(s) == IF ProfileMax(s) \in {Null, 0} THEN AgentMax(s) ELSE Least(ProfileMax(s), AgentMax(s))
Window(s, requested) ==
    CASE Ceiling(s) < 0 -> Nat
      [] Ceiling(s) > 0 /\ requested \in {Null, 0} -> 1..Ceiling(s)
      [] Ceiling(s) > 0 /\ requested # Null /\ requested > 0 -> 1..Least(requested, Ceiling(s))
      [] OTHER -> Nat

\* Search against its definition: a file is a result when it is wanted, is
\* under the cap, and is within the window counted over all wanted files, those
\* above the cap included.  So a file above the cap takes the place of one below
\* it, and two limits, each with its own idea of none, amount to one window
\* (search.py:57, :99-116, agent.py:119-121).
SearchMeetsDefinition ==
    \A s \in Servers, scope \in ScopeArgs, requested \in Requests, filter \in Filters :
        Results(s, scope, requested, filter) =
            {i \in DOMAIN order :
                /\ Where(order[i], scope, filter)
                /\ UnderCap(s, order[i])
                /\ Cardinality({k \in 1..i : Where(order[k], scope, filter)})
                       \in Window(s, requested)}

-----------------------------------------------------------------------------
(* The inductive invariant: what the properties above rest on              *)

\* A row has at least the level of the configuration it was written under; while
\* its writer goes on, that level or the one of a rule its writer still has.
RowKept(f) ==
    /\ IndexedUnder(f) # Null
    /\ index[f].level >= LevelBy(IndexedUnder(f), f)
    /\ \A s \in Processes : index[f].by = Life(s) =>
          index[f].level \in {LevelBy(Cfg(s), f)} \cup Added(s, f)

RowsKept == \A f \in Indexed : RowKept(f)

SearchInv == SearchTypeOK /\ RowsKept
=============================================================================
