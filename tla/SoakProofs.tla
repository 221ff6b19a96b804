----------------------------- MODULE SoakProofs -----------------------------
(***************************************************************************)
(* Proofs about Soak, for any number of days, rows and checks and any      *)
(* limit of the queries.                                                   *)
(***************************************************************************)
EXTENDS Soak, FiniteSetTheorems, WellFoundedInduction, TLAPS

-----------------------------------------------------------------------------
(* Positions and dates                                                     *)

\* Some position is the last one.
LEMMA Greatest ==
    ASSUME NEW n \in Nat, NEW S \in SUBSET (1..n), S # {}
    PROVE  \E m \in S : \A i \in S : i <= m
  <1> DEFINE T == {n - i : i \in S}
             R == {ss \in Nat \X Nat : ss[1] < ss[2]}
  <1>1. T \subseteq Nat /\ T # {}
    <2>1. \A i \in S : n - i \in Nat
      OBVIOUS
    <2>2. QED
      BY <2>1
  <1>2. IsWellFoundedOn(R, Nat)
    BY NatLessThanWellFounded, Zenon DEF OpToRel
  <1>3. \A x, y \in Nat : y < x => <<y, x>> \in R
    OBVIOUS
  <1>4. \A x \in T : \E i \in S : x = n - i
    OBVIOUS
  <1>5. \A i \in S : n - i \in T
    OBVIOUS
  <1> HIDE DEF R, T
  <1>6. PICK x \in T : \A y \in T : ~(<<y, x>> \in R)
    BY <1>1, <1>2, WFMin, Zenon
  <1>7. PICK m \in S : x = n - m
    BY <1>4
  <1>8. ASSUME NEW i \in S PROVE i <= m
    <2>1. n - i \in Nat /\ x \in Nat /\ ~(n - i < x)
      BY <1>1, <1>3, <1>5, <1>6
    <2>2. QED
      BY <1>7, <2>1
  <1>9. QED
    BY <1>8

\* The date goes on with the time.
LEMMA DateFacts ==
    ASSUME NEW s \in Nat, NEW t \in Nat, s <= t
    PROVE  DateOf(s) \in Nat /\ DateOf(t) \in Nat /\ DateOf(s) <= DateOf(t)
  <1>1. DayLength \in Nat \ {0}
    BY SoakAssumption
  <1>2. QED
    BY <1>1 DEF DateOf

\* The rows a query is asked for, and those it lists.
LEMMA MatchingFacts ==
    ASSUME SoakTypeOK, NEW action, NEW since
    PROVE  /\ Matching(action, since) \in SUBSET (1..Len(audit))
           /\ Query(action, since) \in SUBSET Matching(action, since)
           /\ IsFiniteSet(Matching(action, since)) /\ IsFiniteSet(Query(action, since))
  <1>1. Len(audit) \in Nat /\ DOMAIN audit = 1..Len(audit)
    BY DEF SoakTypeOK
  <1>2. Matching(action, since) \in SUBSET (1..Len(audit))
    BY <1>1 DEF Matching
  <1>3. Query(action, since) \in SUBSET Matching(action, since)
    BY DEF Query
  <1>4. IsFiniteSet(1..Len(audit))
    BY <1>1, FS_Interval
  <1>5. IsFiniteSet(Matching(action, since))
    BY <1>2, <1>4, FS_Subset
  <1>6. QED
    BY <1>2, <1>3, <1>5, FS_Subset

\* The newest matching row is always listed: the limit hides none that counts.
LEMMA NewestListed ==
    ASSUME SoakTypeOK, NEW action, NEW since, Matching(action, since) # {}
    PROVE  Cardinality(Query(action, since)) > 0
  <1> DEFINE rows == Matching(action, since)
  <1>1. rows \in SUBSET (1..Len(audit)) /\ Len(audit) \in Nat
    BY MatchingFacts DEF SoakTypeOK
  <1> HIDE DEF rows
  <1>2. PICK m \in rows : \A i \in rows : i <= m
    BY <1>1, Greatest DEF rows
  <1>3. {j \in rows : j >= m} = {m}
    <2>1. ASSUME NEW j \in rows, j >= m PROVE j = m
      <3>1. j \in Int /\ m \in Int /\ j <= m
        BY <1>1, <1>2
      <3>2. QED
        BY <2>1, <3>1
    <2>2. m >= m
      BY <1>1
    <2>3. QED
      BY <2>1, <2>2
  <1>4. Cardinality({m}) = 1
    BY FS_Singleton
  <1>5. RowLimit \in Nat \ {0}
    BY SoakAssumption
  <1>6. m \in Query(action, since)
    BY <1>2, <1>3, <1>4, <1>5 DEF Query, rows
  <1>7. QED
    BY <1>6, MatchingFacts, FS_EmptySet, FS_CardinalityType
-----------------------------------------------------------------------------
(* Types                                                                   *)

AuditRow(t) == [at : 0..t, action : {"search", "canary_hit"}, manual : BOOLEAN]

LEMMA TimeFacts ==
    ASSUME SoakTypeOK
    PROVE  /\ now \in Nat /\ MaxTime \in Nat /\ now <= MaxTime
           /\ start # Null => start \in Nat /\ start <= now
           /\ Since \in Nat /\ Since <= now
           /\ audit \in Seq(AuditRow(now)) /\ Len(audit) \in Nat /\ DOMAIN audit = 1..Len(audit)
           /\ \A i \in DOMAIN audit : audit[i] \in AuditRow(now) /\ audit[i].at \in 0..now
           /\ DateOf(now) \in Nat
  <1>1. now \in Nat /\ MaxTime \in Nat /\ now <= MaxTime
    BY SoakAssumption DEF SoakTypeOK
  <1>2. start # Null => start \in Nat /\ start <= now
    BY <1>1 DEF SoakTypeOK
  <1>3. audit \in Seq(AuditRow(now)) /\ Len(audit) \in Nat /\ DOMAIN audit = 1..Len(audit)
    BY DEF SoakTypeOK, AuditRow
  <1>4. \A i \in DOMAIN audit : audit[i] \in AuditRow(now)
    BY <1>3
  <1>5. \A i \in DOMAIN audit : audit[i].at \in 0..now
    BY <1>4 DEF AuditRow
  <1>6. DateOf(now) \in Nat
    BY <1>1, DateFacts
  <1>7. QED
    BY <1>1, <1>2, <1>3, <1>4, <1>5, <1>6 DEF Since

\* A later now takes in what there was.
LEMMA LaterTyped ==
    ASSUME SoakTypeOK, now < MaxTime, now' = now + 1
    PROVE  /\ now' \in 0..MaxTime /\ 0..now \subseteq 0..now'
           /\ 0..DateOf(now) \subseteq 0..DateOf(now')
           /\ audit \in Seq(AuditRow(now'))
  <1>1. now \in Nat /\ MaxTime \in Nat
    BY TimeFacts
  <1>2. PICK later : later = now + 1 /\ later = now' /\ later \in Nat /\ now <= later
    BY <1>1
  <1>3. now' \in 0..MaxTime /\ 0..now \subseteq 0..now'
    BY <1>1
  <1>4. DateOf(now) \in Nat /\ DateOf(later) \in Nat /\ DateOf(now) <= DateOf(later)
    BY <1>1, <1>2, DateFacts
  <1>5. 0..DateOf(now) \subseteq 0..DateOf(later)
    BY <1>4
  <1>6. AuditRow(now) \subseteq AuditRow(later)
    BY <1>2, <1>3 DEF AuditRow
  <1>7. audit \in Seq(AuditRow(later))
    <2>1. \A i \in 1..Len(audit) : audit[i] \in AuditRow(later)
      BY <1>6, TimeFacts
    <2>2. audit \in Seq(AuditRow(now))
      BY TimeFacts
    <2>3. QED
      BY <2>1, <2>2
  <1>8. QED
    BY <1>2, <1>3, <1>5, <1>7 DEF AuditRow

LEMMA NextTyped ==
    ASSUME SoakTypeOK, [SoakNext]_soakVars
    PROVE  SoakTypeOK'
  <1> USE DEF SoakTypeOK
  <1>1. CASE StartSoak
    BY <1>1, TimeFacts DEF StartSoak
  <1>2. CASE BeginCheck
    BY <1>2, TimeFacts DEF BeginCheck
  <1>3. ASSUME NEW b \in BOOLEAN, CheckChain(b) PROVE SoakTypeOK'
    <2>1. check.today \in 0..DateOf(now)
      BY <1>3 DEF CheckChain
    <2>2. QED
      BY <1>3, <2>1 DEF CheckChain, Raise, Goes
  <1>4. ASSUME NEW b \in BOOLEAN, CheckCanaries(b) PROVE SoakTypeOK'
    BY <1>4 DEF CheckCanaries, Raise, Goes, NoCheck
  <1>5. ASSUME NEW b \in BOOLEAN, CheckHarness(b) PROVE SoakTypeOK'
    BY <1>5 DEF CheckHarness, NoCheck
  <1>6. CASE StopCheck
    BY <1>6 DEF StopCheck, NoCheck
  <1>7. CASE Tick
    <2>1. /\ now' \in 0..MaxTime /\ 0..now \subseteq 0..now'
          /\ 0..DateOf(now) \subseteq 0..DateOf(now')
          /\ audit \in Seq(AuditRow(now'))
      BY <1>7, LaterTyped DEF Tick
    <2>2. UNCHANGED <<start, audit, lost, checks, harness, check, alarms, used>>
      BY <1>7 DEF Tick
    <2>3. PICK dates : dates = 0..DateOf(now') /\ 0..DateOf(now) \subseteq dates
      BY <2>1
    <2>4. /\ checks' \subseteq [date : dates, valid : BOOLEAN]
          /\ check' \in [at : {"chain"}, today : dates]
                          \cup [at : {"none", "canary", "harness"}, today : {Null}]
      BY <2>2, <2>3
    <2>5. QED
      BY <2>1, <2>2, <2>3, <2>4 DEF AuditRow
  <1>8. ASSUME NEW action \in {"search", "canary_hit"}, NEW manual \in BOOLEAN,
               Row(action, manual), used' = used \/ used' = used \cup {now}
        PROVE  SoakTypeOK'
    <2>1. now \in 0..now /\ audit \in Seq(AuditRow(now))
      BY TimeFacts
    <2>2. [at |-> now, action |-> action, manual |-> manual] \in AuditRow(now)
      BY <2>1 DEF AuditRow
    <2>3. audit' \in Seq(AuditRow(now))
      BY <1>8, <2>1, <2>2 DEF Row
    <2>4. QED
      BY <1>8, <2>1, <2>3 DEF Row, AuditRow
  <1>9. ASSUME NEW manual \in BOOLEAN, Search(manual) PROVE SoakTypeOK'
    BY <1>8, <1>9 DEF Search
  <1>10. CASE CanaryHit
    BY <1>8, <1>10 DEF CanaryHit
  <1>11. ASSUME NEW kept \in 0..MaxRows, LoseRows(kept) PROVE SoakTypeOK'
    <2>1. audit \in Seq(AuditRow(now)) /\ kept \in Nat /\ kept < Len(audit)
      BY <1>11, TimeFacts, SoakAssumption DEF LoseRows
    <2>2. SubSeq(audit, 1, kept) \in Seq(AuditRow(now))
      BY <2>1
    <2>3. lost' \in 0..MaxLost
      BY <1>11, SoakAssumption DEF LoseRows
    <2>4. QED
      BY <1>11, <2>2, <2>3 DEF LoseRows, AuditRow
  <1>12. CASE UNCHANGED soakVars
    BY <1>12 DEF soakVars
  <1>13. QED
    BY <1>1, <1>2, <1>3, <1>4, <1>5, <1>6, <1>7, <1>9, <1>10, <1>11, <1>12 DEF SoakNext
-----------------------------------------------------------------------------
(* One lemma for each part of the invariant                                *)

\* A row that is added leaves the others in their places.
LEMMA RowFacts ==
    ASSUME SoakTypeOK, NEW action \in {"search", "canary_hit"}, NEW manual \in BOOLEAN,
           Row(action, manual)
    PROVE  /\ DOMAIN audit' = 1..(Len(audit) + 1) /\ Len(audit) \in Nat
           /\ \A i \in DOMAIN audit : i \in DOMAIN audit' /\ audit'[i] = audit[i]
           /\ audit'[Len(audit) + 1].at = now
           /\ audit'[Len(audit) + 1].action = action
           /\ audit'[Len(audit) + 1].manual = manual
  <1>1. audit \in Seq(AuditRow(now)) /\ Len(audit) \in Nat /\ DOMAIN audit = 1..Len(audit)
    BY TimeFacts
  <1>2. PICK new : new = [at |-> now, action |-> action, manual |-> manual]
    OBVIOUS
  <1>6. new.at = now /\ new.action = action /\ new.manual = manual
    BY <1>2
  <1>3. audit' = Append(audit, new)
    BY <1>2 DEF Row
  <1>4. /\ DOMAIN Append(audit, new) = 1..(Len(audit) + 1)
        /\ \A i \in 1..Len(audit) : Append(audit, new)[i] = audit[i]
        /\ Append(audit, new)[Len(audit) + 1] = new
    BY <1>1
  <1>5. QED
    BY <1>1, <1>3, <1>4, <1>6

\* Rows that are lost are the newest ones.
LEMMA LoseFacts ==
    ASSUME SoakTypeOK, NEW kept \in 0..MaxRows, LoseRows(kept)
    PROVE  \A i \in DOMAIN audit' : i \in DOMAIN audit /\ audit'[i] = audit[i]
  <1>1. /\ audit \in Seq(AuditRow(now)) /\ Len(audit) \in Nat /\ DOMAIN audit = 1..Len(audit)
        /\ kept \in Nat /\ kept < Len(audit)
    BY TimeFacts, SoakAssumption DEF LoseRows
  <1>2. /\ DOMAIN SubSeq(audit, 1, kept) = 1..kept
        /\ \A i \in 1..kept : SubSeq(audit, 1, kept)[i] = audit[i]
    BY <1>1
  <1>3. QED
    BY <1>1, <1>2 DEF LoseRows

LEMMA NextAlarms ==
    ASSUME SoakTypeOK, AlarmsKept, [SoakNext]_soakVars
    PROVE  AlarmsKept'
  <1> USE DEF AlarmsKept
  <1>1. CASE StartSoak
    BY <1>1 DEF StartSoak, Failed
  <1>2. CASE BeginCheck \/ StopCheck \/ Tick \/ UNCHANGED soakVars
    <2>1. /\ alarms' = alarms /\ checks' = checks /\ audit' = audit /\ start' = start
          /\ harness' = harness
      BY <1>2 DEF BeginCheck, StopCheck, Tick, soakVars
    <2>2. QED
      BY <2>1 DEF Failed, Matching, Since
  <1>3. ASSUME NEW b \in BOOLEAN, CheckChain(b) PROVE AlarmsKept'
    <2>1. /\ checks' = checks \cup {[date |-> check.today, valid |-> b]}
          /\ alarms' = (IF ~b THEN alarms \cup {"chain"} ELSE alarms)
          /\ audit' = audit /\ start' = start /\ harness' = harness
      BY <1>3 DEF CheckChain, Raise
    <2>2. "chain" \in alarms' => Failed' # {}
      <3>1. Failed \subseteq Failed'
        BY <2>1 DEF Failed
      <3>2. ~b => [date |-> check.today, valid |-> b] \in Failed'
        BY <2>1 DEF Failed
      <3>3. QED
        BY <2>1, <3>1, <3>2
    <2>3. QED
      BY <2>1, <2>2 DEF Matching, Since
  <1>4. ASSUME NEW b \in BOOLEAN, CheckCanaries(b) PROVE AlarmsKept'
    <2>1. /\ alarms' = (IF b /\ CanaryCount > 0 THEN alarms \cup {"canary"} ELSE alarms)
          /\ checks' = checks /\ audit' = audit /\ start' = start /\ harness' = harness
      BY <1>4 DEF CheckCanaries, Raise
    <2>2. CanaryCount > 0 => Matching("canary_hit", Since) # {}
      BY MatchingFacts, FS_EmptySet DEF CanaryCount
    <2>3. "canary" \in alarms' => Matching("canary_hit", Since) # {}
      BY <2>1, <2>2
    <2>4. QED
      BY <2>1, <2>3 DEF Failed, Matching, Since
  <1>5. ASSUME NEW b \in BOOLEAN, CheckHarness(b) PROVE AlarmsKept'
    <2>1. /\ harness' = b /\ alarms' = (IF b THEN alarms \ {"harness"} ELSE alarms \cup {"harness"})
          /\ checks' = checks /\ audit' = audit /\ start' = start
      BY <1>5 DEF CheckHarness
    <2>2. QED
      BY <2>1 DEF Failed, Matching, Since
  <1>6. ASSUME NEW action \in {"search", "canary_hit"}, NEW manual \in BOOLEAN, Row(action, manual)
        PROVE  AlarmsKept'
    <2>1. /\ alarms' = alarms /\ checks' = checks /\ start' = start /\ harness' = harness
      BY <1>6 DEF Row
    <2>2. Matching("canary_hit", Since) \subseteq Matching("canary_hit", Since)'
      BY <1>6, <2>1, RowFacts DEF Matching, Since
    <2>3. QED
      BY <2>1, <2>2 DEF Failed
  <1>7. ASSUME NEW manual \in BOOLEAN, Search(manual) PROVE AlarmsKept'
    BY <1>6, <1>7 DEF Search
  <1>8. CASE CanaryHit
    BY <1>6, <1>8 DEF CanaryHit
  <1>9. ASSUME NEW kept \in 0..MaxRows, LoseRows(kept) PROVE AlarmsKept'
    BY <1>9 DEF LoseRows, Failed
  <1>10. QED
    BY <1>1, <1>2, <1>3, <1>4, <1>5, <1>7, <1>8, <1>9 DEF SoakNext

LEMMA NextUsage ==
    ASSUME SoakTypeOK, UsageKept, [SoakNext]_soakVars
    PROVE  UsageKept'
  <1>1. CASE UNCHANGED <<audit, used, lost>>
    BY <1>1 DEF UsageKept, RealSearch
  <1>2. ASSUME NEW manual \in BOOLEAN, Search(manual) PROVE UsageKept'
    <2>1. Row("search", manual) /\ lost' = lost
      BY <1>2 DEF Search, Row
    <2>2. PICK n : n = Len(audit) + 1
      OBVIOUS
    <2>3. audit'[n].at = now /\ audit'[n].action = "search" /\ audit'[n].manual = manual
      BY <2>1, <2>2, RowFacts
    <2>4. /\ DOMAIN audit = 1..Len(audit) /\ Len(audit) \in Nat
          /\ DOMAIN audit' = 1..n /\ n \in DOMAIN audit'
          /\ \A i \in DOMAIN audit : i \in DOMAIN audit' /\ audit'[i] = audit[i]
          /\ \A i \in DOMAIN audit' : i = n \/ i \in DOMAIN audit
      <3>1. DOMAIN audit = 1..Len(audit) /\ Len(audit) \in Nat
        BY TimeFacts
      <3>2. /\ DOMAIN audit' = 1..n
            /\ \A i \in DOMAIN audit : i \in DOMAIN audit' /\ audit'[i] = audit[i]
        BY <2>1, <2>2, RowFacts
      <3>3. QED
        BY <2>2, <3>1, <3>2
    <2>5. used \subseteq used' /\ (~manual => now \in used') /\ used' \subseteq used \cup {now}
          /\ (manual => used' = used)
      BY <1>2 DEF Search
    <2>6. ASSUME NEW i \in DOMAIN audit', audit'[i].action = "search", ~audit'[i].manual
          PROVE  audit'[i].at \in used'
      BY <2>3, <2>4, <2>5, <2>6 DEF UsageKept
    <2>7. ASSUME lost = 0, NEW t \in used' PROVE \E i \in DOMAIN audit' : RealSearch(i, t)'
      <3>1. CASE t \in used
        <4>1. PICK i \in DOMAIN audit : RealSearch(i, t)
          BY <2>7, <3>1 DEF UsageKept
        <4>2. i \in DOMAIN audit' /\ RealSearch(i, t)'
          BY <2>4, <4>1 DEF RealSearch
        <4>3. QED
          BY <4>2
      <3>2. CASE t = now /\ ~manual
        <4>1. RealSearch(n, t)'
          BY <2>3, <2>4, <3>2 DEF RealSearch
        <4>2. QED
          BY <2>4, <4>1
      <3>3. QED
        BY <2>5, <3>1, <3>2
    <2>8. QED
      BY <2>1, <2>6, <2>7 DEF UsageKept
  <1>3. CASE CanaryHit
    <2>1. Row("canary_hit", FALSE) /\ lost' = lost /\ used' = used
      BY <1>3 DEF CanaryHit, Row
    <2>2. PICK n : n = Len(audit) + 1
      OBVIOUS
    <2>3. /\ DOMAIN audit = 1..Len(audit) /\ Len(audit) \in Nat
          /\ DOMAIN audit' = 1..n /\ audit'[n].action = "canary_hit"
          /\ \A i \in DOMAIN audit : i \in DOMAIN audit' /\ audit'[i] = audit[i]
      BY <2>1, <2>2, RowFacts, TimeFacts
    <2>4. \A i \in DOMAIN audit' : i = n \/ i \in DOMAIN audit
      BY <2>2, <2>3
    <2>5. \A i \in DOMAIN audit' : audit'[i].action = "search" /\ ~audit'[i].manual => audit'[i].at \in used'
      BY <2>1, <2>3, <2>4 DEF UsageKept
    <2>6. ASSUME lost = 0, NEW t \in used PROVE \E i \in DOMAIN audit' : RealSearch(i, t)'
      <3>1. PICK i \in DOMAIN audit : RealSearch(i, t)
        BY <2>6 DEF UsageKept
      <3>2. QED
        BY <2>3, <3>1 DEF RealSearch
    <2>7. QED
      BY <2>1, <2>5, <2>6 DEF UsageKept
  <1>4. ASSUME NEW kept \in 0..MaxRows, LoseRows(kept) PROVE UsageKept'
    <2>1. used' = used /\ lost' = lost + 1 /\ lost \in Nat
      BY <1>4, SoakAssumption DEF LoseRows, SoakTypeOK
    <2>2. \A i \in DOMAIN audit' : i \in DOMAIN audit /\ audit'[i] = audit[i]
      BY <1>4, LoseFacts
    <2>3. lost' # 0
      BY <2>1
    <2>4. QED
      BY <2>1, <2>2, <2>3 DEF UsageKept
  <1>5. CASE StartSoak \/ BeginCheck \/ StopCheck \/ Tick \/ UNCHANGED soakVars
    BY <1>1, <1>5 DEF StartSoak, BeginCheck, StopCheck, Tick, soakVars
  <1>6. ASSUME NEW b \in BOOLEAN, CheckChain(b) \/ CheckCanaries(b) \/ CheckHarness(b)
        PROVE  UsageKept'
    BY <1>1, <1>6 DEF CheckChain, CheckCanaries, CheckHarness
  <1>7. QED
    BY <1>2, <1>3, <1>4, <1>5, <1>6 DEF SoakNext

LEMMA NextOrder ==
    ASSUME SoakTypeOK, InOrder, [SoakNext]_soakVars
    PROVE  InOrder'
  <1>1. CASE UNCHANGED audit
    BY <1>1 DEF InOrder
  <1>2. ASSUME NEW action \in {"search", "canary_hit"}, NEW manual \in BOOLEAN, Row(action, manual)
        PROVE  InOrder'
    <2>1. PICK n : n = Len(audit) + 1
      OBVIOUS
    <2>2. /\ DOMAIN audit' = 1..n /\ audit'[n].at = now
          /\ \A i \in DOMAIN audit : audit'[i] = audit[i]
      BY <1>2, <2>1, RowFacts
    <2>3. /\ DOMAIN audit = 1..Len(audit) /\ Len(audit) \in Nat /\ now \in Nat
          /\ \A i \in DOMAIN audit : audit[i].at \in 0..now
      BY TimeFacts
    <2>4. ASSUME NEW i \in DOMAIN audit', NEW j \in DOMAIN audit', i <= j
          PROVE  audit'[i].at <= audit'[j].at
      <3>1. CASE j \in DOMAIN audit
        <4>1. i \in DOMAIN audit
          BY <2>2, <2>3, <2>4, <3>1
        <4>2. QED
          BY <2>2, <2>4, <3>1, <4>1 DEF InOrder
      <3>2. CASE j = n
        <4>1. i = n \/ i \in DOMAIN audit
          BY <2>1, <2>2, <2>3
        <4>2. audit'[i].at \in 0..now
          BY <2>2, <2>3, <4>1
        <4>3. QED
          BY <2>2, <2>3, <3>2, <4>2
      <3>3. QED
        BY <2>1, <2>2, <2>3, <3>1, <3>2
    <2>5. QED
      BY <2>4 DEF InOrder
  <1>3. ASSUME NEW manual \in BOOLEAN, Search(manual) PROVE InOrder'
    BY <1>2, <1>3 DEF Search
  <1>4. CASE CanaryHit
    BY <1>2, <1>4 DEF CanaryHit
  <1>5. ASSUME NEW kept \in 0..MaxRows, LoseRows(kept) PROVE InOrder'
    BY <1>5, LoseFacts DEF InOrder
  <1>6. CASE StartSoak \/ BeginCheck \/ StopCheck \/ Tick \/ UNCHANGED soakVars
    BY <1>1, <1>6 DEF StartSoak, BeginCheck, StopCheck, Tick, soakVars
  <1>7. ASSUME NEW b \in BOOLEAN, CheckChain(b) \/ CheckCanaries(b) \/ CheckHarness(b)
        PROVE  InOrder'
    BY <1>1, <1>7 DEF CheckChain, CheckCanaries, CheckHarness
  <1>8. QED
    BY <1>3, <1>4, <1>5, <1>6, <1>7 DEF SoakNext

-----------------------------------------------------------------------------
(* The invariant                                                           *)

LEMMA InitSoakInv == SoakInit => SoakInv
  <1> SUFFICES ASSUME SoakInit PROVE SoakInv
    OBVIOUS
  <1> USE DEF SoakInit
  <1>1. SoakTypeOK
    <2>1. 0 \in 0..MaxTime /\ 0 \in 0..MaxLost
      BY SoakAssumption
    <2>2. check \in [at : {"none", "canary", "harness"}, today : {Null}]
      BY DEF NoCheck
    <2>3. QED
      BY <2>1, <2>2 DEF SoakTypeOK
  <1>2. AlarmsKept /\ UsageKept /\ InOrder
    BY DEF AlarmsKept, UsageKept, InOrder
  <1>3. QED
    BY <1>1, <1>2 DEF SoakInv

LEMMA NextSoakInv == SoakInv /\ [SoakNext]_soakVars => SoakInv'
  BY NextTyped, NextAlarms, NextUsage, NextOrder DEF SoakInv

\* SoakInv holds in every reachable state: what makes a check red stays where the
\* summary looks for it, and what the summary counts as use was use.
THEOREM SoakInductiveInvariant == SoakSpec => []SoakInv
  BY InitSoakInv, NextSoakInv, PTL DEF SoakSpec

\* Every reachable state of the monitor is well typed; no row, check or search is
\* dated later than now (soak-check.sh:89-125).
THEOREM SoakTypeCorrect == SoakSpec => []SoakTypeOK
  <1>1. SoakInv => SoakTypeOK
    BY DEF SoakInv
  <1>2. QED
    BY <1>1, SoakInductiveInvariant, PTL

-----------------------------------------------------------------------------
(* What the summary may say                                                *)

\* What a check has recorded red is not GO later, until it is taken back by what
\* is meant to (soak-check.sh:89-125, :131-187).
THEOREM AlarmsHold == SoakSpec => []AlarmHolds
  <1>1. SoakInv => AlarmHolds
    <2> SUFFICES ASSUME SoakInv, NEW a \in alarms PROVE ~Go
      BY DEF AlarmHolds
    <2>1. a \in {"chain", "canary", "harness"}
      BY DEF SoakInv, SoakTypeOK
    <2>2. CASE a = "chain"
      BY <2>2 DEF SoakInv, AlarmsKept, Go, ChainGate
    <2>3. CASE a = "canary"
      <3>1. SoakTypeOK /\ Matching("canary_hit", Since) # {}
        BY <2>3 DEF SoakInv, AlarmsKept
      <3>2. CanaryCount > 0 /\ CanaryCount \in Nat
        BY <3>1, NewestListed, MatchingFacts, FS_CardinalityType DEF CanaryCount
      <3>3. QED
        BY <3>2 DEF Go, CanaryGate
    <2>4. CASE a = "harness"
      BY <2>4 DEF SoakInv, AlarmsKept, Go, HarnessGate
    <2>5. QED
      BY <2>1, <2>2, <2>3, <2>4
  <1>2. QED
    BY <1>1, SoakInductiveInvariant, PTL

\* The days of use are days of real searches since the start; while no row is lost, a
\* day is left out only if the searches from it on are more than one query returns
\* (soak-check.sh:101-103).
THEOREM UsageReal == SoakSpec => []UsageIsReal
  <1>1. SoakInv => UsageIsReal
    <2> SUFFICES ASSUME SoakInv PROVE UsageIsReal
      OBVIOUS
    <2>1. SoakTypeOK /\ UsageKept /\ InOrder
      BY DEF SoakInv
    <2>2. ASSUME NEW d \in UsedDates PROVE d \in UsedSinceStart
      <3>1. PICK i \in Query("search", Since) : ~audit[i].manual /\ d = DateOf(audit[i].at)
        BY DEF UsedDates
      <3>2. i \in DOMAIN audit /\ audit[i].action = "search" /\ audit[i].at >= Since
        BY DEF Query, Matching
      <3>3. audit[i].at \in used
        BY <2>1, <3>1, <3>2 DEF UsageKept
      <3>4. QED
        BY <3>1, <3>2, <3>3 DEF UsedSinceStart
    <2>3. ASSUME lost = 0, NEW d \in UsedSinceStart \ UsedDates
          PROVE  Cardinality(SearchesFrom(d)) > RowLimit
      <3>1. PICK t \in used : t >= Since /\ d = DateOf(t)
        BY DEF UsedSinceStart
      <3>2. PICK i \in DOMAIN audit : RealSearch(i, t)
        BY <2>1, <2>3 DEF UsageKept
      <3> DEFINE newer == {j \in Matching("search", Since) : j >= i}
      <3>3. i \in Matching("search", Since)
        BY <3>1, <3>2 DEF Matching, RealSearch
      <3>4. ~(Cardinality(newer) <= RowLimit)
        <4>1. i \in Query("search", Since) => d \in UsedDates
          BY <3>1, <3>2 DEF UsedDates, RealSearch
        <4>2. QED
          BY <3>3, <4>1 DEF Query
      <3>5. newer \subseteq SearchesFrom(d)
        <4>1. ASSUME NEW j \in newer PROVE DateOf(audit[j].at) >= d
          <5>1. j \in DOMAIN audit /\ i <= j
            BY <2>1, <3>2, TimeFacts DEF Matching
          <5>2. audit[i].at <= audit[j].at /\ audit[i].at = t
            BY <2>1, <3>2, <5>1 DEF InOrder, RealSearch
          <5>3. audit[i].at \in 0..now /\ audit[j].at \in 0..now /\ now \in Nat
            BY <2>1, <3>2, <5>1, TimeFacts
          <5>4. PICK s, u \in Nat : s = audit[i].at /\ u = audit[j].at
            BY <5>3
          <5>5. DateOf(s) \in Nat /\ DateOf(u) \in Nat /\ DateOf(s) <= DateOf(u)
            BY <5>2, <5>4, DateFacts
          <5>6. QED
            BY <3>1, <5>2, <5>4, <5>5
        <4>2. QED
          BY <4>1 DEF SearchesFrom
      <3>6. SearchesFrom(d) \subseteq Matching("search", Since)
        BY DEF SearchesFrom
      <3>7. IsFiniteSet(SearchesFrom(d))
        BY <2>1, <3>6, MatchingFacts, FS_Subset
      <3>8. Cardinality(newer) <= Cardinality(SearchesFrom(d)) /\ IsFiniteSet(newer)
        BY <3>5, <3>7, FS_Subset
      <3>9. Cardinality(newer) \in Nat /\ Cardinality(SearchesFrom(d)) \in Nat
        BY <3>7, <3>8, FS_CardinalityType
      <3> HIDE DEF newer
      <3>10. QED
        BY <3>4, <3>8, <3>9, SoakAssumption
    <2>4. QED
      BY <2>2, <2>3 DEF UsageIsReal
  <1>2. QED
    BY <1>1, SoakInductiveInvariant, PTL
=============================================================================
