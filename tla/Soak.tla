-------------------------------- MODULE Soak --------------------------------
(***************************************************************************)
(* The soak monitor (scripts/soak-check.sh): daily and weekly checks that  *)
(* append to soak.log, and the summary that says GO or NOGO from that log, *)
(* from soak.start and from the audit table, while the system is used,     *)
(* canaries are hit, and the audit table is deleted or restored.           *)
(*                                                                         *)
(* Time goes in ticks, DayLength of them a day.  A check is a script of    *)
(* several commands: it takes the date once and the rest may happen in     *)
(* between.  One check runs at a time.  The audit table is a sequence of   *)
(* the rows the script asks for; query() has the newest ones first, and at *)
(* most RowLimit of them.                                                  *)
(***************************************************************************)
EXTENDS Integers, FiniteSets, Sequences

CONSTANTS Null,
          Days,         \* days that must have passed, and dates that must be verified: 30
          UsageDays,    \* days with a search of an orchestrator's: 10
          RowLimit,     \* limit of the queries: 500
          DayLength,    \* ticks in a day
          MaxTime, MaxRows, MaxLost, MaxFailed   \* bounds

ASSUME SoakAssumption ==
    {Days, UsageDays, RowLimit, DayLength, MaxTime, MaxRows, MaxLost, MaxFailed}
        \subseteq Nat \ {0}
ASSUME NullAssumption == Null \notin Int

VARIABLES now,
          start,    \* soak.start: the tick it names, Null if there is none
          audit,    \* the rows: [at, action, manual]
          lost,     \* how often the table was deleted or restored (history, bounded)
          checks,   \* soak.log: the audit_verify events, [date, valid]
          harness,  \* soak.log: the last harness event, Null if there is none
          check,    \* the check that runs: where, and its date
          alarms,   \* what a check has recorded red and nothing has taken back (history)
          used      \* when orchestrators have searched, all of it (history)

soakVars == <<now, start, audit, lost, checks, harness, check, alarms, used>>

NoCheck == [at |-> "none", today |-> Null]
DateOf(t) == t \div DayLength

SoakInit ==
    /\ now = 0
    /\ start = Null
    /\ audit = <<>>
    /\ lost = 0
    /\ checks = {}
    /\ harness = Null
    /\ check = NoCheck
    /\ alarms = {}
    /\ used = {}

-----------------------------------------------------------------------------
(* What the script asks of the audit table                                 *)

Matching(action, since) == {i \in DOMAIN audit : audit[i].action = action /\ audit[i].at >= since}

\* AuditLogger.query(since, action_filter, limit): where the newest matching rows are.
Query(action, since) ==
    LET rows == Matching(action, since)
    IN  {i \in rows : Cardinality({j \in rows : j >= i}) <= RowLimit}

Since == IF start = Null THEN 0 ELSE start
CanaryCount == Cardinality(Query("canary_hit", Since))

\* Mutant of UsedDates: searches by hand count too.
UsedDatesAny == {DateOf(audit[i].at) : i \in Query("search", Since)}

\* The dates of the searches that were not made by hand.
UsedDates == {DateOf(audit[i].at) : i \in {j \in Query("search", Since) : ~audit[j].manual}}

-----------------------------------------------------------------------------
(* --summary                                                               *)

ValidDates == {c.date : c \in {d \in checks : d.valid}}
Failed == {c \in checks : ~c.valid}
DaysElapsed == (now - start) \div DayLength

\* Mutant of ChainGate: only what was logged since the start counts.
ChainGateSince == Cardinality(ValidDates) >= Days /\ \A c \in Failed : c.date < DateOf(start)

ChainGate == Cardinality(ValidDates) >= Days /\ Failed = {}

CanaryGate == CanaryCount = 0
UsageGate == Cardinality(UsedDates) >= UsageDays
HarnessGate == harness = TRUE

\* DECISION: GO, for a soak that was started.
Go == start # Null /\ ChainGate /\ CanaryGate /\ UsageGate /\ HarnessGate /\ DaysElapsed >= Days

-----------------------------------------------------------------------------
(* --start, and the checks                                                 *)

\* --start overwrites soak.start; soak.log goes on.
StartSoak ==
    /\ start' = now
    /\ alarms' = alarms \ {"canary"}
    /\ UNCHANGED <<now, audit, lost, checks, harness, check, used>>

\* Mutant of BeginCheck: the date is that of a time zone ahead of UTC.
BeginCheckLocal ==
    /\ check.at = "none"
    /\ check' = [at |-> "chain", today |-> DateOf(now) + 1]
    /\ UNCHANGED <<now, start, audit, lost, checks, harness, alarms, used>>

BeginCheck ==
    /\ check.at = "none"
    /\ check' = [at |-> "chain", today |-> DateOf(now)]
    /\ UNCHANGED <<now, start, audit, lost, checks, harness, alarms, used>>

\* The date goes with every event; only that of audit_verify is read again.
Goes(point) == [at |-> point, today |-> Null]
Raise(alarm, red) == alarms' = IF red THEN alarms \cup {alarm} ELSE alarms

\* privacy-cli audit verify, whatever it finds: a broken chain and a database that
\* cannot be read are the same here (AuditLog has the chain itself).
CheckChain(valid) ==
    /\ check.at = "chain"
    /\ valid \/ Cardinality(Failed) < MaxFailed
    /\ checks' = checks \cup {[date |-> check.today, valid |-> valid]}
    /\ Raise("chain", ~valid)
    /\ check' = Goes("canary")
    /\ UNCHANGED <<now, start, audit, lost, harness, used>>

\* The canary hits since soak.start; one that cannot be counted is red, but
\* what it leaves in soak.log is not JSON and is passed over later.
CheckCanaries(readable) ==
    /\ check.at = "canary"
    /\ Raise("canary", readable /\ CanaryCount > 0)
    /\ check' \in {NoCheck, Goes("harness")}   \* daily, --weekly
    /\ UNCHANGED <<now, start, audit, lost, checks, harness, used>>

\* pytest tests/redteam
CheckHarness(passed) ==
    /\ check.at = "harness"
    /\ harness' = passed
    /\ alarms' = IF passed THEN alarms \ {"harness"} ELSE alarms \cup {"harness"}
    /\ check' = NoCheck
    /\ UNCHANGED <<now, start, audit, lost, checks, used>>

\* The script is interrupted, or the log cannot be written: what it has shown and
\* not written yet is forgotten.
StopCheck ==
    /\ check.at # "none"
    /\ check' = NoCheck
    /\ UNCHANGED <<now, start, audit, lost, checks, harness, alarms, used>>

-----------------------------------------------------------------------------
(* Beside the script                                                       *)

Tick ==
    /\ now < MaxTime
    /\ now' = now + 1
    /\ UNCHANGED <<start, audit, lost, checks, harness, check, alarms, used>>

Row(action, manual) ==
    /\ Len(audit) < MaxRows
    /\ audit' = Append(audit, [at |-> now, action |-> action, manual |-> manual])
    /\ UNCHANGED <<now, start, lost, checks, harness, check, alarms>>

\* The entry of a search; one that was refused leaves such an entry too
\* (agent.py:137), and the script does not tell them apart.
Search(manual) ==
    /\ Row("search", manual)
    /\ used' = IF manual THEN used ELSE used \cup {now}

CanaryHit == Row("canary_hit", FALSE) /\ UNCHANGED used

\* The RUNBOOK's repairs: the table is deleted, or restored from a backup.
LoseRows(kept) ==
    /\ lost < MaxLost
    /\ lost' = lost + 1
    /\ kept < Len(audit)
    /\ audit' = SubSeq(audit, 1, kept)
    /\ alarms' = alarms \ {"canary"}
    /\ UNCHANGED <<now, start, checks, harness, check, used>>

SoakNext ==
    \/ StartSoak
    \/ BeginCheck
    \/ \E b \in BOOLEAN : CheckChain(b) \/ CheckCanaries(b) \/ CheckHarness(b)
    \/ StopCheck
    \/ Tick
    \/ \E manual \in BOOLEAN : Search(manual)
    \/ CanaryHit
    \/ \E kept \in 0..MaxRows : LoseRows(kept)

SoakSpec == SoakInit /\ [][SoakNext]_soakVars

-----------------------------------------------------------------------------
(* Properties                                                              *)

SoakTypeOK ==
    /\ now \in 0..MaxTime
    /\ start \in (0..now) \cup {Null}
    /\ audit \in Seq([at : 0..now, action : {"search", "canary_hit"}, manual : BOOLEAN])
    /\ lost \in 0..MaxLost
    /\ checks \subseteq [date : 0..DateOf(now), valid : BOOLEAN]
    /\ harness \in BOOLEAN \cup {Null}
    /\ check \in [at : {"chain"}, today : 0..DateOf(now)] \cup [at : {"none", "canary", "harness"}, today : {Null}]
    /\ alarms \subseteq {"chain", "canary", "harness"}
    /\ used \subseteq 0..now

\* What a check has recorded red is not GO later: a chain that did not verify for
\* ever, canary hits until the soak is started again or rows are lost, and the
\* harness until it passes.  The checks and the summary are separate code over
\* different sources (soak-check.sh:89-125, :131-187).
AlarmHolds == alarms # {} => ~Go

UsedSinceStart == {DateOf(t) : t \in {u \in used : u >= Since}}
SearchesFrom(d) == {i \in Matching("search", Since) : DateOf(audit[i].at) >= d}

\* The days of use are days on which an orchestrator has really searched since
\* the soak was started, so GO is never given to a system that lay idle; and while
\* no row was lost a day of use is left out only if the searches of that day and
\* the days after it, those by hand included, are more than one query returns
\* (soak-check.sh:101-103).
UsageIsReal ==
    /\ UsedDates \subseteq UsedSinceStart
    /\ lost = 0 => \A d \in UsedSinceStart \ UsedDates : Cardinality(SearchesFrom(d)) > RowLimit

-----------------------------------------------------------------------------
(* The inductive invariant: what the properties above rest on              *)

\* What made an alarm is still there, for the summary to find.
AlarmsKept ==
    /\ "chain" \in alarms => Failed # {}
    /\ "canary" \in alarms => Matching("canary_hit", Since) # {}
    /\ "harness" \in alarms => harness = FALSE

\* Rows of orchestrators' searches are of searches there were, and there is one
\* for each of them until rows are lost.
RealSearch(i, t) == audit[i].action = "search" /\ ~audit[i].manual /\ audit[i].at = t

UsageKept ==
    /\ \A i \in DOMAIN audit : audit[i].action = "search" /\ ~audit[i].manual => audit[i].at \in used
    /\ lost = 0 => \A t \in used : \E i \in DOMAIN audit : RealSearch(i, t)

\* Rows stand in the order of their times.
InOrder == \A i, j \in DOMAIN audit : i <= j => audit[i].at <= audit[j].at

SoakInv ==
    /\ SoakTypeOK
    /\ AlarmsKept
    /\ UsageKept
    /\ InOrder
=============================================================================
