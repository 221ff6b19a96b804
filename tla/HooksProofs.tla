----------------------------- MODULE HooksProofs -----------------------------
(***************************************************************************)
(* Proofs about Hooks, for any number of hooks and of other processes.     *)
(***************************************************************************)
EXTENDS Hooks, AuditLogProofs, FiniteSetTheorems

-----------------------------------------------------------------------------
(* Every step of a hook is a step of the audit log                         *)

\* One of the two disjuncts of a step of p in the log, or a stuttering step of it.
LEMMA LogStepSuffices ==
    ASSUME NEW p \in Proc, Log(p) \/ Other(p) \/ UNCHANGED vars
    PROVE  [Next]_vars
  BY DEF Next

LEMMA HookStepIsStep == HookNext => [Next]_vars
  <1> SUFFICES ASSUME HookNext PROVE [Next]_vars
    OBVIOUS
  <1> USE HookProcAssumption
  <1>1. ASSUME NEW h \in HookProc, NEW how, Exit(h, how) PROVE [Next]_vars
    BY <1>1, LogStepSuffices DEF Exit, Other
  <1>2. ASSUME NEW h \in HookProc, NEW point, Begin(h, point) PROVE [Next]_vars
    BY <1>2 DEF Begin
  <1>3. ASSUME NEW h \in HookProc, NEW point, Logging(h, point) PROVE [Next]_vars
    BY <1>3, LogStepSuffices DEF Logging, Log
  <1>4. ASSUME NEW h \in HookProc, NEW from, NEW to, Logged(h, from, to) PROVE [Next]_vars
    BY <1>4, LogStepSuffices DEF Logged, Log
  <1>5. ASSUME NEW h \in HookProc, NEW point, LogRaises(h, point) PROVE [Next]_vars
    BY <1>5, LogStepSuffices DEF LogRaises, Log
  <1>6. ASSUME NEW h \in HookProc, VerifyChain(h) \/ ReportStatus(h) \/ CommitCleanUp(h)
        PROVE  [Next]_vars
    BY <1>6, LogStepSuffices DEF VerifyChain, ReportStatus, CommitCleanUp, Other
  <1>7. ASSUME NEW h \in HookProc, ManifestOk(h) \/ ManifestMismatch(h) PROVE [Next]_vars
    BY <1>7 DEF ManifestOk, ManifestMismatch
  <1>8. ASSUME NEW h \in HookProc, CleanUp(h) PROVE [Next]_vars
    BY <1>8, LogStepSuffices DEF CleanUp, Other
  <1>9. ASSUME NEW h \in HookProc, HookStep(h) PROVE [Next]_vars
    BY <1>1, <1>3, <1>4, <1>5, <1>6, <1>7, <1>8, <1>9
    DEF HookStep, AlertFails, PostDone, BrokenEntryFails, MismatchEntryFails, SessionDone, Failed
  <1>10. ASSUME NEW p \in Proc, Beside(p) PROVE [Next]_vars
    BY <1>10, LogStepSuffices DEF Beside, Other
  <1>11. QED
    BY <1>1, <1>2, <1>9, <1>10 DEF HookNext, PostToolUse, SessionStart, Killed

\* The hooks, with whatever runs beside them, use the log as AuditLog says: what
\* is proved of the log holds with them.
THEOREM HooksUseTheLog == HookSpec => Spec
  <1>1. HookInit => Init
    BY DEF HookInit
  <1>2. [HookNext]_hookVars => [Next]_vars
    BY HookStepIsStep DEF hookVars
  <1>3. QED
    BY <1>1, <1>2, PTL DEF HookSpec, Spec

-----------------------------------------------------------------------------
(* What the steps of the other processes leave as it is                    *)

\* What a run has to show stays shown.
LEMMA ShownStays ==
    ASSUME IInv, IInv', [Next]_vars, NEW run, Shown(run)
    PROVE  Shown(run)'
  BY TableGrows DEF Shown

\* A step that changes nothing of q's run and connection keeps what is said of q.
LEMMA BystanderKept ==
    ASSUME IInv, IInv', [Next]_vars, NEW q \in HookProc, HookOK(q),
           hook'[q] = hook[q], outcome'[q] = outcome[q], pc'[q] = pc[q], calls'[q] = calls[q],
           tx[q] = "none" => tx'[q] = "none"
    PROVE  HookOK(q)'
  <1>1. Shown(hook[q])' /\ Shown(outcome[q].run)'
    BY ShownStays DEF HookOK, Shown
  <1>2. Progress(q)'
    BY DEF HookOK, Progress, OneEntryEach, ChainEntry
  <1>3. OwnEntries(q)'
    BY DEF HookOK, OwnEntries
  <1>4. QED
    BY <1>1, <1>2, <1>3 DEF HookOK, OneEntryEach, ChainEntry

-----------------------------------------------------------------------------
(* One lemma for each kind of step of a hook: what holds of h after it     *)

\* What the types say of a run and of its entries.
LEMMA RunTyped ==
    ASSUME HookTypeOK, NEW h \in HookProc
    PROVE  /\ hook[h] \in Runs
           /\ hook[h].entries \subseteq EntryId
           /\ \A e \in hook[h].entries : e[2] \in Nat
  <1>1. hook[h] \in Runs
    BY DEF HookTypeOK
  <1>2. hook[h].entries \subseteq EntryId
    BY <1>1 DEF Runs
  <1>3. \A e \in EntryId : e[2] \in Nat
    BY MaxCallsAssumption DEF EntryId
  <1>4. QED
    BY <1>1, <1>2, <1>3

\* Claude Code starts the hook: the run has found nothing and logged nothing.
LEMMA BeginStep ==
    ASSUME HookInv, NEW h \in HookProc, NEW point \in {"alert", "verify"}, Begin(h, point)
    PROVE  hook' \in [HookProc -> Runs] /\ outcome' \in [HookProc -> Outcomes] /\ HookOK(h)'
  <1>1. /\ hook[h] = NoRun /\ pc'[h] = "idle" /\ UNCHANGED vars
        /\ hook' = [hook EXCEPT ![h].at = point] /\ outcome' = [outcome EXCEPT ![h] = NoOutcome]
    BY DEF HookInv, HookOK, Progress, Begin, At, vars
  <1>2. NoRun \in Runs /\ NoOutcome \in Outcomes
    BY DEF NoRun, NoOutcome, Runs, Outcomes, Points
  <1>3. hook' \in [HookProc -> Runs] /\ outcome' \in [HookProc -> Outcomes]
    BY <1>1, <1>2 DEF HookInv, HookTypeOK, Runs, Points
  <1>4. hook'[h] = [NoRun EXCEPT !.at = point] /\ outcome'[h] = NoOutcome
    BY <1>1 DEF HookInv, HookTypeOK
  <1>5. Shown(hook[h])' /\ Shown(outcome[h].run)'
    BY <1>4 DEF Shown, NoRun, NoOutcome
  <1>6. Progress(h)'
    BY <1>1, <1>4 DEF Progress, NoRun
  <1>7. OwnEntries(h)'
    BY <1>4 DEF OwnEntries, NoRun
  <1>8. QED
    BY <1>3, <1>4, <1>5, <1>6, <1>7 DEF HookOK, NoOutcome

\* The hook is left, in one of its ways: the connection closes, and what the
\* run had to show is shown by its outcome.
LEMMA ExitStep ==
    ASSUME HookInv, IInv', [Next]_vars, NEW h \in HookProc,
           NEW how \in {"alerted", "status", "exception", "killed"}, Exit(h, how),
           how = "status" => hook[h].at = "report"
    PROVE  hook' \in [HookProc -> Runs] /\ outcome' \in [HookProc -> Outcomes] /\ HookOK(h)'
  <1>1. NoRun \in Runs /\ hook[h] \in Runs
    BY DEF HookInv, HookTypeOK, NoRun, Runs, Points
  <1>2. hook' \in [HookProc -> Runs] /\ outcome' \in [HookProc -> Outcomes]
    BY <1>1 DEF HookInv, HookTypeOK, Exit, Outcomes
  <1>3. hook'[h] = NoRun /\ outcome'[h] = [how |-> how, run |-> hook[h]]
    BY DEF HookInv, HookTypeOK, Exit
  <1>4. pc'[h] = "idle" /\ tx'[h] = "none"
    BY HookProcAssumption DEF HookInv, IInv, TypeOK, Exit, Restart, Close
  <1>5. Shown(hook[h])' /\ Shown(outcome[h].run)'
    <2>1. Shown(hook[h]) /\ IInv
      BY DEF HookInv, HookOK
    <2>2. /\ Ids(db.audit) \subseteq Ids(db'.audit)
          /\ Broken(db.audit) \subseteq Broken(db'.audit)
      BY <2>1, TableGrows
    <2>3. QED
      BY <1>3, <2>1, <2>2 DEF Shown, NoRun
  <1>6. Progress(h)' /\ OwnEntries(h)'
    BY <1>3, <1>4 DEF Progress, OwnEntries, NoRun
  <1>7. outcome'[h].how = "status" => OneEntryEach(outcome'[h].run)
    <2>1. hook[h].at = "report" => OneEntryEach(hook[h])
      BY DEF HookInv, HookOK, Progress
    <2>2. QED
      BY <1>3, <2>1
  <1>8. QED
    BY <1>2, <1>5, <1>6, <1>7 DEF HookOK, OneEntryEach, ChainEntry

\* Inside log(), up to its return.
LEMMA LoggingStep ==
    ASSUME HookInv, IInv', [Next]_vars, NEW h \in HookProc,
           NEW point \in {"alert", "log_broken", "log_mismatch"}, Logging(h, point)
    PROVE  hook' \in [HookProc -> Runs] /\ outcome' \in [HookProc -> Outcomes] /\ HookOK(h)'
  <1>1. hook' = hook /\ outcome' = outcome /\ hook[h].at = point /\ h \in Proc
    BY HookProcAssumption DEF Logging, ownVars
  <1>2. /\ pc'[h] \in {"hashed", "prepared", "inserted", "committed"}
        /\ \/ pc[h] = "idle" /\ calls'[h] = calls[h] + 1
           \/ pc[h] \in {"hashed", "prepared", "inserted"} /\ calls'[h] = calls[h]
    BY <1>1 DEF HookInv, IInv, TypeOK, Logging, ReadLastHash, ReadNextSequence, Insert, CommitRow, Goto
  <1>3. Shown(hook[h])' /\ Shown(outcome[h].run)'
    BY <1>1, ShownStays DEF HookInv, HookOK, Shown
  <1>4. Progress(h)'
    BY <1>1, <1>2 DEF HookInv, HookOK, Progress, OneEntryEach, ChainEntry
  <1>5. OwnEntries(h)'
    <2>1. \A e \in hook[h].entries : e[2] \in Nat
      BY RunTyped DEF HookInv
    <2>2. calls[h] \in Nat
      BY <1>1, CallsTyped DEF HookInv
    <2>3. OwnEntries(h)
      BY DEF HookInv, HookOK
    <2>4. QED
      BY <1>1, <1>2, <2>1, <2>2, <2>3 DEF OwnEntries
  <1>6. QED
    BY <1>1, <1>3, <1>4, <1>5 DEF HookInv, HookTypeOK, HookOK, OneEntryEach, ChainEntry

\* The value of h's run after a step that moves it.
LEMMA Moved ==
    ASSUME HookInv, NEW h \in HookProc, NEW run \in Runs, Move(h, run)
    PROVE  /\ hook' \in [HookProc -> Runs] /\ outcome' \in [HookProc -> Outcomes]
           /\ hook'[h] = run /\ outcome'[h] = outcome[h]
  BY DEF HookInv, HookTypeOK, Move

\* What is left to show for HookOK(h)' after such a step.
LEMMA MoveSuffices ==
    ASSUME HookInv, IInv', [Next]_vars, NEW h \in HookProc, NEW run \in Runs, Move(h, run),
           Shown(run)', Progress(h)', OwnEntries(h)'
    PROVE  hook' \in [HookProc -> Runs] /\ outcome' \in [HookProc -> Outcomes] /\ HookOK(h)'
  <1>1. /\ hook' \in [HookProc -> Runs] /\ outcome' \in [HookProc -> Outcomes]
        /\ hook'[h] = run /\ outcome'[h] = outcome[h]
    BY Moved
  <1>2. Shown(outcome[h].run)'
    <2>1. IInv /\ Shown(outcome[h].run)
      BY DEF HookInv, HookOK
    <2>2. /\ Ids(db.audit) \subseteq Ids(db'.audit)
          /\ Broken(db.audit) \subseteq Broken(db'.audit)
      BY <2>1, TableGrows
    <2>3. QED
      BY <1>1, <2>1, <2>2 DEF Shown
  <1>3. Shown(hook[h])'
    BY <1>1 DEF Shown
  <1>4. outcome'[h].how = "status" => OneEntryEach(outcome'[h].run)
    BY <1>1 DEF HookInv, HookOK
  <1>5. QED
    BY <1>1, <1>2, <1>3, <1>4 DEF HookOK, OneEntryEach, ChainEntry

\* log() returns: its entry is in the table, and is one the run did not have.
LEMMA LoggedStep ==
    ASSUME HookInv, IInv', [Next]_vars, NEW h \in HookProc,
           NEW from, NEW to, Logged(h, from, to),
           <<from, to>> \in {<<"alert", "alerted">>, <<"log_broken", "manifest">>,
                             <<"log_mismatch", "cleanup">>}
    PROVE  hook' \in [HookProc -> Runs] /\ outcome' \in [HookProc -> Outcomes] /\ HookOK(h)'
  <1> DEFINE run == hook[h]
  <1>1. h \in Proc /\ run \in Runs /\ run.at = from
    BY HookProcAssumption, RunTyped DEF HookInv, Logged
  <1>2. /\ pc[h] = "committed" /\ pc'[h] = "idle"
        /\ calls'[h] = calls[h] /\ db' = db
    BY <1>1 DEF HookInv, IInv, TypeOK, Logged, ReturnEntry, Goto
  <1>3. Entry(h) \in EntryId /\ Entry(h) \in Ids(db.audit)
    <2>1. Entry(h) \in EntryId
      BY <1>1, <1>2, EntryTyped DEF HookInv
    <2>2. QED
      BY <1>1, <1>2, <2>1 DEF HookInv, IInv, FreshEntries
  <1>4. PICK moved \in Runs :
            moved = [run EXCEPT !.at = to, !.entries = @ \cup {Entry(h)}] /\ Move(h, moved)
    <2>1. [run EXCEPT !.at = to, !.entries = @ \cup {Entry(h)}] \in Runs
      BY <1>1, <1>3 DEF Runs, Points
    <2>2. QED
      BY <2>1 DEF Logged
  <1>5. Entry(h) = <<h, calls[h]>> /\ calls[h] \in Nat
    BY <1>1, CallsTyped DEF HookInv, Entry
  <1>6. Entry(h) \notin run.entries
    <2>1. ASSUME Entry(h) \in run.entries PROVE FALSE
      <3>1. Entry(h)[2] < calls[h]
        BY <1>2, <2>1 DEF HookInv, HookOK, OwnEntries
      <3>2. QED
        BY <1>5, <3>1
    <2>2. QED
      BY <2>1
  <1>7. /\ moved.at = to /\ moved.valid = run.valid /\ moved.tampered = run.tampered
        /\ moved.manifest_valid = run.manifest_valid
        /\ moved.entries = run.entries \cup {Entry(h)}
    BY <1>1, <1>4 DEF Runs
  <1>8. hook'[h] = moved
    BY <1>4, Moved
  <1>9. Shown(moved)'
    BY <1>2, <1>3, <1>7 DEF HookInv, HookOK, Shown
  <1>10. Progress(h)'
    <2>1. /\ to # "none" /\ pc'[h] \notin {"written", "hashed", "prepared", "inserted", "committed"}
          /\ to \notin {"verify", "log_broken", "log_mismatch"}
      BY <1>2
    <2>2. to = "manifest" => moved.manifest_valid /\ ChainEntry(moved)
      BY <1>1, <1>3, <1>7 DEF HookInv, HookOK, Progress, ChainEntry
    <2>3. to \in {"cleanup", "count", "report"} => OneEntryEach(moved)
      <3>1. SUFFICES ASSUME to = "cleanup" PROVE OneEntryEach(moved)
        OBVIOUS
      <3>2. ~moved.manifest_valid /\ ChainEntry(run)
        BY <1>1, <1>7, <3>1 DEF HookInv, HookOK, Progress
      <3>3. CASE run.valid
        BY <1>3, <1>7, <3>2, <3>3 DEF OneEntryEach, ChainEntry
      <3>4. CASE ~run.valid
        <4>1. PICK e \in EntryId : run.entries = {e}
          BY <3>2, <3>4 DEF ChainEntry
        <4>2. e # Entry(h) /\ moved.entries = {e, Entry(h)}
          BY <1>6, <1>7, <4>1
        <4>3. QED
          BY <1>3, <1>7, <3>2, <3>4, <4>1, <4>2 DEF OneEntryEach
      <3>5. QED
        BY <3>3, <3>4
    <2>4. QED
      BY <1>2, <1>7, <1>8, <2>1, <2>2, <2>3 DEF Progress, OneEntryEach, ChainEntry
  <1>11. OwnEntries(h)'
    <2>1. \A e \in run.entries : e[1] = h /\ e[2] <= calls[h]
      BY DEF HookInv, HookOK, OwnEntries
    <2>2. QED
      BY <1>2, <1>5, <1>7, <1>8, <2>1 DEF OwnEntries
  <1>12. QED
    BY <1>4, <1>9, <1>10, <1>11, MoveSuffices

\* log() raises in a hook: where the run goes on, and what it has lost.
LEMMA LogRaisesStep ==
    ASSUME HookInv, IInv', [Next]_vars, NEW h \in HookProc,
           AlertFails(h) \/ BrokenEntryFails(h) \/ MismatchEntryFails(h)
    PROVE  hook' \in [HookProc -> Runs] /\ outcome' \in [HookProc -> Outcomes] /\ HookOK(h)'
  <1> DEFINE run == hook[h]
  <1>1. h \in Proc /\ run \in Runs
    BY HookProcAssumption, RunTyped DEF HookInv
  <1>2. /\ pc'[h] = "idle" /\ calls'[h] = calls[h] /\ db' = db
        /\ pc[h] = "prepared"
    BY <1>1 DEF HookInv, IInv, TypeOK, AlertFails, BrokenEntryFails, MismatchEntryFails, LogRaises,
                InsertDuplicate, InsertRefused, Goto, Write, Refused
  <1>3. PICK to \in Runs :
            /\ Move(h, to) /\ to.entries = run.entries /\ to.valid = run.valid
            /\ to.tampered = run.tampered
            /\ \/ to.at \in {"alerted", "failed"} /\ to.manifest_valid = run.manifest_valid
               \/ to.at = "cleanup" /\ to.manifest_valid = TRUE /\ run.at = "log_mismatch"
    <2>1. CASE AlertFails(h)
      <3>1. [run EXCEPT !.at = "alerted"] \in Runs
        BY <1>1 DEF Runs, Points
      <3>2. QED
        BY <1>1, <2>1, <3>1 DEF AlertFails, Goes, Runs, Points
    <2>2. CASE BrokenEntryFails(h)
      <3>1. [run EXCEPT !.at = "failed"] \in Runs
        BY <1>1 DEF Runs, Points
      <3>2. QED
        BY <1>1, <2>2, <3>1 DEF BrokenEntryFails, Goes, Runs, Points
    <2>3. CASE MismatchEntryFails(h)
      <3>1. [run EXCEPT !.at = "cleanup", !.manifest_valid = TRUE] \in Runs
        BY <1>1 DEF Runs, Points
      <3>2. QED
        BY <1>1, <2>3, <3>1 DEF MismatchEntryFails, LogRaises, Runs, Points
    <2>4. QED
      BY <2>1, <2>2, <2>3
  <1>4. hook'[h] = to
    BY <1>3, Moved
  <1>5. Shown(to)'
    BY <1>2, <1>3 DEF HookInv, HookOK, Shown
  <1>6. Progress(h)'
    <2>1. to.at = "cleanup" => OneEntryEach(to)
      BY <1>3 DEF HookInv, HookOK, Progress, OneEntryEach, ChainEntry
    <2>2. QED
      BY <1>2, <1>3, <1>4, <2>1 DEF Progress, OneEntryEach, ChainEntry
  <1>7. OwnEntries(h)'
    BY <1>2, <1>3, <1>4 DEF HookInv, HookOK, OwnEntries
  <1>8. QED
    BY <1>3, <1>5, <1>6, <1>7, MoveSuffices

\* session_start's own steps: the chain is verified, the manifest is.
LEMMA CheckStep ==
    ASSUME HookInv, IInv', [Next]_vars, NEW h \in HookProc,
           VerifyChain(h) \/ ManifestOk(h) \/ ManifestMismatch(h)
    PROVE  hook' \in [HookProc -> Runs] /\ outcome' \in [HookProc -> Outcomes] /\ HookOK(h)'
  <1> DEFINE run == hook[h]
  <1>1. h \in Proc /\ run \in Runs /\ IInv
    BY HookProcAssumption, RunTyped DEF HookInv
  <1>2. /\ pc'[h] = "idle" /\ pc[h] = "idle" /\ calls'[h] = calls[h] /\ db' = db
    BY <1>1 DEF HookInv, IInv, TypeOK, VerifyChain, ManifestOk, ManifestMismatch, At, Verify, Select, vars
  <1>3. PICK to \in Runs :
            /\ Move(h, to) /\ to.entries = run.entries
            /\ \/ /\ run.at = "verify" /\ to.at = "manifest" /\ to.valid = run.valid
                  /\ to.manifest_valid = run.manifest_valid
               \/ /\ run.at = "verify" /\ to.at = "log_broken" /\ to.valid = FALSE
                  /\ to.manifest_valid = run.manifest_valid /\ Broken(db.audit) # {}
               \/ /\ run.at = "manifest" /\ to.at = "cleanup" /\ to.valid = run.valid
                  /\ to.manifest_valid = run.manifest_valid
               \/ /\ run.at = "manifest" /\ to.at = "log_mismatch" /\ to.valid = run.valid
                  /\ to.manifest_valid = FALSE /\ to.tampered = TRUE
    <2>1. CASE VerifyChain(h)
      <3>1. CASE report'[h] = {}
        <4>1. [run EXCEPT !.at = "manifest"] \in Runs
          BY <1>1 DEF Runs, Points
        <4>2. QED
          BY <1>1, <2>1, <3>1, <4>1 DEF VerifyChain, At, Goes, Runs
      <3>2. CASE report'[h] # {}
        <4>1. [run EXCEPT !.at = "log_broken", !.valid = FALSE] \in Runs
          BY <1>1 DEF Runs, Points
        <4>2. report'[h] \subseteq Broken(db.audit)
          <5>1. /\ Seen(h).audit \in Seq(Row) /\ Numbered(Seen(h).audit)
                /\ IsPrefix(Seen(h).audit, db.audit)
            BY <1>1, <1>2, SeenFacts DEF Database
          <5>2. db.audit \in Seq(Row) /\ Numbered(db.audit)
            BY <1>1 DEF IInv, TypeOK, Database, SequenceGapFree, Numbered
          <5>3. Broken(Seen(h).audit) \subseteq Broken(db.audit)
            BY <5>1, <5>2, BrokenGrows
          <5>4. QED
            BY <1>1, <2>1, <5>3 DEF IInv, TypeOK, VerifyChain, Verify
        <4>3. QED
          BY <1>1, <2>1, <3>2, <4>1, <4>2 DEF VerifyChain, At, Runs
      <3>3. QED
        BY <3>1, <3>2
    <2>2. CASE ManifestOk(h)
      <3>1. [run EXCEPT !.at = "cleanup"] \in Runs
        BY <1>1 DEF Runs, Points
      <3>2. QED
        BY <1>1, <2>2, <3>1 DEF ManifestOk, At, Goes, Runs
    <2>3. CASE ManifestMismatch(h)
      <3>1. [run EXCEPT !.at = "log_mismatch", !.tampered = TRUE, !.manifest_valid = FALSE] \in Runs
        BY <1>1 DEF Runs, Points
      <3>2. QED
        BY <1>1, <2>3, <3>1 DEF ManifestMismatch, At, Runs
    <2>4. QED
      BY <2>1, <2>2, <2>3
  <1>4. hook'[h] = to
    BY <1>3, Moved
  <1>5. run.at = "verify" => run.valid /\ run.manifest_valid /\ run.entries = {}
    BY DEF HookInv, HookOK, Progress, NoRun
  <1>6. run.at = "manifest" => run.manifest_valid /\ ChainEntry(run)
    BY DEF HookInv, HookOK, Progress
  <1>7. Shown(to)'
    BY <1>2, <1>3, <1>5, <1>6 DEF HookInv, HookOK, Shown
  <1>8. Progress(h)'
    BY <1>2, <1>3, <1>4, <1>5, <1>6 DEF Progress, OneEntryEach, ChainEntry
  <1>9. OwnEntries(h)'
    BY <1>2, <1>3, <1>4 DEF HookInv, HookOK, OwnEntries
  <1>10. QED
    BY <1>3, <1>7, <1>8, <1>9, MoveSuffices

\* cleanup_expired, the count of the leases and the summary line.
LEMMA StatusStep ==
    ASSUME HookInv, IInv', [Next]_vars, NEW h \in HookProc,
           CleanUp(h) \/ ReportStatus(h)
    PROVE  hook' \in [HookProc -> Runs] /\ outcome' \in [HookProc -> Outcomes] /\ HookOK(h)'
  <1> DEFINE run == hook[h]
  <1>1. h \in Proc /\ run \in Runs /\ IInv
    BY HookProcAssumption, RunTyped DEF HookInv
  <1>2. /\ pc'[h] \in {"idle", "written"} /\ pc[h] = "idle" /\ calls'[h] = calls[h] /\ db' = db
    BY <1>1 DEF HookInv, IInv, TypeOK, CleanUp, ReportStatus, At, WriteOther, WriteOtherRefused,
                ReadOther, Goto, Select, Write, Refused
  <1>3. PICK to \in Runs :
            /\ Move(h, to) /\ to.entries = run.entries /\ to.valid = run.valid
            /\ to.manifest_valid = run.manifest_valid /\ to.tampered = run.tampered
            /\ \/ run.at = "cleanup" /\ to.at = "count"
               \/ run.at = "cleanup" /\ to.at = "failed" /\ pc'[h] = "idle"
               \/ run.at = "count" /\ to.at = "report" /\ pc'[h] = "idle"
    <2>1. \A point \in Points : [run EXCEPT !.at = point] \in Runs
      BY <1>1 DEF Runs
    <2>2. CASE CleanUp(h) /\ Goes(h, "count")
      BY <1>1, <2>1, <2>2 DEF CleanUp, At, Goes, Runs, Points
    <2>3. CASE CleanUp(h) /\ WriteOtherRefused(h) /\ Goes(h, "failed")
      BY <1>1, <1>2, <2>1, <2>3 DEF CleanUp, At, Goes, Runs, Points, WriteOtherRefused
    <2>4. CASE ReportStatus(h)
      BY <1>1, <1>2, <2>1, <2>4 DEF ReportStatus, At, Goes, Runs, Points, ReadOther
    <2>5. QED
      BY <2>2, <2>3, <2>4 DEF CleanUp
  <1>4. hook'[h] = to
    BY <1>3, Moved
  <1>5. Shown(to)'
    BY <1>2, <1>3 DEF HookInv, HookOK, Shown
  <1>6. Progress(h)'
    <2>1. OneEntryEach(run)
      BY <1>3 DEF HookInv, HookOK, Progress
    <2>2. QED
      BY <1>2, <1>3, <1>4, <2>1 DEF Progress, OneEntryEach, ChainEntry
  <1>7. OwnEntries(h)'
    BY <1>2, <1>3, <1>4 DEF HookInv, HookOK, OwnEntries
  <1>8. QED
    BY <1>3, <1>5, <1>6, <1>7, MoveSuffices

\* The commit of cleanup_expired.
LEMMA CommitCleanUpStep ==
    ASSUME HookInv, IInv', [Next]_vars, NEW h \in HookProc, CommitCleanUp(h)
    PROVE  hook' \in [HookProc -> Runs] /\ outcome' \in [HookProc -> Outcomes] /\ HookOK(h)'
  <1>1. h \in Proc /\ IInv /\ hook' = hook /\ outcome' = outcome
    BY HookProcAssumption DEF HookInv, CommitCleanUp, ownVars
  <1>2. pc[h] = "written" /\ pc'[h] = "idle" /\ calls'[h] = calls[h]
    BY <1>1 DEF IInv, TypeOK, CommitCleanUp, CommitOther, Goto
  <1>3. /\ Ids(db.audit) \subseteq Ids(db'.audit)
        /\ Broken(db.audit) \subseteq Broken(db'.audit)
    BY <1>1, TableGrows
  <1>4. Shown(hook[h])' /\ Shown(outcome[h].run)'
    BY <1>1, <1>3 DEF HookInv, HookOK, Shown
  <1>5. hook[h].at = "count"
    BY <1>2 DEF HookInv, HookOK, Progress
  <1>6. Progress(h)'
    BY <1>1, <1>2, <1>5 DEF HookInv, HookOK, Progress, OneEntryEach, ChainEntry
  <1>7. OwnEntries(h)'
    BY <1>1, <1>2 DEF HookInv, HookOK, OwnEntries
  <1>8. QED
    BY <1>1, <1>4, <1>6, <1>7 DEF HookInv, HookTypeOK, HookOK, OneEntryEach, ChainEntry

-----------------------------------------------------------------------------
(* The theorems                                                            *)

LEMMA InitHookInv == HookInit => HookInv
  <1> SUFFICES ASSUME HookInit PROVE HookInv
    OBVIOUS
  <1>1. IInv /\ TypeOK
    BY InitIInv DEF HookInit, IInv
  <1>2. hook = [h \in HookProc |-> NoRun] /\ outcome = [h \in HookProc |-> NoOutcome]
    BY DEF HookInit
  <1>3. NoRun \in Runs /\ NoOutcome \in Outcomes
    BY DEF NoRun, NoOutcome, Runs, Outcomes, Points
  <1>4. HookTypeOK
    BY <1>1, <1>2, <1>3 DEF HookTypeOK
  <1>5. ASSUME NEW h \in HookProc PROVE HookOK(h)
    <2>1. pc[h] = "idle" /\ tx[h] = "none"
      BY HookProcAssumption DEF HookInit, Init, EngineInit
    <2>2. QED
      BY <1>2, <2>1 DEF HookOK, Shown, Progress, OwnEntries, NoRun, NoOutcome
  <1>6. QED
    BY <1>1, <1>4, <1>5 DEF HookInv

\* A step of hook h, its start or its end, changes no other hook's run.
LEMMA OwnStep ==
    ASSUME HookInv, NEW h \in HookProc, NEW q \in HookProc \ {h},
           PostToolUse(h) \/ SessionStart(h) \/ HookStep(h) \/ Killed(h)
    PROVE  /\ hook'[q] = hook[q] /\ outcome'[q] = outcome[q]
           /\ pc'[q] = pc[q] /\ calls'[q] = calls[q]
           /\ tx[q] = "none" => tx'[q] = "none"
  <1>1. /\ hook'[q] = hook[q] /\ outcome'[q] = outcome[q]
        /\ Log(h) \/ Other(h) \/ UNCHANGED vars
    <2> USE DEF HookInv, HookTypeOK, Goes, Move
    <2>1. ASSUME NEW how, Exit(h, how)
          PROVE  hook'[q] = hook[q] /\ outcome'[q] = outcome[q] /\ Other(h)
      BY <2>1 DEF Exit, Other
    <2>2. ASSUME NEW point, Begin(h, point)
          PROVE  hook'[q] = hook[q] /\ outcome'[q] = outcome[q] /\ UNCHANGED vars
      BY <2>2 DEF Begin
    <2>3. ASSUME NEW point, Logging(h, point)
          PROVE  hook'[q] = hook[q] /\ outcome'[q] = outcome[q] /\ Log(h)
      BY <2>3 DEF Logging, Log, ownVars
    <2>4. ASSUME NEW from, NEW to, Logged(h, from, to)
          PROVE  hook'[q] = hook[q] /\ outcome'[q] = outcome[q] /\ Log(h)
      BY <2>4 DEF Logged, Log
    <2>5. CASE AlertFails(h) \/ BrokenEntryFails(h) \/ MismatchEntryFails(h)
      BY <2>5 DEF AlertFails, BrokenEntryFails, MismatchEntryFails, LogRaises, Log
    <2>6. CASE VerifyChain(h) \/ ManifestOk(h) \/ ManifestMismatch(h)
      BY <2>6 DEF VerifyChain, ManifestOk, ManifestMismatch, Other
    <2>7. CASE CleanUp(h) \/ ReportStatus(h) \/ CommitCleanUp(h)
      BY <2>7 DEF CleanUp, ReportStatus, CommitCleanUp, Other, ownVars
    <2>8. QED
      BY <2>1, <2>2, <2>3, <2>4, <2>5, <2>6, <2>7
      DEF HookStep, PostToolUse, SessionStart, Killed, PostDone, SessionDone, Failed
  <1>2. IInv /\ h \in Proc /\ q \in Proc \ {h}
    BY HookProcAssumption DEF HookInv
  <1>3. CASE UNCHANGED vars
    BY <1>1, <1>3 DEF vars
  <1>4. CASE Log(h) \/ Other(h)
    BY <1>1, <1>2, <1>4, OthersStay
  <1>5. QED
    BY <1>1, <1>3, <1>4

\* What holds of h after any step of its own.
LEMMA RunStep ==
    ASSUME HookInv, IInv', [Next]_vars, NEW h \in HookProc,
           PostToolUse(h) \/ SessionStart(h) \/ HookStep(h) \/ Killed(h)
    PROVE  hook' \in [HookProc -> Runs] /\ outcome' \in [HookProc -> Outcomes] /\ HookOK(h)'
  <1> DEFINE Done == hook' \in [HookProc -> Runs] /\ outcome' \in [HookProc -> Outcomes] /\ HookOK(h)'
  <1>1. CASE PostToolUse(h) \/ SessionStart(h)
    BY <1>1, BeginStep DEF PostToolUse, SessionStart
  <1>2. CASE PostDone(h) \/ SessionDone(h) \/ Failed(h) \/ Killed(h)
    BY <1>2, ExitStep DEF PostDone, SessionDone, Failed, Killed, At
  <1>3. ASSUME NEW point \in {"alert", "log_broken", "log_mismatch"}, Logging(h, point)
        PROVE  Done
    BY <1>3, LoggingStep
  <1>4. CASE Logged(h, "alert", "alerted") \/ Logged(h, "log_broken", "manifest")
             \/ Logged(h, "log_mismatch", "cleanup")
    BY <1>4, LoggedStep
  <1>5. CASE AlertFails(h) \/ BrokenEntryFails(h) \/ MismatchEntryFails(h)
    BY <1>5, LogRaisesStep
  <1>6. CASE VerifyChain(h) \/ ManifestOk(h) \/ ManifestMismatch(h)
    BY <1>6, CheckStep
  <1>7. CASE CleanUp(h) \/ ReportStatus(h)
    BY <1>7, StatusStep
  <1>8. CASE CommitCleanUp(h)
    BY <1>8, CommitCleanUpStep
  <1>9. QED
    BY <1>1, <1>2, <1>3, <1>4, <1>5, <1>6, <1>7, <1>8 DEF HookStep

\* Every step, of a hook or of a process beside it, keeps the inductive invariant.
LEMMA NextHookInv == HookInv /\ [HookNext]_hookVars => HookInv'
  <1> SUFFICES ASSUME HookInv, [HookNext]_hookVars PROVE HookInv'
    OBVIOUS
  <1>1. [Next]_vars /\ IInv
    BY HookStepIsStep DEF hookVars, HookInv
  <1>2. IInv' /\ TypeOK'
    BY <1>1, NextIInv DEF IInv
  <1>3. ASSUME NEW h \in HookProc, PostToolUse(h) \/ SessionStart(h) \/ HookStep(h) \/ Killed(h)
        PROVE  HookInv'
    <2>1. hook' \in [HookProc -> Runs] /\ outcome' \in [HookProc -> Outcomes] /\ HookOK(h)'
      BY <1>1, <1>2, <1>3, RunStep
    <2>2. ASSUME NEW q \in HookProc \ {h} PROVE HookOK(q)'
      <3>1. /\ hook'[q] = hook[q] /\ outcome'[q] = outcome[q]
            /\ pc'[q] = pc[q] /\ calls'[q] = calls[q]
            /\ tx[q] = "none" => tx'[q] = "none"
        BY <1>3, OwnStep
      <3>2. HookOK(q)
        BY DEF HookInv
      <3>3. QED
        BY <1>1, <1>2, <3>1, <3>2, BystanderKept
    <2>3. QED
      BY <1>2, <2>1, <2>2 DEF HookInv, HookTypeOK
  <1>4. ASSUME hook' = hook, outcome' = outcome,
               \A q \in HookProc : /\ pc'[q] = pc[q] /\ calls'[q] = calls[q]
                                   /\ tx[q] = "none" => tx'[q] = "none"
        PROVE  HookInv'
    <2>1. ASSUME NEW q \in HookProc PROVE HookOK(q)'
      <3>1. HookOK(q)
        BY DEF HookInv
      <3>2. QED
        BY <1>1, <1>2, <1>4, <3>1, BystanderKept
    <2>2. QED
      BY <1>2, <1>4, <2>1 DEF HookInv, HookTypeOK
  <1>5. ASSUME NEW p \in Proc \ HookProc, Beside(p) PROVE HookInv'
    <2>1. Log(p) \/ Other(p)
      BY <1>5 DEF Beside, Other
    <2>2. ASSUME NEW q \in HookProc
          PROVE  /\ pc'[q] = pc[q] /\ calls'[q] = calls[q]
                 /\ tx[q] = "none" => tx'[q] = "none"
      BY <1>1, <2>1, OthersStay, HookProcAssumption
    <2>3. QED
      BY <1>4, <1>5, <2>2 DEF Beside, ownVars
  <1>6. CASE UNCHANGED hookVars
    BY <1>4, <1>6 DEF hookVars, ownVars, vars
  <1>7. QED
    BY <1>3, <1>5, <1>6 DEF HookNext

\* The invariant the properties of the hooks follow from holds in every reachable state.
THEOREM HookInductiveInvariant == HookSpec => []HookInv
  BY InitHookInv, NextHookInv, PTL DEF HookSpec

\* Every variable of the hooks, and of the log they use, stays in its type.
THEOREM HookTypeCorrect == HookSpec => []HookTypeOK
  <1>1. HookInv => HookTypeOK
    BY DEF HookInv
  <1>2. QED
    BY <1>1, HookInductiveInvariant, PTL

\* How many entries a run has logged that has one for each thing it calls broken.
LEMMA OneEntryEachCounted ==
    ASSUME NEW run \in Runs, OneEntryEach(run)
    PROVE  Cardinality(run.entries) = Cardinality({x \in {"valid", "manifest_valid"} : ~run[x]})
  <1> DEFINE Said == {x \in {"valid", "manifest_valid"} : ~run[x]}
  <1>1. ASSUME NEW x, NEW y, x # y
        PROVE  Cardinality({x, y}) = 2 /\ Cardinality({x}) = 1
    <2>1. IsFiniteSet({x}) /\ Cardinality({x}) = 1
      BY FS_Singleton
    <2>2. Cardinality({x} \cup {y}) = Cardinality({x}) + 1
      BY <1>1, <2>1, FS_AddElement
    <2>3. {x, y} = {x} \cup {y}
      OBVIOUS
    <2>4. QED
      BY <2>1, <2>2, <2>3
  <1>2. \A x : Cardinality({x}) = 1
    BY FS_Singleton
  <1>3. CASE run.valid /\ run.manifest_valid
    BY <1>3 DEF OneEntryEach, ChainEntry
  <1>4. CASE run.valid /\ ~run.manifest_valid
    <2>1. Said = {"manifest_valid"}
      BY <1>4
    <2>2. QED
      BY <1>2, <1>4, <2>1 DEF OneEntryEach
  <1>5. CASE ~run.valid /\ run.manifest_valid
    <2>1. Said = {"valid"}
      BY <1>5
    <2>2. QED
      BY <1>2, <1>5, <2>1 DEF OneEntryEach, ChainEntry
  <1>6. CASE ~run.valid /\ ~run.manifest_valid
    <2>1. Said = {"valid", "manifest_valid"}
      BY <1>6
    <2>2. PICK e, f \in EntryId : e # f /\ run.entries = {e, f}
      BY <1>6 DEF OneEntryEach
    <2>3. Cardinality({"valid", "manifest_valid"}) = 2
      BY <1>1
    <2>4. Cardinality({e, f}) = 2
      BY <1>1, <2>2
    <2>5. QED
      BY <2>1, <2>2, <2>3, <2>4
  <1>7. QED
    BY <1>3, <1>4, <1>5, <1>6

\* What a session's status calls broken has its critical entry in the log, one for
\* each thing, whatever other processes commit meanwhile; and a chain that it
\* calls broken is broken (session_start.py:39-53, :74-81, :117-129).
THEOREM BrokenStatusIsLogged == HookSpec => []BrokenStatusLogged
  <1>1. HookInv => BrokenStatusLogged
    <2> SUFFICES ASSUME HookInv, NEW h \in HookProc, outcome[h].how = "status"
                 PROVE  LET run == outcome[h].run IN
                        /\ ~run.valid => Broken(db.audit) # {}
                        /\ run.entries \subseteq Ids(db.audit)
                        /\ Cardinality(run.entries)
                             = Cardinality({x \in {"valid", "manifest_valid"} : ~run[x]})
                        /\ ~run.manifest_valid => run.tampered
      BY DEF BrokenStatusLogged
    <2>1. outcome[h].run \in Runs
      BY DEF HookInv, HookTypeOK, Outcomes
    <2>2. Shown(outcome[h].run) /\ OneEntryEach(outcome[h].run)
      BY DEF HookInv, HookOK
    <2>3. QED
      BY <2>1, <2>2, OneEntryEachCounted DEF Shown
  <1>2. QED
    BY <1>1, HookInductiveInvariant, PTL
=============================================================================
