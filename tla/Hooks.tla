------------------------------- MODULE Hooks -------------------------------
(***************************************************************************)
(* The hooks of Claude Code (hooks/session_start.py, post_tool_use.py)     *)
(* beside other processes that use the same database.  Every run of a      *)
(* hook is a process of its own: it opens a connection, uses it and closes *)
(* it in a finally block.                                                  *)
(***************************************************************************)
EXTENDS AuditLog

CONSTANTS HookProc,   \* the processes that are hooks; the others use the log as Beside says
          MaxBeside   \* bound: calls of log() of each of the others

ASSUME HookProcAssumption == HookProc \subseteq Proc

VARIABLES hook,     \* hook[h]: the run h is in
          outcome   \* outcome[h]: how h's last run ended (history)

ownVars == <<hook, outcome>>
hookVars == <<vars, ownVars>>

\* A run: where it is; what it found of the chain and of the manifest, and what
\* it goes on with as manifest_valid; the entries it has logged.
Points == {"none", "alert", "alerted", "verify", "log_broken", "manifest",
           "log_mismatch", "cleanup", "count", "report", "failed"}
Runs == [at : Points, valid : BOOLEAN, tampered : BOOLEAN, manifest_valid : BOOLEAN,
         entries : SUBSET EntryId]
Outcomes == [how : {"none", "alerted", "status", "exception", "killed"}, run : Runs]

NoRun == [at |-> "none", valid |-> TRUE, tampered |-> FALSE, manifest_valid |-> TRUE, entries |-> {}]
NoOutcome == [how |-> "none", run |-> NoRun]

HookInit ==
    /\ Init
    /\ hook = [h \in HookProc |-> NoRun]
    /\ outcome = [h \in HookProc |-> NoOutcome]

At(h, point) == hook[h].at = point /\ pc[h] = "idle"
Move(h, run) == hook' = [hook EXCEPT ![h] = run] /\ UNCHANGED outcome
Goes(h, point) == Move(h, [hook[h] EXCEPT !.at = point])

\* Claude Code starts the hook.
Begin(h, point) ==
    /\ At(h, "none")
    /\ calls[h] < MaxCalls
    /\ hook' = [hook EXCEPT ![h].at = point]
    /\ outcome' = [outcome EXCEPT ![h] = NoOutcome]
    /\ UNCHANGED vars

\* main() is left: normally, by an exception, or killed.  The connection closes.
Exit(h, how) ==
    /\ Restart(h)
    /\ hook' = [hook EXCEPT ![h] = NoRun]
    /\ outcome' = [outcome EXCEPT ![h] = [how |-> how, run |-> hook[h]]]

\* audit.log() somewhere in a hook, and its return.
Logging(h, point) ==
    /\ hook[h].at = point
    /\ ReadLastHash(h) \/ ReadNextSequence(h) \/ Insert(h) \/ CommitRow(h)
    /\ UNCHANGED ownVars

Logged(h, from, to) ==
    /\ hook[h].at = from
    /\ ReturnEntry(h)
    /\ Move(h, [hook[h] EXCEPT !.at = to, !.entries = @ \cup {Entry(h)}])

LogRaises(h, point) ==
    /\ hook[h].at = point
    /\ InsertDuplicate(h) \/ InsertRefused(h)

-----------------------------------------------------------------------------
(* post_tool_use.py: a tool result with a canary marker or with PII        *)

PostToolUse(h) == Begin(h, "alert")

\* _audit: whatever log() raises is dropped.
AlertFails(h) ==
    /\ LogRaises(h, "alert")
    /\ Goes(h, "alerted")

PostDone(h) ==
    /\ At(h, "alerted")
    /\ Exit(h, "alerted")

-----------------------------------------------------------------------------
(* session_start.py                                                        *)

SessionStart(h) == Begin(h, "verify")

\* valid, broken = verify_chain_integrity()
VerifyChain(h) ==
    /\ At(h, "verify")
    /\ Verify(h)
    /\ IF report'[h] = {} THEN Goes(h, "manifest")
       ELSE Move(h, [hook[h] EXCEPT !.at = "log_broken", !.valid = FALSE])

\* Mutant of BrokenEntryFails: the exception is caught.
BrokenEntryIgnored(h) ==
    /\ LogRaises(h, "log_broken")
    /\ Goes(h, "manifest")

\* The entry about a broken chain is not guarded: an exception ends the hook.
BrokenEntryFails(h) ==
    /\ LogRaises(h, "log_broken")
    /\ Goes(h, "failed")

\* _verify_manifest: skipped, not installed or verified ...
ManifestOk(h) ==
    /\ At(h, "manifest")
    /\ Goes(h, "cleanup")
    /\ UNCHANGED vars

\* ... or a mismatch (bound: found only while the run may still log),
ManifestMismatch(h) ==
    /\ At(h, "manifest")
    /\ calls[h] < MaxCalls
    /\ Move(h, [hook[h] EXCEPT !.at = "log_mismatch", !.tampered = TRUE, !.manifest_valid = FALSE])
    /\ UNCHANGED vars

\* whose entry is inside the try block: if log() raises, the except branch
\* returns True.
MismatchEntryFails(h) ==
    /\ LogRaises(h, "log_mismatch")
    /\ Move(h, [hook[h] EXCEPT !.at = "cleanup", !.manifest_valid = TRUE])

\* Mutant of CleanUp: it waits for the lock as long as it takes.
CleanUpWaits(h) ==
    /\ At(h, "cleanup")
    /\ \E r \in Rest : WriteOther(h, r)
    /\ Goes(h, "count")

\* consent.cleanup_expired()
CleanUp(h) ==
    /\ At(h, "cleanup")
    /\ \/ (\E r \in Rest : WriteOther(h, r)) /\ Goes(h, "count")
       \/ WriteOtherRefused(h) /\ Goes(h, "failed")

CommitCleanUp(h) ==
    /\ CommitOther(h)
    /\ UNCHANGED ownVars

\* consent.list_active() for the summary line, the status, and out.
ReportStatus(h) ==
    /\ At(h, "count")
    /\ ReadOther(h)
    /\ Goes(h, "report")

SessionDone(h) ==
    /\ At(h, "report")
    /\ Exit(h, "status")

Failed(h) ==
    /\ At(h, "failed")
    /\ Exit(h, "exception")

Killed(h) == hook[h].at # "none" /\ Exit(h, "killed")

-----------------------------------------------------------------------------
HookStep(h) ==
    \/ \E point \in {"alert", "log_broken", "log_mismatch"} : Logging(h, point)
    \/ Logged(h, "alert", "alerted") \/ AlertFails(h) \/ PostDone(h)
    \/ VerifyChain(h)
    \/ Logged(h, "log_broken", "manifest") \/ BrokenEntryFails(h)
    \/ ManifestOk(h) \/ ManifestMismatch(h)
    \/ Logged(h, "log_mismatch", "cleanup") \/ MismatchEntryFails(h)
    \/ CleanUp(h) \/ CommitCleanUp(h) \/ ReportStatus(h) \/ SessionDone(h) \/ Failed(h)

\* A server or a command.  (That it verifies the chain too, at its start or for
\* its operator, changes nothing but its own report.)
Beside(p) ==
    /\ \/ Log(p) /\ (pc[p] = "idle" => calls[p] < MaxBeside)
       \/ ReadOther(p) \/ Restart(p)
       \/ \E r \in Rest : WriteOther(p, r) \/ WriteOtherRaises(p, r)
       \/ WriteOtherRefused(p) \/ CommitOther(p)
    /\ UNCHANGED ownVars

HookNext ==
    \/ \E h \in HookProc : PostToolUse(h) \/ SessionStart(h) \/ HookStep(h) \/ Killed(h)
    \/ \E p \in Proc \ HookProc : Beside(p)

HookSpec == HookInit /\ [][HookNext]_hookVars

\* A hook that was started runs; Claude Code need not start or kill one, and
\* the other processes may stop anywhere, a lock in hand.
HookFairSpec == HookSpec /\ \A h \in HookProc : WF_hookVars(HookStep(h))

-----------------------------------------------------------------------------
(* Properties                                                              *)

HookTypeOK ==
    /\ TypeOK
    /\ hook \in [HookProc -> Runs]
    /\ outcome \in [HookProc -> Outcomes]

\* What a session's status calls broken, the chain or the manifest, has its
\* critical entry in the log, one each, whatever the other processes commit; and
\* a chain that it calls broken is.  (What cannot be logged is not called broken:
\* a mismatch whose entry fails is reported as a manifest in order,
\* session_start.py:39-53, :74-81, :117-129.)
BrokenStatusLogged ==
    \A h \in HookProc :
        LET run == outcome[h].run IN
        outcome[h].how = "status" =>
            /\ ~run.valid => Broken(db.audit) # {}
            /\ run.entries \subseteq Ids(db.audit)
            /\ Cardinality(run.entries) = Cardinality({x \in {"valid", "manifest_valid"} : ~run[x]})
            /\ ~run.manifest_valid => run.tampered

\* A hook never keeps the session or the tool flow waiting for ever, not even
\* for a process that holds the write lock and does nothing
\* (post_tool_use.py:69-71).
HooksEnd == \A h \in HookProc : (hook[h].at # "none") ~> (hook[h].at = "none")
-----------------------------------------------------------------------------
(* The inductive invariant: what the properties above rest on              *)

\* The entries of a run that has dealt with the chain, and of one that has dealt
\* with the manifest too: one for each thing it calls broken.
ChainEntry(run) ==
    IF run.valid THEN run.entries = {} ELSE \E e \in EntryId : run.entries = {e}

OneEntryEach(run) ==
    IF run.manifest_valid THEN ChainEntry(run)
    ELSE IF run.valid THEN \E e \in EntryId : run.entries = {e}
    ELSE \E e, f \in EntryId : e # f /\ run.entries = {e, f}

\* What a run, over or not, has to show in the log for what it found.
Shown(run) ==
    /\ run.entries \subseteq Ids(db.audit)
    /\ ~run.valid => Broken(db.audit) # {}
    /\ ~run.manifest_valid => run.tampered

\* Where a run stands with its connection, its findings and its entries.
Progress(h) ==
    LET run == hook[h] IN
    /\ run.at = "none" => run = NoRun /\ pc[h] = "idle" /\ tx[h] = "none"
    /\ pc[h] = "written" => run.at = "count"
    /\ pc[h] \notin {"idle", "written"} => run.at \in {"alert", "log_broken", "log_mismatch"}
    /\ run.at = "verify" => run = [NoRun EXCEPT !.at = "verify"]
    /\ run.at = "log_broken" => ~run.valid /\ run.manifest_valid /\ run.entries = {}
    /\ run.at = "manifest" => run.manifest_valid /\ ChainEntry(run)
    /\ run.at = "log_mismatch" => ~run.manifest_valid /\ ChainEntry(run)
    /\ run.at \in {"cleanup", "count", "report"} => OneEntryEach(run)

\* The entries of a run are of calls h made and that have returned.
OwnEntries(h) ==
    \A e \in hook[h].entries :
        e[1] = h /\ e[2] <= calls[h] /\ (pc[h] \notin {"idle", "written"} => e[2] < calls[h])

HookOK(h) ==
    /\ Shown(hook[h]) /\ Progress(h) /\ OwnEntries(h)
    /\ Shown(outcome[h].run)
    /\ outcome[h].how = "status" => OneEntryEach(outcome[h].run)

HookInv ==
    /\ IInv
    /\ HookTypeOK
    /\ \A h \in HookProc : HookOK(h)
=============================================================================
