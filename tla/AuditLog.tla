------------------------------ MODULE AuditLog ------------------------------
(***************************************************************************)
(* AuditLogger (audit.py) used by several processes on one database.       *)
(*                                                                         *)
(* log() is two SELECTs, an INSERT and a commit, and every one of these is *)
(* a step: other processes' statements come between them.  The other       *)
(* tables (consent, files, files_fts) appear as db.rest, because a commit  *)
(* to any table moves the database on and a statement on any table needs   *)
(* the same lock.                                                          *)
(***************************************************************************)
EXTENDS Sqlite, AuditTable, SequencesExt

CONSTANTS Rest,      \* the possible contents of the other tables
          MaxCalls   \* bound: calls of log() by one process

ASSUME MaxCallsAssumption == MaxCalls \in Nat

VARIABLES pc,        \* pc[p]: where p is in log(), or in a write elsewhere
          calls,     \* calls[p]: how many times p has entered log()
          prevHash,  \* prevHash[p]: the local prev_hash of p's call
          nextSeq,   \* nextSeq[p]: the local seq of p's call
          acked,     \* the entries whose log() returned
          failed,    \* the entries whose log() raised
          report     \* report[p]: what p's last verify_chain_integrity() listed

vars == <<db, tx, view, pc, calls, prevHash, nextSeq, acked, failed, report>>

EntryId == Proc \X (1..MaxCalls)
Row == [entry_id : EntryId, prev : EntryId \cup {GenesisHash}, seq : Nat]
Database == [audit : Seq(Row), rest : Rest]

\* Mutant of Entry: the id is drawn once, not once per call.
EntryReused(p) == <<p, 0>>

\* entry_id = uuid4(): fresh, so named by the process and the number of its call.
Entry(p) == <<p, calls[p]>>

NewRow(p) == [entry_id |-> Entry(p), prev |-> prevHash[p], seq |-> nextSeq[p]]

Goto(p, from, to) ==
    /\ pc[p] = from
    /\ pc' = [pc EXCEPT ![p] = to]

Init ==
    /\ \E r \in Rest : EngineInit([audit |-> <<>>, rest |-> r])
    /\ pc = [p \in Proc |-> "idle"]
    /\ calls = [p \in Proc |-> 0]
    /\ prevHash = [p \in Proc |-> GenesisHash]
    /\ nextSeq = [p \in Proc |-> 0]
    /\ acked = {}
    /\ failed = {}
    /\ report = [p \in Proc |-> {}]

-----------------------------------------------------------------------------
(* log()                                                                   *)

\* Mutant of ReadLastHash: the hash of the last call is kept in memory.
ReadCachedHash(p) ==
    /\ calls[p] < MaxCalls
    /\ Goto(p, "idle", "hashed")
    /\ calls' = [calls EXCEPT ![p] = @ + 1]
    /\ prevHash' = [prevHash EXCEPT ![p] = IF calls[p] = 0 THEN LastHash(Seen(p).audit) ELSE Entry(p)]
    /\ Select(p)
    /\ UNCHANGED <<nextSeq, acked, failed, report>>

\* prev_hash = self._last_hash()
ReadLastHash(p) ==
    /\ calls[p] < MaxCalls
    /\ Goto(p, "idle", "hashed")
    /\ calls' = [calls EXCEPT ![p] = @ + 1]
    /\ prevHash' = [prevHash EXCEPT ![p] = LastHash(Seen(p).audit)]
    /\ Select(p)
    /\ UNCHANGED <<nextSeq, acked, failed, report>>

\* seq = self._next_sequence(): a second SELECT, which in autocommit mode may
\* see commits the first one did not.
ReadNextSequence(p) ==
    /\ Goto(p, "hashed", "prepared")
    /\ nextSeq' = [nextSeq EXCEPT ![p] = NextSequence(Seen(p).audit)]
    /\ Select(p)
    /\ UNCHANGED <<calls, prevHash, acked, failed, report>>

\* The UNIQUE index on audit.sequence_num.
SequenceTaken(p) == \E i \in DOMAIN Seen(p).audit : Seen(p).audit[i].seq = nextSeq[p]

\* Mutant of Insert: INSERT OR REPLACE.
InsertOrReplace(p) ==
    /\ Goto(p, "prepared", "inserted")
    /\ Write(p, [audit |-> Append(SelectSeq(Seen(p).audit, LAMBDA row : row.seq # nextSeq[p]),
                                  NewRow(p)),
                 rest |-> Seen(p).rest])
    /\ UNCHANGED <<calls, prevHash, nextSeq, acked, failed, report>>

\* Mutant of Insert: the entry is acknowledged before it is committed.
InsertAcks(p) ==
    /\ Goto(p, "prepared", "inserted")
    /\ ~SequenceTaken(p)
    /\ Write(p, [audit |-> Append(Seen(p).audit, NewRow(p)), rest |-> Seen(p).rest])
    /\ acked' = acked \cup {Entry(p)}
    /\ UNCHANGED <<calls, prevHash, nextSeq, failed, report>>

Insert(p) ==
    /\ Goto(p, "prepared", "inserted")
    /\ ~SequenceTaken(p)
    /\ Write(p, [audit |-> Append(Seen(p).audit, NewRow(p)), rest |-> Seen(p).rest])
    /\ UNCHANGED <<calls, prevHash, nextSeq, acked, failed, report>>

\* The locals of a call that is over are dropped.
Forget(p) ==
    /\ prevHash' = [prevHash EXCEPT ![p] = GenesisHash]
    /\ nextSeq' = [nextSeq EXCEPT ![p] = 0]

\* Mutant of InsertDuplicate: INSERT OR IGNORE, and log() goes on.
InsertOrIgnore(p) ==
    /\ Goto(p, "prepared", "inserted")
    /\ SequenceTaken(p)
    /\ Write(p, Seen(p))
    /\ UNCHANGED <<calls, prevHash, nextSeq, acked, failed, report>>

\* IntegrityError out of log(): the row is not in, but the statement had
\* already taken the write lock, and the transaction stays open.
InsertDuplicate(p) ==
    /\ Goto(p, "prepared", "idle")
    /\ SequenceTaken(p)
    /\ Write(p, Seen(p))
    /\ failed' = failed \cup {Entry(p)}
    /\ Forget(p)
    /\ UNCHANGED <<calls, acked, report>>

\* OperationalError("database is locked") out of log().
InsertRefused(p) ==
    /\ Goto(p, "prepared", "idle")
    /\ Refused(p)
    /\ failed' = failed \cup {Entry(p)}
    /\ Forget(p)
    /\ UNCHANGED <<calls, acked, report>>

CommitRow(p) ==
    /\ Goto(p, "inserted", "committed")
    /\ Commit(p)
    /\ UNCHANGED <<calls, prevHash, nextSeq, acked, failed, report>>

ReturnEntry(p) ==
    /\ Goto(p, "committed", "idle")
    /\ acked' = acked \cup {Entry(p)}
    /\ Forget(p)
    /\ UNCHANGED <<db, tx, view, calls, failed, report>>

-----------------------------------------------------------------------------
(* Everything else a process does with its connection                      *)

\* Mutant of Verify: a broken row is replaced by the recomputed hash, so that
\* every row after it is reported too.
VerifyCascading(p) ==
    /\ pc[p] = "idle"
    /\ LET rows == Seen(p).audit IN
       report' = [report EXCEPT ![p] =
                     {rows[i].entry_id : i \in {j \in DOMAIN rows : \E k \in BrokenAt(rows) : k <= j}}]
    /\ Select(p)
    /\ UNCHANGED <<pc, calls, prevHash, nextSeq, acked, failed>>

\* verify_chain_integrity()
Verify(p) ==
    /\ pc[p] = "idle"
    /\ report' = [report EXCEPT ![p] = Broken(Seen(p).audit)]
    /\ Select(p)
    /\ UNCHANGED <<pc, calls, prevHash, nextSeq, acked, failed>>

\* A SELECT on another table (consent.check, search, list_volumes, ...).
ReadOther(p) ==
    /\ pc[p] = "idle"
    /\ Select(p)
    /\ UNCHANGED <<pc, calls, prevHash, nextSeq, acked, failed, report>>

\* The statements of a write to other tables (consent.grant, revoke,
\* cleanup_expired, indexer._index_one), up to but not including its commit.
\* An UPDATE that matches no row leaves the contents alone.
WriteOther(p, r) ==
    /\ Goto(p, "idle", "written")
    /\ Write(p, [audit |-> Seen(p).audit, rest |-> r])
    /\ UNCHANGED <<calls, prevHash, nextSeq, acked, failed, report>>

WriteOtherRefused(p) ==
    /\ pc[p] = "idle"
    /\ Refused(p)
    /\ UNCHANGED <<pc, calls, prevHash, nextSeq, acked, failed, report>>

\* One of those statements raises after an earlier one has written: what was
\* written is neither committed nor rolled back, and the lock is kept.
WriteOtherRaises(p, r) ==
    /\ pc[p] = "idle"
    /\ Write(p, [audit |-> Seen(p).audit, rest |-> r])
    /\ UNCHANGED <<pc, calls, prevHash, nextSeq, acked, failed, report>>

CommitOther(p) ==
    /\ Goto(p, "written", "idle")
    /\ Commit(p)
    /\ UNCHANGED <<calls, prevHash, nextSeq, acked, failed, report>>

\* The process ends (a CLI command or hook exits, a server is stopped, or it
\* is killed anywhere) and another takes its place.
Restart(p) ==
    /\ pc' = [pc EXCEPT ![p] = "idle"]
    /\ report' = [report EXCEPT ![p] = {}]
    /\ Close(p)
    /\ Forget(p)
    /\ UNCHANGED <<calls, acked, failed>>

-----------------------------------------------------------------------------
Log(p) ==
    \/ ReadLastHash(p) \/ ReadNextSequence(p)
    \/ Insert(p) \/ InsertDuplicate(p) \/ InsertRefused(p)
    \/ CommitRow(p) \/ ReturnEntry(p)

Other(p) ==
    \/ Verify(p) \/ ReadOther(p)
    \/ \E r \in Rest : WriteOther(p, r) \/ WriteOtherRaises(p, r)
    \/ WriteOtherRefused(p) \/ CommitOther(p)
    \/ Restart(p)

Next == \E p \in Proc : Log(p) \/ Other(p)

Spec == Init /\ [][Next]_vars

-----------------------------------------------------------------------------
(* Properties                                                              *)

TypeOK ==
    /\ db \in Database
    /\ tx \in [Proc -> TxStates]
    /\ view \in [Proc -> Database \cup {NoView}]
    /\ \A p \in Proc : tx[p] \in {"read", "stale", "write"} => view[p] \in Database
    /\ pc \in [Proc -> {"idle", "hashed", "prepared", "inserted", "committed", "written"}]
    /\ calls \in [Proc -> 0..MaxCalls]
    /\ prevHash \in [Proc -> EntryId \cup {GenesisHash}]
    /\ nextSeq \in [Proc -> Nat]
    /\ acked \subseteq EntryId
    /\ failed \subseteq EntryId
    /\ report \in [Proc -> SUBSET EntryId]

\* The sequence numbers of the committed rows are 1, 2, 3, ... in the order of
\* the commits: however the MAX(sequence_num)+1 of one process and the INSERT
\* of another interleave (audit.py:194-197, :93), no number is skipped and
\* none is used twice.
SequenceGapFree == \A i \in DOMAIN db.audit : db.audit[i].seq = i

\* No row is chained to a row that is not in the table, to itself or to a
\* later row: the hash log() read (audit.py:50) never belongs to an entry
\* that was rolled back, raised or is still pending.
ChainedBackwards ==
    \A i \in DOMAIN db.audit :
        \/ db.audit[i].prev = GenesisHash
        \/ \E j \in 1..(i - 1) : db.audit[i].prev = db.audit[j].entry_id

\* log() tells the truth: the entry it returned is committed, and the entry
\* it raised for is not, and does not slip in with a later commit of the same
\* connection although the failed statement's transaction stays open.
OutcomeTruthful ==
    /\ acked \subseteq Ids(db.audit)
    /\ failed \cap Ids(db.audit) = {}

\* What a break means.  A row whose hash does not follow from the row before it
\* was written by another process than that row: the calls of one process,
\* with all their failures and restarts, never break the chain by themselves.
BreaksBetweenProcesses ==
    \A i \in BrokenAt(db.audit) :
        i > 1 /\ db.audit[i].entry_id[1] # db.audit[i - 1].entry_id[1]

\* A pending INSERT extends the last commit by one row: no row of another
\* process is lost under it, whatever else is pending in the same transaction
\* (audit.py:93-117).
NoLostUpdate ==
    \A p \in Proc : pc[p] = "inserted" =>
        view[p].audit = Append(db.audit, NewRow(p))

\* Every snapshot is a past state of the table, and a snapshot that may still
\* be written from is the present one.
SnapshotsArePast ==
    \A p \in Proc :
        /\ tx[p] \in {"read", "stale"} => IsPrefix(view[p].audit, db.audit)
        /\ tx[p] = "read" => view[p] = db

\* At most one connection holds the write lock.
OneWriter == \A p, q \in Proc : tx[p] = "write" /\ tx[q] = "write" => p = q

\* verify_chain_integrity() never reports an entry as broken that is not: a
\* report made from a snapshot or before later commits stays true.
ReportsStayTrue == \A p \in Proc : report[p] \subseteq Broken(db.audit)

\* No step of any process changes or removes a committed row.
AppendOnly == [][IsPrefix(db.audit, db'.audit)]_vars

\* verify_chain_integrity() finds nothing in a log nobody tampered with.  True
\* of one process, with its crashes; false of two.
ChainIntact == Broken(db.audit) = {}

\* log() never raises.  True of one process: its UNIQUE index and its lock are
\* only ever in another's way.
LogNeverRaises == failed = {}

\* The processes together implement the audit trail: every commit of a row is
\* an append, and every return or raise is true.
Trail == INSTANCE AuditTrail WITH EntryIds <- EntryId, trail <- db.audit
ImplementsTrail == Trail!TrailSpec
-----------------------------------------------------------------------------
(* The inductive invariant: what the properties above rest on              *)

InCall(p) == pc[p] \in {"hashed", "prepared", "inserted"}

\* Where the lock is, and what its holder is about to commit.
LockDiscipline ==
    \A p \in Proc :
        /\ pc[p] \in {"inserted", "written"} => tx[p] = "write"
        /\ tx[p] = "write" /\ pc[p] # "inserted" => view[p].audit = db.audit

\* The number log() will use is at most one past the end; the one an INSERT
\* did use is exactly that.
SequenceBound ==
    \A p \in Proc :
        /\ pc[p] = "prepared" => nextSeq[p] \in 1..(Len(db.audit) + 1)
        /\ pc[p] = "inserted" => nextSeq[p] = Len(db.audit) + 1

\* Entry ids are fresh: the one of a call in progress has not been used, and
\* the ones already used belong to calls already made.
FreshEntries ==
    \A p \in Proc :
        /\ \A n \in 1..MaxCalls :
              <<p, n>> \in Ids(db.audit) \cup failed =>
                  n <= calls[p] /\ (InCall(p) => n < calls[p])
        /\ pc[p] \in {"hashed", "prepared", "inserted", "committed"} => calls[p] > 0
        /\ pc[p] = "committed" => Entry(p) \in Ids(db.audit)

\* The hash in hand is that of the last row, or of a row after which only
\* others have committed.  (From a stale snapshot nothing will be inserted.)
HashInHand ==
    \A p \in Proc : InCall(p) /\ tx[p] # "stale" =>
        \E k \in 0..Len(db.audit) :
            /\ prevHash[p] = IF k = 0 THEN GenesisHash ELSE db.audit[k].entry_id
            /\ \A j \in (k + 1)..Len(db.audit) : db.audit[j].entry_id[1] # p

IInv ==
    /\ TypeOK
    /\ OneWriter
    /\ NoLostUpdate
    /\ SnapshotsArePast
    /\ LockDiscipline
    /\ SequenceGapFree
    /\ SequenceBound
    /\ FreshEntries
    /\ OutcomeTruthful
    /\ ChainedBackwards
    /\ HashInHand
    /\ BreaksBetweenProcesses
=============================================================================
