------------------------------- MODULE Sqlite -------------------------------
(***************************************************************************)
(* The database engine as this code uses it: one WAL-mode SQLite file,     *)
(* opened once by every process (db.open_db), through Python's sqlite3     *)
(* module with its default transaction control.  It is not part of src/;   *)
(* what it does was read off from how db.py, audit.py, consent.py and      *)
(* indexer.py call it:                                                     *)
(*   - a SELECT outside a transaction reads the last commit;               *)
(*   - the first INSERT/UPDATE/DELETE opens a deferred transaction, and    *)
(*     needs the single write lock;                                        *)
(*   - nothing in src/ ever calls rollback(): a statement that raises      *)
(*     leaves the transaction it opened, and whatever it holds, in place.  *)
(***************************************************************************)
CONSTANTS Proc,      \* the processes: MCP servers, CLI commands, hooks
          NoView     \* a connection without a snapshot

VARIABLES db,        \* the committed database
          tx,        \* tx[p]: the transaction state of p's connection
          view       \* view[p]: the snapshot p's transaction reads and writes

engine == <<db, tx, view>>

(***************************************************************************)
(* "none"   autocommit: every SELECT sees the last commit                  *)
(* "begun"  BEGIN DEFERRED was executed, its first write was refused, and  *)
(*          no snapshot is taken yet                                       *)
(* "read"   a snapshot is pinned and is still the last commit              *)
(* "stale"  a snapshot is pinned and another process has committed since   *)
(* "write"  the connection holds the write lock                            *)
(***************************************************************************)
TxStates == {"none", "begun", "read", "stale", "write"}

EngineInit(initial) ==
    /\ db = initial
    /\ tx = [p \in Proc |-> "none"]
    /\ view = [p \in Proc |-> NoView]

\* What a statement of p reads.
Seen(p) == IF tx[p] \in {"none", "begun"} THEN db ELSE view[p]

\* A SELECT.  Inside a transaction that has no snapshot yet, it pins one.
Select(p) ==
    /\ tx' = [tx EXCEPT ![p] = IF @ = "begun" THEN "read" ELSE @]
    /\ view' = [view EXCEPT ![p] = IF tx[p] = "begun" THEN db ELSE @]
    /\ UNCHANGED db

\* Mutant of MayWrite: a write is admitted from an old snapshot.
MayWriteStale(p) == \A q \in Proc \ {p} : tx[q] # "write"

\* A write statement is admitted when no other connection holds the lock and
\* the snapshot, if there is one, is the last commit.
MayWrite(p) ==
    /\ tx[p] # "stale"
    /\ \A q \in Proc \ {p} : tx[q] # "write"

Write(p, new) ==
    /\ MayWrite(p)
    /\ tx' = [tx EXCEPT ![p] = "write"]
    /\ view' = [view EXCEPT ![p] = new]
    /\ UNCHANGED db

\* "database is locked": after the busy timeout, or at once from a stale
\* snapshot.  The transaction Python opened for the statement stays open.
Refused(p) ==
    /\ ~MayWrite(p)
    /\ tx' = [tx EXCEPT ![p] = IF @ = "none" THEN "begun" ELSE @]
    /\ UNCHANGED <<db, view>>

\* Mutant of Commit: other connections' snapshots do not go stale.
CommitUnnoticed(p) ==
    /\ tx[p] = "write"
    /\ db' = view[p]
    /\ tx' = [tx EXCEPT ![p] = "none"]
    /\ view' = [view EXCEPT ![p] = NoView]

Commit(p) ==
    /\ tx[p] = "write"
    /\ db' = view[p]
    /\ tx' = [q \in Proc |->
                 IF q = p THEN "none"
                 ELSE IF tx[q] = "read" /\ view[p] # db THEN "stale" ELSE tx[q]]
    /\ view' = [view EXCEPT ![p] = NoView]

\* The process exits, closes its connection or is killed: its transaction is
\* rolled back and its lock released.
Close(p) ==
    /\ tx' = [tx EXCEPT ![p] = "none"]
    /\ view' = [view EXCEPT ![p] = NoView]
    /\ UNCHANGED db
=============================================================================
