--------------------------- MODULE AuditLogProofs ---------------------------
(***************************************************************************)
(* Proofs about AuditLog, for any number of processes, calls and contents  *)
(* of the other tables.                                                    *)
(***************************************************************************)
EXTENDS AuditLog, TLAPS

-----------------------------------------------------------------------------
(* What the queries of audit.py return on a table numbered 1, 2, 3, ...    *)

Numbered(rows) == \A i \in DOMAIN rows : rows[i].seq = i

\* The row with the greatest sequence_num among 1..n is row n.
LEMMA NewestOfNumbered ==
    ASSUME NEW S, NEW rows \in Seq(S), Numbered(rows), NEW n \in 1..Len(rows)
    PROVE  Newest(rows, 1..n) = n
  <1> DEFINE P(i) == i \in 1..n /\ \A j \in 1..n : rows[j].seq <= rows[i].seq
  <1>1. P(n)
    BY DEF Numbered
  <1>2. ASSUME NEW i \in 1..n, P(i) PROVE i = n
    BY <1>2 DEF Numbered
  <1>3. QED
    BY <1>1, <1>2 DEF Newest

\* SELECT hash_chain ... ORDER BY sequence_num DESC LIMIT 1 finds the last row.
LEMMA LastHashOfNumbered ==
    ASSUME NEW S, NEW rows \in Seq(S), Numbered(rows)
    PROVE  LastHash(rows) = IF Len(rows) = 0 THEN GenesisHash ELSE rows[Len(rows)].entry_id
  <1>1. CASE Len(rows) = 0
    BY <1>1 DEF LastHash, HashAt
  <1>2. CASE Len(rows) # 0
    <2>1. Len(rows) \in 1..Len(rows) /\ DOMAIN rows = 1..Len(rows)
      BY <1>2
    <2>2. Newest(rows, DOMAIN rows) = Len(rows)
      BY <2>1, NewestOfNumbered
    <2>3. QED
      BY <1>2, <2>1, <2>2 DEF LastHash, HashAt
  <1>3. QED
    BY <1>1, <1>2

\* MAX(sequence_num) + 1 is the number after the last row's.
LEMMA NextSequenceOfNumbered ==
    ASSUME NEW S, NEW rows \in Seq(S), Numbered(rows)
    PROVE  NextSequence(rows) = Len(rows) + 1
  <1>1. CASE rows = <<>>
    BY <1>1 DEF NextSequence
  <1>2. CASE rows # <<>>
    <2>1. Len(rows) \in 1..Len(rows) /\ DOMAIN rows = 1..Len(rows)
      BY <1>2
    <2>2. Newest(rows, DOMAIN rows) = Len(rows)
      BY <2>1, NewestOfNumbered
    <2>3. QED
      BY <1>2, <2>1, <2>2 DEF NextSequence, Numbered
  <1>3. QED
    BY <1>1, <1>2

\* The row that verify_chain_integrity() compares row i with is row i - 1.
LEMMA PredecessorOfNumbered ==
    ASSUME NEW S, NEW rows \in Seq(S), Numbered(rows), NEW i \in DOMAIN rows
    PROVE  HashAt(rows, Before(rows, i)) =
               IF i = 1 THEN GenesisHash ELSE rows[i - 1].entry_id
  <1>1. Before(rows, i) = 1..(i - 1)
    BY DEF Before, Numbered
  <1>2. CASE i = 1
    BY <1>1, <1>2 DEF HashAt
  <1>3. CASE i # 1
    <2>1. i - 1 \in 1..Len(rows)
      BY <1>3
    <2>2. Newest(rows, 1..(i - 1)) = i - 1
      BY <2>1, NewestOfNumbered
    <2>3. QED
      BY <1>1, <1>3, <2>1, <2>2 DEF HashAt
  <1>4. QED
    BY <1>2, <1>3

\* Appending a row keeps the old rows where they are.
LEMMA Appended ==
    ASSUME NEW S, NEW rows \in Seq(S), NEW row \in S
    PROVE  /\ Append(rows, row) \in Seq(S)
           /\ Len(Append(rows, row)) = Len(rows) + 1
           /\ DOMAIN Append(rows, row) = 1..(Len(rows) + 1)
           /\ \A i \in 1..Len(rows) : Append(rows, row)[i] = rows[i]
           /\ Append(rows, row)[Len(rows) + 1] = row
  OBVIOUS

\* Prefixes, as AppendOnly and SnapshotsArePast use them.
LEMMA PrefixReflexive ==
    ASSUME NEW S, NEW rows \in Seq(S)
    PROVE  IsPrefix(rows, rows)
  BY DEF IsPrefix

\* A prefix agrees with the whole on the rows it has.
LEMMA PrefixFacts ==
    ASSUME NEW S, NEW rows \in Seq(S), NEW old \in Seq(S), IsPrefix(old, rows)
    PROVE  /\ Len(old) <= Len(rows)
           /\ \A i \in 1..Len(old) : old[i] = rows[i]
  <1>1. SubSeq(old, 1, Len(old)) = SubSeq(rows, 1, Len(old)) /\ Len(old) <= Len(rows)
    BY DEF IsPrefix
  <1>2. \A i \in 1..Len(old) :
            SubSeq(old, 1, Len(old))[i] = old[i] /\ SubSeq(rows, 1, Len(old))[i] = rows[i]
    BY <1>1
  <1>3. QED
    BY <1>1, <1>2

\* A past state of a table is a past state of the longer table.
LEMMA PrefixOfAppended ==
    ASSUME NEW S, NEW rows \in Seq(S), NEW row \in S, NEW old \in Seq(S), IsPrefix(old, rows)
    PROVE  IsPrefix(old, Append(rows, row))
  <1>1. Len(old) <= Len(rows) /\ \A i \in 1..Len(old) : old[i] = rows[i]
    BY PrefixFacts
  <1>2. QED
    BY <1>1, Appended DEF IsPrefix

-----------------------------------------------------------------------------
(* Snapshots                                                               *)

\* What a process between two writes sees: a past state of the table, and the
\* present one unless its snapshot has gone stale.
LEMMA SeenFacts ==
    ASSUME IInv, NEW p \in Proc, pc[p] \notin {"inserted", "written"}
    PROVE  /\ Seen(p) \in Database
           /\ tx[p] # "stale" => Seen(p).audit = db.audit
           /\ IsPrefix(Seen(p).audit, db.audit)
           /\ Numbered(Seen(p).audit)
           /\ Len(Seen(p).audit) <= Len(db.audit)
  <1>1. Seen(p) \in Database
    BY DEF IInv, TypeOK, Seen, TxStates
  <1>2. tx[p] # "stale" => Seen(p).audit = db.audit
    BY DEF IInv, TypeOK, Seen, TxStates, SnapshotsArePast, LockDiscipline
  <1>3. db.audit \in Seq(Row) /\ Seen(p).audit \in Seq(Row)
    BY <1>1 DEF IInv, TypeOK, Database
  <1>4. IsPrefix(Seen(p).audit, db.audit)
    <2>1. CASE tx[p] = "stale"
      BY <2>1 DEF IInv, SnapshotsArePast, Seen
    <2>2. CASE tx[p] # "stale"
      BY <2>2, <1>2, <1>3, PrefixReflexive
    <2>3. QED
      BY <2>1, <2>2
  <1>5. /\ Len(Seen(p).audit) <= Len(db.audit)
        /\ \A i \in 1..Len(Seen(p).audit) : Seen(p).audit[i] = db.audit[i]
    BY <1>3, <1>4, PrefixFacts
  <1>6. Numbered(Seen(p).audit)
    BY <1>3, <1>5 DEF Numbered, IInv, SequenceGapFree
  <1>7. QED
    BY <1>1, <1>2, <1>4, <1>5, <1>6
-----------------------------------------------------------------------------
(* The engine                                                              *)

\* A SELECT changes no snapshot that is already there and takes no lock.
LEMMA SelectFacts ==
    ASSUME IInv, NEW p \in Proc, Select(p)
    PROVE  /\ db' = db
           /\ tx' \in [Proc -> TxStates]
           /\ view' \in [Proc -> Database \cup {NoView}]
           /\ \A q \in Proc :
                 tx'[q] \in {"read", "stale", "write"} => view'[q] \in Database
           /\ SnapshotsArePast'
  <1>1. /\ db' = db
        /\ tx' \in [Proc -> TxStates]
        /\ view' \in [Proc -> Database \cup {NoView}]
        /\ \A q \in Proc : tx'[q] \in {"read", "stale", "write"} => view'[q] \in Database
    BY DEF IInv, TypeOK, Select, TxStates
  <1>2. ASSUME NEW q \in Proc
        PROVE  \/ tx'[q] = tx[q] /\ view'[q] = view[q]
               \/ tx'[q] = "read" /\ view'[q] = db
    BY DEF IInv, TypeOK, Select
  <1>3. IsPrefix(db.audit, db.audit)
    BY PrefixReflexive DEF IInv, TypeOK, Database
  <1>4. SnapshotsArePast'
    BY <1>1, <1>2, <1>3 DEF IInv, SnapshotsArePast
  <1>5. QED
    BY <1>1, <1>4

\* A commit frees the lock and leaves behind the snapshots of all others.
LEMMA CommitFacts ==
    ASSUME IInv, NEW p \in Proc, Commit(p)
    PROVE  /\ db' = view[p]
           /\ db' \in Database
           /\ tx' \in [Proc -> TxStates]
           /\ view' \in [Proc -> Database \cup {NoView}]
           /\ tx'[p] = "none"
           /\ \A q \in Proc \ {p} :
                 /\ view'[q] = view[q]
                 /\ tx[q] # "write"
                 /\ tx'[q] = IF tx[q] = "read" /\ db' # db THEN "stale" ELSE tx[q]
  <1>1. \A q \in Proc \ {p} : tx[q] # "write"
    BY DEF IInv, OneWriter, Commit
  <1>2. QED
    BY <1>1 DEF IInv, TypeOK, Commit, TxStates

\* The number of a process's calls.
LEMMA CallsTyped ==
    ASSUME IInv, NEW p \in Proc
    PROVE  calls[p] \in Nat
  <1>1. calls[p] \in 0..MaxCalls
    BY DEF IInv, TypeOK
  <1>2. QED
    BY <1>1, MaxCallsAssumption

\* The entry of a call that is under way is one of the entries there can be.
LEMMA EntryTyped ==
    ASSUME IInv, NEW p \in Proc, pc[p] \in {"hashed", "prepared", "inserted", "committed"}
    PROVE  Entry(p) \in EntryId
  BY MaxCallsAssumption DEF IInv, TypeOK, FreshEntries, Entry, EntryId

\* A call that is under way has not written its entry yet, nor failed.
LEMMA EntryUnused ==
    ASSUME IInv, NEW p \in Proc, InCall(p)
    PROVE  Entry(p) \notin Ids(db.audit) \cup failed
  <1>1. calls[p] \in 1..MaxCalls
    BY MaxCallsAssumption DEF IInv, TypeOK, FreshEntries, InCall
  <1>2. QED
    BY <1>1 DEF IInv, FreshEntries, Entry

\* What verify_chain_integrity() lists are entries of the table it read.
LEMMA BrokenTyped ==
    ASSUME NEW rows \in Seq(Row)
    PROVE  Broken(rows) \subseteq EntryId
  <1>1. \A i \in DOMAIN rows : rows[i] \in Row
    OBVIOUS
  <1>2. \A i \in DOMAIN rows : rows[i].entry_id \in EntryId
    BY <1>1 DEF Row
  <1>3. QED
    BY <1>2 DEF Broken, BrokenAt

\* The hashes log() can read.
LEMMA LastHashTyped ==
    ASSUME NEW rows \in Seq(Row), Numbered(rows)
    PROVE  LastHash(rows) \in EntryId \cup {GenesisHash}
  <1>1. LastHash(rows) = IF Len(rows) = 0 THEN GenesisHash ELSE rows[Len(rows)].entry_id
    BY LastHashOfNumbered
  <1>2. Len(rows) # 0 => rows[Len(rows)] \in Row
    OBVIOUS
  <1>3. QED
    BY <1>1, <1>2 DEF Row

\* A step of p that ends its call and commits nothing leaves the others' hashes
\* what they were.
LEMMA HashInHandKept ==
    ASSUME IInv, NEW p \in Proc, db' = db, ~InCall(p)',
           \A q \in Proc \ {p} :
               /\ InCall(q)' => InCall(q)
               /\ tx'[q] = tx[q] /\ prevHash'[q] = prevHash[q]
    PROVE  HashInHand'
  BY DEF IInv, HashInHand

-----------------------------------------------------------------------------
(* One lemma for each action: the step keeps the inductive invariant       *)

\* The hash is read from the last commit, or from a snapshot gone stale.
LEMMA ReadLastHashStep ==
    ASSUME IInv, NEW p \in Proc, ReadLastHash(p)
    PROVE  IInv'
  <1>seen. /\ Seen(p).audit \in Seq(Row)
           /\ Numbered(Seen(p).audit)
           /\ Len(Seen(p).audit) <= Len(db.audit)
           /\ tx[p] # "stale" => Seen(p).audit = db.audit
    BY SeenFacts DEF ReadLastHash, Goto, Database
  <1>sel. /\ db' = db
          /\ tx' \in [Proc -> TxStates]
          /\ view' \in [Proc -> Database \cup {NoView}]
          /\ \A q \in Proc :
                tx'[q] \in {"read", "stale", "write"} => view'[q] \in Database
          /\ SnapshotsArePast'
    BY SelectFacts DEF ReadLastHash
  <1>1. TypeOK'
    <2>1. LastHash(Seen(p).audit) \in EntryId \cup {GenesisHash}
      BY <1>seen, LastHashTyped
    <2>2. calls' \in [Proc -> 0..MaxCalls]
      BY MaxCallsAssumption DEF IInv, TypeOK, ReadLastHash
    <2>3. QED
      BY <1>sel, <2>1, <2>2 DEF IInv, TypeOK, ReadLastHash, Goto
  <1>2. OneWriter'
    BY DEF IInv, TypeOK, OneWriter, ReadLastHash, Goto, Select
  <1>3. NoLostUpdate'
    BY DEF IInv, TypeOK, NoLostUpdate, NewRow, Entry, ReadLastHash, Goto, Select
  <1>4. SnapshotsArePast'
    BY <1>sel
  <1>5. LockDiscipline'
    BY DEF IInv, TypeOK, LockDiscipline, ReadLastHash, Goto, Select
  <1>6. SequenceGapFree'
    BY DEF IInv, TypeOK, SequenceGapFree, ReadLastHash, Goto, Select
  <1>7. SequenceBound'
    BY DEF IInv, TypeOK, SequenceBound, ReadLastHash, Goto, Select
  <1>8. FreshEntries'
    BY DEF IInv, TypeOK, FreshEntries, InCall, Entry, ReadLastHash, Goto, Select
  <1>9. OutcomeTruthful'
    BY DEF IInv, TypeOK, OutcomeTruthful, ReadLastHash, Goto, Select
  <1>10. ChainedBackwards'
    BY DEF IInv, TypeOK, ChainedBackwards, ReadLastHash, Goto, Select
  <1>11. HashInHand'
    <2>1. ASSUME NEW q \in Proc \ {p}, InCall(q)', tx'[q] # "stale"
          PROVE  InCall(q) /\ tx[q] # "stale" /\ prevHash'[q] = prevHash[q]
      BY <2>1 DEF IInv, TypeOK, InCall, ReadLastHash, Goto, Select
    <2>2. ASSUME tx'[p] # "stale"
          PROVE  \E k \in 0..Len(db.audit) :
                    /\ prevHash'[p] = IF k = 0 THEN GenesisHash ELSE db.audit[k].entry_id
                    /\ \A j \in (k + 1)..Len(db.audit) : db.audit[j].entry_id[1] # p
      <3>1. Seen(p).audit = db.audit
        BY <1>seen, <2>2 DEF IInv, TypeOK, ReadLastHash, Select
      <3>2. prevHash'[p] = IF Len(db.audit) = 0 THEN GenesisHash
                           ELSE db.audit[Len(db.audit)].entry_id
        BY <1>seen, <3>1, LastHashOfNumbered DEF IInv, TypeOK, ReadLastHash
      <3>3. Len(db.audit) \in 0..Len(db.audit)
        BY <1>seen, <3>1
      <3>4. QED
        BY <3>2, <3>3
    <2>3. QED
      BY <1>sel, <2>1, <2>2 DEF IInv, HashInHand
  <1>12. BreaksBetweenProcesses'
    BY DEF IInv, TypeOK, BreaksBetweenProcesses, ReadLastHash, Goto, Select
  <1> QED
    BY <1>1, <1>2, <1>3, <1>4, <1>5, <1>6, <1>7, <1>8, <1>9, <1>10, <1>11, <1>12 DEF IInv

\* The number is one past the end of what the process sees.
LEMMA ReadNextSequenceStep ==
    ASSUME IInv, NEW p \in Proc, ReadNextSequence(p)
    PROVE  IInv'
  <1>seen. /\ Seen(p).audit \in Seq(Row)
           /\ Numbered(Seen(p).audit)
           /\ Len(Seen(p).audit) <= Len(db.audit)
           /\ tx[p] # "stale" => Seen(p).audit = db.audit
    BY SeenFacts DEF ReadNextSequence, Goto, Database
  <1>sel. /\ db' = db
          /\ tx' \in [Proc -> TxStates]
          /\ view' \in [Proc -> Database \cup {NoView}]
          /\ \A q \in Proc :
                tx'[q] \in {"read", "stale", "write"} => view'[q] \in Database
          /\ SnapshotsArePast'
    BY SelectFacts DEF ReadNextSequence
  <1>next. NextSequence(Seen(p).audit) \in 1..(Len(db.audit) + 1)
    BY <1>seen, NextSequenceOfNumbered
  <1>1. TypeOK'
    <2>1. nextSeq' \in [Proc -> Nat]
      BY <1>next DEF IInv, TypeOK, Database, ReadNextSequence
    <2>2. QED
      BY <1>sel, <2>1 DEF IInv, TypeOK, ReadNextSequence, Goto
  <1>2. OneWriter'
    BY DEF IInv, TypeOK, OneWriter, ReadNextSequence, Goto, Select
  <1>3. NoLostUpdate'
    BY DEF IInv, TypeOK, NoLostUpdate, NewRow, Entry, ReadNextSequence, Goto, Select
  <1>4. SnapshotsArePast'
    BY <1>sel
  <1>5. LockDiscipline'
    BY DEF IInv, TypeOK, LockDiscipline, ReadNextSequence, Goto, Select
  <1>6. SequenceGapFree'
    BY DEF IInv, TypeOK, SequenceGapFree, ReadNextSequence, Goto, Select
  <1>7. SequenceBound'
    BY <1>sel, <1>next DEF IInv, TypeOK, SequenceBound, ReadNextSequence, Goto
  <1>8. FreshEntries'
    BY DEF IInv, TypeOK, FreshEntries, InCall, Entry, ReadNextSequence, Goto, Select
  <1>9. OutcomeTruthful'
    BY DEF IInv, TypeOK, OutcomeTruthful, ReadNextSequence, Goto, Select
  <1>10. ChainedBackwards'
    BY DEF IInv, TypeOK, ChainedBackwards, ReadNextSequence, Goto, Select
  <1>11. HashInHand'
    BY DEF IInv, TypeOK, HashInHand, InCall, ReadNextSequence, Goto, Select
  <1>12. BreaksBetweenProcesses'
    BY DEF IInv, TypeOK, BreaksBetweenProcesses, ReadNextSequence, Goto, Select
  <1> QED
    BY <1>1, <1>2, <1>3, <1>4, <1>5, <1>6, <1>7, <1>8, <1>9, <1>10, <1>11, <1>12 DEF IInv

\* The INSERT succeeds only at the end of the table that will be committed.
LEMMA InsertStep ==
    ASSUME IInv, NEW p \in Proc, Insert(p)
    PROVE  IInv'
  <1>seen. Seen(p) \in Database /\ Seen(p).audit = db.audit
    BY SeenFacts DEF Insert, Goto, Write, MayWrite
  <1>row. NewRow(p) \in Row
    BY EntryTyped DEF IInv, TypeOK, NewRow, Row, Insert, Goto
  <1>db. db \in Database /\ db.audit \in Seq(Row) /\ db.rest \in Rest
    BY DEF IInv, TypeOK, Database
  <1>view. view'[p] \in Database /\ view'[p].audit = Append(db.audit, NewRow(p))
    <2>1. Append(db.audit, NewRow(p)) \in Seq(Row)
      BY <1>row, <1>db, Appended
    <2>2. view'[p] = [audit |-> Append(db.audit, NewRow(p)), rest |-> Seen(p).rest]
      BY <1>seen DEF Insert, Write, IInv, TypeOK
    <2>3. QED
      BY <1>seen, <2>1, <2>2 DEF Database
  <1>1. TypeOK'
    BY <1>view DEF IInv, TypeOK, TxStates, Insert, Goto, Write
  <1>2. OneWriter'
    BY DEF IInv, TypeOK, OneWriter, Insert, Goto, Write, MayWrite, Seen, SequenceTaken
  <1>3. NoLostUpdate'
    <2>1. NewRow(p)' = NewRow(p)
      BY DEF NewRow, Entry, Insert
    <2>2. ASSUME NEW q \in Proc \ {p}
          PROVE  view'[q] = view[q] /\ pc'[q] = pc[q] /\ NewRow(q)' = NewRow(q)
      BY DEF IInv, TypeOK, NewRow, Entry, Insert, Goto, Write
    <2>3. db' = db
      BY DEF Insert, Write
    <2>4. QED
      BY <1>view, <2>1, <2>2, <2>3 DEF IInv, NoLostUpdate
  <1>4. SnapshotsArePast'
    BY DEF IInv, TypeOK, SnapshotsArePast, Insert, Goto, Write, MayWrite, Seen, SequenceTaken
  <1>5. LockDiscipline'
    BY DEF IInv, TypeOK, LockDiscipline, Insert, Goto, Write
  <1>6. SequenceGapFree'
    BY DEF IInv, TypeOK, SequenceGapFree, Insert, Goto, Write, MayWrite, Seen, SequenceTaken
  <1>7. SequenceBound'
    <2>1. nextSeq[p] \in 1..(Len(db.audit) + 1)
      BY DEF IInv, SequenceBound, Insert, Goto
    <2>2. \A i \in 1..Len(db.audit) : db.audit[i].seq # nextSeq[p]
      BY <1>seen, <1>db DEF Insert, SequenceTaken
    <2>3. \A i \in 1..Len(db.audit) : db.audit[i].seq = i
      BY <1>db DEF IInv, SequenceGapFree
    <2>4. nextSeq[p] = Len(db.audit) + 1
      BY <2>1, <2>2, <2>3, <1>db
    <2>5. QED
      BY <2>4 DEF IInv, TypeOK, SequenceBound, Insert, Goto, Write
  <1>8. FreshEntries'
    BY DEF IInv, TypeOK, FreshEntries, InCall, Entry, Insert, Goto, Write, MayWrite, Seen, SequenceTaken
  <1>9. OutcomeTruthful'
    BY DEF IInv, TypeOK, OutcomeTruthful, Insert, Goto, Write, MayWrite, Seen, SequenceTaken
  <1>10. ChainedBackwards'
    BY DEF IInv, TypeOK, ChainedBackwards, Insert, Goto, Write, MayWrite, Seen, SequenceTaken
  <1>11. HashInHand'
    BY DEF IInv, TypeOK, HashInHand, InCall, Insert, Goto, Write, MayWrite, Seen, SequenceTaken
  <1>12. BreaksBetweenProcesses'
    BY DEF IInv, TypeOK, BreaksBetweenProcesses, Insert, Goto, Write, MayWrite, Seen, SequenceTaken
  <1> QED
    BY <1>1, <1>2, <1>3, <1>4, <1>5, <1>6, <1>7, <1>8, <1>9, <1>10, <1>11, <1>12 DEF IInv

\* A number that is taken: nothing is written, the lock is kept.
LEMMA InsertDuplicateStep ==
    ASSUME IInv, NEW p \in Proc, InsertDuplicate(p)
    PROVE  IInv'
  <1>seen. Seen(p) \in Database /\ Seen(p).audit = db.audit
    BY SeenFacts DEF InsertDuplicate, Goto, Write, MayWrite
  <1>entry. Entry(p) \in EntryId /\ Entry(p) \notin Ids(db.audit)
    BY EntryTyped, EntryUnused DEF InsertDuplicate, Goto, InCall
  <1>1. TypeOK'
    BY <1>seen, <1>entry DEF IInv, TypeOK, TxStates, InsertDuplicate, Goto, Write, Forget
  <1>2. OneWriter'
    BY DEF IInv, TypeOK, OneWriter, InsertDuplicate, Goto, Write, MayWrite, Seen, SequenceTaken, Forget
  <1>3. NoLostUpdate'
    BY DEF IInv, TypeOK, NoLostUpdate, NewRow, Entry, InsertDuplicate, Goto, Write, MayWrite, Seen, SequenceTaken, Forget
  <1>4. SnapshotsArePast'
    BY DEF IInv, TypeOK, SnapshotsArePast, InsertDuplicate, Goto, Write, MayWrite, Seen, SequenceTaken, Forget
  <1>5. LockDiscipline'
    BY <1>seen DEF IInv, TypeOK, LockDiscipline, InsertDuplicate, Goto, Write
  <1>6. SequenceGapFree'
    BY DEF IInv, TypeOK, SequenceGapFree, InsertDuplicate, Goto, Write, MayWrite, Seen, SequenceTaken, Forget
  <1>7. SequenceBound'
    BY DEF IInv, TypeOK, SequenceBound, InsertDuplicate, Goto, Write, MayWrite, Seen, SequenceTaken, Forget
  <1>8. FreshEntries'
    BY DEF IInv, TypeOK, FreshEntries, InCall, Entry, InsertDuplicate, Goto, Write, MayWrite, Seen, SequenceTaken, Forget
  <1>9. OutcomeTruthful'
    BY <1>entry DEF IInv, OutcomeTruthful, InsertDuplicate, Write
  <1>10. ChainedBackwards'
    BY DEF IInv, TypeOK, ChainedBackwards, InsertDuplicate, Goto, Write, MayWrite, Seen, SequenceTaken, Forget
  <1>11. HashInHand'
    BY HashInHandKept DEF IInv, TypeOK, InCall, InsertDuplicate, Goto, Write, Forget
  <1>12. BreaksBetweenProcesses'
    BY DEF IInv, TypeOK, BreaksBetweenProcesses, InsertDuplicate, Goto, Write, MayWrite, Seen, SequenceTaken, Forget
  <1> QED
    BY <1>1, <1>2, <1>3, <1>4, <1>5, <1>6, <1>7, <1>8, <1>9, <1>10, <1>11, <1>12 DEF IInv

\* The lock is another's, or the snapshot is stale: nothing is written.
LEMMA InsertRefusedStep ==
    ASSUME IInv, NEW p \in Proc, InsertRefused(p)
    PROVE  IInv'
  <1>entry. Entry(p) \in EntryId /\ Entry(p) \notin Ids(db.audit)
    BY EntryTyped, EntryUnused DEF InsertRefused, Goto, InCall
  <1>1. TypeOK'
    BY <1>entry DEF IInv, TypeOK, TxStates, InsertRefused, Goto, Refused, Forget
  <1>2. OneWriter'
    BY DEF IInv, TypeOK, OneWriter, InsertRefused, Goto, Refused, MayWrite, Forget
  <1>3. NoLostUpdate'
    BY DEF IInv, TypeOK, NoLostUpdate, NewRow, Entry, InsertRefused, Goto, Refused, MayWrite, Forget
  <1>4. SnapshotsArePast'
    BY DEF IInv, TypeOK, SnapshotsArePast, InsertRefused, Goto, Refused, MayWrite, Forget
  <1>5. LockDiscipline'
    BY DEF IInv, TypeOK, LockDiscipline, InsertRefused, Goto, Refused, MayWrite, Forget
  <1>6. SequenceGapFree'
    BY DEF IInv, TypeOK, SequenceGapFree, InsertRefused, Goto, Refused, MayWrite, Forget
  <1>7. SequenceBound'
    BY DEF IInv, TypeOK, SequenceBound, InsertRefused, Goto, Refused, MayWrite, Forget
  <1>8. FreshEntries'
    BY DEF IInv, TypeOK, FreshEntries, InCall, Entry, InsertRefused, Goto, Refused, MayWrite, Forget
  <1>9. OutcomeTruthful'
    BY <1>entry DEF IInv, OutcomeTruthful, InsertRefused, Refused
  <1>10. ChainedBackwards'
    BY DEF IInv, TypeOK, ChainedBackwards, InsertRefused, Goto, Refused, MayWrite, Forget
  <1>11. HashInHand'
    BY HashInHandKept DEF IInv, TypeOK, InCall, InsertRefused, Goto, Refused, Forget
  <1>12. BreaksBetweenProcesses'
    BY DEF IInv, TypeOK, BreaksBetweenProcesses, InsertRefused, Goto, Refused, MayWrite, Forget
  <1> QED
    BY <1>1, <1>2, <1>3, <1>4, <1>5, <1>6, <1>7, <1>8, <1>9, <1>10, <1>11, <1>12 DEF IInv

\* The commit appends exactly the row of this call.
LEMMA CommitRowStep ==
    ASSUME IInv, NEW p \in Proc, CommitRow(p)
    PROVE  IInv'
  <1>row. NewRow(p) \in Row
    BY EntryTyped DEF IInv, TypeOK, NewRow, Row, CommitRow, Goto
  <1>db. db \in Database /\ db.audit \in Seq(Row) /\ db.rest \in Rest
    BY DEF IInv, TypeOK, Database
  <1>com. /\ db'.audit = Append(db.audit, NewRow(p))
          /\ db' \in Database
          /\ tx' \in [Proc -> TxStates]
          /\ view' \in [Proc -> Database \cup {NoView}]
          /\ tx'[p] = "none"
          /\ \A q \in Proc \ {p} :
                /\ view'[q] = view[q]
                /\ tx[q] # "write"
                /\ tx'[q] = IF tx[q] = "read" /\ db' # db THEN "stale" ELSE tx[q]
    BY CommitFacts DEF IInv, NoLostUpdate, CommitRow, Goto
  <1>aud. /\ db'.audit = Append(db.audit, NewRow(p))
          /\ db'.audit \in Seq(Row)
          /\ Len(db'.audit) = Len(db.audit) + 1
          /\ DOMAIN db'.audit = 1..(Len(db.audit) + 1)
          /\ \A i \in 1..Len(db.audit) : db'.audit[i] = db.audit[i]
          /\ db'.audit[Len(db.audit) + 1] = NewRow(p)
          /\ db' # db
    BY <1>row, <1>db, <1>com, Appended DEF Database
  <1>loc. /\ pc'[p] = "committed"
          /\ \A q \in Proc \ {p} : pc'[q] = pc[q] /\ pc[q] \notin {"inserted", "written"}
          /\ UNCHANGED <<calls, prevHash, nextSeq, acked, failed, report>>
          /\ pc[p] = "inserted"
    BY <1>com DEF IInv, TypeOK, LockDiscipline, CommitRow, Goto
  <1>new. NewRow(p).seq = Len(db.audit) + 1 /\ NewRow(p).entry_id = Entry(p)
    BY <1>loc DEF IInv, SequenceBound, NewRow
  <1>ids. Ids(db'.audit) = Ids(db.audit) \cup {Entry(p)}
    BY <1>aud, <1>new, <1>db DEF Ids
  <1>hash. PICK k \in 0..Len(db.audit) :
              /\ prevHash[p] = IF k = 0 THEN GenesisHash ELSE db.audit[k].entry_id
              /\ \A j \in (k + 1)..Len(db.audit) : db.audit[j].entry_id[1] # p
    BY <1>loc DEF IInv, HashInHand, LockDiscipline, InCall
  <1>1. TypeOK'
    BY <1>com, <1>loc DEF IInv, TypeOK, TxStates, CommitRow, Goto
  <1>2. OneWriter'
    BY <1>com DEF IInv, OneWriter
  <1>3. NoLostUpdate'
    BY <1>loc DEF NoLostUpdate
  <1>4. SnapshotsArePast'
    <2>1. ASSUME NEW q \in Proc \ {p}, tx'[q] \in {"read", "stale"}
          PROVE  tx'[q] = "stale" /\ IsPrefix(view'[q].audit, db'.audit)
      <3>1. tx[q] \in {"read", "stale"} /\ tx'[q] = "stale" /\ view'[q] = view[q]
        BY <2>1, <1>com, <1>aud
      <3>2. IsPrefix(view[q].audit, db.audit) /\ view[q].audit \in Seq(Row)
        BY <3>1 DEF IInv, TypeOK, SnapshotsArePast, Database
      <3>3. QED
        BY <3>1, <3>2, <1>row, <1>db, <1>aud, PrefixOfAppended
    <2>2. QED
      BY <2>1, <1>com DEF SnapshotsArePast
  <1>5. LockDiscipline'
    <2>1. ASSUME NEW q \in Proc \ {p} PROVE tx'[q] # "write" /\ pc'[q] \notin {"inserted", "written"}
      BY <1>com, <1>loc
    <2>2. QED
      BY <2>1, <1>com, <1>loc DEF LockDiscipline
  <1>6. SequenceGapFree'
    BY <1>aud, <1>new, <1>db DEF IInv, SequenceGapFree
  <1>7. SequenceBound'
    <2>1. ASSUME NEW q \in Proc, pc'[q] = "prepared"
          PROVE  nextSeq'[q] \in 1..(Len(db'.audit) + 1)
      <3>1. nextSeq[q] \in 1..(Len(db.audit) + 1)
        BY <2>1, <1>loc DEF IInv, SequenceBound
      <3>2. QED
        BY <3>1, <1>aud, <1>loc, <1>db
    <2>2. QED
      BY <2>1, <1>loc DEF SequenceBound
  <1>8. FreshEntries'
    <2>1. ASSUME NEW q \in Proc, NEW n \in 1..MaxCalls, <<q, n>> \in Ids(db'.audit) \cup failed'
          PROVE  n <= calls'[q] /\ (InCall(q)' => n < calls'[q])
      <3>1. CASE <<q, n>> \in Ids(db.audit) \cup failed
        BY <3>1, <1>loc DEF IInv, FreshEntries, InCall
      <3>2. CASE <<q, n>> = Entry(p)
        BY <3>2, <1>loc DEF IInv, TypeOK, Entry, InCall
      <3>3. QED
        BY <2>1, <3>1, <3>2, <1>ids, <1>loc
    <2>2. ASSUME NEW q \in Proc, pc'[q] \in {"hashed", "prepared", "inserted", "committed"}
          PROVE  calls'[q] > 0
      BY <2>2, <1>loc DEF IInv, FreshEntries
    <2>3. ASSUME NEW q \in Proc, pc'[q] = "committed"
          PROVE  Entry(q)' \in Ids(db'.audit)
      BY <2>3, <1>loc, <1>ids DEF IInv, FreshEntries, Entry
    <2>4. QED
      BY <2>1, <2>2, <2>3 DEF FreshEntries
  <1>9. OutcomeTruthful'
    <2>1. Entry(p) \notin failed
      BY <1>loc, EntryUnused DEF InCall
    <2>2. QED
      BY <2>1, <1>ids, <1>loc DEF IInv, OutcomeTruthful
  <1>10. ChainedBackwards'
    <2>1. ASSUME NEW i \in 1..Len(db.audit)
          PROVE  \/ db'.audit[i].prev = GenesisHash
                 \/ \E j \in 1..(i - 1) : db'.audit[i].prev = db'.audit[j].entry_id
      BY <1>aud, <1>db DEF IInv, ChainedBackwards
    <2>2. LET i == Len(db.audit) + 1 IN
             \/ db'.audit[i].prev = GenesisHash
             \/ \E j \in 1..(i - 1) : db'.audit[i].prev = db'.audit[j].entry_id
      BY <1>aud, <1>hash, <1>db DEF NewRow
    <2>3. QED
      BY <2>1, <2>2, <1>aud, <1>db DEF ChainedBackwards
  <1>11. HashInHand'
    <2>1. SUFFICES ASSUME NEW q \in Proc \ {p}, InCall(q)', tx'[q] # "stale"
                   PROVE  \E m \in 0..Len(db'.audit) :
                             /\ prevHash'[q] = IF m = 0 THEN GenesisHash ELSE db'.audit[m].entry_id
                             /\ \A j \in (m + 1)..Len(db'.audit) : db'.audit[j].entry_id[1] # q
      BY <1>loc DEF HashInHand, InCall
    <2>2. InCall(q) /\ tx[q] # "stale"
      BY <2>1, <1>loc, <1>com DEF InCall
    <2>3. PICK m \in 0..Len(db.audit) :
             /\ prevHash[q] = IF m = 0 THEN GenesisHash ELSE db.audit[m].entry_id
             /\ \A j \in (m + 1)..Len(db.audit) : db.audit[j].entry_id[1] # q
      BY <2>2 DEF IInv, HashInHand
    <2>4. \A j \in (m + 1)..Len(db'.audit) : db'.audit[j].entry_id[1] # q
      BY <2>3, <1>aud, <1>new, <1>db DEF Entry
    <2>5. QED
      BY <2>3, <2>4, <1>aud, <1>loc, <1>db
  <1>12. BreaksBetweenProcesses'
    <2>1. Numbered(db'.audit) /\ Numbered(db.audit)
      BY <1>6 DEF SequenceGapFree, Numbered, IInv
    <2>2. ASSUME NEW i \in BrokenAt(db'.audit)
          PROVE  i > 1 /\ db'.audit[i].entry_id[1] # db'.audit[i - 1].entry_id[1]
      <3>1. /\ i \in DOMAIN db'.audit
            /\ db'.audit[i].prev # IF i = 1 THEN GenesisHash ELSE db'.audit[i - 1].entry_id
        BY <2>1, <1>aud, PredecessorOfNumbered DEF BrokenAt
      <3>2. CASE i \in 1..Len(db.audit)
        <4>1. db.audit[i].prev # IF i = 1 THEN GenesisHash ELSE db.audit[i - 1].entry_id
          BY <3>1, <3>2, <1>aud, <1>db
        <4>2. i \in BrokenAt(db.audit)
          BY <4>1, <3>2, <2>1, <1>db, PredecessorOfNumbered DEF BrokenAt
        <4>3. i > 1 /\ db.audit[i].entry_id[1] # db.audit[i - 1].entry_id[1]
          BY <4>2 DEF IInv, BreaksBetweenProcesses
        <4>4. QED
          BY <4>3, <3>2, <1>aud, <1>db
      <3>3. CASE i = Len(db.audit) + 1
        <4>1. db'.audit[i].prev = prevHash[p] /\ db'.audit[i].entry_id[1] = p
          BY <3>3, <1>aud, <1>new DEF NewRow, Entry
        <4>2. k # Len(db.audit)
          BY <4>1, <3>1, <3>3, <1>hash, <1>aud, <1>db
        <4>3. Len(db.audit) \in (k + 1)..Len(db.audit)
          BY <4>2, <1>hash, <1>db
        <4>4. db.audit[Len(db.audit)].entry_id[1] # p /\ Len(db.audit) \in 1..Len(db.audit)
          BY <4>3, <1>hash, <1>db
        <4>5. QED
          BY <4>1, <4>4, <3>3, <1>aud, <1>db
      <3>4. QED
        BY <3>1, <3>2, <3>3, <1>aud, <1>db
    <2>3. QED
      BY <2>2 DEF BreaksBetweenProcesses
  <1> QED
    BY <1>1, <1>2, <1>3, <1>4, <1>5, <1>6, <1>7, <1>8, <1>9, <1>10, <1>11, <1>12 DEF IInv

\* The call returns after its row is in.
LEMMA ReturnEntryStep ==
    ASSUME IInv, NEW p \in Proc, ReturnEntry(p)
    PROVE  IInv'
  <1>entry. Entry(p) \in EntryId /\ Entry(p) \in Ids(db.audit)
    BY EntryTyped DEF IInv, FreshEntries, ReturnEntry, Goto
  <1>1. TypeOK'
    BY <1>entry DEF IInv, TypeOK, ReturnEntry, Goto, Forget
  <1>2. OneWriter'
    BY DEF IInv, TypeOK, OneWriter, ReturnEntry, Goto, Forget
  <1>3. NoLostUpdate'
    BY DEF IInv, TypeOK, NoLostUpdate, NewRow, Entry, ReturnEntry, Goto, Forget
  <1>4. SnapshotsArePast'
    BY DEF IInv, TypeOK, SnapshotsArePast, ReturnEntry, Goto, Forget
  <1>5. LockDiscipline'
    BY DEF IInv, TypeOK, LockDiscipline, ReturnEntry, Goto, Forget
  <1>6. SequenceGapFree'
    BY DEF IInv, TypeOK, SequenceGapFree, ReturnEntry, Goto, Forget
  <1>7. SequenceBound'
    BY DEF IInv, TypeOK, SequenceBound, ReturnEntry, Goto, Forget
  <1>8. FreshEntries'
    BY DEF IInv, TypeOK, FreshEntries, InCall, Entry, ReturnEntry, Goto, Forget
  <1>9. OutcomeTruthful'
    BY <1>entry DEF IInv, OutcomeTruthful, ReturnEntry
  <1>10. ChainedBackwards'
    BY DEF IInv, TypeOK, ChainedBackwards, ReturnEntry, Goto, Forget
  <1>11. HashInHand'
    BY DEF IInv, TypeOK, HashInHand, InCall, ReturnEntry, Goto, Forget
  <1>12. BreaksBetweenProcesses'
    BY DEF IInv, TypeOK, BreaksBetweenProcesses, ReturnEntry, Goto, Forget
  <1> QED
    BY <1>1, <1>2, <1>3, <1>4, <1>5, <1>6, <1>7, <1>8, <1>9, <1>10, <1>11, <1>12 DEF IInv

\* Verification only reads.
LEMMA VerifyStep ==
    ASSUME IInv, NEW p \in Proc, Verify(p)
    PROVE  IInv'
  <1>sel. /\ db' = db
          /\ tx' \in [Proc -> TxStates]
          /\ view' \in [Proc -> Database \cup {NoView}]
          /\ \A q \in Proc :
                tx'[q] \in {"read", "stale", "write"} => view'[q] \in Database
          /\ SnapshotsArePast'
    BY SelectFacts DEF Verify
  <1>bro. Broken(Seen(p).audit) \subseteq EntryId
    BY SeenFacts, BrokenTyped DEF Verify, Database
  <1>1. TypeOK'
    BY <1>sel, <1>bro DEF IInv, TypeOK, Verify
  <1>2. OneWriter'
    BY DEF IInv, TypeOK, OneWriter, Verify, Select
  <1>3. NoLostUpdate'
    BY DEF IInv, TypeOK, NoLostUpdate, NewRow, Entry, Verify, Select
  <1>4. SnapshotsArePast'
    BY <1>sel
  <1>5. LockDiscipline'
    BY DEF IInv, TypeOK, LockDiscipline, Verify, Select
  <1>6. SequenceGapFree'
    BY DEF IInv, TypeOK, SequenceGapFree, Verify, Select
  <1>7. SequenceBound'
    BY DEF IInv, TypeOK, SequenceBound, Verify, Select
  <1>8. FreshEntries'
    BY DEF IInv, TypeOK, FreshEntries, InCall, Entry, Verify, Select
  <1>9. OutcomeTruthful'
    BY DEF IInv, TypeOK, OutcomeTruthful, Verify, Select
  <1>10. ChainedBackwards'
    BY DEF IInv, TypeOK, ChainedBackwards, Verify, Select
  <1>11. HashInHand'
    BY DEF IInv, TypeOK, HashInHand, InCall, Verify, Select
  <1>12. BreaksBetweenProcesses'
    BY DEF IInv, TypeOK, BreaksBetweenProcesses, Verify, Select
  <1> QED
    BY <1>1, <1>2, <1>3, <1>4, <1>5, <1>6, <1>7, <1>8, <1>9, <1>10, <1>11, <1>12 DEF IInv

\* So does any other SELECT.
LEMMA ReadOtherStep ==
    ASSUME IInv, NEW p \in Proc, ReadOther(p)
    PROVE  IInv'
  <1>1. TypeOK'
    BY DEF IInv, TypeOK, Database, TxStates, ReadOther, Select
  <1>2. OneWriter'
    BY DEF IInv, TypeOK, OneWriter, ReadOther, Select
  <1>3. NoLostUpdate'
    BY DEF IInv, TypeOK, NoLostUpdate, NewRow, Entry, ReadOther, Select
  <1>4. SnapshotsArePast'
    BY SelectFacts DEF ReadOther
  <1>5. LockDiscipline'
    BY DEF IInv, TypeOK, LockDiscipline, ReadOther, Select
  <1>6. SequenceGapFree'
    BY DEF IInv, TypeOK, SequenceGapFree, ReadOther, Select
  <1>7. SequenceBound'
    BY DEF IInv, TypeOK, SequenceBound, ReadOther, Select
  <1>8. FreshEntries'
    BY DEF IInv, TypeOK, FreshEntries, InCall, Entry, ReadOther, Select
  <1>9. OutcomeTruthful'
    BY DEF IInv, TypeOK, OutcomeTruthful, ReadOther, Select
  <1>10. ChainedBackwards'
    BY DEF IInv, TypeOK, ChainedBackwards, ReadOther, Select
  <1>11. HashInHand'
    BY DEF IInv, TypeOK, HashInHand, InCall, ReadOther, Select
  <1>12. BreaksBetweenProcesses'
    BY DEF IInv, TypeOK, BreaksBetweenProcesses, ReadOther, Select
  <1> QED
    BY <1>1, <1>2, <1>3, <1>4, <1>5, <1>6, <1>7, <1>8, <1>9, <1>10, <1>11, <1>12 DEF IInv

\* A write elsewhere leaves the audit table alone.
LEMMA WriteOtherStep ==
    ASSUME IInv, NEW p \in Proc, NEW r \in Rest, WriteOther(p, r)
    PROVE  IInv'
  <1>seen. Seen(p) \in Database /\ Seen(p).audit = db.audit
    BY SeenFacts DEF WriteOther, Goto, Write, MayWrite
  <1>view. view'[p] \in Database /\ view'[p].audit = db.audit
    BY <1>seen DEF WriteOther, Write, IInv, TypeOK, Database
  <1>1. TypeOK'
    BY <1>view DEF IInv, TypeOK, TxStates, WriteOther, Goto, Write
  <1>2. OneWriter'
    BY DEF IInv, TypeOK, OneWriter, WriteOther, Goto, Write, MayWrite, Seen
  <1>3. NoLostUpdate'
    BY DEF IInv, TypeOK, NoLostUpdate, NewRow, Entry, WriteOther, Goto, Write, MayWrite, Seen
  <1>4. SnapshotsArePast'
    BY DEF IInv, TypeOK, SnapshotsArePast, WriteOther, Goto, Write, MayWrite, Seen
  <1>5. LockDiscipline'
    BY <1>view DEF IInv, TypeOK, LockDiscipline, WriteOther, Goto, Write
  <1>6. SequenceGapFree'
    BY DEF IInv, TypeOK, SequenceGapFree, WriteOther, Goto, Write, MayWrite, Seen
  <1>7. SequenceBound'
    BY DEF IInv, TypeOK, SequenceBound, WriteOther, Goto, Write, MayWrite, Seen
  <1>8. FreshEntries'
    BY DEF IInv, TypeOK, FreshEntries, InCall, Entry, WriteOther, Goto, Write, MayWrite, Seen
  <1>9. OutcomeTruthful'
    BY DEF IInv, TypeOK, OutcomeTruthful, WriteOther, Goto, Write, MayWrite, Seen
  <1>10. ChainedBackwards'
    BY DEF IInv, TypeOK, ChainedBackwards, WriteOther, Goto, Write, MayWrite, Seen
  <1>11. HashInHand'
    BY DEF IInv, TypeOK, HashInHand, InCall, WriteOther, Goto, Write, MayWrite, Seen
  <1>12. BreaksBetweenProcesses'
    BY DEF IInv, TypeOK, BreaksBetweenProcesses, WriteOther, Goto, Write, MayWrite, Seen
  <1> QED
    BY <1>1, <1>2, <1>3, <1>4, <1>5, <1>6, <1>7, <1>8, <1>9, <1>10, <1>11, <1>12 DEF IInv

\* A write elsewhere that raises midway keeps the lock and leaves the audit table
\* alone.
LEMMA WriteOtherRaisesStep ==
    ASSUME IInv, NEW p \in Proc, NEW r \in Rest, WriteOtherRaises(p, r)
    PROVE  IInv'
  <1>seen. Seen(p) \in Database /\ Seen(p).audit = db.audit
    BY SeenFacts DEF WriteOtherRaises, Write, MayWrite
  <1>view. view'[p] \in Database /\ view'[p].audit = db.audit
    BY <1>seen DEF WriteOtherRaises, Write, IInv, TypeOK, Database
  <1>1. TypeOK'
    BY <1>view DEF IInv, TypeOK, TxStates, WriteOtherRaises, Write
  <1>2. OneWriter'
    BY DEF IInv, TypeOK, OneWriter, WriteOtherRaises, Write, MayWrite, Seen
  <1>3. NoLostUpdate'
    BY DEF IInv, TypeOK, NoLostUpdate, NewRow, Entry, WriteOtherRaises, Write, MayWrite, Seen
  <1>4. SnapshotsArePast'
    BY DEF IInv, TypeOK, SnapshotsArePast, WriteOtherRaises, Write, MayWrite, Seen
  <1>5. LockDiscipline'
    BY <1>view DEF IInv, TypeOK, LockDiscipline, WriteOtherRaises, Write
  <1>6. SequenceGapFree'
    BY DEF IInv, TypeOK, SequenceGapFree, WriteOtherRaises, Write, MayWrite, Seen
  <1>7. SequenceBound'
    BY DEF IInv, TypeOK, SequenceBound, WriteOtherRaises, Write, MayWrite, Seen
  <1>8. FreshEntries'
    BY DEF IInv, TypeOK, FreshEntries, InCall, Entry, WriteOtherRaises, Write, MayWrite, Seen
  <1>9. OutcomeTruthful'
    BY DEF IInv, TypeOK, OutcomeTruthful, WriteOtherRaises, Write, MayWrite, Seen
  <1>10. ChainedBackwards'
    BY DEF IInv, TypeOK, ChainedBackwards, WriteOtherRaises, Write, MayWrite, Seen
  <1>11. HashInHand'
    BY DEF IInv, TypeOK, HashInHand, InCall, WriteOtherRaises, Write, MayWrite, Seen
  <1>12. BreaksBetweenProcesses'
    BY DEF IInv, TypeOK, BreaksBetweenProcesses, WriteOtherRaises, Write, MayWrite, Seen
  <1> QED
    BY <1>1, <1>2, <1>3, <1>4, <1>5, <1>6, <1>7, <1>8, <1>9, <1>10, <1>11, <1>12 DEF IInv

\* A refused write elsewhere at most opens a transaction.
LEMMA WriteOtherRefusedStep ==
    ASSUME IInv, NEW p \in Proc, WriteOtherRefused(p)
    PROVE  IInv'
  <1>1. TypeOK'
    BY DEF IInv, TypeOK, Database, TxStates, WriteOtherRefused, Refused, MayWrite
  <1>2. OneWriter'
    BY DEF IInv, TypeOK, OneWriter, WriteOtherRefused, Refused, MayWrite
  <1>3. NoLostUpdate'
    BY DEF IInv, TypeOK, NoLostUpdate, NewRow, Entry, WriteOtherRefused, Refused, MayWrite
  <1>4. SnapshotsArePast'
    BY DEF IInv, TypeOK, SnapshotsArePast, WriteOtherRefused, Refused, MayWrite
  <1>5. LockDiscipline'
    BY DEF IInv, TypeOK, LockDiscipline, WriteOtherRefused, Refused, MayWrite
  <1>6. SequenceGapFree'
    BY DEF IInv, TypeOK, SequenceGapFree, WriteOtherRefused, Refused, MayWrite
  <1>7. SequenceBound'
    BY DEF IInv, TypeOK, SequenceBound, WriteOtherRefused, Refused, MayWrite
  <1>8. FreshEntries'
    BY DEF IInv, TypeOK, FreshEntries, InCall, Entry, WriteOtherRefused, Refused, MayWrite
  <1>9. OutcomeTruthful'
    BY DEF IInv, TypeOK, OutcomeTruthful, WriteOtherRefused, Refused, MayWrite
  <1>10. ChainedBackwards'
    BY DEF IInv, TypeOK, ChainedBackwards, WriteOtherRefused, Refused, MayWrite
  <1>11. HashInHand'
    BY DEF IInv, TypeOK, HashInHand, InCall, WriteOtherRefused, Refused, MayWrite
  <1>12. BreaksBetweenProcesses'
    BY DEF IInv, TypeOK, BreaksBetweenProcesses, WriteOtherRefused, Refused, MayWrite
  <1> QED
    BY <1>1, <1>2, <1>3, <1>4, <1>5, <1>6, <1>7, <1>8, <1>9, <1>10, <1>11, <1>12 DEF IInv

\* A commit elsewhere overtakes snapshots and leaves the audit table alone.
LEMMA CommitOtherStep ==
    ASSUME IInv, NEW p \in Proc, CommitOther(p)
    PROVE  IInv'
  <1>loc. /\ pc[p] = "written" /\ pc'[p] = "idle"
          /\ \A q \in Proc \ {p} : pc'[q] = pc[q]
          /\ UNCHANGED <<calls, prevHash, nextSeq, acked, failed, report>>
    BY DEF IInv, TypeOK, CommitOther, Goto
  <1>com. /\ db'.audit = db.audit
          /\ db' \in Database
          /\ tx' \in [Proc -> TxStates]
          /\ view' \in [Proc -> Database \cup {NoView}]
          /\ tx'[p] = "none"
          /\ \A q \in Proc \ {p} :
                /\ view'[q] = view[q]
                /\ tx[q] # "write"
                /\ tx'[q] = IF tx[q] = "read" /\ db' # db THEN "stale" ELSE tx[q]
    BY <1>loc, CommitFacts DEF IInv, LockDiscipline, CommitOther
  <1>oth. \A q \in Proc \ {p} : pc[q] \notin {"inserted", "written"}
    BY <1>com DEF IInv, LockDiscipline
  <1>1. TypeOK'
    BY <1>com, <1>loc DEF IInv, TypeOK, TxStates, CommitOther, Goto
  <1>2. OneWriter'
    BY <1>com DEF IInv, OneWriter
  <1>3. NoLostUpdate'
    BY <1>loc, <1>oth DEF NoLostUpdate
  <1>4. SnapshotsArePast'
    <2>1. ASSUME NEW q \in Proc \ {p}, tx'[q] \in {"read", "stale"}
          PROVE  /\ IsPrefix(view'[q].audit, db'.audit)
                 /\ tx'[q] = "read" => view'[q] = db'
      BY <2>1, <1>com DEF IInv, SnapshotsArePast
    <2>2. QED
      BY <2>1, <1>com DEF SnapshotsArePast
  <1>5. LockDiscipline'
    <2>1. ASSUME NEW q \in Proc \ {p} PROVE tx'[q] # "write" /\ pc'[q] \notin {"inserted", "written"}
      BY <1>com, <1>loc, <1>oth
    <2>2. QED
      BY <2>1, <1>com, <1>loc DEF LockDiscipline
  <1>6. SequenceGapFree'
    BY <1>com DEF IInv, SequenceGapFree
  <1>7. SequenceBound'
    BY <1>com, <1>loc DEF IInv, SequenceBound
  <1>8. FreshEntries'
    BY <1>com, <1>loc DEF IInv, FreshEntries, InCall, Entry
  <1>9. OutcomeTruthful'
    BY <1>com, <1>loc DEF IInv, OutcomeTruthful
  <1>10. ChainedBackwards'
    BY <1>com DEF IInv, ChainedBackwards
  <1>11. HashInHand'
    <2>1. SUFFICES ASSUME NEW q \in Proc, InCall(q)', tx'[q] # "stale"
                   PROVE  \E k \in 0..Len(db.audit) :
                             /\ prevHash[q] = IF k = 0 THEN GenesisHash ELSE db.audit[k].entry_id
                             /\ \A j \in (k + 1)..Len(db.audit) : db.audit[j].entry_id[1] # q
      BY <1>com, <1>loc DEF HashInHand
    <2>2. InCall(q) /\ tx[q] # "stale"
      BY <2>1, <1>com, <1>loc DEF InCall
    <2>3. QED
      BY <2>2 DEF IInv, HashInHand
  <1>12. BreaksBetweenProcesses'
    BY <1>com DEF IInv, BreaksBetweenProcesses
  <1> QED
    BY <1>1, <1>2, <1>3, <1>4, <1>5, <1>6, <1>7, <1>8, <1>9, <1>10, <1>11, <1>12 DEF IInv

\* A restart rolls the transaction back and forgets the call.
LEMMA RestartStep ==
    ASSUME IInv, NEW p \in Proc, Restart(p)
    PROVE  IInv'
  <1>1. TypeOK'
    BY DEF IInv, TypeOK, Database, TxStates, Restart, Close, Forget
  <1>2. OneWriter'
    BY DEF IInv, TypeOK, OneWriter, Restart, Close, Forget
  <1>3. NoLostUpdate'
    BY DEF IInv, TypeOK, NoLostUpdate, NewRow, Entry, Restart, Close, Forget
  <1>4. SnapshotsArePast'
    BY DEF IInv, TypeOK, SnapshotsArePast, Restart, Close, Forget
  <1>5. LockDiscipline'
    BY DEF IInv, TypeOK, LockDiscipline, Restart, Close, Forget
  <1>6. SequenceGapFree'
    BY DEF IInv, TypeOK, SequenceGapFree, Restart, Close, Forget
  <1>7. SequenceBound'
    BY DEF IInv, TypeOK, SequenceBound, Restart, Close, Forget
  <1>8. FreshEntries'
    BY DEF IInv, TypeOK, FreshEntries, InCall, Entry, Restart, Close, Forget
  <1>9. OutcomeTruthful'
    BY DEF IInv, TypeOK, OutcomeTruthful, Restart, Close, Forget
  <1>10. ChainedBackwards'
    BY DEF IInv, TypeOK, ChainedBackwards, Restart, Close, Forget
  <1>11. HashInHand'
    BY DEF IInv, TypeOK, HashInHand, InCall, Restart, Close, Forget
  <1>12. BreaksBetweenProcesses'
    BY DEF IInv, TypeOK, BreaksBetweenProcesses, Restart, Close, Forget
  <1> QED
    BY <1>1, <1>2, <1>3, <1>4, <1>5, <1>6, <1>7, <1>8, <1>9, <1>10, <1>11, <1>12 DEF IInv
-----------------------------------------------------------------------------
(* The theorems                                                            *)

\* The empty table satisfies the inductive invariant.
LEMMA InitIInv == Init => IInv
  <1> SUFFICES ASSUME Init PROVE IInv
    OBVIOUS
  <1>1. PICK r \in Rest : EngineInit([audit |-> <<>>, rest |-> r])
    BY DEF Init
  <1>2. db.audit = <<>> /\ db \in Database
    BY <1>1 DEF EngineInit, Database
  <1>3. \A p \in Proc : tx[p] = "none" /\ pc[p] = "idle"
    BY <1>1 DEF Init, EngineInit
  <1>4. TypeOK
    BY <1>1, <1>2, MaxCallsAssumption DEF Init, EngineInit, TypeOK, TxStates
  <1>5. OneWriter /\ NoLostUpdate /\ SnapshotsArePast /\ LockDiscipline
    BY <1>3 DEF OneWriter, NoLostUpdate, SnapshotsArePast, LockDiscipline
  <1>6. SequenceGapFree /\ SequenceBound /\ ChainedBackwards /\ HashInHand
    BY <1>2, <1>3 DEF SequenceGapFree, SequenceBound, ChainedBackwards, HashInHand, InCall
  <1>7. Ids(db.audit) = {} /\ failed = {} /\ acked = {}
    BY <1>2 DEF Ids, Init
  <1>8. FreshEntries /\ OutcomeTruthful
    BY <1>3, <1>7 DEF FreshEntries, OutcomeTruthful, InCall
  <1>9. BreaksBetweenProcesses
    BY <1>2 DEF BreaksBetweenProcesses, BrokenAt
  <1>10. QED
    BY <1>4, <1>5, <1>6, <1>8, <1>9 DEF IInv

\* It mentions nothing but the variables of the specification.
LEMMA StutterIInv == IInv /\ UNCHANGED vars => IInv'
  BY DEF vars, IInv, TypeOK, OneWriter, NoLostUpdate, SnapshotsArePast, LockDiscipline,
         SequenceGapFree, SequenceBound, FreshEntries, OutcomeTruthful, ChainedBackwards,
         HashInHand, BreaksBetweenProcesses, BrokenAt, InCall, NewRow, Entry

\* Every step keeps it.
LEMMA NextIInv == IInv /\ [Next]_vars => IInv'
  <1> SUFFICES ASSUME IInv, [Next]_vars PROVE IInv'
    OBVIOUS
  <1>1. CASE UNCHANGED vars
    BY <1>1, StutterIInv
  <1>2. ASSUME NEW p \in Proc, Log(p) PROVE IInv'
    BY <1>2, ReadLastHashStep, ReadNextSequenceStep, InsertStep, InsertDuplicateStep,
       InsertRefusedStep, CommitRowStep, ReturnEntryStep DEF Log
  <1>3. ASSUME NEW p \in Proc, Other(p) PROVE IInv'
    BY <1>3, VerifyStep, ReadOtherStep, WriteOtherStep, WriteOtherRaisesStep, WriteOtherRefusedStep,
       CommitOtherStep, RestartStep DEF Other
  <1>4. QED
    BY <1>1, <1>2, <1>3 DEF Next

\* The invariant everything else follows from holds in every reachable state.
THEOREM InductiveInvariant == Spec => []IInv
  BY InitIInv, NextIInv, PTL DEF Spec

\* Every variable stays in its type, and every snapshot is a database.
THEOREM TypeCorrect == Spec => []TypeOK
  <1>1. IInv => TypeOK
    BY DEF IInv
  <1>2. QED
    BY <1>1, InductiveInvariant, PTL

\* Sequence numbers have no gap and no duplicate, however the calls of log()
\* in different processes interleave, fail and are cut off.
THEOREM SequenceNumbers == Spec => []SequenceGapFree
  <1>1. IInv => SequenceGapFree
    BY DEF IInv
  <1>2. QED
    BY <1>1, InductiveInvariant, PTL

\* Every row is chained to an earlier row or to the genesis hash.
THEOREM Chained == Spec => []ChainedBackwards
  <1>1. IInv => ChainedBackwards
    BY DEF IInv
  <1>2. QED
    BY <1>1, InductiveInvariant, PTL

\* An entry log() returned is in the table; one it raised for never is.
THEOREM Truthful == Spec => []OutcomeTruthful
  <1>1. IInv => OutcomeTruthful
    BY DEF IInv
  <1>2. QED
    BY <1>1, InductiveInvariant, PTL

\* A break in the chain lies between rows of two different processes.
THEOREM BreaksNeedTwoProcesses == Spec => []BreaksBetweenProcesses
  <1>1. IInv => BreaksBetweenProcesses
    BY DEF IInv
  <1>2. QED
    BY <1>1, InductiveInvariant, PTL

\* With one process, verify_chain_integrity() never finds a break, whatever
\* that process fails at and whenever it is killed.
THEOREM SingleProcessChainIntact ==
    ASSUME \A p, q \in Proc : p = q
    PROVE  Spec => []ChainIntact
  <1>1. IInv => ChainIntact
    <2> SUFFICES ASSUME IInv, NEW i \in BrokenAt(db.audit) PROVE FALSE
      BY DEF ChainIntact, Broken
    <2>1. db.audit \in Seq(Row) /\ i \in 1..Len(db.audit)
      BY DEF IInv, TypeOK, Database, BrokenAt
    <2>2. i > 1 /\ db.audit[i].entry_id[1] # db.audit[i - 1].entry_id[1]
      BY DEF IInv, BreaksBetweenProcesses
    <2>3. \A j \in 1..Len(db.audit) : db.audit[j].entry_id[1] \in Proc
      <3>1. \A j \in 1..Len(db.audit) : db.audit[j] \in Row
        BY <2>1
      <3>2. \A id \in EntryId : id[1] \in Proc
        BY DEF EntryId
      <3>3. QED
        BY <3>1, <3>2 DEF Row
    <2>4. QED
      BY <2>1, <2>2, <2>3
  <1>2. QED
    BY <1>1, InductiveInvariant, PTL

\* Of all steps, only CommitRow touches the audit table, and it appends.
LEMMA AuditStep ==
    ASSUME IInv, [Next]_vars
    PROVE  \/ db'.audit = db.audit
           \/ \E p \in Proc : CommitRow(p) /\ db'.audit = Append(db.audit, NewRow(p))
  <1>1. CASE UNCHANGED vars
    BY <1>1 DEF vars
  <1>2. ASSUME NEW p \in Proc, CommitRow(p)
        PROVE  db'.audit = Append(db.audit, NewRow(p))
    BY <1>2 DEF IInv, TypeOK, Database, NoLostUpdate, CommitRow, Goto, Commit
  <1>3. ASSUME NEW p \in Proc, CommitOther(p)
        PROVE  db'.audit = db.audit
    BY <1>3 DEF IInv, LockDiscipline, CommitOther, Goto, Commit
  <1>4. ASSUME NEW p \in Proc, Log(p), ~CommitRow(p)
        PROVE  db' = db
    BY <1>4 DEF Log, ReadLastHash, ReadNextSequence, Insert, InsertDuplicate, InsertRefused,
                ReturnEntry, Select, Write, Refused
  <1>5. ASSUME NEW p \in Proc, Other(p), ~CommitOther(p)
        PROVE  db' = db
    BY <1>5 DEF Other, Verify, ReadOther, WriteOther, WriteOtherRaises, WriteOtherRefused, Restart,
                Select, Write, Refused, Close
  <1>6. QED
    BY <1>1, <1>2, <1>3, <1>4, <1>5 DEF Next

\* A row that breaks the chain of a table breaks it in every later table.
LEMMA BrokenGrows ==
    ASSUME NEW rows \in Seq(Row), NEW old \in Seq(Row), IsPrefix(old, rows),
           Numbered(rows), Numbered(old)
    PROVE  Broken(old) \subseteq Broken(rows)
  <1>1. Len(old) <= Len(rows) /\ \A i \in 1..Len(old) : old[i] = rows[i]
    BY PrefixFacts
  <1>2. ASSUME NEW i \in BrokenAt(old)
        PROVE  i \in BrokenAt(rows) /\ rows[i] = old[i]
    <2>1. /\ i \in 1..Len(old) /\ i \in DOMAIN rows /\ i \in DOMAIN old
          /\ old[i].prev # HashAt(old, Before(old, i))
      BY <1>1 DEF BrokenAt
    <2>2. HashAt(old, Before(old, i)) = HashAt(rows, Before(rows, i))
      <3>1. HashAt(old, Before(old, i)) = IF i = 1 THEN GenesisHash ELSE old[i - 1].entry_id
        BY <2>1, PredecessorOfNumbered
      <3>2. HashAt(rows, Before(rows, i)) = IF i = 1 THEN GenesisHash ELSE rows[i - 1].entry_id
        BY <2>1, PredecessorOfNumbered
      <3>3. i # 1 => old[i - 1] = rows[i - 1]
        BY <1>1, <2>1
      <3>4. QED
        BY <3>1, <3>2, <3>3
    <2>3. QED
      BY <1>1, <2>1, <2>2 DEF BrokenAt
  <1>3. QED
    BY <1>2 DEF Broken

\* A step of any process keeps the rows that are in, and what is broken in them.
LEMMA TableGrows ==
    ASSUME IInv, IInv', [Next]_vars
    PROVE  /\ IsPrefix(db.audit, db'.audit)
           /\ Ids(db.audit) \subseteq Ids(db'.audit)
           /\ Broken(db.audit) \subseteq Broken(db'.audit)
  <1>1. /\ db.audit \in Seq(Row) /\ Numbered(db.audit)
        /\ db'.audit \in Seq(Row) /\ Numbered(db'.audit)
        /\ IsPrefix(db.audit, db.audit)
    BY PrefixReflexive DEF IInv, TypeOK, Database, SequenceGapFree, Numbered
  <1>2. ASSUME NEW p \in Proc, CommitRow(p), db'.audit = Append(db.audit, NewRow(p))
        PROVE  IsPrefix(db.audit, db'.audit)
    <2>1. NewRow(p) \in Row
      BY <1>2, EntryTyped DEF IInv, TypeOK, NewRow, Row, CommitRow, Goto
    <2>2. QED
      BY <1>1, <1>2, <2>1, PrefixOfAppended
  <1>3. IsPrefix(db.audit, db'.audit)
    BY <1>1, <1>2, AuditStep
  <1>4. Ids(db.audit) \subseteq Ids(db'.audit)
    <2>1. Len(db.audit) <= Len(db'.audit) /\ \A i \in 1..Len(db.audit) : db.audit[i] = db'.audit[i]
      BY <1>1, <1>3, PrefixFacts
    <2>2. QED
      BY <1>1, <2>1 DEF Ids
  <1>5. Broken(db.audit) \subseteq Broken(db'.audit)
    BY <1>1, <1>3, BrokenGrows
  <1>6. QED
    BY <1>3, <1>4, <1>5

\* No step of any process changes or removes a committed row.
THEOREM OnlyAppends == Spec => AppendOnly
  <1>1. IInv /\ IInv' /\ [Next]_vars => [IsPrefix(db.audit, db'.audit)]_vars
    BY TableGrows
  <1>2. QED
    BY <1>1, InductiveInvariant, PTL DEF Spec, AppendOnly

\* Any number of processes together implement the abstract audit trail.
THEOREM TrailImplemented == Spec => ImplementsTrail
  <1>1. Init => Trail!TrailInit
    BY DEF Init, EngineInit, Trail!TrailInit
  <1>2. IInv /\ [Next]_vars => [Trail!TrailNext]_(Trail!trailVars)
    <2> SUFFICES ASSUME IInv, [Next]_vars PROVE [Trail!TrailNext]_(Trail!trailVars)
      OBVIOUS
    <2>1. ASSUME NEW p \in Proc, CommitRow(p), db'.audit = Append(db.audit, NewRow(p))
          PROVE  Trail!AppendRow
      <3>1. Entry(p) \in EntryId \ (Ids(db.audit) \cup failed)
        BY <2>1, EntryTyped, EntryUnused DEF CommitRow, Goto, InCall
      <3>2. prevHash[p] \in Ids(db.audit) \cup {GenesisHash}
        <4>1. PICK k \in 0..Len(db.audit) :
                 prevHash[p] = IF k = 0 THEN GenesisHash ELSE db.audit[k].entry_id
          BY <2>1 DEF IInv, HashInHand, LockDiscipline, CommitRow, Goto, InCall
        <4>2. db.audit \in Seq(Row)
          BY DEF IInv, TypeOK, Database
        <4>3. QED
          BY <4>1, <4>2 DEF Ids
      <3>3. NewRow(p) = [entry_id |-> Entry(p), prev |-> prevHash[p], seq |-> Len(db.audit) + 1]
        BY <2>1 DEF IInv, SequenceBound, NewRow, CommitRow, Goto
      <3>4. UNCHANGED <<acked, failed>>
        BY <2>1 DEF CommitRow
      <3>5. QED
        BY <2>1, <3>1, <3>2, <3>3, <3>4 DEF Trail!AppendRow, Trail!Ids, Ids,
           Trail!GenesisHash, GenesisHash
    <2>2. ASSUME NEW p \in Proc, ReturnEntry(p)
          PROVE  Trail!Acknowledge
      <3>1. Entry(p) \in Ids(db.audit)
        BY <2>2 DEF IInv, FreshEntries, ReturnEntry, Goto
      <3>2. QED
        BY <2>2, <3>1 DEF Trail!Acknowledge, Trail!Ids, Ids, ReturnEntry
    <2>3. ASSUME NEW p \in Proc, InsertDuplicate(p) \/ InsertRefused(p)
          PROVE  Trail!Refuse
      <3>1. Entry(p) \in EntryId \ Ids(db.audit)
        BY <2>3, EntryTyped, EntryUnused DEF InsertDuplicate, InsertRefused, Goto, InCall
      <3>2. failed' = failed \cup {Entry(p)} /\ UNCHANGED <<db, acked>>
        BY <2>3 DEF InsertDuplicate, InsertRefused, Write, Refused
      <3>3. QED
        BY <3>1, <3>2 DEF Trail!Refuse, Trail!Ids, Ids
    <2>4. ASSUME NEW p \in Proc, CommitRow(p)
          PROVE  db'.audit = Append(db.audit, NewRow(p))
      BY <2>4 DEF IInv, TypeOK, Database, NoLostUpdate, CommitRow, Goto, Commit
    <2>5. ASSUME NEW p \in Proc,
                 ReadLastHash(p) \/ ReadNextSequence(p) \/ Insert(p) \/ Other(p)
          PROVE  UNCHANGED <<acked, failed>> /\ (CommitOther(p) \/ db' = db)
      BY <2>5 DEF Other, ReadLastHash, ReadNextSequence, Insert, Verify, ReadOther, WriteOther,
                  WriteOtherRaises, WriteOtherRefused, CommitOther, Restart, Select, Write, Refused, Close
    <2>6. ASSUME NEW p \in Proc, CommitOther(p)
          PROVE  db'.audit = db.audit
      BY <2>6 DEF IInv, LockDiscipline, CommitOther, Goto, Commit
    <2>7. QED
      BY <2>1, <2>2, <2>3, <2>4, <2>5, <2>6
      DEF Next, Log, vars, Trail!TrailNext, Trail!trailVars
  <1>3. QED
    BY <1>1, <1>2, InductiveInvariant, PTL DEF Spec, ImplementsTrail, Trail!TrailSpec

-----------------------------------------------------------------------------
(* What a step of one process leaves to the others                         *)

\* A step of p in the log is p's own: the others' calls are where they were, and
\* a connection with no transaction still has none.
LEMMA OthersStay ==
    ASSUME IInv, NEW p \in Proc, NEW q \in Proc \ {p}, Log(p) \/ Other(p)
    PROVE  /\ pc'[q] = pc[q] /\ calls'[q] = calls[q]
           /\ tx[q] = "none" => tx'[q] = "none"
           /\ tx[q] = "stale" => tx'[q] = "stale"
  <1> USE DEF IInv, TypeOK, Goto, Select, Write, Refused, Commit, Close, Forget
  <1>1. CASE ReadLastHash(p) \/ ReadNextSequence(p)
    BY <1>1 DEF ReadLastHash, ReadNextSequence
  <1>2. CASE Insert(p) \/ InsertDuplicate(p) \/ InsertRefused(p)
    BY <1>2 DEF Insert, InsertDuplicate, InsertRefused
  <1>3. CASE CommitRow(p) \/ CommitOther(p)
    BY <1>3 DEF CommitRow, CommitOther
  <1>4. CASE ReturnEntry(p) \/ Verify(p) \/ ReadOther(p)
    BY <1>4 DEF ReturnEntry, Verify, ReadOther
  <1>5. ASSUME NEW r \in Rest, WriteOther(p, r) \/ WriteOtherRaises(p, r)
        PROVE  /\ pc'[q] = pc[q] /\ calls'[q] = calls[q]
               /\ tx[q] = "none" => tx'[q] = "none"
               /\ tx[q] = "stale" => tx'[q] = "stale"
    BY <1>5 DEF WriteOther, WriteOtherRaises
  <1>6. CASE WriteOtherRefused(p) \/ Restart(p)
    BY <1>6 DEF WriteOtherRefused, Restart
  <1>7. QED
    BY <1>1, <1>2, <1>3, <1>4, <1>5, <1>6 DEF Log, Other

-----------------------------------------------------------------------------
(* Reports of verify_chain_integrity() stay true                           *)

\* What a verification has reported as broken is broken for ever after.
THEOREM ReportsTrue == Spec => []ReportsStayTrue
  <1>1. Init => ReportsStayTrue
    BY DEF Init, ReportsStayTrue
  <1>2. IInv /\ IInv' /\ ReportsStayTrue /\ [Next]_vars => ReportsStayTrue'
    <2> SUFFICES ASSUME IInv, IInv', ReportsStayTrue, [Next]_vars PROVE ReportsStayTrue'
      OBVIOUS
    <2>1. db.audit \in Seq(Row) /\ Numbered(db.audit)
      BY DEF IInv, TypeOK, Database, SequenceGapFree, Numbered
    <2>2. Broken(db.audit) \subseteq Broken(db'.audit)
      BY TableGrows
    <2>3. ASSUME NEW p \in Proc, Verify(p)
          PROVE  ReportsStayTrue'
      <3>1. /\ Seen(p).audit \in Seq(Row) /\ Numbered(Seen(p).audit)
            /\ IsPrefix(Seen(p).audit, db.audit)
        BY <2>3, SeenFacts DEF Verify, Database
      <3>2. Broken(Seen(p).audit) \subseteq Broken(db.audit)
        BY <2>1, <3>1, BrokenGrows
      <3>3. QED
        BY <2>2, <2>3, <3>2 DEF IInv, TypeOK, ReportsStayTrue, Verify
    <2>4. ASSUME NEW p \in Proc, Restart(p)
          PROVE  ReportsStayTrue'
      BY <2>2, <2>4 DEF IInv, TypeOK, ReportsStayTrue, Restart
    <2>5. ASSUME report' = report
          PROVE  ReportsStayTrue'
      BY <2>2, <2>5 DEF ReportsStayTrue
    <2>6. ASSUME NEW p \in Proc, Log(p)
          PROVE  report' = report
      BY <2>6 DEF Log, ReadLastHash, ReadNextSequence, Insert, InsertDuplicate, InsertRefused,
                  CommitRow, ReturnEntry
    <2>7. ASSUME NEW p \in Proc, Other(p), ~Verify(p), ~Restart(p)
          PROVE  report' = report
      BY <2>7 DEF Other, ReadOther, WriteOther, WriteOtherRaises, WriteOtherRefused, CommitOther
    <2>8. QED
      BY <2>3, <2>4, <2>5, <2>6, <2>7 DEF Next, vars
  <1>3. QED
    BY <1>1, <1>2, InductiveInvariant, PTL DEF Spec

-----------------------------------------------------------------------------
(* One process alone                                                       *)

\* Alone, a process never waits, is never refused and computes the right number.
Alone ==
    \A p \in Proc :
        /\ tx[p] \in {"none", "write"}
        /\ pc[p] = "prepared" => nextSeq[p] = Len(db.audit) + 1
        /\ failed = {}

\* With one process, log() never raises.
THEOREM SingleProcessNeverFails ==
    ASSUME \A p, q \in Proc : p = q, Proc # {}
    PROVE  Spec => []LogNeverRaises
  <1>1. Init => Alone
    BY DEF Init, EngineInit, Alone
  <1>2. IInv /\ Alone /\ [Next]_vars => Alone'
    <2> SUFFICES ASSUME IInv, Alone, [Next]_vars PROVE Alone'
      OBVIOUS
    <2>1. ASSUME NEW p \in Proc PROVE MayWrite(p) /\ (pc[p] # "inserted" => Seen(p).audit = db.audit)
      BY DEF Alone, MayWrite, Seen, IInv, LockDiscipline
    <2>2. /\ db.audit \in Seq(Row) /\ Numbered(db.audit)
      BY DEF IInv, TypeOK, Database, SequenceGapFree, Numbered
    <2>3. NextSequence(db.audit) = Len(db.audit) + 1
      BY <2>2, NextSequenceOfNumbered
    <2>4. ASSUME NEW p \in Proc PROVE ~InsertDuplicate(p) /\ ~InsertRefused(p) /\ ~WriteOtherRefused(p)
      <3>1. ~InsertRefused(p) /\ ~WriteOtherRefused(p)
        BY <2>1 DEF InsertRefused, WriteOtherRefused, Refused
      <3>2. ASSUME InsertDuplicate(p) PROVE FALSE
        <4>1. Seen(p).audit = db.audit /\ nextSeq[p] = Len(db.audit) + 1
          BY <2>1, <3>2 DEF Alone, InsertDuplicate, Goto
        <4>2. \A i \in DOMAIN db.audit : db.audit[i].seq # nextSeq[p]
          BY <2>2, <4>1 DEF Numbered
        <4>3. QED
          BY <3>2, <4>1, <4>2 DEF InsertDuplicate, SequenceTaken
      <3>3. QED
        BY <3>1, <3>2
    <2>5. ASSUME NEW p \in Proc, ReadLastHash(p) PROVE Alone'
      BY <2>5 DEF Alone, IInv, TypeOK, ReadLastHash, Goto, Select
    <2>6. ASSUME NEW p \in Proc, ReadNextSequence(p) PROVE Alone'
      BY <2>1, <2>3, <2>6 DEF Alone, IInv, TypeOK, ReadNextSequence, Goto, Select
    <2>7. ASSUME NEW p \in Proc, Insert(p) PROVE Alone'
      BY <2>7 DEF Alone, IInv, TypeOK, Insert, Goto, Write
    <2>8. ASSUME NEW p \in Proc, CommitRow(p) PROVE Alone'
      BY <2>8 DEF Alone, IInv, TypeOK, CommitRow, Goto, Commit
    <2>9. ASSUME NEW p \in Proc, ReturnEntry(p) PROVE Alone'
      BY <2>9 DEF Alone, IInv, TypeOK, ReturnEntry, Goto
    <2>10. ASSUME NEW p \in Proc, Verify(p) \/ ReadOther(p) PROVE Alone'
      BY <2>10 DEF Alone, IInv, TypeOK, Verify, ReadOther, Select
    <2>11. ASSUME NEW p \in Proc, NEW r \in Rest, WriteOther(p, r) PROVE Alone'
      BY <2>11 DEF Alone, IInv, TypeOK, WriteOther, Goto, Write
    <2>16. ASSUME NEW p \in Proc, NEW r \in Rest, WriteOtherRaises(p, r) PROVE Alone'
      BY <2>16 DEF Alone, IInv, TypeOK, WriteOtherRaises, Write
    <2>12. ASSUME NEW p \in Proc, CommitOther(p) PROVE Alone'
      BY <2>12 DEF Alone, IInv, TypeOK, LockDiscipline, CommitOther, Goto, Commit
    <2>13. ASSUME NEW p \in Proc, Restart(p) PROVE Alone'
      BY <2>13 DEF Alone, IInv, TypeOK, Restart, Close, Forget
    <2>14. CASE UNCHANGED vars
      BY <2>14 DEF vars, Alone
    <2>15. QED
      BY <2>4, <2>5, <2>6, <2>7, <2>8, <2>9, <2>10, <2>11, <2>12, <2>13, <2>14, <2>16
      DEF Next, Log, Other
  <1>3. Alone => LogNeverRaises
    BY DEF Alone, LogNeverRaises
  <1>4. QED
    BY <1>1, <1>2, <1>3, InductiveInvariant, PTL DEF Spec
=============================================================================
