----------------------------- MODULE AuditTable -----------------------------
(***************************************************************************)
(* The audit table and what audit.py computes from it.  A table is the     *)
(* sequence of its rows in the order they were committed.  Of a row only   *)
(* what the chain depends on is kept: its entry_id, its sequence_num and   *)
(* the hash it was chained to.  SHA-256 is taken to be collision free and  *)
(* entry_id is a fresh uuid4, so a row's own hash_chain is named by its    *)
(* entry_id.                                                               *)
(***************************************************************************)
EXTENDS Naturals, Sequences

\* The hash before the first entry, which is no entry's.
GenesisHash == <<>>

Ids(rows) == {rows[i].entry_id : i \in DOMAIN rows}

\* Of the rows at positions S, the one with the greatest sequence_num.
Newest(rows, S) == CHOOSE i \in S : \A j \in S : rows[j].seq <= rows[i].seq

HashAt(rows, S) == IF S = {} THEN GenesisHash ELSE rows[Newest(rows, S)].entry_id

\* Mutant of LastHash: ORDER BY sequence_num without DESC.
OldestHash(rows) == HashAt(rows, DOMAIN rows \cap {1})

\* SELECT hash_chain ... ORDER BY sequence_num DESC LIMIT 1
LastHash(rows) == HashAt(rows, DOMAIN rows)

\* Mutant of NextSequence: (MAX(sequence_num) or 1) + 1.
NextSequenceFromTwo(rows) ==
    IF rows = <<>> THEN 2 ELSE rows[Newest(rows, DOMAIN rows)].seq + 1

\* (MAX(sequence_num) or 0) + 1
NextSequence(rows) ==
    IF rows = <<>> THEN 1 ELSE rows[Newest(rows, DOMAIN rows)].seq + 1

\* The rows before position i in sequence_num order.
Before(rows, i) == {j \in DOMAIN rows : rows[j].seq < rows[i].seq}

\* verify_chain_integrity: the entries whose stored hash is not the one
\* recomputed from the row before them.
BrokenAt(rows) == {i \in DOMAIN rows : rows[i].prev # HashAt(rows, Before(rows, i))}

Broken(rows) == {rows[i].entry_id : i \in BrokenAt(rows)}
=============================================================================
