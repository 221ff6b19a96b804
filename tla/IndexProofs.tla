----------------------------- MODULE IndexProofs -----------------------------
(***************************************************************************)
(* Proofs about Index, for any number of crawlers, files and edits.        *)
(***************************************************************************)
EXTENDS Index, AuditLogProofs

-----------------------------------------------------------------------------
(* The tables                                                              *)

\* A text there has been is one of the texts there can be, and the next edit
\* makes a new one.
LEMMA MadeFacts ==
    ASSUME IndexTypeOK
    PROVE  /\ Made \subseteq Texts
           /\ edits < MaxEdits => edits + 1 \in Texts /\ edits + 1 \notin Made
  <1>1. edits \in 0..MaxEdits /\ MaxEdits \in Nat
    BY EditsAssumption DEF IndexTypeOK
  <1>2. 1..edits \subseteq 1..MaxEdits
    BY <1>1
  <1>3. ASSUME edits < MaxEdits
        PROVE  edits + 1 \in 1..MaxEdits /\ edits + 1 \notin 1..edits
    BY <1>1, <1>3
  <1>4. QED
    BY <1>2, <1>3, OldTextsAssumption DEF Made, Texts

\* What a process between two writes sees are tables.
LEMMA SeenTyped ==
    ASSUME IInv, NEW p \in Proc
    PROVE  Seen(p).rest \in Tables
  BY RestAssumption DEF IInv, TypeOK, Database, Seen, TxStates

\* Unless its snapshot is stale, it sees the tables as it has left them.
LEMMA SeenIsLatest ==
    ASSUME IInv, NEW p \in Proc, tx[p] # "stale"
    PROVE  Seen(p).rest = Latest(p)
  <1>1. CASE tx[p] = "read"
    BY <1>1 DEF Seen, Latest, IInv, SnapshotsArePast
  <1>2. CASE tx[p] \in {"none", "begun", "write"}
    BY <1>2 DEF Seen, Latest
  <1>3. QED
    BY <1>1, <1>2 DEF IInv, TypeOK, TxStates

LEMMA LatestKept ==
    ASSUME TablesKept, NEW p \in Proc
    PROVE  FilesKept(Latest(p))
  BY DEF TablesKept, Latest

\* What index_volume() holds of a file.
LEMMA CrawlTyped ==
    ASSUME IndexTypeOK, NEW p \in Proc
    PROVE  /\ crawl[p] \in Crawls
           /\ crawl[p].at \in Points /\ crawl[p].force \in BOOLEAN
           /\ crawl[p].todo \in SUBSET Files /\ crawl[p].file \in Files \cup {Null}
           /\ crawl[p].mtime \in Texts \cup {Null} /\ crawl[p].text \in Texts \cup {Null}
  <1>1. crawl[p] \in Crawls
    BY DEF IndexTypeOK
  <1>2. QED
    BY <1>1 DEF Crawls

\* What is on the volume.
LEMMA DiskTyped ==
    ASSUME IndexTypeOK, NEW f \in Files, disk[f] # Null
    PROVE  /\ disk[f] \in [mtime : Made, text : Made]
           /\ disk[f].mtime \in Made /\ disk[f].text \in Made
           /\ disk[f] = [mtime |-> disk[f].mtime, text |-> disk[f].text]
  <1>1. disk[f] \in [mtime : Made, text : Made]
    BY DEF IndexTypeOK
  <1>2. QED
    BY <1>1

\* A row of a file in hand.
LEMMA RowTyped ==
    ASSUME IndexTypeOK, NEW p \in Proc, InHand(p), crawl[p].at = "extracted"
    PROVE  /\ crawl[p].file \in Files
           /\ crawl[p].mtime \in Made /\ crawl[p].text \in Made
           /\ FilesRow(p) \in FileRows /\ FilesRow(p) # Null
           /\ FilesRow(p).mtime = crawl[p].mtime /\ FilesRow(p).text = crawl[p].text
  <1>1. crawl[p].file \in Files /\ crawl[p].mtime \in Made /\ crawl[p].text \in Made
    BY DEF InHand
  <1>2. crawl[p].mtime \in Texts /\ crawl[p].text \in Texts
    BY <1>1, MadeFacts
  <1>3. FilesRow(p) \in FileRows
    BY <1>2 DEF FilesRow, FileRows
  <1>4. QED
    BY <1>1, <1>3, NullAssumption DEF FilesRow

LEMMA StoredTyped ==
    ASSUME IInv, IndexTypeOK, NEW p \in Proc, InHand(p), crawl[p].at = "extracted",
           NEW text \in {crawl[p].text, Null}
    PROVE  Stored(p, text) \in Tables
  <1>1. FilesRow(p) \in FileRows /\ text \in Texts \cup {Null}
    BY RowTyped, MadeFacts
  <1>2. /\ Seen(p).rest.files \in [Files -> FileRows \cup {Null}]
        /\ Seen(p).rest.fts \in [Files -> Texts \cup {Null}]
    BY SeenTyped DEF Tables
  <1>3. QED
    BY <1>1, <1>2 DEF Stored, Tables

-----------------------------------------------------------------------------
(* Every step of a crawl is a step of the audit log                        *)

LEMMA CrawlIsStep ==
    ASSUME IInv, IndexTypeOK, NEW p \in Proc, InHand(p), Crawl(p) \/ Crash(p)
    PROVE  Log(p) \/ Other(p) \/ UNCHANGED vars
  <1> USE DEF Log, Other
  <1>1. ASSUME NEW force \in BOOLEAN, StartCrawl(p, force)
        PROVE  UNCHANGED vars
    BY <1>1 DEF StartCrawl
  <1>2. ASSUME NEW f \in Files, Stat(p, f)
        PROVE  UNCHANGED vars
    BY <1>2 DEF Stat
  <1>3. CASE Extract(p) \/ ExtractFails(p) \/ EndCrawl(p)
    BY <1>3 DEF Extract, ExtractFails, EndCrawl
  <1>4. CASE LookUp(p) \/ CommitFile(p) \/ StoreRefused(p) \/ Crash(p)
    BY <1>4 DEF LookUp, CommitFile, StoreRefused, Crash
  <1>5. CASE Store(p)
    BY <1>5, StoredTyped, RestAssumption DEF Store, At
  <1>6. CASE StoreRaises(p)
    BY <1>6, StoredTyped, RestAssumption DEF StoreRaises, At
  <1>7. CASE Logging(p) \/ Report(p) \/ LogRaises(p)
    BY <1>7 DEF Logging, Report, LogRaises
  <1>8. QED
    BY <1>1, <1>2, <1>3, <1>4, <1>5, <1>6, <1>7 DEF Crawl

LEMMA IndexStepIsStep ==
    ASSUME IInv, IndexTypeOK, \A p \in Proc : InHand(p), [IndexNext]_indexVars
    PROVE  [Next]_vars
  <1>1. ASSUME NEW p \in Proc, Crawl(p) \/ Crash(p) PROVE [Next]_vars
    BY <1>1, CrawlIsStep DEF Next
  <1>2. ASSUME NEW f \in Files, Edit(f) PROVE [Next]_vars
    BY <1>2 DEF Edit
  <1>3. CASE UNCHANGED indexVars
    BY <1>3 DEF indexVars
  <1>4. QED
    BY <1>1, <1>2, <1>3 DEF IndexNext

-----------------------------------------------------------------------------
(* The tables through the engine's steps                                   *)

\* What a step of p leaves of the other connections.
LEMMA OthersKeep ==
    ASSUME IInv, NEW p \in Proc, NEW q \in Proc \ {p}, Log(p) \/ Other(p) \/ UNCHANGED vars
    PROVE  /\ pc'[q] = pc[q] /\ view'[q] = view[q]
           /\ tx'[q] = tx[q] \/ (tx[q] = "read" /\ tx'[q] = "stale" /\ db' # db)
  <1> USE DEF IInv, TypeOK, Goto, Select, Write, Refused, Commit, Close, Forget
  <1>1. CASE ReadLastHash(p) \/ ReadNextSequence(p)
    BY <1>1 DEF ReadLastHash, ReadNextSequence
  <1>2. CASE Insert(p) \/ InsertDuplicate(p) \/ InsertRefused(p)
    BY <1>2 DEF Insert, InsertDuplicate, InsertRefused
  <1>3. CASE CommitRow(p) \/ CommitOther(p)
    BY <1>3 DEF CommitRow, CommitOther
  <1>4. CASE ReturnEntry(p) \/ Verify(p) \/ ReadOther(p)
    BY <1>4 DEF ReturnEntry, Verify, ReadOther
  <1>5. ASSUME NEW r \in Rest, WriteOther(p, r) \/ WriteOtherRaises(p, r)
        PROVE  pc'[q] = pc[q] /\ view'[q] = view[q] /\ tx'[q] = tx[q]
    BY <1>5 DEF WriteOther, WriteOtherRaises
  <1>6. CASE WriteOtherRefused(p) \/ Restart(p)
    BY <1>6 DEF WriteOtherRefused, Restart
  <1>7. CASE UNCHANGED vars
    BY <1>7 DEF vars
  <1>8. QED
    BY <1>1, <1>2, <1>3, <1>4, <1>5, <1>6, <1>7 DEF Log, Other

\* Tables are kept as long as the volume stays as it is.
LEMMA FilesStayKept ==
    ASSUME NEW tables, FilesKept(tables), disk' = disk, edits' = edits
    PROVE  FilesKept(tables)'
  BY DEF FilesKept, Made, Current, AgreeOrHalf, Agree

\* p's connection: it goes on seeing the tables it left, committed or not.
LatestStays(p) ==
    /\ Latest(p)' = Latest(p)
    /\ tx'[p] = "stale" <=> tx[p] = "stale"

LEMMA LogKeepsLatest ==
    ASSUME IInv, NEW p \in Proc,
           Log(p) \/ ReadOther(p) \/ WriteOtherRefused(p) \/ CommitOther(p)
    PROVE  LatestStays(p) /\ (db' = db \/ (tx[p] = "write" /\ db' = view[p]))
  <1> USE DEF IInv, TypeOK, Goto, Latest, LatestStays
  <1>1. CASE ReadLastHash(p) \/ ReadNextSequence(p) \/ ReadOther(p)
    BY <1>1 DEF ReadLastHash, ReadNextSequence, ReadOther, Select
  <1>2. CASE Insert(p) \/ InsertDuplicate(p)
    <2>1. /\ tx[p] # "stale" /\ tx'[p] = "write" /\ db' = db
          /\ view'[p].rest = Seen(p).rest
      BY <1>2 DEF Insert, InsertDuplicate, Write, MayWrite
    <2>2. QED
      BY <2>1, SeenIsLatest
  <1>3. CASE InsertRefused(p) \/ WriteOtherRefused(p)
    BY <1>3 DEF InsertRefused, WriteOtherRefused, Refused
  <1>4. CASE CommitRow(p) \/ CommitOther(p)
    BY <1>4 DEF CommitRow, CommitOther, Commit
  <1>5. CASE ReturnEntry(p)
    BY <1>5 DEF ReturnEntry
  <1>6. QED
    BY <1>1, <1>2, <1>3, <1>4, <1>5 DEF Log
\* A step of p keeps the tables if it keeps those p has left.
LEMMA KeptSuffices ==
    ASSUME IInv, TablesKept, NEW p \in Proc, Log(p) \/ Other(p) \/ UNCHANGED vars,
           disk' = disk, edits' = edits,
           db' = db \/ (tx[p] = "write" /\ db' = view[p]),
           FilesKept(Latest(p))'
    PROVE  TablesKept'
  <1>1. PICK committed : committed = db'.rest /\ FilesKept(committed)
    BY DEF TablesKept
  <1>2. FilesKept(db.rest)'
    BY <1>1, FilesStayKept
  <1>3. ASSUME NEW q \in Proc, tx'[q] = "write"
        PROVE  FilesKept(view[q].rest)'
    <2>1. CASE q = p
      BY <1>3, <2>1 DEF Latest
    <2>2. CASE q # p
      <3>1. view'[q] = view[q] /\ tx[q] = "write"
        BY <1>3, <2>2, OthersKeep
      <3>2. PICK pending : pending = view'[q].rest /\ FilesKept(pending)
        BY <3>1 DEF TablesKept
      <3>3. QED
        BY <3>2, FilesStayKept
    <2>3. QED
      BY <2>1, <2>2
  <1>4. QED
    BY <1>2, <1>3 DEF TablesKept

\* So does a step that leaves p's tables alone.
LEMMA KeptByStaying ==
    ASSUME IInv, TablesKept, NEW p \in Proc, Log(p) \/ Other(p) \/ UNCHANGED vars,
           disk' = disk, edits' = edits,
           db' = db \/ (tx[p] = "write" /\ db' = view[p]),
           LatestStays(p)
    PROVE  TablesKept'
  <1>1. PICK tables : tables = Latest(p)' /\ FilesKept(tables)
    BY LatestKept DEF LatestStays
  <1>2. FilesKept(Latest(p))'
    BY <1>1, FilesStayKept
  <1>3. QED
    BY <1>2, KeptSuffices

\* The three statements of _index_one(), or those of them that were executed.
LEMMA StoredKept ==
    ASSUME IInv, IndexTypeOK, TablesKept, NEW p \in Proc, InHand(p), crawl[p].at = "extracted",
           tx[p] # "stale", NEW text,
           text = crawl[p].text \/ (text = Null /\ crawl[p].text \in Unencodable)
    PROVE  FilesKept(Stored(p, text))
  <1>1. FilesKept(Seen(p).rest)
    BY SeenIsLatest, LatestKept
  <1>2. /\ Seen(p).rest.files \in [Files -> FileRows \cup {Null}]
        /\ Seen(p).rest.fts \in [Files -> Texts \cup {Null}]
    BY SeenTyped DEF Tables
  <1>3. PICK file : file = crawl[p].file /\ file \in Files
    BY RowTyped
  <1>4. PICK row : /\ row = FilesRow(p) /\ row # Null
                   /\ row.mtime = crawl[p].mtime /\ row.text = crawl[p].text
                   /\ row.mtime \in Made /\ row.text \in Made
                   /\ Current(file, row.mtime, row.text)
    BY <1>3, RowTyped DEF InHand
  <1>5. PICK new : /\ new = Stored(p, text)
                   /\ new.files[file] = row /\ new.fts[file] = text
                   /\ \A f \in Files \ {file} : /\ new.files[f] = Seen(p).rest.files[f]
                                                /\ new.fts[f] = Seen(p).rest.fts[f]
    <2>1. PICK new : new = Stored(p, text)
      OBVIOUS
    <2>2. /\ new.files = [Seen(p).rest.files EXCEPT ![file] = row]
          /\ new.fts = [Seen(p).rest.fts EXCEPT ![file] = text]
      BY <1>3, <1>4, <2>1 DEF Stored
    <2>3. QED
      BY <1>2, <1>3, <2>1, <2>2
  <1>6. AgreeOrHalf(new, file)
    BY <1>4, <1>5 DEF AgreeOrHalf, Agree
  <1>7. ASSUME NEW f \in Files \ {file}
        PROVE  /\ new.files[f] # Null =>
                     /\ new.files[f].mtime \in Made /\ new.files[f].text \in Made
                     /\ Current(f, new.files[f].mtime, new.files[f].text)
               /\ AgreeOrHalf(new, f)
    BY <1>1, <1>5 DEF FilesKept, AgreeOrHalf, Agree
  <1>8. FilesKept(new)
    BY <1>4, <1>5, <1>6, <1>7 DEF FilesKept
  <1>9. QED
    BY <1>5, <1>8

LEMMA WriteKept ==
    ASSUME IInv, IndexTypeOK, TablesKept, NEW p \in Proc, InHand(p), At(p, "extracted"), NEW text,
           text = crawl[p].text \/ (text = Null /\ crawl[p].text \in Unencodable),
           WriteOther(p, Stored(p, text)) \/ WriteOtherRaises(p, Stored(p, text)),
           disk' = disk, edits' = edits
    PROVE  /\ TablesKept'
           /\ db' = db /\ tx[p] # "stale" /\ tx'[p] = "write"
           /\ Latest(p)' = Stored(p, text)
  <1>1. /\ db' = db /\ tx[p] # "stale" /\ tx'[p] = "write"
        /\ view'[p].rest = Stored(p, text)
    BY DEF WriteOther, WriteOtherRaises, Write, MayWrite, IInv, TypeOK
  <1>2. crawl[p].at = "extracted" /\ text \in {crawl[p].text, Null}
    BY DEF At
  <1>3. PICK new : new = Stored(p, text) /\ FilesKept(new) /\ new \in Tables
    BY <1>1, <1>2, StoredKept, StoredTyped
  <1>4. Latest(p)' = new
    BY <1>1, <1>3 DEF Latest
  <1>5. FilesKept(new)'
    BY <1>3, FilesStayKept
  <1>6. FilesKept(Latest(p))'
    BY <1>4, <1>5
  <1>7. Other(p)
    BY <1>3, RestAssumption DEF Other
  <1>8. QED
    BY <1>1, <1>3, <1>4, <1>6, <1>7, KeptSuffices

-----------------------------------------------------------------------------
(* A step of p that keeps p's own part keeps the invariant                 *)

Away(at) == at \in {"none", "reported"}

\* What another crawl knows of the file in hand stays true while the volume
\* stays as it is.
LEMMA InHandStays ==
    ASSUME NEW q \in Proc, InHand(q), crawl'[q] = crawl[q], quiet'[q] => quiet[q],
           disk' = disk, edits' = edits
    PROVE  InHand(q)'
  BY DEF InHand, Made, Current

LEMMA StepSuffices ==
    ASSUME IndexInv, IInv', NEW p \in Proc, Log(p) \/ Other(p) \/ UNCHANGED vars,
           disk' = disk, edits' = edits, TablesKept',
           NEW new \in Crawls, crawl' = [crawl EXCEPT ![p] = new],
           quiet' \in [Proc -> BOOLEAN], missed' \in [Proc -> SUBSET Files],
           \A q \in Proc \ {p} : quiet'[q] => /\ quiet[q]
                                              /\ Away(crawl[p].at) => db' = db /\ Away(new.at),
           \A q \in Proc \ {p} : missed'[q] = missed[q],
           InHand(p)', Standing(p)', QuietCrawl(p)'
    PROVE  IndexInv'
  <1>1. IInv /\ IndexTypeOK /\ \A q \in Proc : InHand(q) /\ Standing(q) /\ QuietCrawl(q)
    BY DEF IndexInv
  <1>2. crawl'[p] = new /\ crawl' \in [Proc -> Crawls] /\ \A q \in Proc \ {p} : crawl'[q] = crawl[q]
    BY <1>1 DEF IndexTypeOK
  <1>3. IndexTypeOK'
    BY <1>1, <1>2 DEF IndexTypeOK, IInv, Made
  <1>4. ASSUME NEW q \in Proc \ {p} PROVE InHand(q)'
    BY <1>1, <1>2, InHandStays
  <1>5. ASSUME NEW q \in Proc \ {p} PROVE Standing(q)'
    <2>1. pc'[q] = pc[q] /\ crawl'[q] = crawl[q] /\ (tx[q] = "none" => tx'[q] = "none")
      BY <1>1, <1>2, OthersKeep
    <2>2. QED
      BY <1>1, <2>1 DEF Standing
  <1>6. ASSUME NEW q \in Proc \ {p} PROVE QuietCrawl(q)'
    <2> SUFFICES ASSUME quiet'[q], crawl'[q].at # "none"
                 PROVE  /\ \A r \in Proc \ {q} : Away(crawl'[r].at)
                        /\ tx'[q] # "stale" =>
                              \A f \in Files \ (missed'[q] \cup crawl'[q].todo) :
                                  Indexed(Latest(q), f, crawl[q].force)'
      BY DEF QuietCrawl, Away
    <2>1. quiet[q] /\ crawl'[q] = crawl[q] /\ crawl[q].at # "none" /\ missed'[q] = missed[q]
      BY <1>2
    <2>2. \A r \in Proc \ {q} : Away(crawl[r].at)
      BY <1>1, <2>1 DEF QuietCrawl, Away
    <2>3. db' = db /\ Away(new.at)
      BY <2>2
    <2>4. \A r \in Proc \ {q} : Away(crawl'[r].at)
      BY <1>2, <2>2, <2>3
    <2>5. tx'[q] = tx[q] /\ view'[q] = view[q]
      BY <1>1, <2>3, OthersKeep
    <2>6. PICK tables : tables = Latest(q) /\ tables = Latest(q)'
      BY <2>3, <2>5 DEF Latest
    <2>7. ASSUME tx'[q] # "stale", NEW f \in Files \ (missed'[q] \cup crawl'[q].todo)
          PROVE  Indexed(Latest(q), f, crawl[q].force)'
      <3>1. tx[q] # "stale" /\ f \in Files \ (missed[q] \cup crawl[q].todo)
        BY <2>1, <2>5, <2>7
      <3>2. Indexed(Latest(q), f, crawl[q].force)
        BY <1>1, <2>1, <3>1 DEF QuietCrawl
      <3>3. Indexed(tables, f, crawl[q].force)
        BY <2>6, <3>2
      <3>4. QED
        BY <2>1, <2>6, <3>3 DEF Indexed, KeptMtime
    <2>8. QED
      BY <2>4, <2>7
  <1>7. QED
    BY <1>3, <1>4, <1>5, <1>6 DEF IndexInv
LEMMA NothingKeepsLatest ==
    ASSUME NEW p \in Proc, UNCHANGED vars
    PROVE  LatestStays(p) /\ db' = db /\ tx' = tx /\ pc' = pc
  BY DEF vars, LatestStays, Latest

\* index_volume() goes on, and does not write: what it passes over for good is
\* counted as failed, or is indexed.
LEMMA GoSuffices ==
    ASSUME IndexInv, IInv', NEW p \in Proc, Log(p) \/ Other(p) \/ UNCHANGED vars,
           db' = db \/ (tx[p] = "write" /\ db' = view[p]), LatestStays(p),
           NEW new \in Crawls, Go(p, new), ~Away(crawl[p].at), new.force = crawl[p].force,
           missed' \in [Proc -> SUBSET Files], missed[p] \subseteq missed'[p],
           \A q \in Proc \ {p} : missed'[q] = missed[q],
           InHand(p)', Standing(p)',
           quiet[p] /\ tx[p] # "stale" =>
              \A f \in crawl[p].todo \ new.todo :
                  f \in missed'[p] \/ Indexed(Latest(p), f, new.force)
    PROVE  IndexInv'
  <1>1. /\ IInv /\ IndexTypeOK /\ TablesKept /\ QuietCrawl(p)
        /\ disk' = disk /\ edits' = edits /\ quiet' = quiet
        /\ crawl' = [crawl EXCEPT ![p] = new]
    BY DEF IndexInv, Go
  <1>2. TablesKept'
    BY <1>1, KeptByStaying
  <1>3. crawl'[p] = new /\ \A q \in Proc \ {p} : crawl'[q] = crawl[q]
    BY <1>1 DEF IndexTypeOK
  <1>4. QuietCrawl(p)'
    <2> SUFFICES ASSUME quiet[p]
                 PROVE  /\ \A q \in Proc \ {p} : Away(crawl'[q].at)
                        /\ tx'[p] # "stale" =>
                              \A f \in Files \ (missed'[p] \cup new.todo) :
                                  Indexed(Latest(p), f, crawl[p].force)'
      BY <1>1, <1>3 DEF QuietCrawl, Away
    <2>1. /\ \A q \in Proc \ {p} : Away(crawl[q].at)
          /\ tx[p] # "stale" =>
                \A f \in Files \ (missed[p] \cup crawl[p].todo) :
                    Indexed(Latest(p), f, crawl[p].force)
      BY <1>1 DEF QuietCrawl, Away
    <2>2. ASSUME tx'[p] # "stale", NEW f \in Files \ (missed'[p] \cup new.todo)
          PROVE  Indexed(Latest(p), f, crawl[p].force)'
      <3>1. tx[p] # "stale"
        BY <2>2 DEF LatestStays
      <3>2. PICK tables : tables = Latest(p) /\ tables = Latest(p)'
        BY DEF LatestStays
      <3>3. Indexed(tables, f, new.force)
        <4>1. CASE f \in crawl[p].todo
          BY <2>2, <3>1, <3>2, <4>1
        <4>2. CASE f \notin crawl[p].todo
          <5>1. f \in Files \ (missed[p] \cup crawl[p].todo)
            BY <2>2, <4>2
          <5>2. Indexed(Latest(p), f, crawl[p].force)
            BY <2>1, <3>1, <5>1
          <5>3. QED
            BY <3>2, <5>2
        <4>3. QED
          BY <4>1, <4>2
      <3>4. QED
        BY <1>1, <1>3, <3>2, <3>3 DEF Indexed, KeptMtime
    <2>3. QED
      BY <1>3, <2>1, <2>2
  <1>5. quiet' \in [Proc -> BOOLEAN] /\ \A q \in Proc \ {p} : quiet'[q] => quiet[q]
    BY <1>1 DEF IndexTypeOK
  <1>6. QED
    BY <1>1, <1>2, <1>4, <1>5, StepSuffices

\* The crawl is over, by an exception or the end of the process.
LEMMA AbortSuffices ==
    ASSUME IndexInv, IInv', NEW p \in Proc, Log(p) \/ Other(p) \/ UNCHANGED vars,
           TablesKept', Go(p, NoCrawl), UNCHANGED missed, pc'[p] = "idle",
           Away(crawl[p].at) => db' = db
    PROVE  IndexInv'
  <1>1. /\ IndexTypeOK /\ disk' = disk /\ edits' = edits /\ quiet' = quiet
        /\ crawl' = [crawl EXCEPT ![p] = NoCrawl]
    BY DEF IndexInv, Go
  <1>2. NoCrawl \in Crawls /\ NoCrawl.at = "none"
    BY DEF NoCrawl, Crawls, Points
  <1>3. crawl'[p].at = "none"
    BY <1>1, <1>2 DEF IndexTypeOK
  <1>4. InHand(p)' /\ Standing(p)' /\ QuietCrawl(p)'
    BY <1>3 DEF InHand, Standing, QuietCrawl
  <1>5. /\ quiet' \in [Proc -> BOOLEAN] /\ \A q \in Proc \ {p} : quiet'[q] => quiet[q]
        /\ missed' \in [Proc -> SUBSET Files] /\ \A q \in Proc \ {p} : missed'[q] = missed[q]
    BY <1>1 DEF IndexTypeOK
  <1>6. Away(NoCrawl.at)
    BY <1>2 DEF Away
  <1>7. QED
    BY <1>1, <1>2, <1>4, <1>5, <1>6, StepSuffices

-----------------------------------------------------------------------------
(* One lemma for each action                                               *)

LEMMA StartCrawlStep ==
    ASSUME IndexInv, IInv', NEW p \in Proc, NEW force \in BOOLEAN, StartCrawl(p, force)
    PROVE  IndexInv'
  <1>1. /\ IInv /\ IndexTypeOK /\ TablesKept /\ UNCHANGED vars
        /\ disk' = disk /\ edits' = edits /\ Away(crawl[p].at) /\ pc[p] = "idle"
    BY DEF IndexInv, StartCrawl, At, Away
  <1>2. PICK new \in Crawls : /\ new.at = "walking" /\ new.todo = Files /\ new.force = force
                              /\ crawl' = [crawl EXCEPT ![p] = new]
    <2>1. [NoCrawl EXCEPT !.at = "walking", !.force = force, !.todo = Files] \in Crawls
      BY DEF NoCrawl, Crawls, Points
    <2>2. PICK new \in Crawls : new = [NoCrawl EXCEPT !.at = "walking", !.force = force, !.todo = Files]
      BY <2>1
    <2>3. new.at = "walking" /\ new.todo = Files /\ new.force = force
      BY <2>2 DEF NoCrawl
    <2>4. QED
      BY <2>2, <2>3 DEF StartCrawl
  <1>3. /\ LatestStays(p) /\ db' = db /\ tx' = tx /\ pc' = pc
    BY <1>1, NothingKeepsLatest
  <1>4. TablesKept'
    BY <1>1, <1>3, KeptByStaying
  <1>5. crawl'[p] = new /\ \A q \in Proc \ {p} : crawl'[q] = crawl[q]
    BY <1>1, <1>2 DEF IndexTypeOK
  <1>6. /\ quiet' \in [Proc -> BOOLEAN] /\ \A q \in Proc \ {p} : ~quiet'[q]
        /\ quiet'[p] => \A q \in Proc \ {p} : Away(crawl[q].at)
    BY DEF StartCrawl, Away
  <1>7. missed' \in [Proc -> SUBSET Files] /\ \A q \in Proc \ {p} : missed'[q] = missed[q]
    BY <1>1 DEF StartCrawl, IndexTypeOK
  <1>8. InHand(p)' /\ Standing(p)' /\ QuietCrawl(p)'
    BY <1>1, <1>2, <1>3, <1>5, <1>6 DEF InHand, Standing, QuietCrawl, Away
  <1>9. QED
    BY <1>1, <1>2, <1>4, <1>6, <1>7, <1>8, StepSuffices

LEMMA StatStep ==
    ASSUME IndexInv, IInv', NEW p \in Proc, NEW f \in Files, Stat(p, f)
    PROVE  IndexInv'
  <1>1. /\ IndexTypeOK /\ UNCHANGED vars /\ UNCHANGED missed
        /\ crawl[p].at = "walking" /\ pc[p] = "idle"
    BY DEF IndexInv, Stat, At
  <1>2. /\ LatestStays(p) /\ db' = db /\ tx' = tx /\ pc' = pc
    BY <1>1, NothingKeepsLatest
  <1>3. ~Away(crawl[p].at) /\ missed' \in [Proc -> SUBSET Files] /\ missed' = missed
    BY <1>1 DEF Away, IndexTypeOK
  <1>4. PICK c \in Crawls : c = crawl[p]
    BY <1>1, CrawlTyped
  <1>5. CASE disk[f] = Null
    <2>1. PICK new \in Crawls : /\ new = [c EXCEPT !.todo = @ \ {f}]
                                /\ new.at = "walking" /\ new.force = c.force /\ new.todo = c.todo \ {f}
      <3>1. [c EXCEPT !.todo = @ \ {f}] \in Crawls
        BY DEF Crawls
      <3>2. QED
        BY <1>1, <1>4, <3>1 DEF Crawls
    <2>2. Go(p, new)
      BY <1>4, <1>5, <2>1 DEF Stat
    <2>3. crawl'[p] = new
      BY <1>1, <2>2 DEF Go, IndexTypeOK
    <2>4. InHand(p)' /\ Standing(p)'
      BY <1>1, <1>2, <2>1, <2>3 DEF InHand, Standing
    <2>5. Indexed(Latest(p), f, new.force)
      BY <1>5 DEF Indexed
    <2>6. \A g \in crawl[p].todo \ new.todo : g = f
      BY <1>4, <2>1
    <2>7. QED
      BY <1>1, <1>2, <1>3, <1>4, <2>1, <2>2, <2>4, <2>5, <2>6, GoSuffices
  <1>6. CASE disk[f] # Null
    <2>1. disk[f].mtime \in Made /\ disk[f].mtime \in Texts
      BY <1>1, <1>6, DiskTyped, MadeFacts
    <2>2. PICK new \in Crawls : /\ new = [c EXCEPT !.at = "entry", !.file = f, !.mtime = disk[f].mtime]
                                /\ new.at = "entry" /\ new.file = f /\ new.mtime = disk[f].mtime
                                /\ new.force = c.force /\ new.todo = c.todo
      <3>1. [c EXCEPT !.at = "entry", !.file = f, !.mtime = disk[f].mtime] \in Crawls
        BY <2>1 DEF Crawls, Points
      <3>2. QED
        BY <3>1 DEF Crawls
    <2>3. Go(p, new)
      BY <1>4, <1>6, <2>2 DEF Stat
    <2>4. crawl'[p] = new /\ disk' = disk /\ edits' = edits
      BY <1>1, <2>3 DEF Go, IndexTypeOK
    <2>5. InHand(p)' /\ Standing(p)'
      BY <1>1, <1>2, <1>6, <2>1, <2>2, <2>4 DEF InHand, Standing, Made
    <2>6. QED
      BY <1>1, <1>2, <1>3, <1>4, <2>2, <2>3, <2>5, GoSuffices
  <1>7. QED
    BY <1>5, <1>6
LEMMA ProceedFacts ==
    ASSUME IndexTypeOK, NEW p \in Proc, Proceed(p)
    PROVE  /\ \E new \in Crawls :
                 /\ Go(p, new) /\ crawl'[p] = new /\ new.at = "walking" /\ new.force = crawl[p].force
                 /\ new.todo = crawl[p].todo \ {crawl[p].file}
           /\ InHand(p)'
           /\ pc'[p] \in {"idle", "written"} => Standing(p)'
  <1>1. PICK c \in Crawls : c = crawl[p]
    BY CrawlTyped
  <1> DEFINE new == [c EXCEPT !.at = "walking", !.todo = @ \ {c.file},
                              !.file = Null, !.mtime = Null, !.text = Null]
  <1>2. new \in Crawls
    BY DEF Crawls, Points
  <1>3. new.at = "walking" /\ new.force = c.force /\ new.todo = c.todo \ {c.file}
    BY DEF Crawls
  <1>4. Go(p, new)
    BY <1>1 DEF Proceed
  <1> HIDE DEF new
  <1>5. crawl'[p] = new
    BY <1>4 DEF Go, IndexTypeOK
  <1>6. InHand(p)' /\ (pc'[p] \in {"idle", "written"} => Standing(p)')
    BY <1>3, <1>5 DEF InHand, Standing
  <1>7. QED
    BY <1>1, <1>2, <1>3, <1>4, <1>5, <1>6

\* A file with the very mtime of its row, if it was not replaced with its mtime
\* kept, has the text that is in the tables.
LEMMA SkipIsIndexed ==
    ASSUME IndexTypeOK, NEW f \in Files, NEW tables, FilesKept(tables),
           tables.files[f] # Null, tables.files[f].mtime = disk[f].mtime
    PROVE  Indexed(tables, f, FALSE)
  <1> SUFFICES ASSUME disk[f] # Null, disk[f].text \notin Unencodable, ~KeptMtime(f)
               PROVE  /\ tables.files[f].text = disk[f].text
                      /\ tables.fts[f] = disk[f].text
    BY DEF Indexed
  <1>1. disk[f] = Written(disk[f].mtime) /\ disk[f].text = disk[f].mtime
    BY DiskTyped DEF KeptMtime, Written
  <1>2. tables.files[f].text = disk[f].text
    BY <1>1 DEF FilesKept, Current
  <1>3. AgreeOrHalf(tables, f)
    BY DEF FilesKept
  <1>4. QED
    BY <1>2, <1>3 DEF AgreeOrHalf, Agree

LEMMA LookUpStep ==
    ASSUME IndexInv, IInv', NEW p \in Proc, LookUp(p)
    PROVE  IndexInv'
  <1>1. /\ IInv /\ IndexTypeOK /\ TablesKept /\ InHand(p)
        /\ crawl[p].at = "entry" /\ pc[p] = "idle" /\ ~crawl[p].force /\ ReadOther(p)
        /\ missed' = missed
    BY DEF IndexInv, LookUp, At
  <1>2. LatestStays(p) /\ db' = db /\ pc' = pc /\ Other(p)
    BY <1>1, LogKeepsLatest DEF ReadOther, Select, Other
  <1>3. ~Away(crawl[p].at) /\ missed' \in [Proc -> SUBSET Files]
    BY <1>1 DEF Away, IndexTypeOK
  <1>4. PICK c \in Crawls : c = crawl[p] /\ c.force = FALSE /\ c.file \in Files
    BY <1>1, CrawlTyped DEF InHand
  <1>5. PICK tables : tables = Seen(p).rest
    OBVIOUS
  <1>6. CASE tables.files[c.file] # Null /\ tables.files[c.file].mtime = c.mtime
    <2>1. Proceed(p)
      BY <1>4, <1>5, <1>6 DEF LookUp
    <2>2. PICK new \in Crawls : /\ Go(p, new) /\ new.force = FALSE
                                /\ new.todo = c.todo \ {c.file}
      BY <1>1, <1>4, <2>1, ProceedFacts
    <2>3. InHand(p)' /\ Standing(p)'
      BY <1>1, <1>2, <2>1, ProceedFacts
    <2>4. ASSUME quiet[p], tx[p] # "stale"
          PROVE  Indexed(Latest(p), c.file, FALSE)
      <3>1. tables = Latest(p) /\ FilesKept(tables)
        BY <1>1, <1>5, <2>4, SeenIsLatest, LatestKept
      <3>2. c.mtime = disk[c.file].mtime
        BY <1>1, <1>4, <2>4 DEF InHand
      <3>3. QED
        BY <1>1, <1>4, <1>6, <3>1, <3>2, SkipIsIndexed
    <2>5. \A f \in crawl[p].todo \ new.todo : f = c.file
      BY <1>4, <2>2
    <2>6. QED
      BY <1>1, <1>2, <1>3, <1>4, <2>2, <2>3, <2>4, <2>5, GoSuffices
  <1>7. CASE ~(tables.files[c.file] # Null /\ tables.files[c.file].mtime = c.mtime)
    <2>1. PICK new \in Crawls : /\ new = [c EXCEPT !.at = "changed"]
                                /\ new.at = "changed" /\ new.file = c.file /\ new.mtime = c.mtime
                                /\ new.force = c.force /\ new.todo = c.todo
      <3>1. [c EXCEPT !.at = "changed"] \in Crawls
        BY DEF Crawls, Points
      <3>2. QED
        BY <3>1 DEF Crawls
    <2>2. Go(p, new)
      BY <1>4, <1>5, <1>7, <2>1 DEF LookUp
    <2>3. crawl'[p] = new /\ disk' = disk /\ edits' = edits /\ quiet' = quiet
      BY <1>1, <2>2 DEF Go, IndexTypeOK
    <2>4. InHand(p)' /\ Standing(p)'
      BY <1>1, <1>2, <1>4, <2>1, <2>3 DEF InHand, Standing, Made
    <2>5. QED
      BY <1>1, <1>2, <1>3, <1>4, <2>1, <2>2, <2>4, GoSuffices
  <1>8. QED
    BY <1>6, <1>7

LEMMA ExtractStep ==
    ASSUME IndexInv, IInv', NEW p \in Proc, Extract(p)
    PROVE  IndexInv'
  <1>1. /\ IndexTypeOK /\ InHand(p) /\ UNCHANGED vars /\ missed' = missed
        /\ crawl[p].at \in {"entry", "changed"} /\ pc[p] = "idle"
    BY DEF IndexInv, Extract, At
  <1>2. LatestStays(p) /\ db' = db /\ tx' = tx /\ pc' = pc
    BY <1>1, NothingKeepsLatest
  <1>3. ~Away(crawl[p].at) /\ missed' \in [Proc -> SUBSET Files]
    BY <1>1 DEF Away, IndexTypeOK
  <1>4. PICK c \in Crawls : c = crawl[p] /\ c.file \in Files /\ c.mtime \in Made /\ disk[c.file] # Null
    BY <1>1, CrawlTyped DEF InHand, Extract
  <1>5. PICK text : text = disk[c.file].text /\ text \in Made /\ text \in Texts
    BY <1>1, <1>4, DiskTyped, MadeFacts
  <1>6. PICK new \in Crawls : /\ new = [c EXCEPT !.at = "extracted", !.text = text]
                              /\ new.at = "extracted" /\ new.file = c.file /\ new.mtime = c.mtime
                              /\ new.text = text /\ new.force = c.force /\ new.todo = c.todo
    <2>1. [c EXCEPT !.at = "extracted", !.text = text] \in Crawls
      BY <1>5 DEF Crawls, Points
    <2>2. QED
      BY <2>1 DEF Crawls
  <1>7. Go(p, new)
    BY <1>4, <1>5, <1>6 DEF Extract
  <1>8. crawl'[p] = new /\ disk' = disk /\ edits' = edits /\ quiet' = quiet
    BY <1>1, <1>7 DEF Go, IndexTypeOK
  <1>9. Current(c.file, c.mtime, text)
    BY <1>5 DEF Current, Written
  <1>10. quiet[p] => c.mtime = disk[c.file].mtime
    BY <1>1, <1>4 DEF InHand
  <1>11. InHand(p)' /\ Standing(p)'
    BY <1>1, <1>2, <1>4, <1>5, <1>6, <1>8, <1>9, <1>10 DEF InHand, Standing, Made, Current
  <1>12. QED
    BY <1>1, <1>2, <1>3, <1>4, <1>6, <1>7, <1>11, GoSuffices

LEMMA ExtractFailsStep ==
    ASSUME IndexInv, IInv', NEW p \in Proc, ExtractFails(p)
    PROVE  IndexInv'
  <1>1. /\ IndexTypeOK /\ UNCHANGED vars /\ Proceed(p)
        /\ crawl[p].at \in {"entry", "changed"} /\ pc[p] = "idle" /\ InHand(p)
    BY DEF IndexInv, ExtractFails, At
  <1>2. LatestStays(p) /\ db' = db /\ tx' = tx /\ pc' = pc
    BY <1>1, NothingKeepsLatest
  <1>3. crawl[p].file \in Files
    BY <1>1 DEF InHand
  <1>4. /\ missed' \in [Proc -> SUBSET Files] /\ missed[p] \subseteq missed'[p]
        /\ crawl[p].file \in missed'[p]
        /\ \A q \in Proc \ {p} : missed'[q] = missed[q]
    BY <1>1, <1>3 DEF ExtractFails, IndexTypeOK
  <1>5. ~Away(crawl[p].at)
    BY <1>1 DEF Away
  <1>6. PICK new \in Crawls : /\ Go(p, new) /\ new.force = crawl[p].force
                              /\ new.todo = crawl[p].todo \ {crawl[p].file}
    BY <1>1, ProceedFacts
  <1>7. InHand(p)' /\ Standing(p)'
    BY <1>1, <1>2, ProceedFacts
  <1>8. QED
    BY <1>1, <1>2, <1>4, <1>5, <1>6, <1>7, GoSuffices
\* What was indexed before a file is stored is indexed after it, and if the
\* volume has not changed, so is the file.
LEMMA StoredIndexed ==
    ASSUME IInv, IndexTypeOK, NEW p \in Proc, InHand(p), crawl[p].at = "extracted",
           tx[p] # "stale", quiet[p], NEW f \in Files,
           f = crawl[p].file \/ Indexed(Latest(p), f, crawl[p].force)
    PROVE  Indexed(Stored(p, crawl[p].text), f, crawl[p].force)
  <1>1. /\ Seen(p).rest.files \in [Files -> FileRows \cup {Null}]
        /\ Seen(p).rest.fts \in [Files -> Texts \cup {Null}]
        /\ Seen(p).rest = Latest(p)
    BY SeenTyped, SeenIsLatest DEF Tables
  <1>2. PICK file \in Files : file = crawl[p].file
    BY RowTyped
  <1>3. PICK row : row = FilesRow(p) /\ row # Null /\ row.text = crawl[p].text
    BY RowTyped
  <1>4. PICK new : new = Stored(p, crawl[p].text)
    OBVIOUS
  <1>5. /\ new.files = [Seen(p).rest.files EXCEPT ![file] = row]
        /\ new.fts = [Seen(p).rest.fts EXCEPT ![file] = crawl[p].text]
    BY <1>2, <1>3, <1>4 DEF Stored
  <1>6. CASE f = file
    <2>1. new.files[f] = row /\ new.fts[f] = crawl[p].text
      BY <1>1, <1>5, <1>6
    <2>2. crawl[p].text = disk[f].text
      BY <1>2, <1>6 DEF InHand
    <2>3. QED
      BY <1>3, <1>4, <2>1, <2>2 DEF Indexed
  <1>7. CASE f # file
    <2>1. new.files[f] = Latest(p).files[f] /\ new.fts[f] = Latest(p).fts[f]
      BY <1>1, <1>5, <1>7
    <2>2. QED
      BY <1>2, <1>4, <1>7, <2>1 DEF Indexed
  <1>8. QED
    BY <1>6, <1>7

LEMMA StoreStep ==
    ASSUME IndexInv, IInv', NEW p \in Proc, Store(p)
    PROVE  IndexInv'
  <1>1. /\ IInv /\ IndexTypeOK /\ TablesKept /\ InHand(p) /\ QuietCrawl(p)
        /\ At(p, "extracted") /\ crawl[p].at = "extracted" /\ pc[p] = "idle"
        /\ WriteOther(p, Stored(p, crawl[p].text)) /\ Proceed(p) /\ missed' = missed
    BY DEF IndexInv, Store, At
  <1>2. disk' = disk /\ edits' = edits /\ quiet' = quiet
    BY <1>1 DEF Proceed, Go
  <1>3. /\ TablesKept' /\ db' = db /\ tx[p] # "stale" /\ tx'[p] = "write"
        /\ Latest(p)' = Stored(p, crawl[p].text)
    BY <1>1, <1>2, WriteKept
  <1>4. Other(p) /\ pc'[p] = "written"
    <2>1. Stored(p, crawl[p].text) \in Rest
      BY <1>1, StoredTyped, RestAssumption
    <2>2. pc'[p] = "written"
      BY <1>1 DEF WriteOther, Goto, IInv, TypeOK
    <2>3. QED
      BY <1>1, <2>1, <2>2 DEF Other
  <1>5. PICK new \in Crawls : /\ Go(p, new) /\ crawl'[p] = new /\ new.at = "walking"
                              /\ new.force = crawl[p].force
                              /\ new.todo = crawl[p].todo \ {crawl[p].file}
    BY <1>1, ProceedFacts
  <1>6. InHand(p)' /\ Standing(p)'
    BY <1>1, <1>4, ProceedFacts
  <1>7. crawl' = [crawl EXCEPT ![p] = new] /\ \A q \in Proc \ {p} : crawl'[q] = crawl[q]
    BY <1>1, <1>5 DEF Go, IndexTypeOK
  <1>8. QuietCrawl(p)'
    <2> SUFFICES ASSUME quiet[p]
                 PROVE  /\ \A q \in Proc \ {p} : Away(crawl'[q].at)
                        /\ \A f \in Files \ (missed'[p] \cup new.todo) :
                              Indexed(Latest(p), f, crawl[p].force)'
      BY <1>2, <1>5 DEF QuietCrawl, Away
    <2>1. /\ \A q \in Proc \ {p} : Away(crawl[q].at)
          /\ \A f \in Files \ (missed[p] \cup crawl[p].todo) :
                Indexed(Latest(p), f, crawl[p].force)
      BY <1>1, <1>3 DEF QuietCrawl, Away
    <2>2. ASSUME NEW f \in Files \ (missed'[p] \cup new.todo)
          PROVE  Indexed(Latest(p), f, crawl[p].force)'
      <3>1. f = crawl[p].file \/ Indexed(Latest(p), f, crawl[p].force)
        BY <1>1, <1>5, <2>1
      <3>2. Indexed(Stored(p, crawl[p].text), f, crawl[p].force)
        BY <1>1, <1>3, <3>1, StoredIndexed
      <3>3. PICK tables : tables = Stored(p, crawl[p].text) /\ tables = Latest(p)'
        BY <1>3
      <3>4. QED
        BY <1>2, <1>5, <3>2, <3>3 DEF Indexed, KeptMtime
    <2>3. QED
      BY <1>7, <2>1, <2>2
  <1>9. /\ quiet' \in [Proc -> BOOLEAN] /\ missed' \in [Proc -> SUBSET Files]
        /\ ~Away(crawl[p].at)
    BY <1>1, <1>2 DEF IndexTypeOK, Away
  <1>10. QED
    BY <1>1, <1>2, <1>3, <1>4, <1>6, <1>7, <1>8, <1>9, StepSuffices

LEMMA StoreRaisesStep ==
    ASSUME IndexInv, IInv', NEW p \in Proc, StoreRaises(p)
    PROVE  IndexInv'
  <1>1. /\ IInv /\ IndexTypeOK /\ TablesKept /\ InHand(p)
        /\ At(p, "extracted") /\ crawl[p].at = "extracted" /\ pc[p] = "idle"
        /\ crawl[p].text \in Unencodable
        /\ WriteOtherRaises(p, Stored(p, Null)) /\ Go(p, NoCrawl) /\ UNCHANGED missed
    BY DEF IndexInv, StoreRaises, At, Abort
  <1>2. disk' = disk /\ edits' = edits /\ pc'[p] = "idle"
    BY <1>1 DEF Go, WriteOtherRaises
  <1>3. TablesKept' /\ db' = db
    BY <1>1, <1>2, WriteKept
  <1>4. Other(p)
    <2>1. Stored(p, Null) \in Rest
      BY <1>1, StoredTyped, RestAssumption
    <2>2. QED
      BY <1>1, <2>1 DEF Other
  <1>5. QED
    BY <1>1, <1>2, <1>3, <1>4, AbortSuffices

LEMMA StoreRefusedStep ==
    ASSUME IndexInv, IInv', NEW p \in Proc, StoreRefused(p)
    PROVE  IndexInv'
  <1>1. /\ IInv /\ TablesKept /\ WriteOtherRefused(p) /\ Go(p, NoCrawl) /\ UNCHANGED missed
    BY DEF IndexInv, StoreRefused, Abort
  <1>2. disk' = disk /\ edits' = edits /\ pc'[p] = "idle" /\ db' = db /\ Other(p)
    BY <1>1 DEF Go, WriteOtherRefused, Refused, Other
  <1>3. LatestStays(p)
    BY <1>1, LogKeepsLatest
  <1>4. TablesKept'
    BY <1>1, <1>2, <1>3, KeptByStaying
  <1>5. QED
    BY <1>1, <1>2, <1>4, AbortSuffices

LEMMA CommitFileStep ==
    ASSUME IndexInv, IInv', NEW p \in Proc, CommitFile(p)
    PROVE  IndexInv'
  <1>1. /\ IInv /\ IndexTypeOK /\ Standing(p) /\ CommitOther(p) /\ UNCHANGED ownVars
        /\ pc[p] = "written" /\ pc'[p] = "idle"
    BY DEF IndexInv, CommitFile, CommitOther, Goto, IInv, TypeOK
  <1>2. LatestStays(p) /\ Other(p) /\ (db' = db \/ (tx[p] = "write" /\ db' = view[p]))
    BY <1>1, LogKeepsLatest DEF Other
  <1>3. crawl[p].at = "walking" /\ ~Away(crawl[p].at)
    BY <1>1 DEF Standing, Away
  <1>4. PICK new \in Crawls : new = crawl[p]
    BY <1>1, CrawlTyped
  <1>5. /\ crawl' = crawl /\ disk' = disk /\ edits' = edits /\ quiet' = quiet /\ missed' = missed
    BY <1>1 DEF ownVars
  <1>6. Go(p, new)
    BY <1>1, <1>4, <1>5 DEF Go, IndexTypeOK
  <1>7. InHand(p)' /\ Standing(p)'
    BY <1>1, <1>3, <1>5 DEF InHand, Standing
  <1>8. missed' \in [Proc -> SUBSET Files]
    BY <1>1, <1>5 DEF IndexTypeOK
  <1>9. QED
    BY <1>2, <1>3, <1>4, <1>5, <1>6, <1>7, <1>8, GoSuffices

LEMMA EndCrawlStep ==
    ASSUME IndexInv, IInv', NEW p \in Proc, EndCrawl(p)
    PROVE  IndexInv'
  <1>1. /\ IndexTypeOK /\ UNCHANGED vars /\ missed' = missed
        /\ crawl[p].at = "walking" /\ crawl[p].todo = {} /\ pc[p] = "idle"
    BY DEF IndexInv, EndCrawl, At
  <1>2. LatestStays(p) /\ db' = db /\ tx' = tx /\ pc' = pc
    BY <1>1, NothingKeepsLatest
  <1>3. ~Away(crawl[p].at) /\ missed' \in [Proc -> SUBSET Files]
    BY <1>1 DEF Away, IndexTypeOK
  <1>4. PICK c \in Crawls : c = crawl[p]
    BY <1>1, CrawlTyped
  <1>5. PICK new \in Crawls : /\ new = [c EXCEPT !.at = "logging"]
                              /\ new.at = "logging" /\ new.force = c.force /\ new.todo = c.todo
    <2>1. [c EXCEPT !.at = "logging"] \in Crawls
      BY DEF Crawls, Points
    <2>2. QED
      BY <2>1 DEF Crawls
  <1>6. Go(p, new)
    BY <1>4, <1>5 DEF EndCrawl
  <1>7. crawl'[p] = new
    BY <1>1, <1>6 DEF Go, IndexTypeOK
  <1>8. InHand(p)' /\ Standing(p)'
    BY <1>1, <1>2, <1>4, <1>5, <1>7 DEF InHand, Standing
  <1>9. QED
    BY <1>1, <1>2, <1>3, <1>4, <1>5, <1>6, <1>8, GoSuffices
LEMMA LoggingStep ==
    ASSUME IndexInv, IInv', NEW p \in Proc, Logging(p)
    PROVE  IndexInv'
  <1>1. /\ IInv /\ IndexTypeOK /\ Standing(p) /\ Log(p) /\ UNCHANGED ownVars
        /\ crawl[p].at = "logging"
    BY DEF IndexInv, Logging, Log
  <1>2. LatestStays(p) /\ (db' = db \/ (tx[p] = "write" /\ db' = view[p]))
    BY <1>1, LogKeepsLatest
  <1>3. /\ pc'[p] \in {"hashed", "prepared", "inserted", "committed"}
        /\ pc'[p] = "committed" => tx'[p] = "none"
    BY <1>1 DEF Logging, ReadLastHash, ReadNextSequence, Insert, CommitRow, Commit, Goto, IInv, TypeOK
  <1>4. PICK new \in Crawls : new = crawl[p]
    BY <1>1, CrawlTyped
  <1>5. /\ crawl' = crawl /\ disk' = disk /\ edits' = edits /\ quiet' = quiet /\ missed' = missed
    BY <1>1 DEF ownVars
  <1>6. Go(p, new)
    BY <1>1, <1>4, <1>5 DEF Go, IndexTypeOK
  <1>7. InHand(p)' /\ Standing(p)'
    BY <1>1, <1>3, <1>5 DEF InHand, Standing
  <1>8. missed' \in [Proc -> SUBSET Files] /\ ~Away(crawl[p].at)
    BY <1>1, <1>5 DEF IndexTypeOK, Away
  <1>9. QED
    BY <1>1, <1>2, <1>4, <1>5, <1>6, <1>7, <1>8, GoSuffices

LEMMA ReportStep ==
    ASSUME IndexInv, IInv', NEW p \in Proc, Report(p)
    PROVE  IndexInv'
  <1>1. /\ IInv /\ IndexTypeOK /\ Standing(p) /\ Log(p) /\ ReturnEntry(p)
        /\ crawl[p].at = "logging" /\ missed' = missed
    BY DEF IndexInv, Report, Log
  <1>2. LatestStays(p) /\ db' = db
    BY <1>1, LogKeepsLatest DEF ReturnEntry
  <1>3. pc[p] = "committed" /\ pc'[p] = "idle" /\ tx'[p] = "none" /\ crawl[p].todo = {}
    BY <1>1 DEF ReturnEntry, Goto, IInv, TypeOK, Standing
  <1>4. PICK c \in Crawls : c = crawl[p]
    BY <1>1, CrawlTyped
  <1>5. PICK new \in Crawls : /\ new = [NoCrawl EXCEPT !.at = "reported", !.force = c.force]
                              /\ new.at = "reported" /\ new.force = c.force /\ new.todo = {}
    <2>1. [NoCrawl EXCEPT !.at = "reported", !.force = c.force] \in Crawls
      BY DEF NoCrawl, Crawls, Points
    <2>2. QED
      BY <2>1 DEF NoCrawl
  <1>6. Go(p, new)
    BY <1>4, <1>5 DEF Report
  <1>7. crawl'[p] = new
    BY <1>1, <1>6 DEF Go, IndexTypeOK
  <1>8. InHand(p)' /\ Standing(p)'
    BY <1>3, <1>5, <1>7 DEF InHand, Standing
  <1>9. missed' \in [Proc -> SUBSET Files] /\ ~Away(crawl[p].at)
    BY <1>1 DEF IndexTypeOK, Away
  <1>10. QED
    BY <1>1, <1>2, <1>3, <1>4, <1>5, <1>6, <1>8, <1>9, GoSuffices

LEMMA LogRaisesStep ==
    ASSUME IndexInv, IInv', NEW p \in Proc, LogRaises(p)
    PROVE  IndexInv'
  <1>1. /\ IInv /\ IndexTypeOK /\ TablesKept /\ Log(p) /\ Go(p, NoCrawl) /\ UNCHANGED missed
        /\ InsertDuplicate(p) \/ InsertRefused(p)
    BY DEF IndexInv, LogRaises, Abort, Log
  <1>2. disk' = disk /\ edits' = edits /\ pc'[p] = "idle" /\ db' = db
    BY <1>1 DEF Go, InsertDuplicate, InsertRefused, Goto, Write, Refused, IInv, TypeOK
  <1>3. LatestStays(p)
    BY <1>1, LogKeepsLatest
  <1>4. TablesKept'
    BY <1>1, <1>2, <1>3, KeptByStaying
  <1>5. QED
    BY <1>1, <1>2, <1>4, AbortSuffices

\* What was pending is rolled back.
LEMMA CrashStep ==
    ASSUME IndexInv, IInv', NEW p \in Proc, Crash(p)
    PROVE  IndexInv'
  <1>1. IInv /\ IndexTypeOK /\ TablesKept /\ Restart(p) /\ Go(p, NoCrawl) /\ UNCHANGED missed
    BY DEF IndexInv, Crash, Go
  <1>2. /\ disk' = disk /\ edits' = edits /\ pc'[p] = "idle" /\ db' = db /\ tx'[p] = "none" /\ Other(p)
    BY <1>1 DEF Go, Restart, Close, Other, IInv, TypeOK
  <1>3. FilesKept(Latest(p))'
    <2>1. PICK tables : tables = Latest(p)' /\ tables = db.rest
      BY <1>2 DEF Latest
    <2>2. FilesKept(tables)
      BY <1>1, <2>1 DEF TablesKept
    <2>3. FilesKept(tables)'
      BY <1>2, <2>2, FilesStayKept
    <2>4. QED
      BY <2>1, <2>3
  <1>4. TablesKept'
    BY <1>1, <1>2, <1>3, KeptSuffices
  <1>5. QED
    BY <1>1, <1>2, <1>4, AbortSuffices

-----------------------------------------------------------------------------
(* The volume changes                                                      *)

\* The new text, and the mtime it may come with, are in no row and in no hand.
LEMMA StaysCurrent ==
    ASSUME IndexTypeOK, NEW g \in Files, Edit(g), NEW f \in Files,
           NEW mtime \in Made, NEW text, Current(f, mtime, text)
    PROVE  Current(f, mtime, text)'
  <1>1. PICK fresh \in Texts : fresh = edits + 1 /\ fresh \notin Made
    BY MadeFacts DEF Edit
  <1>2. Written(mtime) # Null
    BY MadeFacts, NullAssumption DEF Written, FileRows
  <1>3. \/ disk' = [disk EXCEPT ![g] = Written(fresh)]
        \/ disk[g] # Null /\ disk' = [disk EXCEPT ![g].text = fresh]
        \/ disk' = [disk EXCEPT ![g] = Null]
    BY <1>1 DEF Edit
  <1>4. disk \in [Files -> [mtime : Made, text : Made] \cup {Null}]
    BY DEF IndexTypeOK
  <1>5. CASE f # g
    <2>1. disk'[f] = disk[f]
      BY <1>3, <1>4, <1>5
    <2>2. QED
      BY <2>1 DEF Current
  <1>6. CASE f = g
    <2>1. \/ disk'[f] = Null
          \/ disk'[f].text = fresh
      <3>1. CASE disk' = [disk EXCEPT ![g] = Written(fresh)]
        BY <1>4, <1>6, <3>1 DEF Written
      <3>2. CASE disk[g] # Null /\ disk' = [disk EXCEPT ![g].text = fresh]
        <4>1. disk[g] \in [mtime : Made, text : Made]
          BY <1>4, <3>2
        <4>2. disk'[f] = [disk[g] EXCEPT !.text = fresh]
          BY <1>4, <1>6, <3>2
        <4>3. QED
          BY <4>1, <4>2
      <3>3. CASE disk' = [disk EXCEPT ![g] = Null]
        BY <1>4, <1>6, <3>3
      <3>4. QED
        BY <1>3, <3>1, <3>2, <3>3
    <2>2. disk'[f] # Written(mtime)
      BY <1>1, <1>2, <2>1 DEF Written
    <2>3. QED
      BY <2>2 DEF Current
  <1>7. QED
    BY <1>5, <1>6

LEMMA EditTyped ==
    ASSUME IndexTypeOK, NEW g \in Files, Edit(g)
    PROVE  /\ edits' \in 0..MaxEdits /\ Made \subseteq Made'
           /\ disk' \in [Files -> [mtime : Made', text : Made'] \cup {Null}]
  <1>1. edits' \in 0..MaxEdits /\ Made \subseteq Made' /\ edits + 1 \in Made'
    <2>1. edits \in 0..MaxEdits /\ edits < MaxEdits /\ edits' = edits + 1
      BY DEF Edit, IndexTypeOK
    <2>2. edits' \in 0..MaxEdits /\ 1..edits \subseteq 1..edits' /\ edits + 1 \in 1..edits'
      BY <2>1, EditsAssumption
    <2>3. QED
      BY <2>2 DEF Made
  <1>2. disk \in [Files -> [mtime : Made', text : Made'] \cup {Null}]
    BY <1>1 DEF IndexTypeOK
  <1>3. PICK fresh \in Made' : fresh = edits + 1
    BY <1>1
  <1>4. CASE disk' = [disk EXCEPT ![g] = Written(fresh)]
    <2>1. Written(fresh) \in [mtime : Made', text : Made']
      BY DEF Written
    <2>2. QED
      BY <1>1, <1>2, <1>4, <2>1
  <1>5. CASE disk[g] # Null /\ disk' = [disk EXCEPT ![g].text = fresh]
    <2>1. disk[g] \in [mtime : Made', text : Made']
      BY <1>2, <1>5
    <2>2. [disk[g] EXCEPT !.text = fresh] \in [mtime : Made', text : Made']
      BY <2>1
    <2>3. disk' = [disk EXCEPT ![g] = [disk[g] EXCEPT !.text = fresh]]
      BY <1>5
    <2>4. QED
      BY <1>1, <1>2, <2>2, <2>3
  <1>6. CASE disk' = [disk EXCEPT ![g] = Null]
    BY <1>1, <1>2, <1>6
  <1>7. QED
    BY <1>3, <1>4, <1>5, <1>6 DEF Edit

LEMMA EditStep ==
    ASSUME IndexInv, IInv', NEW g \in Files, Edit(g)
    PROVE  IndexInv'
  <1>1. /\ IInv /\ IndexTypeOK /\ TablesKept /\ UNCHANGED vars /\ crawl' = crawl /\ missed' = missed
        /\ quiet' = [p \in Proc |-> FALSE]
    BY DEF IndexInv, Edit
  <1>2. db' = db /\ tx' = tx /\ view' = view /\ pc' = pc
    BY <1>1 DEF vars
  <1>3. Made \subseteq Made'
    BY <1>1, EditTyped
  <1>4. IndexTypeOK'
    BY <1>1, EditTyped DEF IndexTypeOK, IInv
  <1>5. ASSUME NEW tables, FilesKept(tables) PROVE FilesKept(tables)'
    <2>1. ASSUME NEW f \in Files
          PROVE  /\ tables.files[f] # Null =>
                       /\ tables.files[f].mtime \in Made' /\ tables.files[f].text \in Made'
                       /\ Current(f, tables.files[f].mtime, tables.files[f].text)'
                 /\ AgreeOrHalf(tables, f)
      <3>1. /\ AgreeOrHalf(tables, f)
            /\ tables.files[f] # Null =>
                  /\ tables.files[f].mtime \in Made /\ tables.files[f].text \in Made
                  /\ Current(f, tables.files[f].mtime, tables.files[f].text)
        BY <1>5 DEF FilesKept
      <3>2. QED
        BY <1>1, <1>3, <3>1, StaysCurrent
    <2>2. QED
      BY <2>1 DEF FilesKept, AgreeOrHalf, Agree
  <1>6. TablesKept'
    <2>1. PICK committed : committed = db.rest /\ committed = db'.rest
      BY <1>2
    <2>2. FilesKept(committed)'
      BY <1>1, <1>5, <2>1 DEF TablesKept
    <2>3. ASSUME NEW q \in Proc, tx'[q] = "write" PROVE FilesKept(view[q].rest)'
      <3>1. PICK pending : pending = view[q].rest /\ pending = view'[q].rest
        BY <1>2
      <3>2. FilesKept(pending)'
        BY <1>1, <1>2, <1>5, <2>3, <3>1 DEF TablesKept
      <3>3. QED
        BY <3>1, <3>2
    <2>4. QED
      BY <2>1, <2>2, <2>3 DEF TablesKept
  <1>7. ASSUME NEW p \in Proc PROVE InHand(p)'
    <2>1. PICK c \in Crawls : c = crawl[p] /\ c = crawl'[p]
      BY <1>1, CrawlTyped
    <2>2. c.at \in {"entry", "changed", "extracted"} =>
             /\ c.file \in Files /\ c.mtime \in Made'
             /\ c.at = "extracted" => c.text \in Made' /\ Current(c.file, c.mtime, c.text)'
      <3>1. c.at \in {"entry", "changed", "extracted"} =>
               /\ c.file \in Files /\ c.mtime \in Made
               /\ c.at = "extracted" => c.text \in Made /\ Current(c.file, c.mtime, c.text)
        BY <2>1 DEF IndexInv, InHand
      <3>2. QED
        BY <1>1, <1>3, <3>1, StaysCurrent
    <2>3. ~quiet'[p]
      BY <1>1
    <2>4. QED
      BY <2>1, <2>2, <2>3 DEF InHand
  <1>8. ASSUME NEW p \in Proc PROVE Standing(p)' /\ QuietCrawl(p)'
    BY <1>1, <1>2 DEF IndexInv, Standing, QuietCrawl
  <1>9. QED
    BY <1>4, <1>6, <1>7, <1>8 DEF IndexInv

-----------------------------------------------------------------------------
(* The theorems                                                            *)

LEMMA InitIsInit == IndexInit => Init
  <1> SUFFICES ASSUME IndexInit PROVE Init
    OBVIOUS
  <1>1. [files |-> [f \in Files |-> Null], fts |-> [f \in Files |-> Null]] \in Rest
    BY RestAssumption DEF Tables
  <1>2. QED
    BY <1>1 DEF IndexInit, Init

LEMMA InitIndexInv == IndexInit => IndexInv
  <1> SUFFICES ASSUME IndexInit PROVE IndexInv
    OBVIOUS
  <1>1. IInv
    BY InitIsInit, InitIInv
  <1>2. /\ crawl = [p \in Proc |-> NoCrawl] /\ quiet = [p \in Proc |-> FALSE]
        /\ missed = [p \in Proc |-> {}] /\ edits = 0
        /\ db.rest = [files |-> [f \in Files |-> Null], fts |-> [f \in Files |-> Null]]
        /\ \A p \in Proc : tx[p] = "none" /\ pc[p] = "idle"
    BY DEF IndexInit, EngineInit
  <1>3. NoCrawl \in Crawls /\ NoCrawl.at = "none"
    BY DEF NoCrawl, Crawls, Points
  <1>4. disk \in [Files -> [mtime : Made, text : Made] \cup {Null}]
    <2>1. {Written(t) : t \in OldTexts} \subseteq [mtime : Made, text : Made]
      BY DEF Written, Made
    <2>2. QED
      BY <2>1 DEF IndexInit
  <1>5. IndexTypeOK
    BY <1>1, <1>2, <1>3, <1>4, EditsAssumption DEF IndexTypeOK, IInv
  <1>6. TablesKept
    BY <1>2 DEF TablesKept, FilesKept, AgreeOrHalf, Agree
  <1>7. ASSUME NEW p \in Proc PROVE InHand(p) /\ Standing(p) /\ QuietCrawl(p)
    BY <1>2, <1>3 DEF InHand, Standing, QuietCrawl
  <1>8. QED
    BY <1>1, <1>5, <1>6, <1>7 DEF IndexInv

LEMMA CrawlStep ==
    ASSUME IndexInv, IInv', NEW p \in Proc, Crawl(p)
    PROVE  IndexInv'
  <1>1. ASSUME NEW force \in BOOLEAN, StartCrawl(p, force) PROVE IndexInv'
    BY <1>1, StartCrawlStep
  <1>2. ASSUME NEW f \in Files, Stat(p, f) PROVE IndexInv'
    BY <1>2, StatStep
  <1>3. CASE LookUp(p) \/ Extract(p) \/ ExtractFails(p)
    BY <1>3, LookUpStep, ExtractStep, ExtractFailsStep
  <1>4. CASE Store(p) \/ StoreRaises(p) \/ StoreRefused(p) \/ CommitFile(p)
    BY <1>4, StoreStep, StoreRaisesStep, StoreRefusedStep, CommitFileStep
  <1>5. CASE EndCrawl(p) \/ Logging(p) \/ Report(p) \/ LogRaises(p)
    BY <1>5, EndCrawlStep, LoggingStep, ReportStep, LogRaisesStep
  <1>6. QED
    BY <1>1, <1>2, <1>3, <1>4, <1>5 DEF Crawl

LEMMA StutterIndexInv ==
    ASSUME IndexInv, IInv', UNCHANGED indexVars
    PROVE  IndexInv'
  <1>1. /\ db' = db /\ tx' = tx /\ view' = view /\ pc' = pc
        /\ disk' = disk /\ edits' = edits /\ crawl' = crawl /\ quiet' = quiet /\ missed' = missed
    BY DEF indexVars, vars, ownVars
  <1>2. IndexTypeOK'
    BY <1>1 DEF IndexInv, IndexTypeOK, IInv, Made
  <1>3. TablesKept'
    BY <1>1 DEF IndexInv, TablesKept, FilesKept, Made, Current, AgreeOrHalf, Agree
  <1>4. ASSUME NEW p \in Proc PROVE InHand(p)' /\ Standing(p)' /\ QuietCrawl(p)'
    <2>1. InHand(p) /\ Standing(p) /\ QuietCrawl(p)
      BY DEF IndexInv
    <2>2. InHand(p)'
      BY <1>1, <2>1, InHandStays
    <2>3. Standing(p)' /\ QuietCrawl(p)'
      BY <1>1, <2>1 DEF Standing, QuietCrawl, Indexed, KeptMtime, Latest
    <2>4. QED
      BY <2>2, <2>3
  <1>5. QED
    BY <1>2, <1>3, <1>4 DEF IndexInv

LEMMA NextIndexInv == IndexInv /\ [IndexNext]_indexVars => IndexInv'
  <1> SUFFICES ASSUME IndexInv, [IndexNext]_indexVars PROVE IndexInv'
    OBVIOUS
  <1>1. IInv /\ IndexTypeOK /\ \A p \in Proc : InHand(p)
    BY DEF IndexInv
  <1>2. IInv'
    BY <1>1, IndexStepIsStep, NextIInv
  <1>3. ASSUME NEW p \in Proc, Crawl(p) \/ Crash(p) PROVE IndexInv'
    BY <1>2, <1>3, CrawlStep, CrashStep
  <1>4. ASSUME NEW f \in Files, Edit(f) PROVE IndexInv'
    BY <1>2, <1>4, EditStep
  <1>5. CASE UNCHANGED indexVars
    BY <1>2, <1>5, StutterIndexInv
  <1>6. QED
    BY <1>3, <1>4, <1>5 DEF IndexNext

\* The inductive invariant: what is committed, what every connection is about
\* to commit, the file every crawl has in hand, and what a crawl that is alone
\* has achieved, for any number of crawlers, files, texts and edits.
THEOREM IndexInductiveInvariant == IndexSpec => []IndexInv
  BY InitIndexInv, NextIndexInv, PTL DEF IndexSpec

\* A crawl and the handler that ends it use the connection and the audit log as
\* AuditLog says (indexer.py:156-188, agent.py:205-221): all that is proved of
\* the log holds of the crawls.
THEOREM CrawlsUseTheLog == IndexSpec => Spec
  <1>1. IndexInv => IInv /\ IndexTypeOK /\ \A p \in Proc : InHand(p)
    BY DEF IndexInv
  <1>2. IInv /\ IndexTypeOK /\ (\A p \in Proc : InHand(p)) /\ [IndexNext]_indexVars => [Next]_vars
    BY IndexStepIsStep
  <1>3. QED
    BY <1>1, <1>2, InitIsInit, IndexInductiveInvariant, PTL DEF IndexSpec, Spec

\* Every variable of the crawls has its type (indexer.py:33-188).
THEOREM IndexTypeCorrect == IndexSpec => []IndexTypeOK
  <1>1. IndexInv => IndexTypeOK
    BY DEF IndexInv
  <1>2. QED
    BY <1>1, IndexInductiveInvariant, PTL

\* A row that would make the next crawl skip its file was made from the very
\* text the file holds, however edits and slow crawlers come between the mtime,
\* the text and the commit, unless the mtime was kept (indexer.py:115, :148).
THEOREM SkippedAreCurrent == IndexSpec => []SkippedIsCurrent
  <1>1. IndexInv => SkippedIsCurrent
    <2> SUFFICES ASSUME IndexInv, NEW f \in Files,
                        db.rest.files[f] # Null, disk[f] # Null, ~KeptMtime(f),
                        db.rest.files[f].mtime = disk[f].mtime
                 PROVE  db.rest.files[f].text = disk[f].text
      BY DEF SkippedIsCurrent
    <2>1. disk[f] = Written(disk[f].mtime) /\ disk[f].text = disk[f].mtime
      BY DiskTyped DEF IndexInv, KeptMtime, Written
    <2>2. Current(f, db.rest.files[f].mtime, db.rest.files[f].text)
      BY DEF IndexInv, TablesKept, FilesKept
    <2>3. QED
      BY <2>1, <2>2 DEF Current
  <1>2. QED
    BY <1>1, IndexInductiveInvariant, PTL

\* When index_volume's statistics reach the caller and nobody else was at work,
\* every file that was not counted as failed is in both tables with its present
\* text, whatever earlier and broken-off crawls left (indexer.py:48-88,
\* agent.py:203-221).
THEOREM ReportedAreIndexed == IndexSpec => []ReportedIsIndexed
  <1>1. IndexInv => ReportedIsIndexed
    <2> SUFFICES ASSUME IndexInv, NEW p \in Proc, crawl[p].at = "reported", quiet[p],
                        NEW f \in Files \ missed[p]
                 PROVE  Indexed(db.rest, f, crawl[p].force)
      BY DEF ReportedIsIndexed
    <2>1. tx[p] = "none" /\ crawl[p].todo = {} /\ QuietCrawl(p)
      BY DEF IndexInv, Standing
    <2>2. QED
      BY <2>1 DEF QuietCrawl, Latest
  <1>2. QED
    BY <1>1, IndexInductiveInvariant, PTL

\* The two tables describe the same files with the same texts at every commit,
\* whoever makes it and whatever else is pending in it (indexer.py:156-186).
THEOREM TablesAlwaysAgree == IndexSpec => []TablesAgree
  <1>1. IndexInv => TablesAgree
    BY DEF IndexInv, TablesKept, FilesKept, TablesAgree
  <1>2. QED
    BY <1>1, IndexInductiveInvariant, PTL
=============================================================================
