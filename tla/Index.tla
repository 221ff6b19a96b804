------------------------------- MODULE Index -------------------------------
(***************************************************************************)
(* Indexer (indexer.py): crawls of one volume by several processes, each   *)
(* ended by the audit entry of handle_index_volume, while the volume's     *)
(* files change.                                                           *)
(*                                                                         *)
(* db.rest holds the two tables that describe a file: `files` (the mtime   *)
(* it had and, as a history, the text it was made from) and `files_fts`    *)
(* (the text that is searched).  A text is named by the number of the edit *)
(* that made it, and so is the mtime it gives the file: a write moves the  *)
(* mtime.  A file that is put in place with its mtime kept (cp -p, a       *)
(* restored backup) has a new text under an old mtime.                     *)
(***************************************************************************)
EXTENDS AuditLog

CONSTANTS Null,
          Files,        \* the files the volume may hold
          OldTexts,     \* the texts files may have at first
          Unencodable,  \* the texts that SQLite cannot encode, once extracted
          MaxEdits      \* bound: changes of the volume

Texts == OldTexts \cup (1..MaxEdits)

\* The two tables: the rows that describe a file, and the text that is searched.
FileRows == [mtime : Texts, text : Texts]
Tables == [files : [Files -> FileRows \cup {Null}], fts : [Files -> Texts \cup {Null}]]

ASSUME EditsAssumption == MaxEdits \in Nat
ASSUME NullAssumption == Null \notin Files \cup Texts \cup FileRows
ASSUME RestAssumption == Rest = Tables
ASSUME OldTextsAssumption == OldTexts \subseteq Nat /\ OldTexts \cap (1..MaxEdits) = {}
ASSUME UnencodableAssumption == Unencodable \subseteq Texts

VARIABLES disk,     \* disk[f]: the edits f's mtime and text are of; Null if f is gone
          edits,    \* how many edits there were
          crawl,    \* crawl[p]: the locals of index_volume()
          quiet,    \* quiet[p]: since p's crawl began nobody else crawled, edited
                    \* or removed anything (history)
          missed    \* missed[p]: the files p's crawl counted as failed (history)

ownVars == <<disk, edits, crawl, quiet, missed>>
indexVars == <<vars, ownVars>>

\* The locals of index_volume(): how far it is, the files still to visit, and of
\* the one in hand the mtime os.walk saw and the text that was extracted.
Points == {"none", "walking", "entry", "changed", "extracted", "logging", "reported"}
Crawls == [at : Points, force : BOOLEAN, todo : SUBSET Files, file : Files \cup {Null},
           mtime : Texts \cup {Null}, text : Texts \cup {Null}]

NoCrawl == [at |-> "none", force |-> FALSE, todo |-> {}, file |-> Null, mtime |-> Null, text |-> Null]

Written(t) == [mtime |-> t, text |-> t]

IndexInit ==
    /\ EngineInit([audit |-> <<>>, rest |-> [files |-> [f \in Files |-> Null],
                                             fts |-> [f \in Files |-> Null]]])
    /\ pc = [p \in Proc |-> "idle"]
    /\ calls = [p \in Proc |-> 0]
    /\ prevHash = [p \in Proc |-> GenesisHash]
    /\ nextSeq = [p \in Proc |-> 0]
    /\ acked = {}
    /\ failed = {}
    /\ report = [p \in Proc |-> {}]
    /\ disk \in [Files -> {Written(t) : t \in OldTexts}]
    /\ edits = 0
    /\ crawl = [p \in Proc |-> NoCrawl]
    /\ quiet = [p \in Proc |-> FALSE]
    /\ missed = [p \in Proc |-> {}]

-----------------------------------------------------------------------------
(* A crawl                                                                 *)

At(p, point) == crawl[p].at = point /\ pc[p] = "idle"

Go(p, new) ==
    /\ crawl' = [crawl EXCEPT ![p] = new]
    /\ UNCHANGED <<disk, edits, quiet>>

\* On to the next file.
Proceed(p) ==
    Go(p, [crawl[p] EXCEPT !.at = "walking", !.todo = @ \ {crawl[p].file},
                           !.file = Null, !.mtime = Null, !.text = Null])

\* The exception leaves index_volume() and the handler.
Abort(p) == Go(p, NoCrawl) /\ UNCHANGED missed

\* index_volume() is called.  (os.walk lists a directory when it gets there, so a
\* file made meanwhile may be passed over; here it never is.)
StartCrawl(p, force) ==
    /\ At(p, "none") \/ At(p, "reported")
    /\ calls[p] < MaxCalls
    /\ crawl' = [crawl EXCEPT ![p] = [NoCrawl EXCEPT !.at = "walking", !.force = force, !.todo = Files]]
    /\ quiet' = [q \in Proc |-> q = p /\ \A r \in Proc \ {p} : crawl[r].at \in {"none", "reported"}]
    /\ missed' = [missed EXCEPT ![p] = {}]
    /\ UNCHANGED <<vars, disk, edits>>

\* _walk: the file's entry, with the mtime it has now; a file that is gone (or
\* empty, or too large) is passed over.
Stat(p, f) ==
    /\ At(p, "walking")
    /\ f \in crawl[p].todo
    /\ Go(p, IF disk[f] = Null THEN [crawl[p] EXCEPT !.todo = @ \ {f}]
             ELSE [crawl[p] EXCEPT !.at = "entry", !.file = f, !.mtime = disk[f].mtime])
    /\ UNCHANGED <<vars, missed>>

\* Mutant of LookUp: any row will do, whatever its mtime.
LookUpAnyRow(p) ==
    /\ At(p, "entry")
    /\ ~crawl[p].force
    /\ ReadOther(p)
    /\ IF Seen(p).rest.files[crawl[p].file] # Null THEN Proceed(p)
       ELSE Go(p, [crawl[p] EXCEPT !.at = "changed"])
    /\ UNCHANGED missed

\* _already_indexed: the row has the very mtime of the entry.
LookUp(p) ==
    /\ At(p, "entry")
    /\ ~crawl[p].force
    /\ ReadOther(p)
    /\ LET row == Seen(p).rest.files[crawl[p].file] IN
       IF row # Null /\ row.mtime = crawl[p].mtime THEN Proceed(p)
       ELSE Go(p, [crawl[p] EXCEPT !.at = "changed"])
    /\ UNCHANGED missed

\* Mutant of Extract: a file that is gone is taken for an empty one.
ExtractAnyway(p) ==
    /\ At(p, "changed") \/ (At(p, "entry") /\ crawl[p].force)
    /\ Go(p, [crawl[p] EXCEPT !.at = "extracted",
                              !.text = IF disk[crawl[p].file] = Null THEN Null ELSE disk[crawl[p].file].text])
    /\ UNCHANGED <<vars, missed>>

\* _index_one, first part: extract and scrub what the file holds now.
Extract(p) ==
    /\ At(p, "changed") \/ (At(p, "entry") /\ crawl[p].force)
    /\ disk[crawl[p].file] # Null
    /\ Go(p, [crawl[p] EXCEPT !.at = "extracted", !.text = disk[crawl[p].file].text])
    /\ UNCHANGED <<vars, missed>>

\* ExtractorError or OSError: the file is gone or corrupt.
ExtractFails(p) ==
    /\ At(p, "changed") \/ (At(p, "entry") /\ crawl[p].force)
    /\ missed' = [missed EXCEPT ![p] = @ \cup {crawl[p].file}]
    /\ Proceed(p)
    /\ UNCHANGED vars

\* Mutant of FilesRow: the mtime is read when the row is written.
FilesRowLateStat(p) ==
    [mtime |-> IF disk[crawl[p].file] = Null THEN crawl[p].mtime ELSE disk[crawl[p].file].mtime,
     text |-> crawl[p].text]

FilesRow(p) == [mtime |-> crawl[p].mtime, text |-> crawl[p].text]

\* Mutant of Stored: the text of an indexed file is not replaced.
StoredOnce(p, text) ==
    [files |-> [Seen(p).rest.files EXCEPT ![crawl[p].file] = FilesRow(p)],
     fts |-> [Seen(p).rest.fts EXCEPT ![crawl[p].file] = IF @ = Null THEN text ELSE @]]

\* The tables after INSERT OR REPLACE INTO files, DELETE FROM files_fts and
\* the INSERT INTO files_fts of the given text.
Stored(p, text) ==
    [files |-> [Seen(p).rest.files EXCEPT ![crawl[p].file] = FilesRow(p)],
     fts |-> [Seen(p).rest.fts EXCEPT ![crawl[p].file] = text]]

\* _index_one, second part: the three statements; the commit is next.
Store(p) ==
    /\ At(p, "extracted")
    /\ crawl[p].text \notin Unencodable
    /\ WriteOther(p, Stored(p, crawl[p].text))
    /\ Proceed(p)
    /\ UNCHANGED missed

\* The last of them raises UnicodeEncodeError, after the other two.
StoreRaises(p) ==
    /\ At(p, "extracted")
    /\ crawl[p].text \in Unencodable
    /\ WriteOtherRaises(p, Stored(p, Null))
    /\ Abort(p)

\* The first of them raises "database is locked".
StoreRefused(p) ==
    /\ At(p, "extracted")
    /\ WriteOtherRefused(p)
    /\ Abort(p)

CommitFile(p) ==
    /\ CommitOther(p)
    /\ UNCHANGED ownVars

\* The handler's audit entry, and the statistics to the caller after it.
EndCrawl(p) ==
    /\ At(p, "walking")
    /\ crawl[p].todo = {}
    /\ Go(p, [crawl[p] EXCEPT !.at = "logging"])
    /\ UNCHANGED <<vars, missed>>

Logging(p) ==
    /\ crawl[p].at = "logging"
    /\ ReadLastHash(p) \/ ReadNextSequence(p) \/ Insert(p) \/ CommitRow(p)
    /\ UNCHANGED ownVars

Report(p) ==
    /\ crawl[p].at = "logging"
    /\ ReturnEntry(p)
    /\ Go(p, [NoCrawl EXCEPT !.at = "reported", !.force = crawl[p].force])
    /\ UNCHANGED missed

LogRaises(p) ==
    /\ crawl[p].at = "logging"
    /\ InsertDuplicate(p) \/ InsertRefused(p)
    /\ Abort(p)

Crawl(p) ==
    \/ \E force \in BOOLEAN : StartCrawl(p, force)
    \/ \E f \in Files : Stat(p, f)
    \/ LookUp(p) \/ Extract(p) \/ ExtractFails(p)
    \/ Store(p) \/ StoreRaises(p) \/ StoreRefused(p) \/ CommitFile(p)
    \/ EndCrawl(p) \/ Logging(p) \/ Report(p) \/ LogRaises(p)

-----------------------------------------------------------------------------
(* Beside the crawls                                                       *)

\* The process is stopped or killed, and started again.
Crash(p) ==
    /\ Restart(p)
    /\ crawl' = [crawl EXCEPT ![p] = NoCrawl]
    /\ UNCHANGED <<disk, edits, quiet, missed>>

\* The user writes a file, replaces it and keeps its mtime, or removes it.
Edit(f) ==
    /\ edits < MaxEdits
    /\ edits' = edits + 1
    /\ \/ disk' = [disk EXCEPT ![f] = Written(edits + 1)]
       \/ disk[f] # Null /\ disk' = [disk EXCEPT ![f].text = edits + 1]
       \/ disk[f] # Null /\ disk' = [disk EXCEPT ![f] = Null]
    /\ quiet' = [p \in Proc |-> FALSE]
    /\ UNCHANGED <<vars, crawl, missed>>

IndexNext ==
    \/ \E p \in Proc : Crawl(p) \/ Crash(p)
    \/ \E f \in Files : Edit(f)

IndexSpec == IndexInit /\ [][IndexNext]_indexVars

-----------------------------------------------------------------------------
(* Properties                                                              *)

\* The texts there have been so far.
Made == OldTexts \cup (1..edits)

IndexTypeOK ==
    /\ TypeOK
    /\ disk \in [Files -> [mtime : Made, text : Made] \cup {Null}]
    /\ edits \in 0..MaxEdits
    /\ crawl \in [Proc -> Crawls]
    /\ quiet \in [Proc -> BOOLEAN]
    /\ missed \in [Proc -> SUBSET Files]

\* The file was replaced and its mtime was kept.
KeptMtime(f) == disk[f] # Null /\ disk[f].mtime # disk[f].text

\* A row that would make the next crawl skip its file was made from the very
\* text the file holds: the mtime is read before the text (indexer.py:115,
\* :148), so an edit between the two leaves a row that is looked at again, and
\* a slow crawler that overwrites a newer row with an older one leaves such a
\* row too.  Only a replacement that kept the mtime goes unnoticed.
SkippedIsCurrent ==
    \A f \in Files :
        LET row == db.rest.files[f] IN
        row # Null /\ disk[f] # Null /\ ~KeptMtime(f) /\ row.mtime = disk[f].mtime
            => row.text = disk[f].text

\* f is in both tables with its present text, if it is there, can be encoded and,
\* unless the crawl was forced, has an mtime of its own.
Indexed(tables, f, force) ==
    /\ disk[f] # Null /\ disk[f].text \notin Unencodable
    /\ force \/ ~KeptMtime(f)
    => /\ tables.files[f] # Null
       /\ tables.files[f].text = disk[f].text
       /\ tables.fts[f] = disk[f].text

\* When index_volume's statistics reach the caller, and nobody else touched
\* the volume or the index meanwhile, every file on the volume that was not
\* counted as failed is in both tables with its present text, whatever earlier
\* crawls left; with force_reindex, a file whose mtime was kept is too
\* (indexer.py:48-88, agent.py:203-221).
ReportedIsIndexed ==
    \A p \in Proc : crawl[p].at = "reported" /\ quiet[p] =>
        \A f \in Files \ missed[p] : Indexed(db.rest, f, crawl[p].force)

Agree(tables, f) == tables.fts[f] = IF tables.files[f] = Null THEN Null ELSE tables.files[f].text

AgreeOrHalf(tables, f) ==
    \/ Agree(tables, f)
    \/ tables.files[f] # Null /\ tables.files[f].text \in Unencodable /\ tables.fts[f] = Null

\* The two tables describe the same files with the same texts at every commit,
\* whoever makes it and whatever else is pending in it: search() joins them,
\* and a file that is in one only is never found (indexer.py:156-186,
\* search.py:75).  The one exception is a text that cannot be encoded.
TablesAgree == \A f \in Files : AgreeOrHalf(db.rest, f)

\* The same without the exception.  A text that cannot be encoded is an ExtractorError,
\* says the extractors' interface; it is not, the exception comes from the last
\* of three statements, and whatever the process commits next commits the
\* first two.
NoHalfIndexedFile == \A f \in Files : Agree(db.rest, f)
-----------------------------------------------------------------------------
(* The inductive invariant: what the properties above rest on              *)

\* A text extracted after the given mtime was seen: if the file still has that
\* mtime, and the text that came with it, this is the text.
Current(f, mtime, text) == disk[f] = Written(mtime) => text = mtime

\* Every row is of a text there has been, and current; and the tables agree.
FilesKept(tables) ==
    \A f \in Files :
        /\ tables.files[f] # Null =>
              /\ tables.files[f].mtime \in Made /\ tables.files[f].text \in Made
              /\ Current(f, tables.files[f].mtime, tables.files[f].text)
        /\ AgreeOrHalf(tables, f)

\* What is committed, and what is about to be.
TablesKept ==
    /\ FilesKept(db.rest)
    /\ \A p \in Proc : tx[p] = "write" => FilesKept(view[p].rest)

\* The file in hand; and what is known of it if the volume has not changed.
InHand(p) ==
    LET c == crawl[p] IN
    c.at \in {"entry", "changed", "extracted"} =>
        /\ c.file \in Files /\ c.mtime \in Made
        /\ quiet[p] => disk[c.file] # Null /\ c.mtime = disk[c.file].mtime
        /\ c.at = "extracted" =>
              /\ c.text \in Made /\ Current(c.file, c.mtime, c.text)
              /\ quiet[p] => c.text = disk[c.file].text

\* Where a crawl stands in log() and in its transaction.
Standing(p) ==
    /\ pc[p] = "written" => crawl[p].at = "walking"
    /\ pc[p] \in {"hashed", "prepared", "inserted", "committed"} => crawl[p].at = "logging"
    /\ pc[p] = "committed" => tx[p] = "none"
    /\ crawl[p].at \in {"logging", "reported"} => crawl[p].todo = {}
    /\ crawl[p].at = "reported" => tx[p] = "none"

\* The tables as p has left them, committed or not.
Latest(p) == IF tx[p] = "write" THEN view[p].rest ELSE db.rest

\* A quiet crawl is alone, and what it has visited is indexed.  From a stale
\* snapshot it will report nothing.
QuietCrawl(p) ==
    quiet[p] /\ crawl[p].at # "none" =>
        /\ \A q \in Proc \ {p} : crawl[q].at \in {"none", "reported"}
        /\ tx[p] # "stale" =>
              \A f \in Files \ (missed[p] \cup crawl[p].todo) :
                  Indexed(Latest(p), f, crawl[p].force)

IndexInv ==
    /\ IInv
    /\ IndexTypeOK
    /\ TablesKept
    /\ \A p \in Proc : InHand(p) /\ Standing(p) /\ QuietCrawl(p)
=============================================================================
