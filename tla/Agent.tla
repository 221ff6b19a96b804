------------------------------- MODULE Agent -------------------------------
(***************************************************************************)
(* PrivacyAgent (agent.py): the tool handlers of the servers, with the     *)
(* consent table, the file index and the audit log they share, and the     *)
(* operator's commands (cli.py) beside them.                               *)
(*                                                                         *)
(* A handler is a series of statements on the process's connection: a      *)
(* consent check, reads or writes of the index, the four steps of          *)
(* audit.log(), and the answer.  Commands of the operator, calls of other  *)
(* servers, the clock and crashes come between any two of them.  One       *)
(* process executes one handler at a time.                                 *)
(***************************************************************************)
EXTENDS AuditLog, ConsentTable

CONSTANTS Servers, Operators,   \* MCP servers; the operator's CLI commands
          Tools,                \* the tools clients call, of the eight there are
          Names, ParentDir,     \* the components of paths; the one that is ".."
          Files,                \* the files on disk, as the paths they can be met under
          Scoped,               \* the paths calls and leases are made for
          Grants,               \* what the operator grants: [pattern, scope, granularity, window]
          Crawled, IndexWindow, \* the paths of `privacy-cli index`, and the window it grants itself
          Level,                \* Level[f]: classification_rank of f by the path rules
          Cap,                  \* Cap[p]: rank of the profile's classification_cap
          ExcerptEnabled,       \* ExcerptEnabled[p]
          Initial,              \* the tables the first of the processes may find
          MaxGrants, MaxTime    \* bounds: leases, the clock

AllTools == {"search", "index", "read", "summary", "get_consent", "list_volumes",
             "audit_log", "classify"}
Pathless == {"list_volumes", "audit_log", "classify"}

\* The tables beside the audit log: the leases, and the files that are indexed.
\* Of a file the index has its level, and we remember of its last crawl the root,
\* the lease it found, and the leases that were over when its call began.
Windows == {g.window : g \in Grants} \cup {IndexWindow}
Expiries == {Expiry(time, window, 0) : time \in 0..MaxTime, window \in Windows} \cup {Null}
Leases == [consent_id : 1..MaxGrants, pattern : Scoped, scope : Scopes,
           granularity : Granularities, granted_at : 0..MaxTime, expires_at : Expiries,
           revoked_at : (0..MaxTime) \cup {Null}]
Levels == {Level[f] : f \in Files}
FileRows == [level : Levels, root : Scoped, lease : 1..MaxGrants, over : SUBSET (1..MaxGrants)]
Tables == [consent : SUBSET Leases, index : [Files -> FileRows \cup {Null}]]

LeaseIds(table) == {l.consent_id : l \in table}

\* os.walk(path): nothing, if path is a file.  Below path it meets names only;
\* a ".." there is in path, as it was spelled, stays in what it yields.
Under(path) ==
    {f \in Files : IsStrictPrefix(path, f) /\ \A i \in (Len(path) + 1)..Len(f) : f[i] # ParentDir}

\* The lease lets the crawl of a row begin: it is one to index, covers the root
\* of the crawl, and was not over when its call began.
Admits(lease, row) ==
    /\ lease.consent_id = row.lease
    /\ lease.scope = "index" /\ IsPathCovered(row.root, lease)
    /\ lease.consent_id \notin row.over

\* Every indexed file is one its crawl met, and the lease of the crawl admits it.
\* (check() is asked about the root only: a lease of file granularity for a
\* directory passes it, and lets all below be indexed.)
Accounted(tables) ==
    \A f \in Files : tables.index[f] # Null =>
        /\ f \in Under(tables.index[f].root)
        /\ \E l \in tables.consent : Admits(l, tables.index[f])

ASSUME ProcAssumption == Proc = Servers \cup Operators
ASSUME ToolsAssumption == Tools \subseteq AllTools
ASSUME BoundsAssumption == MaxGrants \in Nat /\ MaxTime \in Nat
ASSUME PathAssumption == Files \cup Scoped \subseteq Seq(Names) /\ Crawled \subseteq Scoped
ASSUME NullAssumption == Null \notin Int \cup Files \cup Scoped \cup FileRows
ASSUME VocabularyAssumption == {"search", "index", "read"} \subseteq Scopes /\ "volume" \in Granularities
ASSUME GrantsAssumption ==
    /\ IndexWindow \in Int \cup {Null}
    /\ \A g \in Grants : /\ g.pattern \in Scoped /\ g.scope \in Scopes
                         /\ g.granularity \in Granularities /\ g.window \in Int \cup {Null}
ASSUME LevelAssumption == \A f \in Files : Level[f] \in Nat
ASSUME RestAssumption == Rest = Tables
ASSUME InitialAssumption ==
    \A r \in Initial :
        /\ r \in Tables
        /\ LeaseIds(r.consent) = 1..Cardinality(r.consent)
        /\ Cardinality(r.consent) \in 0..MaxGrants
        /\ \A l, m \in r.consent : l.consent_id = m.consent_id => l = m
        /\ Accounted(r)

VARIABLES clock,
          issued,   \* consent ids drawn so far
          task,     \* task[p]: the handler p is executing
          dead,     \* dead[p]: leases that were over when p's call began (history)
          answer    \* answer[p]: how p's last call ended (history)

ownVars == <<clock, issued, task, dead, answer>>
agentVars == <<vars, ownVars>>

\* A handler's locals: its arguments, how far it is, the consent it found, what
\* it will answer once it has logged; and of a crawl, the file in hand and the
\* files os.walk still has to yield.
Points == {"idle", "starting", "called", "searching", "crawling", "found", "resolved",
           "extracting", "log"}
Tasks == [tool : AllTools \cup {"none"}, path : Scoped \cup {Null}, at : Points,
          lease : 1..MaxGrants \cup {Null}, verdict : {"none", "data", "refusal"},
          file : Files \cup {Null}, todo : SUBSET Files]

Idle == [tool |-> "none", path |-> Null, at |-> "idle", lease |-> Null,
         verdict |-> "none", file |-> Null, todo |-> {}]
Starting == [Idle EXCEPT !.at = "starting"]
Call(tool, path) ==
    [Idle EXCEPT !.tool = tool, !.path = path, !.at = "called",
                 !.todo = IF tool = "index" THEN Under(path) ELSE {}]

\* The outcomes of a call: "data" (a ToolResponse), "refusal" (ConsentRequired,
\* ClassificationBlocked, ToolDisabled), "error" (any other exception).
Answers == [kind : {"none", "data", "refusal", "error"}, tool : AllTools \cup {"none"},
            path : Scoped \cup {Null}, lease : 1..MaxGrants \cup {Null},
            entry : EntryId \cup {Null}]

NoAnswer == [kind |-> "none", tool |-> "none", path |-> Null, lease |-> Null, entry |-> Null]
Outcome(p, kind, entry) ==
    [kind |-> kind, tool |-> task[p].tool, path |-> task[p].path,
     lease |-> task[p].lease, entry |-> entry]

Consents(p) == Seen(p).rest.consent
Indexed(p) == {f \in Files : Seen(p).rest.index[f] # Null}
AboveCap(p, f) == Seen(p).rest.index[f].level > Cap[p]

AgentInit ==
    /\ \E r \in Initial :
          /\ EngineInit([audit |-> <<>>, rest |-> r])
          /\ issued = Cardinality(r.consent)
    /\ pc = [p \in Proc |-> "idle"]
    /\ calls = [p \in Proc |-> 0]
    /\ prevHash = [p \in Proc |-> GenesisHash]
    /\ nextSeq = [p \in Proc |-> 0]
    /\ acked = {}
    /\ failed = {}
    /\ report = [p \in Proc |-> {}]
    /\ clock = 0
    /\ task = [p \in Proc |-> Idle]
    /\ dead = [p \in Proc |-> {}]
    /\ answer = [p \in Proc |-> NoAnswer]

-----------------------------------------------------------------------------
(* A call, from the request to its answer                                  *)

\* p is in a call of one of the tools, at the given point of its handler.
At(p, tools, point) == task[p].tool \in tools /\ task[p].at = point /\ pc[p] = "idle"

Continue(p, new) ==
    /\ task' = [task EXCEPT ![p] = new]
    /\ UNCHANGED <<clock, issued, dead, answer>>

MoveTo(p, point) == Continue(p, [task[p] EXCEPT !.at = point])

\* The handler is left, with or without an entry in the audit log.
Finish(p, kind, entry) ==
    /\ task' = [task EXCEPT ![p] = Idle]
    /\ answer' = [answer EXCEPT ![p] = Outcome(p, kind, entry)]
    /\ UNCHANGED <<clock, issued, dead>>

\* The handler goes on to audit.log(), and after that to its answer.
GoLog(p, verdict, lease) ==
    Continue(p, [task[p] EXCEPT !.at = "log", !.verdict = verdict, !.lease = lease])

\* The leases that are over by now.
Over == {l.consent_id : l \in {m \in db.rest.consent : ~Active(m, clock)}}

\* A client calls a tool of server p.
BeginCall(p, tool, path) ==
    /\ task[p] = Idle
    /\ calls[p] < MaxCalls
    /\ task' = [task EXCEPT ![p] = Call(tool, path)]
    /\ dead' = [dead EXCEPT ![p] = Over]
    /\ answer' = [answer EXCEPT ![p] = NoAnswer]
    /\ UNCHANGED <<vars, clock, issued>>

\* The consent check of a tool: go on to `granted` with the lease check()
\* found, or log a block and raise ConsentRequired.
CheckConsent(p, granted) ==
    /\ ReadOther(p)
    /\ LET leases == Check(Consents(p), task[p].path, task[p].tool, clock) IN
       \/ \E l \in leases :
             Continue(p, [task[p] EXCEPT !.at = granted, !.lease = l.consent_id])
       \/ leases = {} /\ GoLog(p, "refusal", Null)

-----------------------------------------------------------------------------
(* The handlers                                                            *)

\* handle_search: with a scope, a 'search' consent for it (the default
\* require_per_volume_consent); without, none at all.
SearchCheck(p) ==
    /\ At(p, {"search"}, "called")
    /\ task[p].path # Null
    /\ CheckConsent(p, "searching")

Search(p) ==
    /\ \/ At(p, {"search"}, "searching")
       \/ At(p, {"search"}, "called") /\ task[p].path = Null
    /\ ReadOther(p)
    /\ GoLog(p, "data", task[p].lease)

\* handle_index_volume
IndexCheck(p) ==
    /\ At(p, {"index"}, "called")
    /\ CheckConsent(p, "crawling")

\* index_volume: FileNotFoundError before anything is walked.
VolumeGone(p) ==
    /\ At(p, {"index"}, "crawling")
    /\ task[p].todo = Under(task[p].path)
    /\ Finish(p, "error", Null)
    /\ UNCHANGED vars

\* The crawl is done with f, whatever became of it.
Done(p, f) ==
    Continue(p, [task[p] EXCEPT !.at = "crawling", !.file = Null, !.todo = @ \ {f}])

\* _already_indexed: an indexed file is skipped unless it has changed.
LookUp(p, f) ==
    /\ At(p, {"index"}, "crawling")
    /\ f \in task[p].todo
    /\ ReadOther(p)
    /\ \/ f \in Indexed(p) /\ Done(p, f)
       \/ Continue(p, [task[p] EXCEPT !.at = "found", !.file = f])

\* f is the next file to index: looked up or, with force_reindex, just met.
ToIndex(p, f) ==
    \/ At(p, {"index"}, "found") /\ task[p].file = f
    \/ At(p, {"index"}, "crawling") /\ f \in task[p].todo

\* ExtractorError, OSError: counted as failed, and the crawl goes on.
ExtractFails(p, f) ==
    /\ ToIndex(p, f)
    /\ Done(p, f)
    /\ UNCHANGED vars

FileRow(p, f) ==
    [level |-> Level[f], root |-> task[p].path, lease |-> task[p].lease, over |-> dead[p]]
WithFile(p, f) == [Seen(p).rest EXCEPT !.index[f] = FileRow(p, f)]

\* _index_one: the statements for one file, without its commit.
IndexOne(p, f) ==
    /\ ToIndex(p, f)
    /\ WriteOther(p, WithFile(p, f))
    /\ Done(p, f)

\* One of them raises: the crawl and the call are over, nothing is logged.
IndexOneRaises(p, f) ==
    /\ ToIndex(p, f)
    /\ WriteOtherRefused(p) \/ WriteOtherRaises(p, WithFile(p, f))
    /\ Finish(p, "error", Null)

CommitFile(p) ==
    /\ task[p].tool = "index"
    /\ CommitOther(p)
    /\ UNCHANGED ownVars

EndCrawl(p) ==
    /\ At(p, {"index"}, "crawling")
    /\ task[p].todo = {}
    /\ GoLog(p, "data", task[p].lease)
    /\ UNCHANGED vars

\* handle_read_excerpt
ReadDisabled(p) ==
    /\ At(p, {"read"}, "called")
    /\ ~ExcerptEnabled[p]
    /\ GoLog(p, "refusal", Null)
    /\ UNCHANGED vars

ReadResolve(p) ==
    /\ At(p, {"read"}, "called")
    /\ ExcerptEnabled[p]
    /\ ReadOther(p)
    /\ LET f == task[p].path IN
       \/ f \notin Indexed(p) /\ Finish(p, "error", Null)
       \/ f \in Indexed(p) /\ AboveCap(p, f) /\ GoLog(p, "refusal", Null)
       \/ f \in Indexed(p) /\ ~AboveCap(p, f) /\ MoveTo(p, "resolved")

ReadCheck(p) ==
    /\ At(p, {"read"}, "resolved")
    /\ CheckConsent(p, "extracting")

\* Extract and scrub; the file may be gone or unreadable by now.
Extract(p) ==
    /\ At(p, {"read"}, "extracting")
    /\ GoLog(p, "data", task[p].lease) \/ Finish(p, "error", Null)
    /\ UNCHANGED vars

\* handle_file_summary: a file above the cap is refused without a log entry.
Summary(p) ==
    /\ At(p, {"summary"}, "called")
    /\ ReadOther(p)
    /\ LET f == task[p].path IN
       \/ f \notin Indexed(p) /\ Finish(p, "error", Null)
       \/ f \in Indexed(p) /\ AboveCap(p, f) /\ Finish(p, "refusal", Null)
       \/ f \in Indexed(p) /\ ~AboveCap(p, f) /\ GoLog(p, "data", Null)

\* Mutant of GetConsent: any lease for the path counts as granted.
GetAnyConsent(p) ==
    /\ At(p, {"get_consent"}, "called")
    /\ ReadOther(p)
    /\ LET leases == {l \in Consents(p) : IsPathCovered(task[p].path, l)} IN
       \/ \E l \in leases : GoLog(p, "data", l.consent_id)
       \/ leases = {} /\ GoLog(p, "data", Null)

\* handle_get_consent, here for the 'search' scope: what check() found is the
\* answer.  An unknown scope is a ValueError.
GetConsent(p) ==
    /\ At(p, {"get_consent"}, "called")
    /\ \/ /\ ReadOther(p)
          /\ LET leases == Check(Consents(p), task[p].path, "search", clock) IN
             \/ \E l \in leases : GoLog(p, "data", l.consent_id)
             \/ leases = {} /\ GoLog(p, "data", Null)
       \/ Finish(p, "error", Null) /\ UNCHANGED vars

\* handle_list_volumes, handle_audit_log: one SELECT and a log entry.
ListVolumes(p) ==
    /\ At(p, {"list_volumes", "audit_log"}, "called")
    /\ ReadOther(p)
    /\ GoLog(p, "data", Null)

\* handle_classify: in memory; a bad level is a ValueError.
Classify(p) ==
    /\ At(p, {"classify"}, "called")
    /\ GoLog(p, "data", Null) \/ Finish(p, "error", Null)
    /\ UNCHANGED vars

\* The audit.log() at the end of a handler.
Logging(p) ==
    /\ task[p].at = "log"
    /\ ReadLastHash(p) \/ ReadNextSequence(p) \/ Insert(p) \/ CommitRow(p)
    /\ UNCHANGED ownVars

\* It returned: the answer is sent, or the refusal raised.
Reply(p) ==
    /\ task[p].at = "log"
    /\ ReturnEntry(p)
    /\ Finish(p, task[p].verdict, Entry(p))

\* Mutant of LogRaises: the handler catches the exception and answers.
LogRaisesIgnored(p) ==
    /\ task[p].at = "log"
    /\ InsertDuplicate(p) \/ InsertRefused(p)
    /\ Finish(p, task[p].verdict, Entry(p))

\* Mutant of LogRaises: without a busy timeout, the INSERT waits for the lock.
LogWaits(p) ==
    /\ task[p].at = "log"
    /\ InsertDuplicate(p)
    /\ Finish(p, "error", Null)

\* It raised: so does the handler, and what it had to answer with is lost.
LogRaises(p) ==
    /\ task[p].at = "log"
    /\ InsertDuplicate(p) \/ InsertRefused(p)
    /\ Finish(p, "error", Null)

\* A server is stopped or killed, and started again; a command exits or is killed.
Crash(p) ==
    /\ Restart(p)
    /\ task' = [task EXCEPT ![p] = IF p \in Servers THEN Starting ELSE Idle]
    /\ answer' = [answer EXCEPT ![p] = NoAnswer]
    /\ UNCHANGED <<clock, issued, dead>>

\* server.main verifies the chain, and serves whatever it finds.
StartUp(p) ==
    /\ task[p] = Starting
    /\ Verify(p)
    /\ Continue(p, Idle)

Handler(p) ==
    \/ StartUp(p)
    \/ SearchCheck(p) \/ Search(p)
    \/ IndexCheck(p) \/ VolumeGone(p) \/ CommitFile(p) \/ EndCrawl(p)
    \/ \E f \in Files : LookUp(p, f) \/ ExtractFails(p, f) \/ IndexOne(p, f) \/ IndexOneRaises(p, f)
    \/ ReadDisabled(p) \/ ReadResolve(p) \/ ReadCheck(p) \/ Extract(p)
    \/ Summary(p) \/ GetConsent(p) \/ ListVolumes(p) \/ Classify(p)
    \/ Logging(p) \/ Reply(p) \/ LogRaises(p)

-----------------------------------------------------------------------------
(* The operator's commands: each opens a connection, writes once and exits. *)
(* One that finds the database locked exits without having changed anything.*)

Command(o, consent) ==
    /\ task[o] = Idle
    /\ tx[o] = "none"
    /\ WriteOther(o, [db.rest EXCEPT !.consent = consent])
    /\ UNCHANGED <<clock, task, dead, answer>>

Lease(id, g) ==
    [consent_id |-> id, pattern |-> g.pattern, scope |-> g.scope, granularity |-> g.granularity,
     granted_at |-> clock, expires_at |-> Expiry(clock, g.window, 0), revoked_at |-> Null]

\* Mutant of Grant: the id is the last one drawn.
GrantOldId(o, g) ==
    /\ issued < MaxGrants
    /\ issued' = issued + 1
    /\ Command(o, db.rest.consent \cup {Lease(issued, g)})

Grant(o, g) ==
    /\ issued < MaxGrants
    /\ issued' = issued + 1
    /\ Command(o, db.rest.consent \cup {Lease(issued + 1, g)})

Revoke(o, id) ==
    /\ Command(o, MarkRevoked(db.rest.consent, ToRevoke(db.rest.consent, id), clock))
    /\ UNCHANGED issued

Cleanup(o) ==
    /\ Command(o, MarkRevoked(db.rest.consent, ToCleanUp(db.rest.consent, clock), clock))
    /\ UNCHANGED issued

CommitCommand(o) ==
    /\ task[o] = Idle
    /\ CommitOther(o)
    /\ UNCHANGED ownVars

\* privacy-cli index: a lease for the crawl, and then the handler in this process.
IndexLease(path) == [pattern |-> path, scope |-> "index", granularity |-> "volume", window |-> IndexWindow]

BeginIndex(o, path) ==
    /\ task[o] = Idle
    /\ tx[o] = "none"
    /\ calls[o] < MaxCalls
    /\ issued < MaxGrants
    /\ issued' = issued + 1
    /\ WriteOther(o, [db.rest EXCEPT !.consent = @ \cup {Lease(issued + 1, IndexLease(path))}])
    /\ task' = [task EXCEPT ![o] = Call("index", path)]
    /\ dead' = [dead EXCEPT ![o] = Over]
    /\ answer' = [answer EXCEPT ![o] = NoAnswer]
    /\ UNCHANGED clock

Operator(o) ==
    \/ \E g \in Grants : Grant(o, g)
    \/ \E id \in 1..MaxGrants : Revoke(o, id)
    \/ Cleanup(o) \/ CommitCommand(o)
    \/ \E path \in Crawled : BeginIndex(o, path)

Tick ==
    /\ clock < MaxTime
    /\ clock' = clock + 1
    /\ UNCHANGED <<vars, issued, task, dead, answer>>

AgentNext ==
    \/ \E p \in Servers :
          \E tool \in Tools, path \in Scoped \cup {Null} :
             /\ path = Null => tool \in {"search"} \cup Pathless
             /\ tool \in Pathless => path = Null
             /\ BeginCall(p, tool, path)
    \/ \E o \in Operators : Operator(o)
    \/ \E p \in Proc : Handler(p) \/ Crash(p)
    \/ Tick

AgentSpec == AgentInit /\ [][AgentNext]_agentVars

\* A server that is starting or executing a handler keeps executing; nobody has to call,
\* and no command has to be given or finished.
AgentFairSpec == AgentSpec /\ \A p \in Servers : WF_agentVars(Handler(p))

-----------------------------------------------------------------------------
(* Properties                                                              *)

AgentTypeOK ==
    /\ TypeOK
    /\ clock \in 0..MaxTime
    /\ issued \in 0..MaxGrants
    /\ task \in [Proc -> Tasks]
    /\ answer \in [Proc -> Answers]
    /\ dead \in [Proc -> SUBSET (1..issued)]
    /\ \A p \in Proc : task[p].lease \in 1..issued \cup {Null}

\* A client that got data, or was refused, finds that in the audit log for
\* ever: the entry was committed before the answer left (agent.py:166-177 and
\* the end of every handler).  Not so the refusals of file_summary (agent.py:515)
\* and the exceptions, though COMPLIANCE.md:34 says that every call leaves an entry.
AnswersAudited ==
    \A p \in Proc :
        \/ answer[p].kind = "data"
        \/ answer[p].kind = "refusal" /\ answer[p].tool # "summary"
        => answer[p].entry \in Ids(db.audit)

\* A lease of the given id, scope and path that was not over when p's call began.
Backed(p, id, scope, path) ==
    \E l \in db.rest.consent :
        /\ l.consent_id = id /\ l.scope = scope /\ IsPathCovered(path, l)
        /\ l.consent_id \notin dead[p]

ScopeOf(tool) == IF tool = "get_consent" THEN "search" ELSE tool

\* What check() promised at the start of a handler still counts when its
\* answer leaves: contents of files are only given out, files only reported
\* indexed, and consent only reported granted, under a lease of the right scope
\* that covers the path and was in force at some time since the call began.  In
\* particular a process whose connection is stuck in an old snapshot, where a
\* revoked lease looks active, answers nothing.  A search without a path needs
\* no lease (agent.py:134; consent.py:110-131, agent.py:363-405, audit.py:93-117).
ServedUnderLiveLease ==
    \A p \in Proc :
        LET given == answer[p] IN
        /\ given.kind = "data"
        /\ \/ given.tool \in {"search", "index", "read"} /\ given.path # Null
           \/ given.tool = "get_consent" /\ given.lease # Null
        => Backed(p, given.lease, ScopeOf(given.tool), given.path)

\* A file is in the committed index because of a crawl that met it and that began
\* under a lease to index its root which was in force at some time since the call
\* began: not a revoked or expired one, though a check from an old snapshot may
\* find it active and other processes' crawls, revocations and clean-ups come
\* between the check and the commits, and no leftover of a call that failed
\* (agent.py:189, indexer.py:67-88, :186).
IndexedWasAllowed == Accounted(db.rest)

\* Every call is over at some time: it is answered, or raises, or its server is
\* restarted, whatever locks the other processes hold and however often the
\* crawl finds its files changed.
CallsEnd == \A p \in Servers : (task[p] # Idle) ~> (task[p] = Idle)
-----------------------------------------------------------------------------
(* The inductive invariant: what the properties above rest on              *)

\* m is the lease l, later: it may have been revoked, and stays so.
SameLease(l, m) ==
    /\ m.consent_id = l.consent_id /\ m.pattern = l.pattern /\ m.scope = l.scope
    /\ m.granularity = l.granularity /\ m.granted_at = l.granted_at /\ m.expires_at = l.expires_at
    /\ l.revoked_at # Null => m.revoked_at = l.revoked_at

\* No lease is lost from one table to the other, and none is brought back to life.
Evolves(old, new) ==
    /\ \A l \in old : \E m \in new : SameLease(l, m)
    /\ \A m \in new : m.consent_id \in LeaseIds(old) => \E l \in old : SameLease(l, m)

\* A lease is one row, with an id that was drawn.
WellKept(table) ==
    /\ \A l \in table : l.consent_id \in 1..issued
    /\ \A l, m \in table : l.consent_id = m.consent_id => l = m

\* What is committed, what p reads, and what p is about to commit.
TablesKept ==
    /\ WellKept(db.rest.consent)
    /\ \A p \in Proc :
          /\ tx[p] \in {"read", "stale", "write"} => WellKept(view[p].rest.consent)
          /\ tx[p] = "write" =>
                /\ Evolves(db.rest.consent, view[p].rest.consent)
                /\ pc[p] # "written" => view[p].rest.consent = db.rest.consent
                /\ Accounted(view[p].rest)

\* A lease that was over when a call began is over.
DeadStayDead ==
    \A p \in Proc :
        /\ dead[p] \subseteq LeaseIds(db.rest.consent)
        /\ \A l \in db.rest.consent : l.consent_id \in dead[p] => ~Active(l, clock)

\* A handler that is past its check, which found a lease.
Allowed(t) ==
    \/ t.at \in {"searching", "crawling", "found", "extracting"}
    \/ /\ t.at = "log" /\ t.verdict = "data"
       /\ \/ t.tool \in {"search", "index", "read"} /\ t.path # Null
          \/ t.tool = "get_consent" /\ t.lease # Null

\* What holds between the locals of a handler, whatever the tables are.
LocalsOK(t) ==
    /\ t.at = "log" => t.verdict \in {"data", "refusal"}
    /\ t.tool = "index" => /\ t.path \in Scoped /\ t.todo \subseteq Under(t.path)
                           /\ t.file # Null => t.file \in Under(t.path)

\* Where p's handler stands.  From a stale snapshot it will not answer.
HandlerOK(p) ==
    /\ LocalsOK(task[p])
    /\ Allowed(task[p]) /\ tx[p] # "stale" =>
          Backed(p, task[p].lease, ScopeOf(task[p].tool), task[p].path)
    /\ pc[p] = "committed" => tx[p] = "none"

AgentInv ==
    /\ IInv
    /\ AgentTypeOK
    /\ TablesKept
    /\ DeadStayDead
    /\ \A p \in Proc : HandlerOK(p)
    /\ AnswersAudited
    /\ ServedUnderLiveLease
    /\ IndexedWasAllowed
=============================================================================
