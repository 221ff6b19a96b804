# A TLA+ model of the privacy agent

This directory models the `privacy-agent` of the local-private-orchestration
repository: a daemon that lets a cloud model work with local files, one consent
at a time, and writes down everything it hands out. Paths below are relative to
`src/privacy-agent/`; `agent.py`, `audit.py` and the other bare names are in
`src/privacy-agent/src/privacy_agent/`.

The Python is short and sequential. What makes it hard is that it runs many
times at once: every orchestrator starts a server process of its own
(agent.py:11-13), the operator runs commands beside them (cli.py), Claude Code
runs hooks (hooks/), and they all share one SQLite file, each with one
connection, implicit transactions, and no `rollback()` anywhere. The models are
about that.

- [The system](#the-system): parts, state, operations, interaction, hazards
- [Modules](#modules): which module models what, and how
- [Runs](#runs): what TLC checks, the bounds, the fairness
- [Proofs](#proofs): what TLAPS proves, from what, and how
- [Where code and documents disagree](#where-code-and-documents-disagree)
- [Plan](#plan) and [what is not modelled](#not-modelled)

## The system

| part | state | operations | what makes it correct |
|---|---|---|---|
| Database (db.py) | one WAL file; per connection a transaction, perhaps a snapshot, perhaps the write lock | `open_db`, statements, `commit` | one writer; no write from an old snapshot; nothing pending left by a process that is gone |
| Audit log (audit.py) | table `audit`: entry id, sequence number, hash of the row and its predecessor | `log`, `query`, `verify_chain_integrity`, `verify_single` | append-only, gap-free numbers, chained backwards, `log()` tells the truth, `verify` reports nothing that is not broken |
| Consent (consent.py) | table `consent`: pattern, scope, granularity, window, revocation | `grant`, `revoke`, `cleanup_expired`, `check`, `list_active` | access begins with a grant and ends with expiry or a revocation by name, nothing else |
| Indexer (indexer.py) | tables `files`, `files_fts`; the volume on disk | `index_volume`: walk, mtime test, extract, three statements and a commit per file | a skipped file is current; the two tables agree; what is reported is indexed |
| Search (search.py) | reads the index | `search` | what is wanted, under the cap, in the window; no more than the configured maximum |
| Tool handlers (agent.py, server.py) | the locals of one call per process | eight `handle_*` functions; `main` verifies the chain and registers the tools | every answer audited before it leaves and given under a lease in force; every call ends |
| Operator CLI (cli.py) | none | `consent grant/revoke/cleanup`, `audit verify`, `index`, canary and manifest commands | as consent and the audit log |
| Hooks (hooks/*.py) | none of their own | `session_start`, `post_tool_use`, `pre_tool_use` | nobody kept waiting, a status that is true |
| Classifier (classifier.py) | rules, in memory of one process | `classify_path`, `add_rule` | what a server has classified itself it does not lower |
| Redactor, canaries (redactor.py, canary.py) | decoy files | `scrub`, `check_outbound` | counts add up; a marker never leaves |
| Manifest (manifest.py) | a text file in the form of sha256sum, a hash and a name for every script and source file | `install`, `verify` | what passes is what was installed; what fails has changed |
| Configuration (config.py) | a TOML file, read when a process starts | `load_config`, `validate`, profiles | what a process runs with has valid limits, and the cap of its orchestrator's profile |
| Soak monitor (scripts/soak-check.sh) | `soak.start`, `soak.log`; reads the audit table | `--start`, the daily and weekly checks, `--summary` | GO is not given against a red check or on days without use |
| Extractors | none | text of a file, or `ExtractorError` | – |

**How they interact.** A handler calls consent, then index or search, then
`audit.log()`, and answers. Each of those executes statements on the process's
one connection, so a failure inside one of them (an INSERT that raised) is what
the next one starts from. Between processes there are no messages: only the
write lock, commits, and snapshots. FastMCP runs the synchronous tools of one
server one after the other, so a process is in one handler at a time.

**What is hard about it.** In the order of what it would cost:

1. `log()` reads the last hash, reads the last number, inserts and commits: four
   statements with other processes between them. Only the UNIQUE index on
   `sequence_num` (db.py:95) and the lock stand between that and a lost or a
   double row; nothing stands between it and a row chained to an older one.
2. A statement that raises leaves its transaction open. After `IntegrityError`
   the process *keeps the write lock* while idle; after "database is locked" it
   keeps a deferred transaction whose next SELECT pins a snapshot, and once
   somebody else commits, the connection sees the past and cannot write. Both were tried
   out on SQLite through Python's module before they were modelled.
3. The consent check comes first, the answer many statements later. Commands,
   clock and clean-up come between; the connection may even be looking at a
   past in which a revoked lease is active.
4. The operator's writes take the time, then wait for the lock.
5. A crawl writes two tables with three statements per file, over files that
   change, beside other crawls, and may die between any two statements.
6. Hooks run beside all this and must neither block nor lie.
7. A level is written to the index by the configuration of whoever indexes, and
   compared with the cap of the configuration of whoever searches; files of
   configuration are edited between two starts.
8. A manifest is installed and verified file by file over a tree that is edited
   meanwhile, and is itself rewritten in place.
9. The soak's decision is put together from three sources that are written at
   different times: a log that is never reset, a start date that is, and a table
   that can lose rows.

PROJECT.json lists the hazards one by one, each at its line, with the
properties that would show it going wrong.

## Modules

```
Sqlite   AuditTable ──── AuditTrail (abstract)      Config     Manifest    Soak
    \     /     \            |  refinement              |          |          |
    AuditLog ────────────────┘     ConsentTable      Search   ManifestProofs |
     |   |   \      \                /     \            |                 SoakProofs
     |   |    \      \─── Agent ────┘    Consent   SearchProofs
     |   |     \            |               |
     | Hooks   Index    AgentProofs    ConsentProofs
     |   |       |
     | HooksProofs IndexProofs
     AuditLogProofs (also extended by HooksProofs, AgentProofs and IndexProofs)
```

**Sqlite** is the database engine as this code uses it (it is not part of the
repository, so its definitions are marked external). `db` is the last commit,
`view[p]` what p's transaction reads, `tx[p]` one of `none`, `begun`, `read`,
`stale`, `write`. A SELECT outside a transaction reads `db`; the first write
needs the lock and a snapshot that is the last commit; a refused write opens a
transaction all the same; a commit makes other snapshots stale.

**AuditTable** holds what audit.py computes from the table, as pure operators:
`LastHash`, `NextSequence`, `BrokenAt` (verify_chain_integrity). A row keeps its
entry id, its number and the hash it was chained to. SHA-256 is taken to be
collision free, so a row's hash is named by its entry id.

**AuditTrail** is the abstract specification: rows are appended one at a time
with consecutive numbers, each chained to *some* earlier row; an acknowledged
entry is in, a refused one never will be. It deliberately does not promise
"chained to the row just before".

**AuditLog** is `AuditLogger` in several processes, one action per statement:
`ReadLastHash`, `ReadNextSequence`, `Insert` / `InsertDuplicate` /
`InsertRefused`, `CommitRow`, `ReturnEntry`. Beside `log()` a process can verify,
read and write other tables (`db.rest`), fail in the middle of that, and be
restarted anywhere. `Trail == INSTANCE AuditTrail` maps `trail` to the committed
table. This is the module the others build on, and the first one proved about.

**ConsentTable** has Expiry, `Active`, `IsPathCovered`, `Check` and the WHERE
clauses of revoke and cleanup_expired. A path is the sequence of its components as they
are spelled, because that is what consent.py compares (:150-158); nothing resolves
a `..` or a link. **Consent** runs the operations in
several processes; each takes the time in one step and writes in a later one, and
`SetBack` puts the clock back between any two of them.

**Agent** composes AuditLog and ConsentTable: `db.rest` is the consent table and
the index: of each indexed file its level, and as a history the root of the crawl that
put it there, the lease that crawl found, and the leases over when its call began. `task[p]` holds the
locals of the handler p is in; each handler is a series of actions, `Handler(p)`
is their disjunction, and `audit.log()` inside a handler is AuditLog's own steps.
The operator's `grant`, `revoke` and `cleanup` are processes of their own, and so is
`index`, which lends itself a lease and goes on as the handler of a server does
(`BeginIndex`). `dead`
(leases already over when the call began) and `answer` are histories. What a crawl
meets (`Under`) are the files on disk by the paths os.walk gives them: the root as it was
spelled, then names.

**Index** composes AuditLog with the crawl: `disk[f]` has the edits f's mtime and
f's text are of (not the same one, where a file was put back with its mtime), and
`db.rest.files` and `db.rest.fts` are the two tables. **Hooks**
composes it with runs of session_start and post_tool_use, every run a process
that opens and closes its own connection.

**Config** turns the contents of a configuration file (`Raw`: what is there, Null
for what is not) into a configuration, refuses what `validate()` refuses, and
gives an orchestrator its profile. **Search** is about processes started with a file or
without one, the file being edited in between: `lives[p]` has the configurations p was
started with, `rules[p]` the rules added since the last start; the shared index holds
the level of each row and which life of which process gave it; the search is an operator
`Results(server, scope, requested, filter)`: join and WHERE, ORDER BY, LIMIT, then
the cap, in the code's order. The order bm25 gives is any order, and the rows of a
query are places in it: "the first n" are the places with at most n wanted ones up to
them, which the provers can count and a filtered sequence (`SelectSeq`) they cannot. LIKE is not a
prefix test (`_`, `%` and letter case), so the scope is modelled as what LIKE
matches: the constant `Alike` names the paths it confuses.

**Manifest** is `install()` and `verify()` file by file. A file is its version, which
stands for its contents and their hash. `install` and `check` are the locals of one
installer and one verifier, with the versions each file has had since they began
(histories); `verdict` is what the last verification came to. A mismatch the session
hook cannot log passes (`Mismatch`), and so does whatever raises (`Raises`), as in
session_start.py:117-129; from the command an exception is a failure. The manifest is
shorter than a write buffer, so that a reader finds the old one, an empty file
(`Truncate`), or the new one (`Write`).

**Soak** is soak-check.sh command by command: a check takes the date once, verifies
the chain, counts canary hits, runs the harness weekly, and may be interrupted in
between; the summary is the state predicate `Go`, put together from the same gates
and queries as the script's (`ChainGate`, `UsageGate`, ...). What the audit table holds of use
and of canary hits can be deleted or restored (`LoseRows`); a query returns the
positions of the newest matching rows.

Variables whose comment says "(history)" exist for the properties only. In the
modules, operators introduced by "Mutant of" are plausible bugs; they are used
nowhere, and are kept to show that each property fails when its piece of the code
does.

## Runs

TLC, two workers. Every passing run exhausts its state space.

| run | question | instance | states |
|---|---|---|---|
| `MCAuditLog` | does the audit log keep its promises whatever interleaves, fails, restarts? | 2 processes, 2 calls each, 2 contents of the other tables | 0.24 M |
| `MCConsent` | what begins and ends access? | 2 processes, 2 leases, a directory and a file in it, 2 scopes, clock 0..1 and set back at will, windows 0 / none, defaults 0 / 1 | 0.24 M |
| `MCAgent` | are answers audited, covered and given at all? | an empty database; 1 server with seven tools and excerpts disabled, 1 operator, 2 files, 2 calls, 1 lease, clock 0..1; with fairness | 0.28 M |
| `MCAgentTwo` | the same where `log()` raises | a database with an indexed file, the revoked lease it was indexed under, and a lease to read it; 1 server that indexes and reads excerpts, 1 operator who revokes, cleans up and runs `index` on the volume; 2 calls each; a file that is met only below a root spelled with `..` | 0.67 M |
| `MCIndex` | are skipped files current, tables in agreement, reports true? | 2 crawling processes, 2 files, each with one of two texts at first, one of them not encodable, 1 edit (with or without a new mtime) or removal | 1.8 M |
| `MCHooks` | do hooks end and tell the truth? | 1 hook with 3 calls of log(), 1 server with 2; with fairness | 1.07 M |
| `MCSearch` | what may a search return and leave out, and can a level fall? | Goose's server, started twice, and a command without a file; 4 contents of the configuration file, one of them refused, 1 edit; 3 files, one in a directory LIKE takes for another; 1 added rule; 2 orders; requests none, -1, 0, 1, 3 | 0.02 M |
| `MCSoak` | may GO be given against the facts? | 3 days of which 2 must have passed, 1 with use; 2 rows of which a query shows 1; 1 loss of rows, 1 failed check | 5.07 M |
| `MCManifest` | does verification tell what was installed from what was not? | 2 files, 2 versions, 3 edits, 2 installs; hook, command and `--strict` | 3.65 M |
| `MCAuditLogRace` | *refuted:* is the chain intact when nobody tampers? | 2 processes, 1 call each | |
| `MCIndexHalf` | *refuted:* is a file in both tables or in neither? | 1 process | |
| `MCSearchCap` | *refuted:* does Goose's cap hold against Goose's configuration? | as MCSearch | |

**Why the bounds are enough.** The lock is held by one process and contended by
another, so two show every race of `log()`; two calls each let a process come back
to its own open transaction (with the lock, or stale) and log again, which is
where failures and retries meet. Nothing in `log()` counts. The theorems hold for any
number of processes, calls, leases, files, edits, rows and rules, so for the safety
properties the bounds only decide what TLC has seen, not what is known; every
inductive invariant was an invariant of its run before it was proved. The bounds
matter for what only TLC checks: that calls and hooks end. Two leases, one nested in the
other, and a clock of two readings give overlapping leases, expiry before and
after a write, a late timestamp, and a lease revived by the clock; two scopes tell a
lease from one of another scope; a window of 0 is a lease that is over when it begins.
In Hooks a hook has three calls, so that the chain and the manifest can both be broken
and one more call be left over; the server's two put rows between them.
In MCAgent a single lease is enough because `Check` chooses by the rules MCConsent
checks; MCAgentTwo has three, one revoked, one to be revoked, one the command lends itself.
One edit between two crawlers gives a newer row overwritten by an older one,
and an edit between stat and extraction; two files let a commit for one carry
what is pending for another, and one that cannot be encoded lie beside one that
can, or become one that can. In Search every property is one of a state or of a step,
for every argument; three files are enough for a row above the cap to stand before
one below it, in and out of the scope; one edit and a restart give a server
with one configuration rows of another, and a start that is refused. In Soak the
thresholds are as small as they can be and still differ from the bound beyond
them: 3 days where 2 are needed leave one over, and 2 rows where a query shows
one let a row fall out of sight. In Manifest three edits change a file, change it back
and touch another one, during one install and after it.

*Bounds by name:* `MaxCalls` (calls of `log()` or of a tool per process),
`MaxGrants` (leases), `MaxTime` (clock), `MaxEdits` (changes of the volume, of the
configuration file, of the manifested files), `MaxRules` (added to a running
process), `MaxLives` (starts of each process), `MaxRows`, `MaxLost` and `MaxFailed` (rows
written, losses of rows, failed checks of the soak), `MaxInstalls`, `MaxBeside` (calls of the
processes beside the hooks). `Initial` and
`OldTexts` say what a run starts from. All
are guards of the action that counts; where one is reached, the action is
disabled and the rest goes on. In Hooks a mismatch is found only while the run
can still log. Processes can always be restarted or the system can go on, so
deadlock is checked in every run.

**Symmetry** is used for processes (they run the same code), for the contents of
other tables, for scopes in MCConsent (`check()` treats them alike), for files in
MCIndex and for files and versions in MCManifest; never in a run with a liveness property, and no `CHOOSE` ranges over a
symmetric set.

**Fairness.** `AgentFairSpec` says only that a server that is starting or in a
handler keeps executing (`WF` of `Handler(p)`): Python does not stop between two
statements, and a wait for the lock ends at the busy timeout of the connection with
"database is locked", which is the `Refused` branch. Nobody has to call, commands
need not be given or finished, a process may stay idle with the lock for ever,
and crashes may happen at any time. `HookFairSpec` says the same of a hook that
was started. So `CallsEnd` and `HooksEnd` say that nobody waits for another process.

**The properties, by component.**

- *Audit log.* `SequenceGapFree`, `ChainedBackwards`, `AppendOnly`: what the table
  is. `OutcomeTruthful`: a raised
  entry does not slip in with a later commit of the same connection although its
  transaction stays open. `BreaksBetweenProcesses`: what a break in the chain *does*
  mean: two processes wrote the two rows. `ReportsStayTrue`: `verify` from an old
  snapshot reports nothing that is not broken. `ImplementsTrail`: all of it as one
  refinement.
- *Consent.* `AccessBeginsWithGrant` (or with the clock being set back),
  `AccessEndsWithRevokeOrExpiry`, `OneRevokeWins`, `LeasesKept` (a lease stays, as the
  only row of its id, and only its revocation changes, once).
- *Handlers.* `AnswersAudited`; `ServedUnderLiveLease`, of servers and of the command
  `index` (in particular: a process
  stuck in an old snapshot, where a revoked lease looks active, cannot answer,
  because the entry it must write first is refused; and get_consent says "granted"
  of a lease only that was in force); `IndexedWasAllowed`: the same of what a crawl
  leaves in the index, whose lease may be over by then but was not when its call began;
  `CallsEnd`; and `ImplementsTrail` once more for the handlers' use of the log.
- *Index.* `SkippedIsCurrent`, with the one exception an mtime that was kept makes;
  `ReportedIsIndexed`; `TablesAgree`.
- *Hooks.* `BrokenStatusLogged` (of the chain and of the manifest);
  `HooksEnd`.
- *Search and configuration.* `LoweredByAnotherOnly` (a running server never lowers
  what it set itself); `ConfigCapHolds`: the cap of whoever searches holds against the
  configuration of whoever indexed; `ResultsBounded`: no valid configuration and no
  request gets more than the bound `validate()` sets; `SearchMeetsDefinition`:
  the pipeline against a definition by counting.
- *Soak.* `AlarmHolds`: what a check recorded red is not GO later. `UsageIsReal`: the
  days of use were days of use, and one is overlooked only beyond the limit of the query.
  What the script demands of the days themselves is less than the RUNBOOK says (below).
- *Manifest.* `AcceptedIsInstalled`, `RejectionHasCause`: the two directions of a
  verdict, over whatever is edited, installed or killed during it. What passes without
  having compared equal is named in the first: the session hook's exceptions.

## Proofs

All safety invariants, action properties and refinements of the passing runs are proved, for
every value of the constants. Each component has a module of proofs beside it; what
they assume is what the component's ASSUMEs say: bounds are naturals, `Null` is
none of the values it stands beside, the databases of `Initial` are ones a run can leave behind, paths are
sequences of names. TLC evaluates each of them on the instances above. (`AuditLogProofs`
adds that `NoView` is not a database, where a theorem says so.)

| module | theorem | statement |
|---|---|---|
| `AuditLogProofs` | `InductiveInvariant` | `Spec => []IInv` |
| | `TypeCorrect`, `SequenceNumbers`, `Chained`, `Truthful`, `BreaksNeedTwoProcesses`, `ReportsTrue` | the invariants of `MCAuditLog` |
| | `SingleProcessChainIntact` | with one process the chain is intact, whatever fails and however often it restarts |
| | `SingleProcessNeverFails` | with one process `log()` never raises |
| | `OnlyAppends` | `Spec => AppendOnly` |
| | `TrailImplemented` | `Spec => ImplementsTrail`: every step is a step of the abstract trail, or a stutter |
| `ConsentProofs` | `ConsentInductiveInvariant` | `Spec => []ConsentInv` |
| | `ConsentTypeCorrect`, `RevokeWinsOnce` | the invariants of `MCConsent` |
| | `AccessBegins`, `AccessEnds`, `LeasesAreKept` | its action properties: what no step may do to access or to a row |
| `AgentProofs` | `AgentInductiveInvariant` | `AgentSpec => []AgentInv` |
| | `AgentsUseTheLog` | `AgentSpec => Spec` of AuditLog: the handlers use the log as AuditLog says |
| | `AgentsImplementTrail` | so they implement the abstract trail |
| | `AgentTypeCorrect`, `AnswersAreAudited`, `ServedOnlyUnderLiveLease`, `IndexedOnlyIfAllowed` | the invariants of `MCAgent` and `MCAgentTwo` |
| `IndexProofs` | `IndexInductiveInvariant`, `CrawlsUseTheLog` | `IndexSpec => []IndexInv`, `IndexSpec => Spec` |
| | `IndexTypeCorrect`, `SkippedAreCurrent`, `ReportedAreIndexed`, `TablesAlwaysAgree` | the invariants of `MCIndex` |
| `HooksProofs` | `HookInductiveInvariant`, `HooksUseTheLog` | `HookSpec => []HookInv`, `HookSpec => Spec` |
| | `HookTypeCorrect`, `BrokenStatusIsLogged` | the invariants of `MCHooks` |
| `SearchProofs` | `SearchInductiveInvariant` | `SearchSpec => []SearchInv` |
| | `SearchTypeCorrect`, `CapHoldsWhereClassified`, `ResultsAreBounded`, `SearchIsDefined` | the invariants of `MCSearch` |
| | `RatchetHolds` | `SearchSpec => LoweredByAnotherOnly` |
| `SoakProofs` | `SoakInductiveInvariant` | `SoakSpec => []SoakInv` |
| | `SoakTypeCorrect`, `AlarmsHold`, `UsageReal` | the invariants of `MCSoak` |
| `ManifestProofs` | `ManifestInvariant` | `ManifestSpec => []ManifestInv` |
| | `ManifestTypeCorrect`, `PassesAsInstalled`, `FailsForACause` | the invariants of `MCManifest` |

In each there is one lemma per action, or per group of actions that leave the same
things alone, and one step per conjunct of the invariant the action can disturb.

**The inductive invariant of AuditLog.** None of the properties is inductive alone:

- *Gap-free numbers* need that the row in a pending INSERT carries `Len + 1`
  (`SequenceBound`), which needs that nobody committed since it was checked
  against the index: `OneWriter`, and that a lock holder's view is the last commit
  plus what it wrote itself (`LockDiscipline`, `NoLostUpdate`).
- *Truthfulness* needs that a failed entry's id is not used again by a later call and
  that an open transaction contains no failed row: `FreshEntries`, and again
  `LockDiscipline`.
- *Chained backwards* and *breaks are between processes* need to know what the
  hash in hand is: that of the last row, or of a row after which only other
  processes committed (`HashInHand`). From a stale snapshot that is false, and does
  not matter, because nothing can be inserted from there. That a snapshot from which something can be is
  the present one is `SnapshotsArePast`.

There is one lemma per action (`InsertStep`, `CommitRowStep`, ...), each with one step
per conjunct the action can disturb; lemmas about gap-free tables
(`NewestOfNumbered`, `LastHashOfNumbered`, `PredecessorOfNumbered`) turn the
`CHOOSE` of ORDER BY ... LIMIT 1 into the last element. `SingleProcessChainIntact`
is `BreaksBetweenProcesses` with nobody else to have written the neighbour.

**The inductive invariant of Manifest.** The two promises are about a finished
verification; what they need of the steps before it is that every listing is
*honest* about the files' histories: what it has of a file is a version the file
had while it was hashed, and what it leaves out was missing at some time meanwhile.
`InstallFollows` says so of the hashes in hand, `ManifestHonest` of the file on disk
(while it is not empty: a truncated manifest is honest about nothing, which is why
`verify()` must refuse it), `CheckFollows` of what the verifier has parsed and
compared so far. One lemma per action again; `GoesOn` and `Ends` do what all
verifier steps have in common.

**Composition.** Agent, Index and Hooks extend AuditLog and do its statements between
their own. So the first theorem of each is that its specification implies
AuditLog's `Spec`: every step is one of AuditLog's, a change of the other tables
(`db.rest`) included, or leaves it alone. With that, `IInv` and all that is proved of
the log hold with them and need not be proved again; the invariants below are about
the rest.

**The inductive invariant of Consent.** `OneRowEach` (an id is one row, and was drawn)
and `GrantsFresh` (a lease that is about to be written has an id that is neither in the
table nor in another process's hands) make a write of one process a change of one row.
`OneRevokeWins` needs `WinsKnown`: who was told that a revocation succeeded revoked a row
that is still there. The action properties follow from a step lemma per write, which
says what becomes of each row.

**The inductive invariant of Agent.** The hard one is `ServedUnderLiveLease`: the lease
was found in a snapshot that may be long past. An answer is given only after its
audit entry is committed, and a connection that can commit sees the present
(`SnapshotsArePast` of `IInv`). So `HandlerOK` says that the lease of a handler past its
check is backed *unless the handler's snapshot is stale*, from where it will answer
nothing; it is carried along by `Evolves` (no committed step, nor one that is pending, loses
a lease or brings a revoked one back) and `DeadStayDead`. `IndexedWasAllowed` needs
the same of the tables a crawl has written and not yet committed (`Accounted`): the row a
crawl writes is admitted by the lease that backs its call (`FileRowAdmitted`), and stays
admitted whatever becomes of the lease (`AdmitsStays`).

**The inductive invariant of Index.** `Current` is the heart of `SkippedIsCurrent`: a text
extracted after an mtime was seen is, as long as the file still has that mtime, the
text that came with it. It is proved of the file in hand (`InHand`), of what is pending
and of what is committed (`TablesKept`), and an edit keeps all three because a
new mtime is a new one. `ReportedIsIndexed` follows from `QuietCrawl`: of a crawl that
nobody disturbs, every file that is neither missed nor yet to be visited is in
the tables as it left them (`Latest`), committed or not; when it has reported, nothing
is pending (`Standing`).

**The inductive invariant of Hooks.** `Progress` ties where a run stands to its
connection and to how many entries it has logged, `OwnEntries` says that these are of its
own calls, and `Shown` that they are committed and stay so.

**The inductive invariant of Search.** `RowKept`: a row has at least the level of
the configuration its writer ran with then; and as long as that writer goes on,
its level is that of the configuration or of a rule the writer still has, so what the same
process computes next is at least as high. A restart is a new life and makes
the second part void, which is exactly the exception `LoweredByAnotherOnly` states.
`ResultsBounded` and `SearchMeetsDefinition` need no more than types, and lemmas about
numbers: `LimitFacts` (what clamping twice, with 0 and None meaning no wish, amounts to) and
`TopBounded` (the first n of some places are at most n).

**The inductive invariant of Soak.** `AlarmsKept`: what a check saw red is still where
the summary will look for it. That a query is cut off at its limit does not matter, because
the newest row is always listed (`NewestListed`). `UsageKept` relates the rows to the searches
there were, and `InOrder` says that rows stand in the order of their times, so a row that
the limit hides has only rows of its own day and later ones before it in the list.

The induction theorems of the library take an operator as a parameter, which the
installed provers cannot instantiate. Where a greatest place is needed, `Greatest`
gets it from the well-foundedness of < on the naturals instead (`WFMin`, which is
about sets).

**Model-checked only:** liveness (`CallsEnd`, `HooksEnd`), which depends on fairness and
ENABLED and is out of the prover's reach; and the runs that refute
something, whose results are traces. There are no recursive operators anywhere.

## Where code and documents disagree

Three of these are refuted by a run (see `findings` in PROJECT.json):

1. RUNBOOK.md:87-88 takes a broken chain for tampering or an interrupted write. Two
   processes that log at once break it (`MCAuditLogRace`).
2. A text SQLite cannot encode aborts a crawl between two statements, and the next
   commit makes half a file permanent (`MCIndexHalf`).
3. docs/goose-setup.md:3 says Goose cannot return confidential content. A file that
   `privacy-cli index` classified without the configuration file, as the RUNBOOK calls
   it, is internal in the index, whatever Goose's configuration says (`MCSearchCap`).

One more is an exception that a property states:

- RUNBOOK.md:130-131 says results need a search consent. A search without a
  scope needs none (agent.py:134; `ServedUnderLiveLease`).

Observed while modelling, without a run of their own:

- session_start.py:55-56 says the manifest check "fails loud on mismatch". The entry of a
  mismatch is logged inside the check's own try block (:117): when `log()` raises, the
  handler at :125-129 returns True and the status says that the manifest is ok.
  `BrokenStatusLogged` and `AcceptedIsInstalled` say what remains true.
- COMPLIANCE.md:52 says of a revocation "Immediate effect". A crawl asks once, at its
  beginning (agent.py:189), and goes on. `IndexedWasAllowed` says what remains true.
- COMPLIANCE.md:34 says `agent.handle_*` always emits an audit row. Every exception before
  the `log()` at the end of a handler leaves none: a volume that is gone, a crawl that
  is aborted and whose files are in the index, a file that is not indexed or cannot be
  extracted, a bad level or scope; nor does the refusal of `file_summary` for a
  file above the cap (agent.py:515). `AnswersAudited` says what remains true: data, and
  the other refusals, are logged.
- RUNBOOK.md:248 says of GO that the chain was verified every day. The script counts 30
  different dates, however far apart, and also from before the start
  (soak-check.sh:48, :115).
- RUNBOOK.md:250-251 asks for searches on ten days, and :263 takes less for an idle system.
  The script looks at the newest 500 searches, those by hand included (soak-check.sh:101);
  `UsageIsReal` says when a day of use is overlooked.
- server.py:174 says a broken chain blocks the tools; it is logged, and they are
  registered.
- Paths are compared as they are spelled. `check()` (consent.py:150-158) is lexical, and
  agent.py:188 expands `~` only, so a root with a `..` in it is covered by a lease on the
  directory before the `..`, and os.walk visits the tree the spelling leads to. What is
  checked and proved about leases and files is about spellings: the index, too, is keyed
  by the path as it was met.
- A refused search is logged with the action `search` (agent.py:137), so it counts as use
  in the soak.
- `check()` is asked about the root of a crawl only (agent.py:189), so a lease of file
  granularity that names a directory covers nothing but the directory itself
  (consent.py:145-159) and still lets everything below it be indexed. `Admits` therefore asks
  for a lease that covers the root of the crawl, whatever its granularity.
- RUNBOOK.md:73-76 re-indexes after rotating canaries; rows of files that are gone
  stay (indexer.py:71 only visits what is there).
- classifier.py:4-7 speaks of persisted overrides that only ratchet upward; rules
  live in one process's memory, and another server, or the same one restarted, puts
  a re-indexed file back to its old level.
- search.py:84-85 describes the scope as a prefix; LIKE also matches directories
  that differ where the scope has `_` or `%`, or in letter case, and the consent
  check (consent.py:145-159) does not.
- A negative `max_results` is no limit at all (agent.py:121, search.py:58), nor is a
  negative maximum in a profile, which `validate()` does not look at.
- A `[profiles.goose]` section that does not repeat the cap drops it (`Section`);
  unknown orchestrators share Goose's profile; the `[profiles.cline]` of
  docs/cline-setup.md:46 is read by nobody.
- The `max_chars` of an excerpt request (agent.py:299) is not held to the configured maximum, and
  excerpts and snippets are cut before they are scrubbed (agent.py:294,
  search.py:118).
- canary.py:10 says that the post-tool hook checks output with
  `CanaryWatcher.check_outbound`; only tests call it, and the handlers drop the
  canary hits that `scrub` returns.
- A failed check stays in soak.log when the
  soak is started again; one that was shown red and interrupted before it was logged
  is forgotten. soak-check.sh:68-69 says the state of the chain comes from the
  database; the summary reads soak.log only. Where `date -j` is not available,
  `start_epoch` is 0 (soak-check.sh:61) and all days have passed.
- Unchanged files are not classified again without `force_reindex`, so a rule that was added
  holds only for files that change.
- post_tool_use.py:5-6 promises an entry for a canary hit; if `log()` raises, only
  the warning is printed.

## Plan

Done: all modules above, their runs, and the proofs of all their safety properties.
What could come next:

1. An abstract specification of consent, as AuditTrail is one of the log: access as a
   relation that begins with grants and ends with expiry or revocation, which Consent
   implements; `ServedUnderLiveLease` could then be stated against it.
2. A second look at the abstraction of Agent: `require_per_volume_consent = false`, and
   levels from Config instead of constants, would join Agent and Search.
3. Two installers of a manifest at once, two checks of the soak at once.
4. A power loss (synchronous=NORMAL), as a variant of Sqlite that falls back to an
   earlier commit; most theorems about acknowledged entries would need an exception.

## Not modelled

- Redaction and canaries: what matters there is text (a pattern or a
  marker across a cut), and no module has text below the granularity of a
  file. The hazard is listed without a property.
- pre_tool_use.py: a stateless match against regular expressions.
- A power loss: with synchronous=NORMAL (db.py:139) it may take the last commits
  with it. Processes die anywhere in the models, the machine does not; a variant would
  need an older database to fall back to in every module.
- Parsing: extractors, TOML, argument parsing, the texts of results.
- Encryption and file permissions of the database.
- `require_per_volume_consent = false` (the default is modelled), include and
  exclude patterns, size limits; configuration of paths, keys and environment.
- Two installers of a manifest at once; two checks of the soak at once; the soak's
  summary is taken in one step although the script reads its sources one after the
  other.
- Benchmarks, launchers, CI, the scaffold and setup scripts: one pass each, no
  shared state.
