----------------------------- MODULE AgentProofs -----------------------------
(***************************************************************************)
(* Proofs about Agent, for any number of servers, operators, leases and    *)
(* files.                                                                  *)
(***************************************************************************)
EXTENDS Agent, AuditLogProofs

-----------------------------------------------------------------------------
(* The tables                                                              *)

\* What is committed, and what a process between two writes sees, are tables.
LEMMA RestTyped ==
    ASSUME IInv
    PROVE  /\ db.rest \in Tables
           /\ \A p \in Proc : tx[p] \in {"read", "stale", "write"} => view[p].rest \in Tables
           /\ \A p \in Proc : Seen(p).rest \in Tables
  BY RestAssumption DEF IInv, TypeOK, Database, Seen, TxStates

LEMMA ConsentTyped ==
    ASSUME NEW r \in Tables
    PROVE  /\ r.consent \subseteq Leases
           /\ r.index \in [Files -> FileRows \cup {Null}]
  BY DEF Tables

\* What the fields of a lease can be.
LEMMA LeaseTyped ==
    ASSUME NEW l \in Leases
    PROVE  /\ l.consent_id \in 1..MaxGrants
           /\ l.pattern \in Scoped /\ l.scope \in Scopes /\ l.granularity \in Granularities
           /\ l.granted_at \in 0..MaxTime
           /\ l.expires_at \in Expiries /\ l.expires_at \in Int \cup {Null}
           /\ l.revoked_at \in (0..MaxTime) \cup {Null}
           /\ l.revoked_at # Null => l.revoked_at \in 0..MaxTime
  <1>1. /\ l.consent_id \in 1..MaxGrants
        /\ l.pattern \in Scoped /\ l.scope \in Scopes /\ l.granularity \in Granularities
        /\ l.granted_at \in 0..MaxTime /\ l.expires_at \in Expiries
        /\ l.revoked_at \in (0..MaxTime) \cup {Null}
    BY DEF Leases
  <1>2. Expiries \subseteq Int \cup {Null}
    <2>1. ASSUME NEW time \in 0..MaxTime, NEW window \in Windows
          PROVE  Expiry(time, window, 0) \in Int \cup {Null}
      <3>1. window \in Int \cup {Null}
        BY GrantsAssumption DEF Windows
      <3>2. QED
        BY <3>1 DEF Expiry
    <2>2. QED
      BY <2>1 DEF Expiries
  <1>3. QED
    BY <1>1, <1>2

\* A lease as grant() makes it.
LEMMA GrantTyped ==
    ASSUME clock \in 0..MaxTime, NEW id \in 1..MaxGrants, NEW g,
           g.pattern \in Scoped, g.scope \in Scopes, g.granularity \in Granularities,
           g.window \in Windows
    PROVE  Lease(id, g) \in Leases
  <1>1. Expiry(clock, g.window, 0) \in Expiries
    BY DEF Expiries
  <1>2. QED
    BY <1>1 DEF Lease, Leases

\* What revoke() and cleanup_expired() leave behind.
LEMMA MarkRevokedTyped ==
    ASSUME NEW table \in SUBSET Leases, NEW which \in SUBSET table, clock \in 0..MaxTime
    PROVE  MarkRevoked(table, which, clock) \in SUBSET Leases
  <1>1. ASSUME NEW l \in which PROVE [l EXCEPT !.revoked_at = clock] \in Leases
    BY DEF Leases
  <1>2. QED
    BY <1>1 DEF MarkRevoked

-----------------------------------------------------------------------------
(* Leases evolve                                                           *)

LEMMA EvolvesReflexive ==
    ASSUME NEW table
    PROVE  Evolves(table, table)
  BY DEF Evolves, SameLease, LeaseIds

\* A new lease, with an id that was not drawn before.
LEMMA GrantEvolves ==
    ASSUME NEW table, NEW lease, lease.consent_id \notin LeaseIds(table)
    PROVE  Evolves(table, table \cup {lease})
  <1>1. \A l \in table : SameLease(l, l)
    BY DEF SameLease
  <1>2. QED
    BY <1>1 DEF Evolves

\* revoke() and cleanup_expired() touch only leases nobody has revoked.
LEMMA MarkRevokedEvolves ==
    ASSUME NEW table \in SUBSET Leases, NEW which \in SUBSET table, NEW now,
           \A l \in which : l.revoked_at = Null
    PROVE  Evolves(table, MarkRevoked(table, which, now))
  <1> DEFINE new == MarkRevoked(table, which, now)
             Mark(l) == [l EXCEPT !.revoked_at = now]
  <1>1. ASSUME NEW l \in which PROVE SameLease(l, Mark(l))
    BY <1>1 DEF SameLease, Leases
  <1>2. \A l \in table : SameLease(l, l)
    BY DEF SameLease
  <1>3. new = (table \ which) \cup {Mark(l) : l \in which}
    BY DEF MarkRevoked
  <1>4. ASSUME NEW l \in table PROVE \E m \in new : SameLease(l, m)
    BY <1>1, <1>2, <1>3
  <1>5. ASSUME NEW m \in new PROVE \E l \in table : SameLease(l, m)
    BY <1>1, <1>2, <1>3
  <1>6. QED
    BY <1>4, <1>5 DEF Evolves

\* Ids stay unique.
LEMMA MarkRevokedKept ==
    ASSUME NEW table \in SUBSET Leases, NEW which \in SUBSET table, NEW now, WellKept(table)
    PROVE  WellKept(MarkRevoked(table, which, now))
  <1> DEFINE Mark(l) == [l EXCEPT !.revoked_at = now]
  <1>1. MarkRevoked(table, which, now) = (table \ which) \cup {Mark(l) : l \in which}
    BY DEF MarkRevoked
  <1>2. \A l \in which : Mark(l).consent_id = l.consent_id
    BY DEF Leases
  <1> HIDE DEF Mark
  <1>3. ASSUME NEW m \in MarkRevoked(table, which, now)
        PROVE  \E l \in table : /\ m.consent_id = l.consent_id
                               /\ m = IF l \in which THEN Mark(l) ELSE l
    BY <1>1, <1>2
  <1>4. ASSUME NEW l \in MarkRevoked(table, which, now), NEW m \in MarkRevoked(table, which, now),
               l.consent_id = m.consent_id
        PROVE  l = m
    BY <1>3, <1>4 DEF WellKept
  <1>5. QED
    BY <1>3, <1>4 DEF WellKept

\* A lease that admits a crawl's rows does so however it is revoked later.
LEMMA AdmitsStays ==
    ASSUME NEW l, NEW m, SameLease(l, m), NEW row, Admits(l, row)
    PROVE  Admits(m, row)
  BY DEF SameLease, Admits, IsPathCovered

\* What is over stays over in a later table.
LEMMA OverStaysOver ==
    ASSUME NEW l \in Leases, NEW m \in Leases, SameLease(l, m), NEW now, ~Active(l, now)
    PROVE  ~Active(m, now)
  BY DEF SameLease, Active

-----------------------------------------------------------------------------
(* Every step of an agent is a step of the audit log                       *)

\* What holds of a handler that is executing.
LEMMA TaskFacts ==
    ASSUME AgentInv, NEW p \in Proc
    PROVE  /\ task[p] \in Tasks /\ task[p].lease \in 1..issued \cup {Null}
           /\ LocalsOK(task[p])
           /\ Allowed(task[p]) /\ tx[p] # "stale" =>
                 Backed(p, task[p].lease, ScopeOf(task[p].tool), task[p].path)
           /\ issued \in Nat
  BY BoundsAssumption DEF AgentInv, AgentTypeOK, HandlerOK

\* The file in hand is below the path the crawl was checked for.
LEMMA FileInHand ==
    ASSUME AgentInv, NEW p \in Proc, NEW f \in Files, ToIndex(p, f)
    PROVE  /\ task[p].tool = "index" /\ Allowed(task[p]) /\ pc[p] = "idle"
           /\ task[p].path \in Scoped /\ f \in Under(task[p].path)
  <1>1. task[p].tool = "index" /\ Allowed(task[p]) /\ pc[p] = "idle"
    BY DEF ToIndex, At, Allowed
  <1>2. f # Null
    BY NullAssumption
  <1>3. QED
    BY <1>1, <1>2, TaskFacts DEF ToIndex, LocalsOK

\* The lease of a crawl that may write admits the rows it writes.
LEMMA FileRowAdmitted ==
    ASSUME AgentInv, NEW p \in Proc, NEW f \in Files, ToIndex(p, f), tx[p] # "stale"
    PROVE  /\ FileRow(p, f) \in FileRows
           /\ f \in Under(FileRow(p, f).root)
           /\ \E l \in db.rest.consent : Admits(l, FileRow(p, f))
  <1>1. /\ task[p].tool = "index" /\ task[p].path \in Scoped /\ f \in Under(task[p].path)
        /\ Backed(p, task[p].lease, "index", task[p].path)
    BY FileInHand, TaskFacts DEF ScopeOf
  <1>2. PICK l \in db.rest.consent : /\ l.consent_id = task[p].lease /\ l.scope = "index"
                                    /\ IsPathCovered(task[p].path, l) /\ l.consent_id \notin dead[p]
    BY <1>1 DEF Backed
  <1>3. l.consent_id \in 1..MaxGrants
    BY RestTyped, ConsentTyped, LeaseTyped DEF AgentInv
  <1>4. dead[p] \in SUBSET (1..MaxGrants)
    BY BoundsAssumption DEF AgentInv, AgentTypeOK
  <1>5. Level[f] \in Levels
    BY DEF Levels
  <1>6. FileRow(p, f) \in FileRows
    BY <1>1, <1>2, <1>3, <1>4, <1>5 DEF FileRow, FileRows
  <1>7. Admits(l, FileRow(p, f))
    BY <1>2 DEF Admits, FileRow
  <1>8. QED
    BY <1>1, <1>6, <1>7 DEF FileRow

\* What a crawl writes for a file.
LEMMA WithFileTyped ==
    ASSUME AgentInv, NEW p \in Proc, NEW f \in Files, ToIndex(p, f), tx[p] # "stale"
    PROVE  WithFile(p, f) \in Rest
  <1>1. Seen(p).rest \in Tables
    BY RestTyped DEF AgentInv
  <1>2. FileRow(p, f) \in FileRows
    BY FileRowAdmitted
  <1>3. QED
    BY <1>1, <1>2, RestAssumption DEF WithFile, Tables

\* What a command writes.
LEMMA ConsentWriteTyped ==
    ASSUME IInv, NEW consent \in SUBSET Leases
    PROVE  [db.rest EXCEPT !.consent = consent] \in Rest
  BY RestTyped, RestAssumption DEF Tables

LEMMA NewLeaseTyped ==
    ASSUME IInv, AgentTypeOK, issued < MaxGrants, NEW g \in Grants \cup {IndexLease(path) : path \in Crawled}
    PROVE  /\ Lease(issued + 1, g) \in Leases
           /\ db.rest.consent \cup {Lease(issued + 1, g)} \in SUBSET Leases
  <1>1. issued + 1 \in 1..MaxGrants /\ clock \in 0..MaxTime
    BY BoundsAssumption DEF AgentTypeOK
  <1>2. /\ g.pattern \in Scoped /\ g.scope \in Scopes /\ g.granularity \in Granularities
        /\ g.window \in Windows
    BY GrantsAssumption, PathAssumption, VocabularyAssumption DEF Windows, IndexLease
  <1>3. db.rest.consent \subseteq Leases
    BY RestTyped, ConsentTyped
  <1>4. QED
    BY <1>1, <1>2, <1>3, GrantTyped

LEMMA HandlerIsStep ==
    ASSUME AgentInv, NEW p \in Proc, Handler(p) \/ Crash(p)
    PROVE  Log(p) \/ Other(p) \/ UNCHANGED vars
  <1> USE DEF Log, Other
  <1>1. CASE StartUp(p) \/ Crash(p)
    BY <1>1 DEF StartUp, Crash
  <1>2. CASE SearchCheck(p) \/ Search(p) \/ IndexCheck(p) \/ VolumeGone(p) \/ CommitFile(p) \/ EndCrawl(p)
    BY <1>2 DEF SearchCheck, Search, IndexCheck, CheckConsent, VolumeGone, CommitFile, EndCrawl
  <1>3. ASSUME NEW f \in Files, LookUp(p, f) \/ ExtractFails(p, f) \/ IndexOne(p, f) \/ IndexOneRaises(p, f)
        PROVE  Log(p) \/ Other(p) \/ UNCHANGED vars
    <2>1. CASE LookUp(p, f) \/ ExtractFails(p, f) \/ WriteOtherRefused(p)
      BY <2>1 DEF LookUp, ExtractFails
    <2>2. CASE ToIndex(p, f) /\ (WriteOther(p, WithFile(p, f)) \/ WriteOtherRaises(p, WithFile(p, f)))
      <3>1. tx[p] # "stale"
        BY <2>2 DEF WriteOther, WriteOtherRaises, Write, MayWrite
      <3>2. QED
        BY <2>2, <3>1, WithFileTyped
    <2>3. QED
      BY <1>3, <2>1, <2>2 DEF IndexOne, IndexOneRaises
  <1>4. CASE ReadDisabled(p) \/ ReadResolve(p) \/ ReadCheck(p) \/ Extract(p)
    BY <1>4 DEF ReadDisabled, ReadResolve, ReadCheck, CheckConsent, Extract
  <1>5. CASE Summary(p) \/ GetConsent(p) \/ ListVolumes(p) \/ Classify(p)
    BY <1>5 DEF Summary, GetConsent, ListVolumes, Classify
  <1>6. CASE Logging(p) \/ Reply(p) \/ LogRaises(p)
    BY <1>6 DEF Logging, Reply, LogRaises
  <1>7. QED
    BY <1>1, <1>2, <1>3, <1>4, <1>5, <1>6 DEF Handler

LEMMA OperatorIsStep ==
    ASSUME IInv, AgentTypeOK, NEW o \in Operators, Operator(o)
    PROVE  Log(o) \/ Other(o)
  <1> USE DEF Other
  <1>1. ASSUME NEW consent \in SUBSET Leases, Command(o, consent)
        PROVE  Other(o)
    BY <1>1, ConsentWriteTyped DEF Command
  <1>2. db.rest.consent \in SUBSET Leases /\ clock \in 0..MaxTime
    BY RestTyped, ConsentTyped DEF AgentTypeOK
  <1>3. ASSUME NEW g \in Grants, Grant(o, g) PROVE Other(o)
    BY <1>1, <1>3, NewLeaseTyped DEF Grant
  <1>4. ASSUME NEW id, Revoke(o, id) PROVE Other(o)
    <2>1. ToRevoke(db.rest.consent, id) \in SUBSET db.rest.consent
      BY DEF ToRevoke
    <2>2. QED
      BY <1>1, <1>2, <1>4, <2>1, MarkRevokedTyped DEF Revoke
  <1>5. CASE Cleanup(o)
    <2>1. ToCleanUp(db.rest.consent, clock) \in SUBSET db.rest.consent
      BY DEF ToCleanUp
    <2>2. QED
      BY <1>1, <1>2, <1>5, <2>1, MarkRevokedTyped DEF Cleanup
  <1>6. CASE CommitCommand(o)
    BY <1>6 DEF CommitCommand
  <1>7. ASSUME NEW path \in Crawled, BeginIndex(o, path) PROVE Other(o)
    <2>1. db.rest.consent \cup {Lease(issued + 1, IndexLease(path))} \in SUBSET Leases
      BY <1>7, NewLeaseTyped DEF BeginIndex
    <2>2. [db.rest EXCEPT !.consent = @ \cup {Lease(issued + 1, IndexLease(path))}] \in Rest
      BY <2>1, ConsentWriteTyped
    <2>3. QED
      BY <1>7, <2>2 DEF BeginIndex
  <1>8. QED
    BY <1>3, <1>4, <1>5, <1>6, <1>7 DEF Operator

LEMMA AgentStepIsStep ==
    ASSUME AgentInv, [AgentNext]_agentVars
    PROVE  [Next]_vars
  <1> USE DEF AgentInv
  <1>1. ASSUME NEW p \in Proc, Log(p) \/ Other(p) \/ UNCHANGED vars
        PROVE  [Next]_vars
    BY <1>1 DEF Next
  <1>2. ASSUME NEW p \in Proc, Handler(p) \/ Crash(p) PROVE [Next]_vars
    BY <1>1, <1>2, HandlerIsStep
  <1>3. ASSUME NEW o \in Operators, Operator(o) PROVE [Next]_vars
    BY <1>1, <1>3, OperatorIsStep, ProcAssumption
  <1>4. ASSUME NEW p, NEW tool, NEW path, BeginCall(p, tool, path) PROVE [Next]_vars
    BY <1>4 DEF BeginCall
  <1>5. CASE Tick
    BY <1>5 DEF Tick
  <1>6. CASE UNCHANGED agentVars
    BY <1>6 DEF agentVars
  <1>7. QED
    BY <1>2, <1>3, <1>4, <1>5, <1>6 DEF AgentNext

-----------------------------------------------------------------------------
(* The tables through the engine's steps                                   *)

\* Snapshots that are new are of the last commit; what is to be committed is
\* what it was, or is well kept too.
LEMMA KeptSuffices ==
    ASSUME TablesKept, db' = db, issued \in Nat, issued' \in Nat, issued <= issued',
           \A q \in Proc :
              \/ tx'[q] \notin {"read", "stale", "write"}
              \/ view'[q] = db /\ tx'[q] # "write"
              \/ /\ view'[q] = view[q] /\ tx'[q] = tx[q]
                 /\ pc[q] = "written" /\ tx[q] = "write" => pc'[q] = "written"
              \/ /\ tx'[q] = "write"
                 /\ WellKept(view[q].rest.consent)'
                 /\ Evolves(db.rest.consent, view'[q].rest.consent)
                 /\ pc'[q] # "written" => view'[q].rest.consent = db.rest.consent
                 /\ Accounted(view'[q].rest)
    PROVE  TablesKept'
  <1>1. \A table : WellKept(table) => /\ \A l \in table : l.consent_id \in 1..issued'
                                     /\ \A l, m \in table : l.consent_id = m.consent_id => l = m
    BY DEF WellKept
  <1>2. WellKept(db.rest.consent)'
    BY <1>1 DEF TablesKept, WellKept
  <1>3. ASSUME NEW q \in Proc, tx'[q] \in {"read", "stale", "write"}
        PROVE  WellKept(view[q].rest.consent)'
    <2>1. CASE view'[q] = db
      BY <1>2, <2>1 DEF WellKept
    <2>2. CASE view'[q] = view[q] /\ tx'[q] = tx[q]
      BY <1>1, <1>3, <2>2 DEF TablesKept, WellKept
    <2>3. QED
      BY <1>3, <2>1, <2>2
  <1>4. ASSUME NEW q \in Proc, tx'[q] = "write"
        PROVE  /\ Evolves(db.rest.consent, view'[q].rest.consent)
               /\ pc'[q] # "written" => view'[q].rest.consent = db.rest.consent
               /\ Accounted(view'[q].rest)
    BY <1>4 DEF TablesKept
  <1>5. QED
    BY <1>2, <1>3, <1>4 DEF TablesKept, Evolves, SameLease, LeaseIds, Accounted

\* The writer's tables become everybody's.
LEMMA KeptByCommit ==
    ASSUME IInv, TablesKept, NEW p \in Proc, Commit(p), issued' = issued
    PROVE  TablesKept'
  <1>1. /\ db' = view[p] /\ tx[p] = "write" /\ tx'[p] = "none"
        /\ \A q \in Proc \ {p} : /\ view'[q] = view[q] /\ tx[q] # "write"
                                 /\ tx'[q] = IF tx[q] = "read" /\ db' # db THEN "stale" ELSE tx[q]
    BY CommitFacts DEF Commit
  <1>2. \A table : WellKept(table) => /\ \A l \in table : l.consent_id \in 1..issued'
                                     /\ \A l, m \in table : l.consent_id = m.consent_id => l = m
    BY DEF WellKept
  <1>3. WellKept(db.rest.consent)'
    BY <1>1, <1>2 DEF TablesKept, WellKept
  <1>4. ASSUME NEW q \in Proc, tx'[q] \in {"read", "stale", "write"}
        PROVE  tx'[q] # "write" /\ WellKept(view[q].rest.consent)'
    <2>1. q # p /\ tx[q] \in {"read", "stale"} /\ tx'[q] # "write"
      BY <1>1, <1>4
    <2>2. QED
      BY <1>1, <1>2, <2>1 DEF TablesKept, WellKept
  <1>5. QED
    BY <1>3, <1>4 DEF TablesKept

\* What a process between two writes sees is well kept, and is the last commit
\* but for the files it may have pending, unless its snapshot is stale.
LEMMA SeenKept ==
    ASSUME IInv, TablesKept, IndexedWasAllowed, NEW p \in Proc, pc[p] \notin {"inserted", "written"}
    PROVE  /\ WellKept(Seen(p).rest.consent)
           /\ tx[p] # "stale" => /\ Seen(p).rest.consent = db.rest.consent
                                 /\ Accounted(Seen(p).rest)
  <1>1. CASE tx[p] \in {"none", "begun"}
    BY <1>1 DEF Seen, TablesKept, IndexedWasAllowed
  <1>2. CASE tx[p] = "read"
    BY <1>2 DEF Seen, TablesKept, IndexedWasAllowed, IInv, SnapshotsArePast
  <1>3. CASE tx[p] = "stale"
    BY <1>3 DEF Seen, TablesKept
  <1>4. CASE tx[p] = "write"
    BY <1>4 DEF Seen, TablesKept
  <1>5. QED
    BY <1>1, <1>2, <1>3, <1>4 DEF IInv, TypeOK, TxStates

LEMMA KeptBySelect ==
    ASSUME IInv, TablesKept, issued \in Nat, issued' = issued, NEW p \in Proc, Select(p),
           \A q \in Proc : pc[q] = "written" => pc'[q] = "written"
    PROVE  TablesKept'
  <1>1. db' = db
    BY DEF Select
  <1>2. ASSUME NEW q \in Proc
        PROVE  \/ view'[q] = view[q] /\ tx'[q] = tx[q]
               \/ view'[q] = db /\ tx'[q] = "read"
    BY DEF IInv, TypeOK, Select
  <1>3. QED
    BY <1>1, <1>2, KeptSuffices

\* A write of p keeps the tables if what it writes follows from the last commit.
LEMMA KeptByWrite ==
    ASSUME IInv, TablesKept, issued \in Nat, issued' \in Nat, issued <= issued',
           NEW p \in Proc, NEW new, Write(p, new),
           \A q \in Proc \ {p} : pc[q] = "written" => pc'[q] = "written",
           \A l \in new.rest.consent : l.consent_id \in 1..issued',
           \A l, m \in new.rest.consent : l.consent_id = m.consent_id => l = m,
           Evolves(db.rest.consent, new.rest.consent), Accounted(new.rest),
           pc'[p] # "written" => new.rest.consent = db.rest.consent
    PROVE  TablesKept'
  <1>1. db' = db /\ tx'[p] = "write" /\ view'[p] = new
    BY DEF IInv, TypeOK, Write
  <1>2. \A q \in Proc \ {p} : view'[q] = view[q] /\ tx'[q] = tx[q]
    BY DEF IInv, TypeOK, Write
  <1>3. WellKept(view[p].rest.consent)'
    BY <1>1 DEF WellKept
  <1>4. QED
    BY <1>1, <1>2, <1>3, KeptSuffices

\* A write of what p sees already: an INSERT into the audit table.
LEMMA KeptByInsert ==
    ASSUME IInv, TablesKept, IndexedWasAllowed, issued \in Nat, issued' = issued,
           NEW p \in Proc, NEW audit, pc[p] \notin {"inserted", "written"},
           Write(p, [audit |-> audit, rest |-> Seen(p).rest]),
           \A q \in Proc \ {p} : pc[q] = "written" => pc'[q] = "written"
    PROVE  TablesKept'
  <1>1. tx[p] # "stale"
    BY DEF Write, MayWrite
  <1>2. /\ WellKept(Seen(p).rest.consent) /\ Seen(p).rest.consent = db.rest.consent
        /\ Accounted(Seen(p).rest)
    BY <1>1, SeenKept
  <1>3. Evolves(db.rest.consent, Seen(p).rest.consent)
    BY <1>2, EvolvesReflexive
  <1>4. QED
    BY <1>2, <1>3, KeptByWrite DEF WellKept

\* All steps of a process but those that write the tables themselves.
LEMMA KeptByLog ==
    ASSUME IInv, TablesKept, IndexedWasAllowed, issued \in Nat, issued' = issued, NEW p \in Proc,
           \/ Log(p) \/ Verify(p) \/ ReadOther(p) \/ WriteOtherRefused(p) \/ CommitOther(p) \/ Restart(p)
    PROVE  TablesKept'
  <1>1. CASE ReadLastHash(p) \/ ReadNextSequence(p)
    <2>1. Select(p) /\ \A q \in Proc : pc[q] = "written" => pc'[q] = "written"
      BY <1>1 DEF IInv, TypeOK, ReadLastHash, ReadNextSequence, Goto
    <2>2. QED
      BY <2>1, KeptBySelect
  <1>2. CASE Insert(p)
    <2>1. pc[p] = "prepared" /\ \A q \in Proc \ {p} : pc[q] = "written" => pc'[q] = "written"
      BY <1>2 DEF IInv, TypeOK, Insert, Goto
    <2>2. QED
      BY <1>2, <2>1, KeptByInsert DEF Insert
  <1>3. CASE InsertDuplicate(p)
    <2>1. pc[p] = "prepared" /\ \A q \in Proc \ {p} : pc[q] = "written" => pc'[q] = "written"
      BY <1>3 DEF IInv, TypeOK, InsertDuplicate, Goto
    <2>2. Seen(p) \in Database
      BY <2>1, SeenFacts
    <2>3. Seen(p) = [audit |-> Seen(p).audit, rest |-> Seen(p).rest]
      BY <2>2 DEF Database
    <2>4. QED
      BY <1>3, <2>1, <2>3, KeptByInsert DEF InsertDuplicate
  <1>4. CASE InsertRefused(p) \/ WriteOtherRefused(p)
    <2>1. /\ db' = db /\ \A q \in Proc : /\ view'[q] = view[q]
                                         /\ tx'[q] = tx[q] \/ tx'[q] = "begun"
                                         /\ pc[q] = "written" => pc'[q] = "written"
      BY <1>4 DEF IInv, TypeOK, InsertRefused, WriteOtherRefused, Refused, Goto
    <2>2. QED
      BY <2>1, KeptSuffices
  <1>5. CASE CommitRow(p) \/ CommitOther(p)
    BY <1>5, KeptByCommit DEF CommitRow, CommitOther
  <1>6. CASE ReturnEntry(p)
    <2>1. /\ db' = db /\ \A q \in Proc : /\ view'[q] = view[q] /\ tx'[q] = tx[q]
                                         /\ pc[q] = "written" => pc'[q] = "written"
      BY <1>6 DEF IInv, TypeOK, ReturnEntry, Goto
    <2>2. QED
      BY <2>1, KeptSuffices
  <1>7. CASE Verify(p) \/ ReadOther(p)
    BY <1>7, KeptBySelect DEF Verify, ReadOther
  <1>8. CASE Restart(p)
    <2>1. /\ db' = db /\ tx'[p] = "none"
          /\ \A q \in Proc \ {p} : /\ view'[q] = view[q] /\ tx'[q] = tx[q]
                                   /\ pc[q] = "written" => pc'[q] = "written"
      BY <1>8 DEF IInv, TypeOK, Restart, Close
    <2>2. QED
      BY <2>1, KeptSuffices
  <1>9. QED
    BY <1>1, <1>2, <1>3, <1>4, <1>5, <1>6, <1>7, <1>8 DEF Log

-----------------------------------------------------------------------------
(* What a step leaves behind, whoever takes it                             *)

\* The database only ever becomes what a writer has pending.
LEMMA DbMoves ==
    ASSUME [Next]_vars
    PROVE  db' = db \/ (\E p \in Proc : tx[p] = "write" /\ db' = view[p])
  <1>1. ASSUME NEW p \in Proc, CommitRow(p) \/ CommitOther(p)
        PROVE  tx[p] = "write" /\ db' = view[p]
    BY <1>1 DEF CommitRow, CommitOther, Commit
  <1>2. ASSUME NEW p \in Proc, ReadLastHash(p) \/ ReadNextSequence(p) \/ Verify(p) \/ ReadOther(p)
        PROVE  db' = db
    BY <1>2 DEF ReadLastHash, ReadNextSequence, Verify, ReadOther, Select
  <1>3. ASSUME NEW p \in Proc, Insert(p) \/ InsertDuplicate(p) \/ InsertRefused(p) \/ ReturnEntry(p)
        PROVE  db' = db
    BY <1>3 DEF Insert, InsertDuplicate, InsertRefused, ReturnEntry, Write, Refused
  <1>4. ASSUME NEW p \in Proc, NEW r, WriteOther(p, r) \/ WriteOtherRaises(p, r)
        PROVE  db' = db
    BY <1>4 DEF WriteOther, WriteOtherRaises, Write
  <1>5. ASSUME NEW p \in Proc, WriteOtherRefused(p) \/ Restart(p)
        PROVE  db' = db
    BY <1>5 DEF WriteOtherRefused, Restart, Refused, Close
  <1>6. ASSUME NEW p \in Proc, Log(p) \/ Other(p)
        PROVE  db' = db \/ (tx[p] = "write" /\ db' = view[p])
    <2>1. CASE Log(p)
      BY <1>1, <1>2, <1>3, <2>1 DEF Log
    <2>2. CASE Other(p)
      BY <1>1, <1>2, <1>4, <1>5, <2>2 DEF Other
    <2>3. QED
      BY <1>6, <2>1, <2>2
  <1>7. QED
    BY <1>6 DEF Next, vars

\* Committed leases evolve, and committed index entries stay accounted for.
LEMMA TablesMove ==
    ASSUME TablesKept, IndexedWasAllowed, [Next]_vars
    PROVE  Evolves(db.rest.consent, db'.rest.consent) /\ Accounted(db'.rest)
  <1>1. CASE db' = db
    BY <1>1, EvolvesReflexive DEF IndexedWasAllowed
  <1>2. ASSUME NEW p \in Proc, tx[p] = "write", db' = view[p]
        PROVE  Evolves(db.rest.consent, db'.rest.consent) /\ Accounted(db'.rest)
    BY <1>2 DEF TablesKept
  <1>3. QED
    BY <1>1, <1>2, DbMoves

\* A lease that backs a call or an answer goes on to back it: what matters is
\* that it was not over when the call began.
LEMMA BackedStays ==
    ASSUME Evolves(db.rest.consent, db'.rest.consent), NEW q \in Proc, dead'[q] = dead[q],
           NEW id, NEW scope, NEW path, Backed(q, id, scope, path)
    PROVE  Backed(q, id, scope, path)'
  <1>1. PICK l \in db.rest.consent :
            /\ l.consent_id = id /\ l.scope = scope /\ IsPathCovered(path, l)
            /\ l.consent_id \notin dead[q]
    BY DEF Backed
  <1>2. PICK m \in db'.rest.consent : SameLease(l, m)
    BY DEF Evolves
  <1>3. /\ m.consent_id = id /\ m.scope = scope /\ IsPathCovered(path, m)
        /\ m.consent_id \notin dead'[q]
    BY <1>1, <1>2 DEF SameLease, IsPathCovered
  <1>4. QED
    BY <1>2, <1>3 DEF Backed

\* A lease that was over stays over, later and in a later table.
LEMMA DeadStay ==
    ASSUME IInv, IInv', DeadStayDead, TablesKept, TablesKept',
           Evolves(db.rest.consent, db'.rest.consent),
           clock \in 0..MaxTime, clock' \in 0..MaxTime, clock <= clock', NEW q \in Proc,
           \/ dead'[q] = dead[q]
           \/ dead'[q] = Over /\ db' = db /\ clock' = clock
    PROVE  /\ dead'[q] \subseteq LeaseIds(db'.rest.consent)
           /\ \A m \in db'.rest.consent : m.consent_id \in dead'[q] => ~Active(m, clock')
  <1>1. CASE dead'[q] = dead[q]
    <2>1. dead'[q] \subseteq LeaseIds(db'.rest.consent)
      <3>1. LeaseIds(db.rest.consent) \subseteq LeaseIds(db'.rest.consent)
        BY DEF Evolves, SameLease, LeaseIds
      <3>2. QED
        BY <1>1, <3>1 DEF DeadStayDead
    <2>2. ASSUME NEW m \in db'.rest.consent, m.consent_id \in dead'[q]
          PROVE  ~Active(m, clock')
      <3>1. PICK l \in db.rest.consent : SameLease(l, m)
        BY <1>1, <2>2 DEF DeadStayDead, Evolves
      <3>2. ~Active(l, clock)
        BY <1>1, <2>2, <3>1 DEF DeadStayDead, SameLease
      <3>3. l \in Leases /\ m \in Leases
        <4>1. db.rest \in Tables /\ db'.rest \in Tables
          BY RestAssumption DEF IInv, TypeOK, Database
        <4>2. QED
          BY <4>1, ConsentTyped
      <3>4. ~Active(m, clock)
        BY <3>1, <3>2, <3>3, OverStaysOver
      <3>5. m.expires_at \in Int \cup {Null}
        BY <3>3, LeaseTyped
      <3>6. QED
        BY <3>4, <3>5, BoundsAssumption DEF Active
    <2>3. QED
      BY <2>1, <2>2
  <1>2. CASE dead'[q] = Over /\ db' = db /\ clock' = clock
    <2>1. dead'[q] \subseteq LeaseIds(db'.rest.consent)
      BY <1>2 DEF Over, LeaseIds
    <2>2. ASSUME NEW m \in db'.rest.consent, m.consent_id \in dead'[q]
          PROVE  ~Active(m, clock')
      <3>1. PICK l \in db.rest.consent : ~Active(l, clock) /\ l.consent_id = m.consent_id
        BY <1>2, <2>2 DEF Over
      <3>2. l = m
        BY <1>2, <3>1 DEF TablesKept, WellKept
      <3>3. QED
        BY <1>2, <3>1, <3>2
    <2>3. QED
      BY <2>1, <2>2
  <1>3. QED
    BY <1>1, <1>2

\* A handler that is where it was, on a connection that was not made fresh, is
\* still in order.
LEMMA HandlerStays ==
    ASSUME Evolves(db.rest.consent, db'.rest.consent), NEW q \in Proc, HandlerOK(q),
           task'[q] = task[q], dead'[q] = dead[q],
           pc'[q] = "committed" => tx'[q] = "none",
           tx[q] = "stale" => tx'[q] = "stale"
    PROVE  HandlerOK(q)'
  <1>1. PICK t : t = task[q]
    OBVIOUS
  <1>2. Allowed(t) /\ tx'[q] # "stale" => Backed(q, t.lease, ScopeOf(t.tool), t.path)
    BY <1>1 DEF HandlerOK
  <1>3. Allowed(t) /\ tx'[q] # "stale" => Backed(q, t.lease, ScopeOf(t.tool), t.path)'
    BY <1>2, BackedStays
  <1>4. LocalsOK(t)
    BY <1>1 DEF HandlerOK
  <1>5. QED
    BY <1>1, <1>3, <1>4 DEF HandlerOK, LocalsOK, Allowed, Backed

-----------------------------------------------------------------------------
(* A step of p that keeps p's own part keeps the invariant                 *)

LEMMA StepSuffices ==
    ASSUME AgentInv, IInv', TablesKept', NEW p \in Proc, Log(p) \/ Other(p) \/ UNCHANGED vars,
           clock' = clock, issued' \in 0..MaxGrants, issued <= issued',
           task' \in [Proc -> Tasks], task'[p].lease \in 1..issued' \cup {Null},
           answer' \in [Proc -> Answers], dead' \in [Proc -> SUBSET (1..issued')],
           \A q \in Proc \ {p} : /\ task'[q] = task[q] /\ answer'[q] = answer[q]
                                 /\ dead'[q] = dead[q],
           dead'[p] = dead[p] \/ (dead'[p] = Over /\ db' = db),
           HandlerOK(p)',
           (\/ answer'[p].kind = "data"
            \/ answer'[p].kind = "refusal" /\ answer'[p].tool # "summary")
               => answer'[p].entry \in Ids(db'.audit),
           (/\ answer'[p].kind = "data"
            /\ \/ answer'[p].tool \in {"search", "index", "read"} /\ answer'[p].path # Null
               \/ answer'[p].tool = "get_consent" /\ answer'[p].lease # Null)
               => Backed(p, answer[p].lease, ScopeOf(answer[p].tool), answer[p].path)'
    PROVE  AgentInv'
  <1>1. IInv /\ AgentTypeOK /\ TablesKept /\ DeadStayDead /\ IndexedWasAllowed
    BY DEF AgentInv
  <1>2. [Next]_vars
    BY DEF Next
  <1>3. Evolves(db.rest.consent, db'.rest.consent) /\ Accounted(db'.rest)
    BY <1>1, <1>2, TablesMove
  <1>4. Ids(db.audit) \subseteq Ids(db'.audit)
    BY <1>1, <1>2, TableGrows
  <1>5. issued \in Nat /\ issued' \in Nat
    BY <1>1, BoundsAssumption DEF AgentTypeOK
  <1>6. AgentTypeOK'
    <2>1. TypeOK'
      BY DEF IInv
    <2>2. ASSUME NEW q \in Proc PROVE task'[q].lease \in 1..issued' \cup {Null}
      BY <1>1, <1>5 DEF AgentTypeOK
    <2>3. clock' \in 0..MaxTime
      BY <1>1 DEF AgentTypeOK
    <2>4. QED
      BY <2>1, <2>2, <2>3 DEF AgentTypeOK
  <1>7. DeadStayDead'
    <2>1. ASSUME NEW q \in Proc
          PROVE  /\ dead'[q] \subseteq LeaseIds(db'.rest.consent)
                 /\ \A m \in db'.rest.consent : m.consent_id \in dead'[q] => ~Active(m, clock')
      <3>1. clock \in 0..MaxTime /\ clock' \in 0..MaxTime /\ clock <= clock'
        BY <1>1, BoundsAssumption DEF AgentTypeOK
      <3>2. \/ dead'[q] = dead[q]
            \/ dead'[q] = Over /\ db' = db /\ clock' = clock
        OBVIOUS
      <3>3. QED
        BY <1>1, <1>3, <3>1, <3>2, DeadStay
    <2>2. QED
      BY <2>1 DEF DeadStayDead, LeaseIds, Active
  <1>8. ASSUME NEW q \in Proc \ {p}
        PROVE  HandlerOK(q)'
    <2>1. /\ pc'[q] = pc[q]
          /\ tx[q] = "none" => tx'[q] = "none"
          /\ tx[q] = "stale" => tx'[q] = "stale"
      BY <1>1, OthersStay DEF vars
    <2>2. HandlerOK(q)
      BY DEF AgentInv
    <2>3. pc'[q] = "committed" => tx'[q] = "none"
      BY <2>1, <2>2 DEF HandlerOK
    <2>4. QED
      BY <1>3, <2>1, <2>2, <2>3, HandlerStays
  <1>9. AnswersAudited'
    <2>1. ASSUME NEW q \in Proc \ {p},
                 \/ answer'[q].kind = "data"
                 \/ answer'[q].kind = "refusal" /\ answer'[q].tool # "summary"
          PROVE  answer'[q].entry \in Ids(db'.audit)
      BY <1>4, <2>1 DEF AgentInv, AnswersAudited
    <2>2. QED
      BY <2>1 DEF AnswersAudited, Ids
  <1>10. ServedUnderLiveLease'
    <2>1. ASSUME NEW q \in Proc \ {p}, answer'[q].kind = "data",
                 \/ answer'[q].tool \in {"search", "index", "read"} /\ answer'[q].path # Null
                 \/ answer'[q].tool = "get_consent" /\ answer'[q].lease # Null
          PROVE  Backed(q, answer[q].lease, ScopeOf(answer[q].tool), answer[q].path)'
      <3>1. PICK given : given = answer[q]
        OBVIOUS
      <3>2. Backed(q, given.lease, ScopeOf(given.tool), given.path)
        BY <2>1, <3>1 DEF AgentInv, ServedUnderLiveLease
      <3>3. Backed(q, given.lease, ScopeOf(given.tool), given.path)'
        BY <1>3, <3>2, BackedStays
      <3>4. QED
        BY <3>1, <3>3 DEF Backed
    <2>2. QED
      BY <2>1 DEF ServedUnderLiveLease
  <1>11. IndexedWasAllowed'
    BY <1>3 DEF IndexedWasAllowed, Accounted
  <1>12. QED
    BY <1>6, <1>7, <1>8, <1>9, <1>10, <1>11 DEF AgentInv

\* A handler goes on.
LEMMA ContinueSuffices ==
    ASSUME AgentInv, IInv', TablesKept', NEW p \in Proc, Log(p) \/ Other(p) \/ UNCHANGED vars,
           NEW new \in Tasks, new.lease \in 1..issued \cup {Null}, Continue(p, new),
           LocalsOK(new), pc'[p] # "committed",
           Allowed(new) /\ tx'[p] # "stale" =>
              Backed(p, new.lease, ScopeOf(new.tool), new.path)
    PROVE  AgentInv'
  <1>1. AgentTypeOK /\ TablesKept /\ IndexedWasAllowed
    BY DEF AgentInv
  <1>2. /\ task' \in [Proc -> Tasks] /\ answer' \in [Proc -> Answers]
        /\ task'[p] = new /\ \A q \in Proc \ {p} : task'[q] = task[q]
        /\ answer' = answer /\ dead' = dead /\ clock' = clock /\ issued' = issued
    BY <1>1 DEF Continue, AgentTypeOK
  <1>3. [Next]_vars
    BY DEF Next
  <1>4. Evolves(db.rest.consent, db'.rest.consent)
    BY <1>1, <1>3, TablesMove
  <1>5. HandlerOK(p)'
    <2>1. Allowed(new) /\ tx'[p] # "stale" =>
             Backed(p, new.lease, ScopeOf(new.tool), new.path)'
      BY <1>2, <1>4, BackedStays
    <2>2. QED
      BY <1>2, <2>1 DEF HandlerOK, LocalsOK, Allowed, Backed
  <1>6. (\/ answer'[p].kind = "data"
         \/ answer'[p].kind = "refusal" /\ answer'[p].tool # "summary")
            => answer'[p].entry \in Ids(db'.audit)
    BY <1>2, <1>3, TableGrows DEF AgentInv, AnswersAudited
  <1>7. (/\ answer'[p].kind = "data"
         /\ \/ answer'[p].tool \in {"search", "index", "read"} /\ answer'[p].path # Null
            \/ answer'[p].tool = "get_consent" /\ answer'[p].lease # Null)
            => Backed(p, answer[p].lease, ScopeOf(answer[p].tool), answer[p].path)'
    <2>1. PICK given : given = answer[p]
      OBVIOUS
    <2>2. (/\ given.kind = "data"
           /\ \/ given.tool \in {"search", "index", "read"} /\ given.path # Null
              \/ given.tool = "get_consent" /\ given.lease # Null)
              => Backed(p, given.lease, ScopeOf(given.tool), given.path)
      BY <2>1 DEF AgentInv, ServedUnderLiveLease
    <2>3. Backed(p, given.lease, ScopeOf(given.tool), given.path)
             => Backed(p, given.lease, ScopeOf(given.tool), given.path)'
      BY <1>2, <1>4, BackedStays
    <2>4. QED
      BY <1>2, <2>1, <2>2, <2>3 DEF Backed
  <1>8. issued \in 0..MaxGrants /\ issued <= issued' /\ dead' \in [Proc -> SUBSET (1..issued')]
    BY <1>1, <1>2, BoundsAssumption DEF AgentTypeOK
  <1>9. QED
    BY <1>2, <1>5, <1>6, <1>7, <1>8, StepSuffices

\* A handler is left.
LEMMA FinishSuffices ==
    ASSUME AgentInv, IInv', TablesKept', NEW p \in Proc, Log(p) \/ Other(p) \/ UNCHANGED vars,
           NEW kind \in {"data", "refusal", "error"}, NEW entry \in EntryId \cup {Null},
           Finish(p, kind, entry), pc'[p] # "committed",
           (kind = "data" \/ (kind = "refusal" /\ task[p].tool # "summary"))
              => entry \in Ids(db.audit),
           (/\ kind = "data"
            /\ \/ task[p].tool \in {"search", "index", "read"} /\ task[p].path # Null
               \/ task[p].tool = "get_consent" /\ task[p].lease # Null)
              => Backed(p, task[p].lease, ScopeOf(task[p].tool), task[p].path)
    PROVE  AgentInv'
  <1>1. AgentTypeOK /\ TablesKept /\ IndexedWasAllowed
    BY DEF AgentInv
  <1>2. PICK given \in Answers :
            /\ given.kind = kind /\ given.entry = entry /\ given.tool = task[p].tool
            /\ given.path = task[p].path /\ given.lease = task[p].lease
            /\ given = Outcome(p, kind, entry)
    <2>1. task[p] \in Tasks
      BY <1>1 DEF AgentTypeOK
    <2>2. Outcome(p, kind, entry) \in Answers
      BY <2>1 DEF Outcome, Answers, Tasks
    <2>3. QED
      BY <2>2 DEF Outcome
  <1>3. Idle \in Tasks /\ Idle.lease = Null /\ ~Allowed(Idle) /\ LocalsOK(Idle)
    BY DEF Idle, Tasks, Points, Allowed, LocalsOK
  <1>4. /\ task' \in [Proc -> Tasks] /\ answer' \in [Proc -> Answers]
        /\ task'[p] = Idle /\ answer'[p] = given
        /\ \A q \in Proc \ {p} : task'[q] = task[q] /\ answer'[q] = answer[q]
        /\ dead' = dead /\ clock' = clock /\ issued' = issued
    BY <1>1, <1>2, <1>3 DEF Finish, AgentTypeOK
  <1>5. [Next]_vars
    BY DEF Next
  <1>6. Evolves(db.rest.consent, db'.rest.consent)
    BY <1>1, <1>5, TablesMove
  <1>7. HandlerOK(p)'
    <2>1. PICK t : t = task'[p] /\ ~Allowed(t) /\ LocalsOK(t)
      BY <1>3, <1>4
    <2>2. QED
      BY <2>1 DEF HandlerOK, LocalsOK, Allowed
  <1>8. (\/ given.kind = "data"
         \/ given.kind = "refusal" /\ given.tool # "summary")
            => given.entry \in Ids(db'.audit)
    BY <1>2, <1>5, TableGrows DEF AgentInv
  <1>9. (/\ given.kind = "data"
         /\ \/ given.tool \in {"search", "index", "read"} /\ given.path # Null
            \/ given.tool = "get_consent" /\ given.lease # Null)
            => Backed(p, given.lease, ScopeOf(given.tool), given.path)'
    BY <1>2, <1>4, <1>6, BackedStays
  <1>10. (/\ answer'[p].kind = "data"
          /\ \/ answer'[p].tool \in {"search", "index", "read"} /\ answer'[p].path # Null
             \/ answer'[p].tool = "get_consent" /\ answer'[p].lease # Null)
            => Backed(p, answer[p].lease, ScopeOf(answer[p].tool), answer[p].path)'
    BY <1>4, <1>9 DEF Backed
  <1>11. issued \in 0..MaxGrants /\ issued <= issued' /\ dead' \in [Proc -> SUBSET (1..issued')]
    BY <1>1, <1>4, BoundsAssumption DEF AgentTypeOK
  <1>12. QED
    BY <1>3, <1>4, <1>7, <1>8, <1>10, <1>11, StepSuffices

-----------------------------------------------------------------------------
(* The steps of a handler                                                  *)

\* A step in memory.
LEMMA QuietStep ==
    ASSUME AgentInv, UNCHANGED vars, issued' = issued
    PROVE  TablesKept'
  BY DEF AgentInv, vars, TablesKept, WellKept, Evolves, SameLease, LeaseIds, Accounted

\* A SELECT.
LEMMA SelectStep ==
    ASSUME AgentInv, NEW p \in Proc, ReadOther(p), issued' = issued
    PROVE  /\ TablesKept' /\ pc[p] = "idle" /\ pc'[p] # "committed"
           /\ tx'[p] # "stale" => tx[p] # "stale"
           /\ Log(p) \/ Other(p)
  <1>1. TablesKept'
    BY TaskFacts, KeptByLog DEF AgentInv
  <1>2. pc[p] = "idle" /\ pc'[p] # "committed"
    BY DEF ReadOther
  <1>3. tx'[p] # "stale" => tx[p] # "stale"
    BY DEF ReadOther, Select, AgentInv, IInv, TypeOK
  <1>4. QED
    BY <1>1, <1>2, <1>3 DEF Other

\* What check() finds in a snapshot that is not stale backs the call.
LEMMA CheckBacks ==
    ASSUME AgentInv, NEW p \in Proc, pc[p] = "idle", NEW path, NEW scope,
           NEW l \in Check(Consents(p), path, scope, clock)
    PROVE  /\ l.consent_id \in 1..issued
           /\ tx[p] # "stale" => Backed(p, l.consent_id, scope, path)
  <1>1. /\ l \in Consents(p) /\ Active(l, clock) /\ l.scope = scope /\ IsPathCovered(path, l)
    BY DEF Check, Covering, ListActive
  <1>2. /\ WellKept(Seen(p).rest.consent)
        /\ tx[p] # "stale" => Seen(p).rest.consent = db.rest.consent
    BY SeenKept DEF AgentInv
  <1>3. l.consent_id \in 1..issued
    BY <1>1, <1>2 DEF WellKept, Consents
  <1>4. ASSUME tx[p] # "stale" PROVE Backed(p, l.consent_id, scope, path)
    <2>1. l \in db.rest.consent
      BY <1>1, <1>2, <1>4 DEF Consents
    <2>2. l.consent_id \notin dead[p]
      BY <1>1, <2>1 DEF AgentInv, DeadStayDead
    <2>3. QED
      BY <1>1, <2>1, <2>2 DEF Backed
  <1>5. QED
    BY <1>3, <1>4

\* A handler goes on to log.
LEMMA GoLogSuffices ==
    ASSUME AgentInv, IInv', TablesKept', NEW p \in Proc, Log(p) \/ Other(p) \/ UNCHANGED vars,
           NEW verdict \in {"data", "refusal"}, NEW lease \in 1..issued \cup {Null},
           GoLog(p, verdict, lease), pc'[p] # "committed",
           (/\ verdict = "data" /\ tx'[p] # "stale"
            /\ \/ task[p].tool \in {"search", "index", "read"} /\ task[p].path # Null
               \/ task[p].tool = "get_consent" /\ lease # Null)
              => Backed(p, lease, ScopeOf(task[p].tool), task[p].path)
    PROVE  AgentInv'
  <1> DEFINE t == task[p]
  <1>1. t \in Tasks /\ LocalsOK(t) /\ issued \in Nat /\ issued <= MaxGrants
    BY TaskFacts, BoundsAssumption DEF AgentInv, AgentTypeOK
  <1>2. PICK new \in Tasks :
            /\ new = [t EXCEPT !.at = "log", !.verdict = verdict, !.lease = lease]
            /\ new.at = "log" /\ new.verdict = verdict /\ new.lease = lease
            /\ new.tool = t.tool /\ new.path = t.path /\ new.todo = t.todo /\ new.file = t.file
    <2>1. lease \in 1..MaxGrants \cup {Null}
      BY <1>1, BoundsAssumption
    <2>2. [t EXCEPT !.at = "log", !.verdict = verdict, !.lease = lease] \in Tasks
      BY <1>1, <2>1 DEF Tasks, Points
    <2>3. QED
      BY <1>1, <2>2 DEF Tasks
  <1>3. LocalsOK(new)
    BY <1>1, <1>2 DEF LocalsOK
  <1>4. Continue(p, new)
    BY <1>2 DEF GoLog
  <1>5. Allowed(new) /\ tx'[p] # "stale" => Backed(p, new.lease, ScopeOf(new.tool), new.path)
    BY <1>2 DEF Allowed
  <1>6. QED
    BY <1>2, <1>3, <1>4, <1>5, ContinueSuffices

\* A handler goes on to another point, with a lease.
LEMMA MoveSuffices ==
    ASSUME AgentInv, IInv', TablesKept', NEW p \in Proc, Log(p) \/ Other(p) \/ UNCHANGED vars,
           NEW point \in Points \ {"log"}, NEW lease \in 1..issued \cup {Null},
           Continue(p, [task[p] EXCEPT !.at = point, !.lease = lease]), pc'[p] # "committed",
           point \in {"searching", "crawling", "found", "extracting"} /\ tx'[p] # "stale" =>
              Backed(p, lease, ScopeOf(task[p].tool), task[p].path)
    PROVE  AgentInv'
  <1> DEFINE t == task[p]
  <1>1. t \in Tasks /\ LocalsOK(t) /\ issued \in Nat /\ issued <= MaxGrants
    BY TaskFacts, BoundsAssumption DEF AgentInv, AgentTypeOK
  <1>2. PICK new \in Tasks :
            /\ new = [t EXCEPT !.at = point, !.lease = lease]
            /\ new.at = point /\ new.lease = lease
            /\ new.tool = t.tool /\ new.path = t.path /\ new.todo = t.todo /\ new.file = t.file
    <2>1. lease \in 1..MaxGrants \cup {Null}
      BY <1>1, BoundsAssumption
    <2>2. [t EXCEPT !.at = point, !.lease = lease] \in Tasks
      BY <1>1, <2>1 DEF Tasks, Points
    <2>3. QED
      BY <1>1, <2>2 DEF Tasks
  <1>3. LocalsOK(new)
    BY <1>1, <1>2 DEF LocalsOK
  <1>4. Continue(p, new)
    BY <1>2
  <1>5. Allowed(new) /\ tx'[p] # "stale" => Backed(p, new.lease, ScopeOf(new.tool), new.path)
    BY <1>2 DEF Allowed
  <1>6. QED
    BY <1>2, <1>3, <1>4, <1>5, ContinueSuffices

LEMMA CheckConsentStep ==
    ASSUME AgentInv, IInv', NEW p \in Proc, task[p].tool \in {"search", "index", "read"},
           NEW granted \in {"searching", "crawling", "extracting"}, CheckConsent(p, granted)
    PROVE  AgentInv'
  <1>1. ReadOther(p) /\ issued' = issued
    BY DEF CheckConsent, Continue, GoLog
  <1>2. /\ TablesKept' /\ pc[p] = "idle" /\ pc'[p] # "committed"
        /\ tx'[p] # "stale" => tx[p] # "stale"
        /\ Log(p) \/ Other(p)
    BY <1>1, SelectStep
  <1>3. ScopeOf(task[p].tool) = task[p].tool
    BY DEF ScopeOf
  <1>4. ASSUME NEW l \in Check(Consents(p), task[p].path, task[p].tool, clock),
               Continue(p, [task[p] EXCEPT !.at = granted, !.lease = l.consent_id])
        PROVE  AgentInv'
    <2>1. /\ l.consent_id \in 1..issued
          /\ tx[p] # "stale" => Backed(p, l.consent_id, task[p].tool, task[p].path)
      BY <1>2, CheckBacks
    <2>2. granted \in Points \ {"log"}
      BY DEF Points
    <2>3. QED
      BY <1>2, <1>3, <1>4, <2>1, <2>2, MoveSuffices
  <1>5. ASSUME GoLog(p, "refusal", Null) PROVE AgentInv'
    BY <1>2, <1>5, GoLogSuffices
  <1>6. QED
    BY <1>4, <1>5 DEF CheckConsent

\* handle_search, handle_read_excerpt, handle_index_volume up to what they do
\* under their lease.
LEMMA ChecksStep ==
    ASSUME AgentInv, IInv', NEW p \in Proc, SearchCheck(p) \/ IndexCheck(p) \/ ReadCheck(p)
    PROVE  AgentInv'
  <1>1. CASE SearchCheck(p)
    BY <1>1, CheckConsentStep DEF SearchCheck, At
  <1>2. CASE IndexCheck(p)
    BY <1>2, CheckConsentStep DEF IndexCheck, At
  <1>3. CASE ReadCheck(p)
    BY <1>3, CheckConsentStep DEF ReadCheck, At
  <1>4. QED
    BY <1>1, <1>2, <1>3

LEMMA SearchStep ==
    ASSUME AgentInv, IInv', NEW p \in Proc, Search(p)
    PROVE  AgentInv'
  <1>1. ReadOther(p) /\ issued' = issued /\ task[p].tool = "search" /\ GoLog(p, "data", task[p].lease)
    BY DEF Search, At, GoLog, Continue
  <1>2. /\ TablesKept' /\ pc'[p] # "committed"
        /\ tx'[p] # "stale" => tx[p] # "stale"
        /\ Log(p) \/ Other(p)
    BY <1>1, SelectStep
  <1>3. task[p].path # Null /\ tx'[p] # "stale" =>
           Backed(p, task[p].lease, ScopeOf(task[p].tool), task[p].path)
    BY <1>2, TaskFacts DEF Search, At, Allowed
  <1>4. task[p].lease \in 1..issued \cup {Null}
    BY TaskFacts
  <1>5. QED
    BY <1>1, <1>2, <1>3, <1>4, GoLogSuffices

\* What happens in memory only.
LEMMA ExtractStep ==
    ASSUME AgentInv, IInv', NEW p \in Proc, Extract(p)
    PROVE  AgentInv'
  <1>1. /\ task[p].tool = "read" /\ pc[p] = "idle" /\ UNCHANGED vars /\ issued' = issued
        /\ task[p].at = "extracting"
    BY DEF Extract, At, GoLog, Continue, Finish
  <1>2. TablesKept' /\ pc'[p] # "committed" /\ tx'[p] = tx[p]
    BY <1>1, QuietStep DEF vars
  <1>3. task[p].lease \in 1..issued \cup {Null}
    BY TaskFacts
  <1>4. tx[p] # "stale" => Backed(p, task[p].lease, ScopeOf(task[p].tool), task[p].path)
    BY <1>1, TaskFacts DEF Allowed
  <1>5. CASE GoLog(p, "data", task[p].lease)
    BY <1>1, <1>2, <1>3, <1>4, <1>5, GoLogSuffices
  <1>6. CASE Finish(p, "error", Null)
    BY <1>1, <1>2, <1>6, FinishSuffices
  <1>7. QED
    BY <1>5, <1>6 DEF Extract

LEMMA QuietSteps ==
    ASSUME AgentInv, IInv', NEW p \in Proc,
           VolumeGone(p) \/ EndCrawl(p) \/ ReadDisabled(p) \/ Classify(p)
    PROVE  AgentInv'
  <1>1. pc[p] = "idle" /\ UNCHANGED vars /\ issued' = issued
    BY DEF VolumeGone, EndCrawl, ReadDisabled, Classify, At, GoLog, Continue, Finish
  <1>2. TablesKept' /\ pc'[p] # "committed" /\ tx'[p] = tx[p]
    BY <1>1, QuietStep DEF vars
  <1>3. CASE Finish(p, "error", Null)
    BY <1>1, <1>2, <1>3, FinishSuffices
  <1>4. CASE GoLog(p, "refusal", Null)
    BY <1>1, <1>2, <1>4, GoLogSuffices
  <1>5. CASE EndCrawl(p)
    <2>1. /\ task[p].tool = "index" /\ task[p].at = "crawling" /\ GoLog(p, "data", task[p].lease)
          /\ task[p].lease \in 1..issued \cup {Null}
      BY <1>5, TaskFacts DEF EndCrawl, At
    <2>2. tx[p] # "stale" => Backed(p, task[p].lease, ScopeOf(task[p].tool), task[p].path)
      BY <2>1, TaskFacts DEF Allowed
    <2>3. QED
      BY <1>1, <1>2, <2>1, <2>2, GoLogSuffices
  <1>6. CASE Classify(p) /\ GoLog(p, "data", Null)
    BY <1>1, <1>2, <1>6, GoLogSuffices DEF Classify, At
  <1>7. QED
    BY <1>3, <1>4, <1>5, <1>6 DEF VolumeGone, ReadDisabled, Classify

LEMMA GetConsentStep ==
    ASSUME AgentInv, IInv', NEW p \in Proc, GetConsent(p)
    PROVE  AgentInv'
  <1>1. task[p].tool = "get_consent" /\ pc[p] = "idle" /\ issued' = issued
    BY DEF GetConsent, At, GoLog, Continue, Finish
  <1>2. ScopeOf(task[p].tool) = "search"
    BY <1>1 DEF ScopeOf
  <1>3. CASE ReadOther(p)
    <2>1. /\ TablesKept' /\ pc'[p] # "committed"
          /\ tx'[p] # "stale" => tx[p] # "stale"
          /\ Log(p) \/ Other(p)
      BY <1>1, <1>3, SelectStep
    <2>2. ASSUME NEW l \in Check(Consents(p), task[p].path, "search", clock),
                 GoLog(p, "data", l.consent_id)
          PROVE  AgentInv'
      <3>1. /\ l.consent_id \in 1..issued
            /\ tx[p] # "stale" => Backed(p, l.consent_id, "search", task[p].path)
        BY <1>1, CheckBacks
      <3>2. QED
        BY <1>1, <1>2, <2>1, <2>2, <3>1, GoLogSuffices
    <2>3. CASE GoLog(p, "data", Null)
      BY <1>1, <2>1, <2>3, GoLogSuffices
    <2>4. CASE Finish(p, "error", Null)
      BY <2>1, <2>4, FinishSuffices
    <2>5. QED
      BY <2>2, <2>3, <2>4 DEF GetConsent
  <1>4. CASE Finish(p, "error", Null) /\ UNCHANGED vars
    <2>1. TablesKept' /\ pc'[p] # "committed"
      BY <1>1, <1>4, QuietStep DEF vars
    <2>2. QED
      BY <1>4, <2>1, FinishSuffices
  <1>5. QED
    BY <1>3, <1>4 DEF GetConsent

\* One SELECT, and the end of the handler, or nearly.
LEMMA OneSelectStep ==
    ASSUME AgentInv, IInv', NEW p \in Proc, ReadResolve(p) \/ Summary(p) \/ ListVolumes(p)
    PROVE  AgentInv'
  <1>1. ReadOther(p) /\ issued' = issued
    BY DEF ReadResolve, Summary, ListVolumes, MoveTo, GoLog, Continue, Finish
  <1>2. /\ TablesKept' /\ pc'[p] # "committed"
        /\ tx'[p] # "stale" => tx[p] # "stale"
        /\ Log(p) \/ Other(p)
    BY <1>1, SelectStep
  <1>3. CASE Finish(p, "error", Null)
    BY <1>2, <1>3, FinishSuffices
  <1>4. CASE Summary(p) /\ Finish(p, "refusal", Null)
    BY <1>2, <1>4, FinishSuffices DEF Summary, At
  <1>5. CASE GoLog(p, "refusal", Null)
    BY <1>2, <1>5, GoLogSuffices
  <1>6. CASE (Summary(p) \/ ListVolumes(p)) /\ GoLog(p, "data", Null)
    BY <1>2, <1>6, GoLogSuffices DEF Summary, ListVolumes, At
  <1>7. CASE MoveTo(p, "resolved")
    <2>1. PICK lease \in 1..issued \cup {Null} : lease = task[p].lease
      BY TaskFacts
    <2>2. [task[p] EXCEPT !.at = "resolved"] = [task[p] EXCEPT !.at = "resolved", !.lease = lease]
      BY <2>1, TaskFacts DEF Tasks
    <2>3. "resolved" \in Points \ {"log"}
      BY DEF Points
    <2>4. QED
      BY <1>2, <1>7, <2>2, <2>3, MoveSuffices DEF MoveTo
  <1>8. QED
    BY <1>3, <1>4, <1>5, <1>6, <1>7 DEF ReadResolve, Summary, ListVolumes

-----------------------------------------------------------------------------
(* A crawl                                                                 *)

\* The rows of a file, pending on the lease of its crawl.
LEMMA FileWriteKept ==
    ASSUME AgentInv, NEW p \in Proc, NEW f \in Files, ToIndex(p, f), issued' = issued,
           Write(p, [audit |-> Seen(p).audit, rest |-> WithFile(p, f)]),
           \A q \in Proc \ {p} : pc'[q] = pc[q]
    PROVE  TablesKept'
  <1> DEFINE seen == Seen(p).rest
             new == WithFile(p, f)
  <1>1. tx[p] # "stale" /\ seen \in Tables /\ pc[p] = "idle"
    BY RestTyped, FileInHand DEF Write, MayWrite, AgentInv
  <1>2. PICK row \in FileRows : /\ row = FileRow(p, f) /\ f \in Under(row.root)
                            /\ \E l \in db.rest.consent : Admits(l, row)
    BY <1>1, FileRowAdmitted
  <1>3. /\ WellKept(seen.consent) /\ seen.consent = db.rest.consent /\ Accounted(seen)
    BY <1>1, SeenKept DEF AgentInv
  <1>4. /\ new.consent = db.rest.consent
        /\ \A g \in Files : new.index[g] = IF g = f THEN row ELSE seen.index[g]
    BY <1>1, <1>2, <1>3 DEF WithFile, Tables
  <1>5. Accounted(new)
    BY <1>2, <1>3, <1>4 DEF Accounted
  <1>6. Evolves(db.rest.consent, new.consent)
    BY <1>4, EvolvesReflexive
  <1>7. /\ \A l \in new.consent : l.consent_id \in 1..issued'
        /\ \A l, m \in new.consent : l.consent_id = m.consent_id => l = m
    BY <1>3, <1>4 DEF WellKept
  <1>8. issued \in Nat /\ IInv /\ TablesKept
    BY TaskFacts DEF AgentInv
  <1> HIDE DEF new
  <1>9. PICK written : written = [audit |-> Seen(p).audit, rest |-> new]
    OBVIOUS
  <1>10. Write(p, written) /\ written.rest = new
    BY <1>9 DEF new
  <1>11. QED
    BY <1>4, <1>5, <1>6, <1>7, <1>8, <1>10, KeptByWrite

\* The crawl goes on with the next file.
LEMMA DoneSuffices ==
    ASSUME AgentInv, IInv', TablesKept', NEW p \in Proc, Log(p) \/ Other(p) \/ UNCHANGED vars,
           NEW f, Done(p, f), task[p].tool = "index", Allowed(task[p]),
           pc'[p] # "committed", tx'[p] # "stale" => tx[p] # "stale"
    PROVE  AgentInv'
  <1> DEFINE t == task[p]
  <1>1. /\ t \in Tasks /\ LocalsOK(t) /\ t.lease \in 1..issued \cup {Null}
        /\ tx'[p] # "stale" => Backed(p, t.lease, ScopeOf(t.tool), t.path)
    BY TaskFacts
  <1>2. PICK new \in Tasks :
            /\ new = [t EXCEPT !.at = "crawling", !.file = Null, !.todo = @ \ {f}]
            /\ new.at = "crawling" /\ new.lease = t.lease /\ new.tool = t.tool
            /\ new.path = t.path /\ new.todo = t.todo \ {f} /\ new.file = Null
    <2>1. [t EXCEPT !.at = "crawling", !.file = Null, !.todo = @ \ {f}] \in Tasks
      BY <1>1 DEF Tasks, Points
    <2>2. QED
      BY <1>1, <2>1 DEF Tasks
  <1>3. LocalsOK(new)
    BY <1>1, <1>2 DEF LocalsOK
  <1>4. Continue(p, new)
    BY <1>2 DEF Done
  <1>5. Allowed(new) /\ tx'[p] # "stale" => Backed(p, new.lease, ScopeOf(new.tool), new.path)
    BY <1>1, <1>2
  <1>6. QED
    BY <1>1, <1>2, <1>3, <1>4, <1>5, ContinueSuffices

LEMMA LookUpStep ==
    ASSUME AgentInv, IInv', NEW p \in Proc, NEW f \in Files, LookUp(p, f)
    PROVE  AgentInv'
  <1> DEFINE t == task[p]
  <1>1. /\ ReadOther(p) /\ issued' = issued /\ t.tool = "index" /\ Allowed(t) /\ f \in t.todo
    BY DEF LookUp, At, Done, Continue, Allowed
  <1>2. /\ TablesKept' /\ pc'[p] # "committed"
        /\ tx'[p] # "stale" => tx[p] # "stale"
        /\ Log(p) \/ Other(p)
    BY <1>1, SelectStep
  <1>3. CASE Done(p, f)
    BY <1>1, <1>2, <1>3, DoneSuffices
  <1>4. CASE Continue(p, [t EXCEPT !.at = "found", !.file = f])
    <2>1. /\ t \in Tasks /\ LocalsOK(t) /\ t.lease \in 1..issued \cup {Null}
          /\ tx'[p] # "stale" => Backed(p, t.lease, ScopeOf(t.tool), t.path)
      BY <1>1, <1>2, TaskFacts
    <2>2. PICK new \in Tasks :
              /\ new = [t EXCEPT !.at = "found", !.file = f]
              /\ new.at = "found" /\ new.lease = t.lease /\ new.tool = t.tool
              /\ new.path = t.path /\ new.todo = t.todo /\ new.file = f
      <3>1. [t EXCEPT !.at = "found", !.file = f] \in Tasks
        BY <2>1 DEF Tasks, Points
      <3>2. QED
        BY <2>1, <3>1 DEF Tasks
    <2>3. LocalsOK(new)
      BY <1>1, <2>1, <2>2 DEF LocalsOK
    <2>4. Continue(p, new)
      BY <1>4, <2>2
    <2>5. Allowed(new) /\ tx'[p] # "stale" => Backed(p, new.lease, ScopeOf(new.tool), new.path)
      BY <2>1, <2>2
    <2>6. QED
      BY <1>2, <2>1, <2>2, <2>3, <2>4, <2>5, ContinueSuffices
  <1>5. QED
    BY <1>3, <1>4 DEF LookUp

LEMMA ExtractFailsStep ==
    ASSUME AgentInv, IInv', NEW p \in Proc, NEW f \in Files, ExtractFails(p, f)
    PROVE  AgentInv'
  <1>1. /\ task[p].tool = "index" /\ Allowed(task[p]) /\ pc[p] = "idle" /\ Done(p, f)
        /\ UNCHANGED vars /\ issued' = issued
    BY FileInHand DEF ExtractFails, Done, Continue
  <1>2. TablesKept' /\ pc'[p] # "committed" /\ tx'[p] = tx[p]
    BY <1>1, QuietStep DEF vars
  <1>3. QED
    BY <1>1, <1>2, DoneSuffices

LEMMA IndexOneStep ==
    ASSUME AgentInv, IInv', NEW p \in Proc, NEW f \in Files, IndexOne(p, f)
    PROVE  AgentInv'
  <1>1. /\ task[p].tool = "index" /\ Allowed(task[p]) /\ Done(p, f) /\ issued' = issued
        /\ ToIndex(p, f) /\ WriteOther(p, WithFile(p, f))
    BY FileInHand DEF IndexOne, Done, Continue
  <1>2. IInv /\ tx[p] # "stale"
    BY <1>1 DEF AgentInv, WriteOther, Write, MayWrite
  <1>3. Log(p) \/ Other(p)
    BY <1>1, <1>2, WithFileTyped DEF Other
  <1>4. pc'[p] # "committed" /\ \A q \in Proc \ {p} : pc'[q] = pc[q]
    BY <1>1, <1>2 DEF WriteOther, Goto, IInv, TypeOK
  <1>5. TablesKept'
    BY <1>1, <1>4, FileWriteKept DEF WriteOther
  <1>6. QED
    BY <1>1, <1>2, <1>3, <1>4, <1>5, DoneSuffices

LEMMA IndexOneRaisesStep ==
    ASSUME AgentInv, IInv', NEW p \in Proc, NEW f \in Files, IndexOneRaises(p, f)
    PROVE  AgentInv'
  <1>1. ToIndex(p, f) /\ Finish(p, "error", Null) /\ issued' = issued /\ pc[p] = "idle"
    BY FileInHand DEF IndexOneRaises, Finish
  <1>2. IInv
    BY DEF AgentInv
  <1>3. CASE WriteOtherRaises(p, WithFile(p, f))
    <2>1. Log(p) \/ Other(p)
      <3>1. tx[p] # "stale"
        BY <1>3 DEF WriteOtherRaises, Write, MayWrite
      <3>2. QED
        BY <1>1, <1>2, <1>3, <3>1, WithFileTyped DEF Other
    <2>2. pc' = pc
      BY <1>3 DEF WriteOtherRaises
    <2>3. TablesKept'
      BY <1>1, <1>3, <2>2, FileWriteKept DEF WriteOtherRaises
    <2>4. QED
      BY <1>1, <2>1, <2>2, <2>3, FinishSuffices
  <1>4. CASE WriteOtherRefused(p)
    <2>1. Log(p) \/ Other(p)
      BY <1>4 DEF Other
    <2>2. pc' = pc
      BY <1>4 DEF WriteOtherRefused
    <2>3. TablesKept'
      BY <1>1, <1>4, TaskFacts, KeptByLog DEF AgentInv
    <2>4. QED
      BY <1>1, <2>1, <2>2, <2>3, FinishSuffices
  <1>5. QED
    BY <1>3, <1>4 DEF IndexOneRaises

-----------------------------------------------------------------------------
(* Commits, the log and restarts                                           *)

\* The locals of all handlers stay as they are.
LEMMA OwnStays ==
    ASSUME AgentInv, IInv', TablesKept', NEW p \in Proc, Log(p) \/ Other(p), UNCHANGED ownVars,
           tx[p] = "stale" => tx'[p] = "stale",
           pc'[p] = "committed" => tx'[p] = "none"
    PROVE  AgentInv'
  <1>1. AgentTypeOK /\ TablesKept /\ IndexedWasAllowed
    BY DEF AgentInv
  <1>2. task' = task /\ answer' = answer /\ dead' = dead /\ clock' = clock /\ issued' = issued
    BY DEF ownVars
  <1>3. [Next]_vars
    BY DEF Next
  <1>4. Evolves(db.rest.consent, db'.rest.consent)
    BY <1>1, <1>3, TablesMove
  <1>5. HandlerOK(p)'
    BY <1>2, <1>4, HandlerStays DEF AgentInv
  <1>6. (\/ answer'[p].kind = "data"
         \/ answer'[p].kind = "refusal" /\ answer'[p].tool # "summary")
            => answer'[p].entry \in Ids(db'.audit)
    BY <1>2, <1>3, TableGrows DEF AgentInv, AnswersAudited
  <1>7. (/\ answer'[p].kind = "data"
         /\ \/ answer'[p].tool \in {"search", "index", "read"} /\ answer'[p].path # Null
            \/ answer'[p].tool = "get_consent" /\ answer'[p].lease # Null)
            => Backed(p, answer[p].lease, ScopeOf(answer[p].tool), answer[p].path)'
    <2>1. PICK given : given = answer[p]
      OBVIOUS
    <2>2. (/\ given.kind = "data"
           /\ \/ given.tool \in {"search", "index", "read"} /\ given.path # Null
              \/ given.tool = "get_consent" /\ given.lease # Null)
              => Backed(p, given.lease, ScopeOf(given.tool), given.path)
      BY <2>1 DEF AgentInv, ServedUnderLiveLease
    <2>3. Backed(p, given.lease, ScopeOf(given.tool), given.path)
             => Backed(p, given.lease, ScopeOf(given.tool), given.path)'
      BY <1>2, <1>4, BackedStays
    <2>4. QED
      BY <1>2, <2>1, <2>2, <2>3 DEF Backed
  <1>8. /\ issued' \in 0..MaxGrants /\ issued <= issued' /\ dead' \in [Proc -> SUBSET (1..issued')]
        /\ task' \in [Proc -> Tasks] /\ answer' \in [Proc -> Answers]
        /\ task'[p].lease \in 1..issued' \cup {Null}
    BY <1>1, <1>2, BoundsAssumption DEF AgentTypeOK
  <1>9. QED
    BY <1>2, <1>5, <1>6, <1>7, <1>8, StepSuffices

LEMMA LoggingStep ==
    ASSUME AgentInv, IInv', NEW p \in Proc, Logging(p)
    PROVE  AgentInv'
  <1>1. Log(p) /\ UNCHANGED ownVars /\ issued' = issued
    BY DEF Logging, Log, ownVars
  <1>2. TablesKept'
    BY <1>1, TaskFacts, KeptByLog DEF AgentInv
  <1>3. /\ tx[p] = "stale" => tx'[p] = "stale"
        /\ pc'[p] = "committed" => tx'[p] = "none"
    <2> USE DEF AgentInv, IInv, TypeOK, Goto
    <2>1. CASE ReadLastHash(p) \/ ReadNextSequence(p)
      BY <2>1 DEF ReadLastHash, ReadNextSequence, Select
    <2>2. CASE Insert(p)
      BY <2>2 DEF Insert, Write, MayWrite
    <2>3. CASE CommitRow(p)
      BY <2>3 DEF CommitRow, Commit
    <2>4. QED
      BY <2>1, <2>2, <2>3 DEF Logging
  <1>4. QED
    BY <1>1, <1>2, <1>3, OwnStays

LEMMA CommitStep ==
    ASSUME AgentInv, IInv', NEW p \in Proc, CommitOther(p), UNCHANGED ownVars
    PROVE  AgentInv'
  <1>1. Log(p) \/ Other(p)
    BY DEF Other
  <1>2. TablesKept'
    BY TaskFacts, KeptByLog DEF AgentInv, ownVars
  <1>3. tx[p] # "stale" /\ pc'[p] # "committed"
    BY DEF CommitOther, Commit, Goto, AgentInv, IInv, TypeOK
  <1>4. QED
    BY <1>1, <1>2, <1>3, OwnStays

\* The entry is committed, and its connection is back in autocommit mode: the
\* handler was not stuck in an old snapshot.
LEMMA ReplyStep ==
    ASSUME AgentInv, IInv', NEW p \in Proc, Reply(p)
    PROVE  AgentInv'
  <1> DEFINE t == task[p]
  <1>1. /\ t.at = "log" /\ ReturnEntry(p) /\ Finish(p, t.verdict, Entry(p))
        /\ issued' = issued /\ IInv
    BY DEF Reply, Finish, AgentInv
  <1>2. Log(p) \/ Other(p)
    BY <1>1 DEF Log
  <1>3. pc[p] = "committed" /\ pc'[p] # "committed"
    BY <1>1 DEF ReturnEntry, Goto, IInv, TypeOK
  <1>4. TablesKept'
    BY <1>1, TaskFacts, KeptByLog DEF AgentInv, Log
  <1>5. t.verdict \in {"data", "refusal"}
    BY <1>1, TaskFacts DEF LocalsOK
  <1>6. Entry(p) \in EntryId /\ Entry(p) \in Ids(db.audit)
    BY <1>1, <1>3, EntryTyped DEF IInv, FreshEntries
  <1>7. tx[p] # "stale"
    BY <1>3 DEF AgentInv, HandlerOK
  <1>8. (/\ t.verdict = "data"
         /\ \/ t.tool \in {"search", "index", "read"} /\ t.path # Null
            \/ t.tool = "get_consent" /\ t.lease # Null)
           => Backed(p, t.lease, ScopeOf(t.tool), t.path)
    BY <1>1, <1>7, TaskFacts DEF Allowed
  <1>9. QED
    BY <1>1, <1>2, <1>3, <1>4, <1>5, <1>6, <1>8, FinishSuffices

LEMMA LogRaisesStep ==
    ASSUME AgentInv, IInv', NEW p \in Proc, LogRaises(p)
    PROVE  AgentInv'
  <1>1. Log(p) /\ Finish(p, "error", Null) /\ issued' = issued
    BY DEF LogRaises, Log, Finish
  <1>2. TablesKept'
    BY <1>1, TaskFacts, KeptByLog DEF AgentInv
  <1>3. pc'[p] # "committed"
    BY DEF LogRaises, InsertDuplicate, InsertRefused, Goto, AgentInv, IInv, TypeOK
  <1>4. QED
    BY <1>1, <1>2, <1>3, FinishSuffices

LEMMA StartUpStep ==
    ASSUME AgentInv, IInv', NEW p \in Proc, StartUp(p)
    PROVE  AgentInv'
  <1>1. Verify(p) /\ Continue(p, Idle) /\ issued' = issued
    BY DEF StartUp, Continue
  <1>2. Log(p) \/ Other(p)
    BY <1>1 DEF Other
  <1>3. TablesKept'
    BY <1>1, TaskFacts, KeptByLog DEF AgentInv
  <1>4. pc'[p] # "committed"
    BY <1>1 DEF Verify
  <1>5. Idle \in Tasks /\ Idle.lease = Null /\ ~Allowed(Idle) /\ LocalsOK(Idle)
    BY DEF Idle, Tasks, Points, Allowed, LocalsOK
  <1>6. QED
    BY <1>1, <1>2, <1>3, <1>4, <1>5, ContinueSuffices

\* The connection is closed, and with it goes whatever the handler was doing.
LEMMA CrashStep ==
    ASSUME AgentInv, IInv', NEW p \in Proc, Crash(p)
    PROVE  AgentInv'
  <1>1. /\ Restart(p) /\ clock' = clock /\ issued' = issued /\ dead' = dead
        /\ AgentTypeOK /\ IInv
    BY DEF Crash, AgentInv
  <1>2. Log(p) \/ Other(p)
    BY <1>1 DEF Other
  <1>3. TablesKept'
    BY <1>1, TaskFacts, KeptByLog DEF AgentInv
  <1>4. PICK new \in Tasks : /\ new.lease = Null /\ ~Allowed(new) /\ LocalsOK(new)
                             /\ task' = [task EXCEPT ![p] = new]
    <2>1. Idle \in Tasks /\ Idle.lease = Null /\ ~Allowed(Idle) /\ LocalsOK(Idle)
      BY DEF Idle, Tasks, Points, Allowed, LocalsOK
    <2>2. Starting \in Tasks /\ Starting.lease = Null /\ ~Allowed(Starting) /\ LocalsOK(Starting)
      BY DEF Starting, Idle, Tasks, Points, Allowed, LocalsOK
    <2>3. QED
      BY <2>1, <2>2 DEF Crash
  <1>5. NoAnswer \in Answers /\ NoAnswer.kind = "none"
    BY DEF NoAnswer, Answers
  <1>6. /\ task' \in [Proc -> Tasks] /\ answer' \in [Proc -> Answers]
        /\ task'[p] = new /\ answer'[p].kind = "none"
        /\ \A q \in Proc \ {p} : task'[q] = task[q] /\ answer'[q] = answer[q]
    BY <1>1, <1>4, <1>5 DEF Crash, AgentTypeOK
  <1>7. pc'[p] # "committed"
    BY <1>1 DEF Restart, IInv, TypeOK
  <1>8. HandlerOK(p)'
    BY <1>4, <1>6, <1>7 DEF HandlerOK, LocalsOK, Allowed
  <1>9. issued \in 0..MaxGrants /\ issued <= issued' /\ dead' \in [Proc -> SUBSET (1..issued')]
    BY <1>1, BoundsAssumption DEF AgentTypeOK
  <1>10. QED
    BY <1>1, <1>2, <1>3, <1>4, <1>6, <1>8, <1>9, StepSuffices

-----------------------------------------------------------------------------
(* Calls begin, the operator's commands, the clock                         *)

LEMMA OverTyped ==
    ASSUME AgentInv
    PROVE  Over \in SUBSET (1..issued)
  BY DEF Over, AgentInv, TablesKept, WellKept

\* A call of a tool: with a path the tools may be called with.
LEMMA CallTyped ==
    ASSUME NEW tool \in AllTools, NEW path \in Scoped \cup {Null}, tool = "index" => path \in Scoped
    PROVE  /\ Call(tool, path) \in Tasks /\ Call(tool, path).lease = Null
           /\ ~Allowed(Call(tool, path)) /\ LocalsOK(Call(tool, path))
  <1>1. Under(path) \in SUBSET Files
    BY DEF Under
  <1>2. /\ Idle \in Tasks /\ Idle.lease = Null /\ Idle.verdict = "none" /\ Idle.file = Null
    BY DEF Idle, Tasks, Points
  <1>3. Call(tool, path) \in Tasks
    BY <1>1, <1>2 DEF Call, Tasks, Points
  <1>4. /\ Call(tool, path).lease = Null /\ Call(tool, path).at = "called"
        /\ Call(tool, path).tool = tool /\ Call(tool, path).path = path
        /\ Call(tool, path).file = Null
        /\ tool = "index" => Call(tool, path).todo = Under(path)
    BY <1>2 DEF Call, Tasks
  <1>5. QED
    BY <1>3, <1>4 DEF Allowed, LocalsOK

LEMMA BeginCallStep ==
    ASSUME AgentInv, IInv', NEW p \in Proc, NEW tool \in AllTools, NEW path \in Scoped \cup {Null},
           tool = "index" => path \in Scoped, BeginCall(p, tool, path)
    PROVE  AgentInv'
  <1>1. UNCHANGED vars /\ clock' = clock /\ issued' = issued /\ AgentTypeOK /\ db' = db
    BY DEF BeginCall, AgentInv, vars
  <1>2. TablesKept'
    BY <1>1, QuietStep
  <1>3. PICK new \in Tasks : /\ new.lease = Null /\ ~Allowed(new) /\ LocalsOK(new)
                             /\ task' = [task EXCEPT ![p] = new]
    BY CallTyped DEF BeginCall
  <1>4. NoAnswer \in Answers /\ NoAnswer.kind = "none"
    BY DEF NoAnswer, Answers
  <1>5. /\ task' \in [Proc -> Tasks] /\ answer' \in [Proc -> Answers]
        /\ dead' \in [Proc -> SUBSET (1..issued')]
        /\ task'[p] = new /\ answer'[p].kind = "none" /\ dead'[p] = Over
        /\ \A q \in Proc \ {p} : /\ task'[q] = task[q] /\ answer'[q] = answer[q]
                                 /\ dead'[q] = dead[q]
    BY <1>1, <1>3, <1>4, OverTyped DEF BeginCall, AgentTypeOK
  <1>6. HandlerOK(p)'
    <2>1. pc'[p] = "committed" => tx'[p] = "none"
      BY <1>1 DEF vars, AgentInv, HandlerOK
    <2>2. QED
      BY <1>3, <1>5, <2>1 DEF HandlerOK, LocalsOK, Allowed
  <1>7. issued' \in 0..MaxGrants /\ issued <= issued'
    BY <1>1, BoundsAssumption DEF AgentTypeOK
  <1>8. QED
    BY <1>1, <1>2, <1>3, <1>5, <1>6, <1>7, StepSuffices

\* What a command has pending evolves from what is committed, and accounts for
\* the same files.
LEMMA CommandWriteKept ==
    ASSUME AgentInv, NEW o \in Proc, NEW consent \in SUBSET Leases, tx[o] = "none",
           WriteOther(o, [db.rest EXCEPT !.consent = consent]),
           issued' \in Nat, issued <= issued', \A l \in consent : l.consent_id \in 1..issued',
           \A l, m \in consent : l.consent_id = m.consent_id => l = m,
           Evolves(db.rest.consent, consent)
    PROVE  TablesKept' /\ Other(o) /\ db' = db /\ pc'[o] = "written"
  <1>1. IInv /\ TablesKept /\ db.rest \in Tables /\ issued \in Nat
    BY TaskFacts, RestTyped DEF AgentInv
  <1>2. PICK rest : /\ rest = [db.rest EXCEPT !.consent = consent] /\ rest \in Rest
                    /\ rest.consent = consent /\ rest.index = db.rest.index
    BY <1>1, ConsentWriteTyped DEF Tables
  <1>3. Other(o)
    BY <1>2 DEF Other
  <1>4. /\ db' = db /\ pc'[o] = "written" /\ \A q \in Proc \ {o} : pc'[q] = pc[q]
    BY <1>1 DEF WriteOther, Write, Goto, IInv, TypeOK
  <1>5. Accounted(rest)
    <2>1. ASSUME NEW f \in Files, rest.index[f] # Null
          PROVE  /\ f \in Under(rest.index[f].root)
                 /\ \E m \in rest.consent : Admits(m, rest.index[f])
      <3>1. /\ f \in Under(rest.index[f].root)
            /\ \E l \in db.rest.consent : Admits(l, rest.index[f])
        BY <1>2, <2>1 DEF AgentInv, IndexedWasAllowed, Accounted
      <3>2. PICK l \in db.rest.consent : Admits(l, rest.index[f])
        BY <3>1
      <3>3. PICK m \in consent : SameLease(l, m)
        BY DEF Evolves
      <3>4. QED
        BY <1>2, <3>1, <3>2, <3>3, AdmitsStays
    <2>2. QED
      BY <2>1 DEF Accounted
  <1>6. PICK new : /\ new = [audit |-> Seen(o).audit, rest |-> rest] /\ Write(o, new)
                   /\ new.rest = rest
    BY <1>2 DEF WriteOther
  <1>7. /\ \A l \in new.rest.consent : l.consent_id \in 1..issued'
        /\ \A l, m \in new.rest.consent : l.consent_id = m.consent_id => l = m
        /\ Evolves(db.rest.consent, new.rest.consent) /\ Accounted(new.rest)
    BY <1>2, <1>5, <1>6
  <1>8. /\ pc'[o] # "written" => new.rest.consent = db.rest.consent
        /\ \A q \in Proc \ {o} : pc[q] = "written" => pc'[q] = "written"
    BY <1>4
  <1>9. TablesKept'
    BY <1>1, <1>6, <1>7, <1>8, KeptByWrite
  <1>10. QED
    BY <1>3, <1>4, <1>9

LEMMA CommandStep ==
    ASSUME AgentInv, IInv', NEW o \in Proc, NEW consent \in SUBSET Leases, Command(o, consent),
           issued' \in 0..MaxGrants, issued <= issued',
           \A l \in consent : l.consent_id \in 1..issued',
           \A l, m \in consent : l.consent_id = m.consent_id => l = m,
           Evolves(db.rest.consent, consent)
    PROVE  AgentInv'
  <1>1. /\ tx[o] = "none" /\ WriteOther(o, [db.rest EXCEPT !.consent = consent])
        /\ clock' = clock /\ task' = task /\ dead' = dead /\ answer' = answer
        /\ AgentTypeOK /\ issued' \in Nat /\ issued \in Nat
    BY TaskFacts, BoundsAssumption DEF Command, AgentInv
  <1>2. TablesKept' /\ Other(o) /\ db' = db /\ pc'[o] = "written"
    BY <1>1, CommandWriteKept
  <1>3. HandlerOK(o)'
    <2>1. Evolves(db.rest.consent, db'.rest.consent)
      BY <1>2, EvolvesReflexive
    <2>2. QED
      BY <1>1, <1>2, <2>1, HandlerStays DEF AgentInv
  <1>4. (\/ answer'[o].kind = "data"
         \/ answer'[o].kind = "refusal" /\ answer'[o].tool # "summary")
            => answer'[o].entry \in Ids(db'.audit)
    BY <1>1, <1>2 DEF AgentInv, AnswersAudited
  <1>5. (/\ answer'[o].kind = "data"
         /\ \/ answer'[o].tool \in {"search", "index", "read"} /\ answer'[o].path # Null
            \/ answer'[o].tool = "get_consent" /\ answer'[o].lease # Null)
            => Backed(o, answer[o].lease, ScopeOf(answer[o].tool), answer[o].path)'
    BY <1>1, <1>2 DEF AgentInv, ServedUnderLiveLease, Backed
  <1>6. /\ task' \in [Proc -> Tasks] /\ answer' \in [Proc -> Answers]
        /\ dead' \in [Proc -> SUBSET (1..issued')] /\ task'[o].lease \in 1..issued' \cup {Null}
    <2>1. 1..issued \subseteq 1..issued'
      BY <1>1
    <2>2. QED
      BY <1>1, <2>1 DEF AgentTypeOK
  <1>7. QED
    BY <1>1, <1>2, <1>3, <1>4, <1>5, <1>6, StepSuffices

\* A lease for an id that was not drawn before joins the table.
LEMMA NewLeaseKept ==
    ASSUME AgentInv, issued < MaxGrants, issued' = issued + 1,
           NEW g \in Grants \cup {IndexLease(path) : path \in Crawled}
    PROVE  /\ db.rest.consent \cup {Lease(issued + 1, g)} \in SUBSET Leases
           /\ \A l \in db.rest.consent \cup {Lease(issued + 1, g)} : l.consent_id \in 1..issued'
           /\ \A l, m \in db.rest.consent \cup {Lease(issued + 1, g)} :
                 l.consent_id = m.consent_id => l = m
           /\ Evolves(db.rest.consent, db.rest.consent \cup {Lease(issued + 1, g)})
           /\ issued' \in 0..MaxGrants /\ issued <= issued'
  <1>1. IInv /\ AgentTypeOK /\ issued \in Nat /\ WellKept(db.rest.consent)
    BY BoundsAssumption DEF AgentInv, AgentTypeOK, TablesKept
  <1>2. PICK lease : /\ lease = Lease(issued + 1, g) /\ lease \in Leases
                     /\ lease.consent_id = issued + 1
                     /\ db.rest.consent \cup {lease} \in SUBSET Leases
    BY <1>1, NewLeaseTyped DEF Lease
  <1>3. \A l \in db.rest.consent : l.consent_id \in 1..issued
    BY <1>1 DEF WellKept
  <1>4. lease.consent_id \notin LeaseIds(db.rest.consent)
    BY <1>1, <1>2, <1>3 DEF LeaseIds
  <1>5. \A l \in db.rest.consent \cup {lease} : l.consent_id \in 1..issued'
    BY <1>1, <1>2, <1>3
  <1>6. \A l, m \in db.rest.consent \cup {lease} : l.consent_id = m.consent_id => l = m
    BY <1>1, <1>4 DEF WellKept, LeaseIds
  <1>7. Evolves(db.rest.consent, db.rest.consent \cup {lease})
    BY <1>4, GrantEvolves
  <1>8. issued' \in 0..MaxGrants /\ issued <= issued'
    BY <1>1, BoundsAssumption
  <1>9. QED
    BY <1>2, <1>5, <1>6, <1>7, <1>8

\* revoke(), cleanup_expired().
LEMMA RevokingStep ==
    ASSUME AgentInv, IInv', NEW o \in Proc, NEW which \in SUBSET db.rest.consent,
           \A l \in which : l.revoked_at = Null, issued' = issued,
           Command(o, MarkRevoked(db.rest.consent, which, clock))
    PROVE  AgentInv'
  <1>1. /\ db.rest.consent \in SUBSET Leases /\ clock \in 0..MaxTime /\ issued \in Nat
        /\ WellKept(db.rest.consent) /\ issued' \in 0..MaxGrants /\ issued <= issued'
    BY TaskFacts, RestTyped, ConsentTyped DEF AgentInv, AgentTypeOK, TablesKept
  <1>2. PICK new \in SUBSET Leases : new = MarkRevoked(db.rest.consent, which, clock)
    BY <1>1, MarkRevokedTyped
  <1>3. Evolves(db.rest.consent, new)
    BY <1>1, <1>2, MarkRevokedEvolves
  <1>4. WellKept(new)
    BY <1>1, <1>2, MarkRevokedKept
  <1>5. /\ \A l \in new : l.consent_id \in 1..issued'
        /\ \A l, m \in new : l.consent_id = m.consent_id => l = m
    BY <1>4 DEF WellKept
  <1>6. QED
    BY <1>1, <1>2, <1>3, <1>5, CommandStep

LEMMA BeginIndexStep ==
    ASSUME AgentInv, IInv', NEW o \in Proc, NEW path \in Crawled, BeginIndex(o, path)
    PROVE  AgentInv'
  <1>1. /\ tx[o] = "none" /\ clock' = clock /\ issued < MaxGrants /\ issued' = issued + 1
        /\ AgentTypeOK /\ issued \in Nat
    BY TaskFacts DEF BeginIndex, AgentInv
  <1>2. PICK consent \in SUBSET Leases :
            /\ consent = db.rest.consent \cup {Lease(issued + 1, IndexLease(path))}
            /\ \A l \in consent : l.consent_id \in 1..issued'
            /\ \A l, m \in consent : l.consent_id = m.consent_id => l = m
            /\ Evolves(db.rest.consent, consent)
            /\ issued' \in 0..MaxGrants /\ issued <= issued'
    BY <1>1, NewLeaseKept
  <1>3. WriteOther(o, [db.rest EXCEPT !.consent = consent])
    BY <1>2 DEF BeginIndex
  <1>4. TablesKept' /\ Other(o) /\ db' = db /\ pc'[o] = "written"
    BY <1>1, <1>2, <1>3, issued' \in Nat, CommandWriteKept
  <1>5. PICK new \in Tasks : /\ new.lease = Null /\ ~Allowed(new) /\ LocalsOK(new)
                             /\ task' = [task EXCEPT ![o] = new]
    BY CallTyped, PathAssumption DEF BeginIndex, AllTools
  <1>6. NoAnswer \in Answers /\ NoAnswer.kind = "none"
    BY DEF NoAnswer, Answers
  <1>7. 1..issued \subseteq 1..issued' /\ Over \in SUBSET (1..issued)
    BY <1>1, OverTyped
  <1>8. /\ task' \in [Proc -> Tasks] /\ answer' \in [Proc -> Answers]
        /\ dead' \in [Proc -> SUBSET (1..issued')]
        /\ task'[o] = new /\ answer'[o].kind = "none" /\ dead'[o] = Over
        /\ \A q \in Proc \ {o} : /\ task'[q] = task[q] /\ answer'[q] = answer[q]
                                 /\ dead'[q] = dead[q]
    <2>1. dead \in [Proc -> SUBSET (1..issued')]
      BY <1>1, <1>7 DEF AgentTypeOK
    <2>2. QED
      BY <1>1, <1>5, <1>6, <1>7, <2>1 DEF BeginIndex, AgentTypeOK
  <1>9. HandlerOK(o)'
    BY <1>4, <1>5, <1>8 DEF HandlerOK, LocalsOK, Allowed
  <1>10. QED
    BY <1>1, <1>2, <1>4, <1>5, <1>8, <1>9, StepSuffices

LEMMA OperatorStep ==
    ASSUME AgentInv, IInv', NEW o \in Operators, Operator(o)
    PROVE  AgentInv'
  <1>1. o \in Proc
    BY ProcAssumption
  <1>2. ASSUME NEW g \in Grants, Grant(o, g) PROVE AgentInv'
    <2>1. PICK consent : /\ consent = db.rest.consent \cup {Lease(issued + 1, g)}
                         /\ Command(o, consent) /\ issued < MaxGrants /\ issued' = issued + 1
      BY <1>2 DEF Grant
    <2>2. /\ consent \in SUBSET Leases
          /\ \A l \in consent : l.consent_id \in 1..issued'
          /\ \A l, m \in consent : l.consent_id = m.consent_id => l = m
          /\ Evolves(db.rest.consent, consent)
          /\ issued' \in 0..MaxGrants /\ issued <= issued'
      BY <2>1, NewLeaseKept
    <2>3. QED
      BY <1>1, <2>1, <2>2, CommandStep
  <1>3. ASSUME NEW id, Revoke(o, id) PROVE AgentInv'
    <2>1. /\ ToRevoke(db.rest.consent, id) \in SUBSET db.rest.consent
          /\ \A l \in ToRevoke(db.rest.consent, id) : l.revoked_at = Null
      BY DEF ToRevoke
    <2>2. QED
      BY <1>1, <1>3, <2>1, RevokingStep DEF Revoke
  <1>4. CASE Cleanup(o)
    <2>1. /\ ToCleanUp(db.rest.consent, clock) \in SUBSET db.rest.consent
          /\ \A l \in ToCleanUp(db.rest.consent, clock) : l.revoked_at = Null
      BY DEF ToCleanUp
    <2>2. QED
      BY <1>1, <1>4, <2>1, RevokingStep DEF Cleanup
  <1>5. CASE CommitCommand(o)
    BY <1>1, <1>5, CommitStep DEF CommitCommand
  <1>6. ASSUME NEW path \in Crawled, BeginIndex(o, path) PROVE AgentInv'
    BY <1>1, <1>6, BeginIndexStep
  <1>7. QED
    BY <1>2, <1>3, <1>4, <1>5, <1>6 DEF Operator

LEMMA HandlerStep ==
    ASSUME AgentInv, IInv', NEW p \in Proc, Handler(p)
    PROVE  AgentInv'
  <1>1. CASE SearchCheck(p) \/ IndexCheck(p) \/ ReadCheck(p)
    BY <1>1, ChecksStep
  <1>2. CASE VolumeGone(p) \/ EndCrawl(p) \/ ReadDisabled(p) \/ Classify(p)
    BY <1>2, QuietSteps
  <1>3. CASE ReadResolve(p) \/ Summary(p) \/ ListVolumes(p)
    BY <1>3, OneSelectStep
  <1>4. CASE CommitFile(p)
    BY <1>4, CommitStep DEF CommitFile
  <1>5. ASSUME NEW f \in Files, LookUp(p, f) \/ ExtractFails(p, f) \/ IndexOne(p, f) \/ IndexOneRaises(p, f)
        PROVE  AgentInv'
    BY <1>5, LookUpStep, ExtractFailsStep, IndexOneStep, IndexOneRaisesStep
  <1>6. CASE StartUp(p) \/ Search(p) \/ Extract(p) \/ GetConsent(p)
    BY <1>6, StartUpStep, SearchStep, ExtractStep, GetConsentStep
  <1>7. CASE Logging(p) \/ Reply(p) \/ LogRaises(p)
    BY <1>7, LoggingStep, ReplyStep, LogRaisesStep
  <1>8. QED
    BY <1>1, <1>2, <1>3, <1>4, <1>5, <1>6, <1>7 DEF Handler

\* The clock goes on, or nothing happens.
LEMMA ClockStep ==
    ASSUME AgentInv, IInv', UNCHANGED <<vars, issued, task, dead, answer>>,
           clock' \in 0..MaxTime, clock <= clock'
    PROVE  AgentInv'
  <1>1. /\ issued' = issued /\ task' = task /\ dead' = dead /\ answer' = answer
        /\ db' = db /\ tx' = tx /\ pc' = pc /\ UNCHANGED vars
        /\ AgentTypeOK /\ IInv /\ DeadStayDead /\ TablesKept
    BY DEF vars, AgentInv
  <1>2. TablesKept'
    BY <1>1, QuietStep
  <1>3. AgentTypeOK'
    BY <1>1 DEF AgentTypeOK, IInv
  <1>4. DeadStayDead'
    <2>1. ASSUME NEW q \in Proc
          PROVE  /\ dead'[q] \subseteq LeaseIds(db'.rest.consent)
                 /\ \A m \in db'.rest.consent : m.consent_id \in dead'[q] => ~Active(m, clock')
      <3>1. Evolves(db.rest.consent, db'.rest.consent)
        BY <1>1, EvolvesReflexive
      <3>2. clock \in 0..MaxTime
        BY <1>1 DEF AgentTypeOK
      <3>3. QED
        BY <1>1, <1>2, <3>1, <3>2, DeadStay
    <2>2. QED
      BY <2>1 DEF DeadStayDead, LeaseIds, Active
  <1>5. \A p \in Proc : HandlerOK(p)'
    BY <1>1 DEF AgentInv, HandlerOK, Backed
  <1>6. AnswersAudited' /\ ServedUnderLiveLease' /\ IndexedWasAllowed'
    BY <1>1 DEF AgentInv, AnswersAudited, ServedUnderLiveLease, IndexedWasAllowed, Backed, Accounted
  <1>7. QED
    BY <1>2, <1>3, <1>4, <1>5, <1>6 DEF AgentInv

-----------------------------------------------------------------------------
(* The theorems                                                            *)

LEMMA InitIsInit == AgentInit => Init
  <1> SUFFICES ASSUME AgentInit PROVE Init
    OBVIOUS
  <1>1. PICK r \in Initial : EngineInit([audit |-> <<>>, rest |-> r])
    BY DEF AgentInit
  <1>2. r \in Rest
    BY InitialAssumption, RestAssumption
  <1>3. QED
    BY <1>1, <1>2 DEF AgentInit, Init

LEMMA InitAgentInv == AgentInit => AgentInv
  <1> SUFFICES ASSUME AgentInit PROVE AgentInv
    OBVIOUS
  <1>1. IInv
    BY InitIsInit, InitIInv
  <1>2. PICK r \in Initial : /\ EngineInit([audit |-> <<>>, rest |-> r])
                             /\ issued = Cardinality(r.consent)
    BY DEF AgentInit
  <1>3. /\ r \in Tables /\ LeaseIds(r.consent) = 1..issued /\ issued \in 0..MaxGrants
        /\ \A l, m \in r.consent : l.consent_id = m.consent_id => l = m
        /\ Accounted(r)
    BY <1>2, InitialAssumption
  <1>4. db.rest = r /\ \A p \in Proc : tx[p] = "none" /\ pc[p] = "idle"
    BY <1>2 DEF EngineInit, AgentInit
  <1>5. /\ task = [p \in Proc |-> Idle] /\ dead = [p \in Proc |-> {}]
        /\ answer = [p \in Proc |-> NoAnswer] /\ clock = 0
    BY DEF AgentInit
  <1>6. Idle \in Tasks /\ Idle.lease = Null /\ ~Allowed(Idle) /\ LocalsOK(Idle)
    BY DEF Idle, Tasks, Points, Allowed, LocalsOK
  <1>7. NoAnswer \in Answers /\ NoAnswer.kind = "none"
    BY DEF NoAnswer, Answers
  <1>8. AgentTypeOK
    BY <1>1, <1>3, <1>5, <1>6, <1>7, BoundsAssumption DEF AgentTypeOK, IInv
  <1>9. TablesKept
    <2>1. WellKept(db.rest.consent)
      BY <1>3, <1>4 DEF WellKept, LeaseIds
    <2>2. QED
      BY <1>4, <2>1 DEF TablesKept
  <1>10. DeadStayDead
    BY <1>5 DEF DeadStayDead
  <1>11. \A p \in Proc : HandlerOK(p)
    BY <1>4, <1>5, <1>6 DEF HandlerOK
  <1>12. AnswersAudited /\ ServedUnderLiveLease /\ IndexedWasAllowed
    BY <1>3, <1>4, <1>5, <1>7 DEF AnswersAudited, ServedUnderLiveLease, IndexedWasAllowed
  <1>13. QED
    BY <1>1, <1>8, <1>9, <1>10, <1>11, <1>12 DEF AgentInv

LEMMA NextAgentInv == AgentInv /\ [AgentNext]_agentVars => AgentInv'
  <1> SUFFICES ASSUME AgentInv, [AgentNext]_agentVars PROVE AgentInv'
    OBVIOUS
  <1>1. IInv /\ AgentTypeOK
    BY DEF AgentInv
  <1>2. IInv'
    BY AgentStepIsStep, NextIInv DEF AgentInv
  <1>3. ASSUME NEW p \in Servers, NEW tool \in Tools, NEW path \in Scoped \cup {Null},
               path = Null => tool \in {"search"} \cup Pathless, BeginCall(p, tool, path)
        PROVE  AgentInv'
    <2>1. tool \in AllTools /\ p \in Proc /\ (tool = "index" => path \in Scoped)
      BY <1>3, ToolsAssumption, ProcAssumption DEF Pathless
    <2>2. QED
      BY <1>2, <1>3, <2>1, BeginCallStep
  <1>4. ASSUME NEW o \in Operators, Operator(o) PROVE AgentInv'
    BY <1>2, <1>4, OperatorStep
  <1>5. ASSUME NEW p \in Proc, Handler(p) \/ Crash(p) PROVE AgentInv'
    BY <1>2, <1>5, HandlerStep, CrashStep
  <1>6. CASE Tick
    <2>1. clock' \in 0..MaxTime /\ clock <= clock'
      BY <1>1, <1>6, BoundsAssumption DEF Tick, AgentTypeOK
    <2>2. QED
      BY <1>2, <1>6, <2>1, ClockStep DEF Tick
  <1>7. CASE UNCHANGED agentVars
    <2>1. clock' \in 0..MaxTime /\ clock <= clock'
      BY <1>1, <1>7, BoundsAssumption DEF agentVars, ownVars, AgentTypeOK
    <2>2. QED
      BY <1>2, <1>7, <2>1, ClockStep DEF agentVars, ownVars
  <1>8. QED
    BY <1>3, <1>4, <1>5, <1>6, <1>7 DEF AgentNext

\* The inductive invariant: what is committed, what every connection sees and
\* has pending, and where every handler stands, for any number of servers,
\* operators, leases, files and calls.
THEOREM AgentInductiveInvariant == AgentSpec => []AgentInv
  BY InitAgentInv, NextAgentInv, PTL DEF AgentSpec

\* The handlers and the operator's commands use the audit log as AuditLog says
\* (agent.py calls audit.log() and shares its connection): all that is proved
\* of the log holds of the servers.
THEOREM AgentsUseTheLog == AgentSpec => Spec
  <1>1. AgentInv /\ [AgentNext]_agentVars => [Next]_vars
    BY AgentStepIsStep
  <1>2. QED
    BY <1>1, InitIsInit, AgentInductiveInvariant, PTL DEF AgentSpec, Spec

\* So do they implement the abstract audit trail.
THEOREM AgentsImplementTrail == AgentSpec => ImplementsTrail
  BY AgentsUseTheLog, TrailImplemented, PTL

\* Every variable of the handlers has its type (agent.py:114-569, cli.py).
THEOREM AgentTypeCorrect == AgentSpec => []AgentTypeOK
  <1>1. AgentInv => AgentTypeOK
    BY DEF AgentInv
  <1>2. QED
    BY <1>1, AgentInductiveInvariant, PTL

\* Whoever got data or a logged refusal finds its entry in the audit log, for
\* ever (agent.py:166-177 and the end of every handler).
THEOREM AnswersAreAudited == AgentSpec => []AnswersAudited
  <1>1. AgentInv => AnswersAudited
    BY DEF AgentInv
  <1>2. QED
    BY <1>1, AgentInductiveInvariant, PTL

\* Data leaves only under a lease of the right scope that covers the path and
\* was in force at some time during the call, however the operator's revocations
\* and expiry come between check() and the answer, and however old the
\* snapshot is that check() was read from (consent.py:110-131, agent.py:363-405).
THEOREM ServedOnlyUnderLiveLease == AgentSpec => []ServedUnderLiveLease
  <1>1. AgentInv => ServedUnderLiveLease
    BY DEF AgentInv
  <1>2. QED
    BY <1>1, AgentInductiveInvariant, PTL

\* Of every file in the committed index, the crawl that put it there met it below
\* its root, and began under a lease to index that root which was in force at some
\* time since the call began (agent.py:189, indexer.py:67-88, :186).
THEOREM IndexedOnlyIfAllowed == AgentSpec => []IndexedWasAllowed
  <1>1. AgentInv => IndexedWasAllowed
    BY DEF AgentInv
  <1>2. QED
    BY <1>1, AgentInductiveInvariant, PTL
=============================================================================
