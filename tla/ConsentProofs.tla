---------------------------- MODULE ConsentProofs ----------------------------
(***************************************************************************)
(* Proofs about Consent, for any number of processes, leases and paths and *)
(* any movement of the clock.                                              *)
(***************************************************************************)
EXTENDS Consent, TLAPS

-----------------------------------------------------------------------------
(* Jobs and leases                                                         *)

\* What a process is about to write.
LEMMA JobTyped ==
    ASSUME TypeOK, NEW p \in Proc
    PROVE  /\ job[p] \in Jobs
           /\ job[p].op = "grant" => job[p].lease \in Lease
           /\ job[p].op = "revoke" => job[p].id \in ConsentIds /\ job[p].now \in 0..MaxTime
           /\ job[p].op = "cleanup" => job[p].now \in 0..MaxTime
  BY DEF TypeOK, Jobs, NoJob

\* The times of a lease are numbers or NULL, and NULL is no number.
LEMMA LeaseTyped ==
    ASSUME NEW l \in Lease
    PROVE  /\ l.consent_id \in ConsentIds
           /\ l.expires_at \in Int \cup {Null}
           /\ l.revoked_at \in (0..MaxTime) \cup {Null}
           /\ l.expires_at # Null => l.expires_at \in Int
  BY DEF Lease

\* The lease a grant makes.
LEMMA GrantTyped ==
    ASSUME TypeOK, issued < MaxGrants, NEW pattern \in Paths, NEW scope \in Scopes,
           NEW granularity \in Granularities, NEW window \in Windows, NEW default \in Defaults
    PROVE  [consent_id |-> issued + 1, pattern |-> pattern, scope |-> scope,
            granularity |-> granularity, granted_at |-> clock,
            expires_at |-> Expiry(clock, window, default), revoked_at |-> Null] \in Lease
  <1>1. issued + 1 \in ConsentIds /\ clock \in 0..MaxTime
    BY BoundsAssumption DEF TypeOK, ConsentIds
  <1>2. Expiry(clock, window, default) \in Int \cup {Null}
    BY <1>1, WindowsAssumption, DefaultsAssumption DEF Expiry
  <1>3. QED
    BY <1>1, <1>2 DEF Lease

\* What an UPDATE of revoked_at makes of the table: the rows it matched, with the
\* time it carried, and the others.
LEMMA Marked ==
    ASSUME NEW which \in SUBSET consent, consent \subseteq Lease, NEW now \in 0..MaxTime,
           NEW table, table = MarkRevoked(consent, which, now)
    PROVE  /\ table \subseteq Lease
           /\ \A l \in consent \ which : l \in table
           /\ \A l \in which : [l EXCEPT !.revoked_at = now] \in table
           /\ \A m \in table : \/ m \in consent \ which
                               \/ \E l \in which : m = [l EXCEPT !.revoked_at = now]
  <1>1. table = (consent \ which) \cup {[l EXCEPT !.revoked_at = now] : l \in which}
    BY DEF MarkRevoked
  <1>2. \A l \in which : [l EXCEPT !.revoked_at = now] \in Lease
    BY DEF Lease
  <1>3. QED
    BY <1>1, <1>2

\* A row with its revocation set.
LEMMA Mark ==
    ASSUME NEW l \in Lease, NEW now \in 0..MaxTime, NEW m, m = [l EXCEPT !.revoked_at = now]
    PROVE  /\ m \in Lease /\ m.consent_id = l.consent_id /\ m.revoked_at = now
           /\ m.revoked_at # Null
           /\ l.revoked_at = Null => [m EXCEPT !.revoked_at = Null] = l
  <1>1. m \in Lease /\ m.consent_id = l.consent_id /\ m.revoked_at = now
    BY DEF Lease
  <1>2. m.revoked_at # Null
    BY <1>1, NullAssumption
  <1>3. l.revoked_at = Null => [m EXCEPT !.revoked_at = Null] = l
    BY DEF Lease
  <1>4. QED
    BY <1>1, <1>2, <1>3

-----------------------------------------------------------------------------
(* The inductive invariant                                                 *)

LEMMA InitConsentInv == Init => ConsentInv
  <1> SUFFICES ASSUME Init PROVE ConsentInv
    OBVIOUS
  <1>1. TypeOK
    BY BoundsAssumption DEF Init, TypeOK, Jobs
  <1>2. OneRowEach /\ GrantsFresh
    BY DEF Init, OneRowEach, GrantsFresh, LeaseIds, NoJob
  <1>3. WinsKnown /\ OneRevokeWins
    BY DEF Init, WinsKnown, OneRevokeWins
  <1>4. QED
    BY <1>1, <1>2, <1>3 DEF ConsentInv

\* Time goes on, or the clock is set back.
LEMMA ClockStep ==
    ASSUME ConsentInv, clock' \in 0..MaxTime, UNCHANGED <<consent, issued, job, wins>>
    PROVE  ConsentInv'
  <1>1. TypeOK'
    BY DEF ConsentInv, TypeOK
  <1>2. OneRowEach' /\ GrantsFresh'
    BY DEF ConsentInv, OneRowEach, GrantsFresh, LeaseIds
  <1>3. WinsKnown' /\ OneRevokeWins'
    BY DEF ConsentInv, WinsKnown, OneRevokeWins, LeaseIds
  <1>4. QED
    BY <1>1, <1>2, <1>3 DEF ConsentInv

\* A process takes the time for a write, or gives one up.
LEMMA JobStep ==
    ASSUME ConsentInv, NEW p \in Proc, NEW j \in Jobs, job' = [job EXCEPT ![p] = j],
           UNCHANGED <<clock, consent, wins>>, issued \in 0..MaxGrants, issued' \in 0..MaxGrants,
           issued <= issued',
           j.op = "grant" => /\ j.lease.revoked_at = Null
                             /\ j.lease.consent_id = issued + 1 /\ issued' = issued + 1
    PROVE  ConsentInv'
  <1>1. TypeOK'
    BY DEF ConsentInv, TypeOK
  <1>2. issued \in Nat /\ issued' \in Nat /\ 1..issued \subseteq 1..issued'
    BY BoundsAssumption
  <1>3. OneRowEach'
    BY <1>2 DEF ConsentInv, OneRowEach, LeaseIds
  <1>4. job'[p] = j /\ \A q \in Proc \ {p} : job'[q] = job[q]
    BY DEF ConsentInv, TypeOK
  <1>5. LeaseIds' = LeaseIds /\ LeaseIds \subseteq 1..issued
    BY DEF LeaseIds, ConsentInv, OneRowEach
  <1>6. GrantsFresh'
    <2>1. ASSUME NEW q \in Proc, job'[q].op = "grant"
          PROVE  /\ job'[q].lease.consent_id \in (1..issued') \ LeaseIds
                 /\ job'[q].lease.revoked_at = Null
      <3>1. CASE q = p
        BY <1>2, <1>4, <1>5, <2>1, <3>1
      <3>2. CASE q # p
        BY <1>2, <1>4, <1>5, <2>1, <3>2 DEF ConsentInv, GrantsFresh
      <3>3. QED
        BY <3>1, <3>2
    <2>2. ASSUME NEW q \in Proc, NEW r \in Proc \ {q}, job'[q].op = "grant", job'[r].op = "grant"
          PROVE  job'[r].lease.consent_id # job'[q].lease.consent_id
      <3>1. \A s \in Proc \ {p} :
               job[s].op = "grant" => job[s].lease.consent_id \in 1..issued
        BY DEF ConsentInv, GrantsFresh
      <3>2. CASE q = p \/ r = p
        BY <1>2, <1>4, <2>2, <3>1, <3>2
      <3>3. CASE q # p /\ r # p
        BY <1>4, <2>2, <3>3 DEF ConsentInv, GrantsFresh
      <3>4. QED
        BY <3>2, <3>3
    <2>3. QED
      BY <1>5, <2>1, <2>2 DEF GrantsFresh
  <1>7. WinsKnown' /\ OneRevokeWins'
    BY <1>5 DEF ConsentInv, WinsKnown, OneRevokeWins
  <1>8. QED
    BY <1>1, <1>3, <1>6, <1>7 DEF ConsentInv

LEMMA FinishGrantStep ==
    ASSUME ConsentInv, NEW p \in Proc, FinishGrant(p)
    PROVE  ConsentInv'
  <1> DEFINE new == job[p].lease
  <1>1. /\ consent' = consent \cup {new} /\ new \in Lease /\ new.revoked_at = Null
        /\ new.consent_id \in (1..issued) \ LeaseIds
        /\ issued' = issued /\ wins' = wins /\ clock' = clock
    BY JobTyped DEF FinishGrant, ConsentInv, GrantsFresh
  <1>2. job'[p] = NoJob /\ \A q \in Proc \ {p} : job'[q] = job[q]
    BY DEF FinishGrant, ConsentInv, TypeOK
  <1>3. TypeOK'
    BY <1>1 DEF FinishGrant, ConsentInv, TypeOK, Jobs
  <1>4. LeaseIds' = LeaseIds \cup {new.consent_id}
    BY <1>1 DEF LeaseIds
  <1>5. OneRowEach'
    BY <1>1, <1>4 DEF ConsentInv, OneRowEach, LeaseIds
  <1>6. GrantsFresh'
    <2>1. ASSUME NEW q \in Proc, job'[q].op = "grant"
          PROVE  q # p /\ job[q].op = "grant" /\ job'[q] = job[q]
      BY <1>2, <2>1 DEF NoJob
    <2>2. \A q \in Proc \ {p} : job[q].op = "grant" => job[q].lease.consent_id # new.consent_id
      BY DEF ConsentInv, GrantsFresh, FinishGrant
    <2>3. QED
      BY <1>1, <1>4, <2>1, <2>2 DEF ConsentInv, GrantsFresh
  <1>7. WinsKnown'
    BY <1>1, <1>4 DEF ConsentInv, WinsKnown
  <1>8. OneRevokeWins'
    <2>1. ASSUME NEW id \in ConsentIds, wins[id] = 1 PROVE id # new.consent_id
      BY <1>1, <2>1 DEF ConsentInv, WinsKnown
    <2>2. QED
      BY <1>1, <2>1 DEF ConsentInv, OneRevokeWins
  <1>9. QED
    BY <1>3, <1>5, <1>6, <1>7, <1>8 DEF ConsentInv

\* An UPDATE of revoked_at keeps the ids, and no revocation is undone.
LEMMA MarkingStep ==
    ASSUME ConsentInv, NEW p \in Proc, NEW which \in SUBSET consent, NEW now \in 0..MaxTime,
           consent' = MarkRevoked(consent, which, now), job' = [job EXCEPT ![p] = NoJob],
           UNCHANGED <<clock, issued>>
    PROVE  /\ OneRowEach' /\ GrantsFresh' /\ LeaseIds' = LeaseIds
           /\ consent' \subseteq Lease /\ job' \in [Proc -> Jobs]
           /\ \A m \in consent' : m.revoked_at # Null
                                  \/ (m \in consent /\ m \notin which)
           /\ \A l \in consent, m \in consent' :
                 l.consent_id = m.consent_id /\ (l.revoked_at # Null \/ l \in which) => m.revoked_at # Null
  <1>1. consent \subseteq Lease
    BY DEF ConsentInv, TypeOK
  <1>2. /\ consent' \subseteq Lease
        /\ \A l \in consent \ which : l \in consent'
        /\ \A l \in which : [l EXCEPT !.revoked_at = now] \in consent'
        /\ \A m \in consent' : \/ m \in consent \ which
                               \/ \E l \in which : m = [l EXCEPT !.revoked_at = now]
    BY <1>1, Marked
  <1>3. ASSUME NEW m \in consent'
        PROVE  \E l \in consent : /\ m.consent_id = l.consent_id
                                  /\ m = IF l \in which THEN [l EXCEPT !.revoked_at = now] ELSE l
                                  /\ l \in which => m.revoked_at # Null
    BY <1>1, <1>2, Mark
  <1>4. LeaseIds' = LeaseIds
    <2>1. LeaseIds' \subseteq LeaseIds
      BY <1>3 DEF LeaseIds
    <2>2. ASSUME NEW l \in consent PROVE \E m \in consent' : m.consent_id = l.consent_id
      <3>1. CASE l \in which
        <4>1. PICK m \in consent' : m = [l EXCEPT !.revoked_at = now]
          BY <1>2, <3>1
        <4>2. QED
          BY <1>1, <4>1, Mark
      <3>2. CASE l \notin which
        BY <1>2, <3>2
      <3>3. QED
        BY <3>1, <3>2
    <2>3. QED
      BY <2>1, <2>2 DEF LeaseIds
  <1>5. OneRowEach'
    <2>1. ASSUME NEW l \in consent', NEW m \in consent', l.consent_id = m.consent_id PROVE l = m
      BY <1>3, <2>1 DEF ConsentInv, OneRowEach
    <2>2. LeaseIds' \subseteq 1..issued'
      BY <1>4 DEF ConsentInv, OneRowEach
    <2>3. QED
      BY <2>1, <2>2 DEF OneRowEach
  <1>6. job' \in [Proc -> Jobs] /\ job'[p] = NoJob /\ \A q \in Proc \ {p} : job'[q] = job[q]
    BY DEF ConsentInv, TypeOK, Jobs
  <1>7. GrantsFresh'
    BY <1>4, <1>6 DEF ConsentInv, GrantsFresh, NoJob
  <1>8. \A m \in consent' : m.revoked_at # Null \/ (m \in consent /\ m \notin which)
    BY <1>1, <1>2, Mark
  <1>9. ASSUME NEW l \in consent, NEW m \in consent', l.consent_id = m.consent_id,
               l.revoked_at # Null \/ l \in which
        PROVE  m.revoked_at # Null
    BY <1>3, <1>9 DEF ConsentInv, OneRowEach
  <1>10. QED
    BY <1>2, <1>4, <1>5, <1>6, <1>7, <1>8, <1>9

LEMMA FinishRevokeStep ==
    ASSUME ConsentInv, NEW p \in Proc, FinishRevoke(p)
    PROVE  ConsentInv'
  <1>1. PICK rid \in ConsentIds, now \in 0..MaxTime : job[p].id = rid /\ job[p].now = now
    BY JobTyped DEF FinishRevoke, ConsentInv
  <1>2. PICK rows \in SUBSET consent :
            /\ rows = {l \in consent : l.consent_id = rid /\ l.revoked_at = Null}
            /\ consent' = MarkRevoked(consent, rows, now)
            /\ wins' = [wins EXCEPT ![rid] = IF rows # {} THEN @ + 1 ELSE @]
    BY <1>1 DEF FinishRevoke, ToRevoke
  <1>3. job' = [job EXCEPT ![p] = NoJob] /\ UNCHANGED <<clock, issued>>
    BY DEF FinishRevoke
  <1>4. /\ OneRowEach' /\ GrantsFresh' /\ LeaseIds' = LeaseIds
        /\ consent' \subseteq Lease /\ job' \in [Proc -> Jobs]
        /\ \A l \in consent, m \in consent' :
              l.consent_id = m.consent_id /\ (l.revoked_at # Null \/ l \in rows) => m.revoked_at # Null
    BY <1>2, <1>3, MarkingStep
  <1>5. wins \in [ConsentIds -> Nat]
    BY DEF ConsentInv, TypeOK
  <1>6. wins' \in [ConsentIds -> Nat] /\ \A id \in ConsentIds \ {rid} : wins'[id] = wins[id]
    BY <1>2, <1>5
  <1>7. TypeOK'
    BY <1>3, <1>4, <1>6 DEF ConsentInv, TypeOK
  \* A row that was not revoked had not been won.
  <1>8. ASSUME rows # {} PROVE wins[rid] = 0 /\ rid \in LeaseIds
    <2>1. PICK l \in consent : l.consent_id = rid /\ l.revoked_at = Null
      BY <1>2, <1>8
    <2>2. wins[rid] <= 1 /\ wins[rid] # 1
      BY <2>1 DEF ConsentInv, OneRevokeWins
    <2>3. QED
      BY <1>5, <2>1, <2>2 DEF LeaseIds
  <1>9. wins'[rid] = IF rows # {} THEN 1 ELSE wins[rid]
    BY <1>2, <1>5, <1>8
  <1>10. WinsKnown'
    BY <1>4, <1>6, <1>8, <1>9 DEF ConsentInv, WinsKnown
  <1>11. OneRevokeWins'
    <2>1. ASSUME NEW id \in ConsentIds PROVE wins'[id] <= 1
      BY <1>6, <1>9 DEF ConsentInv, OneRevokeWins
    <2>2. ASSUME NEW id \in ConsentIds, wins'[id] = 1, NEW m \in consent', m.consent_id = id
          PROVE  m.revoked_at # Null
      <3>1. PICK l \in consent : l.consent_id = id
        BY <1>4, <2>2 DEF LeaseIds
      <3>2. l.revoked_at # Null \/ l \in rows
        <4>1. CASE id = rid /\ rows # {}
          BY <1>2, <3>1, <4>1
        <4>2. CASE wins[id] = 1
          BY <3>1, <4>2 DEF ConsentInv, OneRevokeWins
        <4>3. QED
          BY <1>6, <1>9, <2>2, <4>1, <4>2
      <3>3. QED
        BY <1>4, <2>2, <3>1, <3>2
    <2>3. QED
      BY <2>1, <2>2 DEF OneRevokeWins
  <1>12. QED
    BY <1>4, <1>7, <1>10, <1>11 DEF ConsentInv

LEMMA FinishCleanupStep ==
    ASSUME ConsentInv, NEW p \in Proc, FinishCleanup(p)
    PROVE  ConsentInv'
  <1>1. PICK now \in 0..MaxTime : job[p].now = now
    BY JobTyped DEF FinishCleanup, ConsentInv
  <1>2. PICK rows \in SUBSET consent : /\ rows = ToCleanUp(consent, now)
                                      /\ consent' = MarkRevoked(consent, rows, now)
    BY <1>1 DEF FinishCleanup, ToCleanUp
  <1>3. job' = [job EXCEPT ![p] = NoJob] /\ UNCHANGED <<clock, issued>> /\ wins' = wins
    BY DEF FinishCleanup
  <1>4. /\ OneRowEach' /\ GrantsFresh' /\ LeaseIds' = LeaseIds
        /\ consent' \subseteq Lease /\ job' \in [Proc -> Jobs]
        /\ \A l \in consent, m \in consent' :
              l.consent_id = m.consent_id /\ (l.revoked_at # Null \/ l \in rows) => m.revoked_at # Null
    BY <1>2, <1>3, MarkingStep
  <1>5. TypeOK'
    BY <1>3, <1>4 DEF ConsentInv, TypeOK
  <1>6. WinsKnown'
    BY <1>3, <1>4 DEF ConsentInv, WinsKnown
  <1>7. OneRevokeWins'
    <2>1. ASSUME NEW id \in ConsentIds, wins[id] = 1, NEW m \in consent', m.consent_id = id
          PROVE  m.revoked_at # Null
      <3>1. PICK l \in consent : l.consent_id = id
        BY <1>4, <2>1 DEF LeaseIds
      <3>2. l.revoked_at # Null
        BY <2>1, <3>1 DEF ConsentInv, OneRevokeWins
      <3>3. QED
        BY <1>4, <2>1, <3>1, <3>2
    <2>2. QED
      BY <1>3, <2>1 DEF ConsentInv, OneRevokeWins
  <1>8. QED
    BY <1>4, <1>5, <1>6, <1>7 DEF ConsentInv

LEMMA NextConsentInv == ConsentInv /\ [Next]_vars => ConsentInv'
  <1> SUFFICES ASSUME ConsentInv, [Next]_vars PROVE ConsentInv'
    OBVIOUS
  <1>1. issued \in 0..MaxGrants /\ clock \in 0..MaxTime
    BY DEF ConsentInv, TypeOK
  <1>2. CASE Tick
    BY <1>1, <1>2, BoundsAssumption, ClockStep DEF Tick
  <1>3. ASSUME NEW time \in 0..MaxTime, SetBack(time) PROVE ConsentInv'
    BY <1>3, ClockStep DEF SetBack
  <1>4. ASSUME NEW p \in Proc, NEW pattern \in Paths, NEW scope \in Scopes,
               NEW granularity \in Granularities, NEW window \in Windows, NEW default \in Defaults,
               StartGrant(p, pattern, scope, granularity, window, default)
        PROVE  ConsentInv'
    <2>1. PICK lease : /\ lease = [consent_id |-> issued + 1, pattern |-> pattern, scope |-> scope,
                                   granularity |-> granularity, granted_at |-> clock,
                                   expires_at |-> Expiry(clock, window, default), revoked_at |-> Null]
                       /\ lease \in Lease
      BY <1>4, GrantTyped DEF StartGrant, ConsentInv
    <2>2. PICK j \in Jobs : j = GrantJob(lease) /\ j.op = "grant" /\ j.lease = lease
      <3>1. GrantJob(lease) \in Jobs
        BY <2>1 DEF GrantJob, Jobs
      <3>2. QED
        BY <3>1 DEF GrantJob
    <2>3. Start(p, j) /\ issued' = issued + 1 /\ issued < MaxGrants
      BY <1>4, <2>1, <2>2 DEF StartGrant
    <2>4. issued' \in 0..MaxGrants /\ issued <= issued'
      BY <1>1, <2>3, BoundsAssumption
    <2>5. job' = [job EXCEPT ![p] = j] /\ UNCHANGED <<clock, consent, wins>>
      BY <2>3 DEF Start
    <2>6. j.lease.revoked_at = Null /\ j.lease.consent_id = issued + 1
      BY <2>1, <2>2
    <2>7. QED
      BY <1>1, <2>3, <2>4, <2>5, <2>6, JobStep
  <1>5. ASSUME NEW p \in Proc, NEW id \in ConsentIds, StartRevoke(p, id) PROVE ConsentInv'
    <2>1. PICK j \in Jobs : j = RevokeJob(id, clock) /\ j.op = "revoke"
      <3>1. RevokeJob(id, clock) \in Jobs
        BY <1>1 DEF RevokeJob, Jobs
      <3>2. QED
        BY <3>1 DEF RevokeJob
    <2>2. /\ job' = [job EXCEPT ![p] = j] /\ UNCHANGED <<clock, consent, wins>>
          /\ issued' = issued /\ issued <= issued'
      BY <1>1, <1>5, <2>1, BoundsAssumption DEF StartRevoke, Start
    <2>3. QED
      BY <1>1, <2>1, <2>2, JobStep
  <1>6. ASSUME NEW p \in Proc, StartCleanup(p) PROVE ConsentInv'
    <2>1. PICK j \in Jobs : j = CleanupJob(clock) /\ j.op = "cleanup"
      <3>1. CleanupJob(clock) \in Jobs
        BY <1>1 DEF CleanupJob, Jobs
      <3>2. QED
        BY <3>1 DEF CleanupJob
    <2>2. /\ job' = [job EXCEPT ![p] = j] /\ UNCHANGED <<clock, consent, wins>>
          /\ issued' = issued /\ issued <= issued'
      BY <1>1, <1>6, <2>1, BoundsAssumption DEF StartCleanup, Start
    <2>3. QED
      BY <1>1, <2>1, <2>2, JobStep
  <1>7. ASSUME NEW p \in Proc, Fail(p) PROVE ConsentInv'
    <2>1. NoJob \in Jobs /\ NoJob.op = "none"
      BY DEF NoJob, Jobs
    <2>2. /\ job' = [job EXCEPT ![p] = NoJob] /\ UNCHANGED <<clock, consent, wins>>
          /\ issued' = issued /\ issued <= issued'
      BY <1>1, <1>7, <2>1, BoundsAssumption DEF Fail
    <2>3. QED
      BY <1>1, <2>1, <2>2, JobStep
  <1>8. ASSUME NEW p \in Proc, FinishGrant(p) \/ FinishRevoke(p) \/ FinishCleanup(p) PROVE ConsentInv'
    BY <1>8, FinishGrantStep, FinishRevokeStep, FinishCleanupStep
  <1>9. CASE UNCHANGED vars
    BY <1>1, <1>9, ClockStep DEF vars
  <1>10. QED
    BY <1>2, <1>3, <1>4, <1>5, <1>6, <1>7, <1>8, <1>9 DEF Next

-----------------------------------------------------------------------------
(* What each step does to the table                                        *)

\* The only steps that change the table are the ends of grant(), revoke() and
\* cleanup_expired(), and they leave the clock alone.
LEMMA TableChanges ==
    ASSUME ConsentInv, [Next]_vars
    PROVE  \/ consent' = consent /\ clock' = clock
           \/ consent' = consent /\ clock' # clock
           \/ /\ clock' = clock
              /\ \E p \in Proc :
                    /\ job'[p] = NoJob
                    /\ \/ job[p].op = "grant" /\ consent' = consent \cup {job[p].lease}
                       \/ \E now \in 0..MaxTime :
                             /\ job[p].op = "revoke" /\ job[p].now = now
                             /\ consent' = MarkRevoked(consent, ToRevoke(consent, job[p].id), now)
                       \/ \E now \in 0..MaxTime :
                             /\ job[p].op = "cleanup" /\ job[p].now = now
                             /\ consent' = MarkRevoked(consent, ToCleanUp(consent, now), now)
  <1>1. ASSUME NEW p \in Proc, FinishGrant(p)
        PROVE  /\ clock' = clock /\ job'[p] = NoJob
               /\ job[p].op = "grant" /\ consent' = consent \cup {job[p].lease}
    BY <1>1 DEF FinishGrant, ConsentInv, TypeOK
  <1>2. ASSUME NEW p \in Proc, FinishRevoke(p)
        PROVE  /\ clock' = clock /\ job'[p] = NoJob
               /\ job[p].op = "revoke" /\ job[p].now \in 0..MaxTime
               /\ consent' = MarkRevoked(consent, ToRevoke(consent, job[p].id), job[p].now)
    BY <1>2, JobTyped DEF FinishRevoke, ConsentInv, TypeOK
  <1>3. ASSUME NEW p \in Proc, FinishCleanup(p)
        PROVE  /\ clock' = clock /\ job'[p] = NoJob
               /\ job[p].op = "cleanup" /\ job[p].now \in 0..MaxTime
               /\ consent' = MarkRevoked(consent, ToCleanUp(consent, job[p].now), job[p].now)
    BY <1>3, JobTyped DEF FinishCleanup, ConsentInv, TypeOK
  <1>4. ASSUME NEW p \in Proc, FinishGrant(p) \/ FinishRevoke(p) \/ FinishCleanup(p)
        PROVE  /\ clock' = clock
               /\ \E q \in Proc :
                    /\ job'[q] = NoJob
                    /\ \/ job[q].op = "grant" /\ consent' = consent \cup {job[q].lease}
                       \/ \E now \in 0..MaxTime :
                             /\ job[q].op = "revoke" /\ job[q].now = now
                             /\ consent' = MarkRevoked(consent, ToRevoke(consent, job[q].id), now)
                       \/ \E now \in 0..MaxTime :
                             /\ job[q].op = "cleanup" /\ job[q].now = now
                             /\ consent' = MarkRevoked(consent, ToCleanUp(consent, now), now)
    BY <1>1, <1>2, <1>3, <1>4
  <1>5. CASE Tick \/ \E time \in 0..MaxTime : SetBack(time)
    BY <1>5 DEF Tick, SetBack
  <1>6. ASSUME NEW p, Fail(p) \/ StartCleanup(p) \/ \E id \in ConsentIds : StartRevoke(p, id)
        PROVE  consent' = consent /\ clock' = clock
    BY <1>6 DEF Fail, StartCleanup, StartRevoke, Start
  <1>7. ASSUME NEW p, NEW pattern, NEW scope, NEW granularity, NEW window, NEW default,
               StartGrant(p, pattern, scope, granularity, window, default)
        PROVE  consent' = consent /\ clock' = clock
    BY <1>7 DEF StartGrant, Start
  <1>8. CASE UNCHANGED vars
    BY <1>8 DEF vars
  <1>9. QED
    BY <1>4, <1>5, <1>6, <1>7, <1>8 DEF Next

\* After a marking a lease that is not revoked is one that was there, and a
\* lease that was not marked is still there.
LEMMA MarkedActive ==
    ASSUME ConsentInv, NEW which \in SUBSET consent, NEW now \in 0..MaxTime,
           consent' = MarkRevoked(consent, which, now)
    PROVE  /\ \A m \in consent' : m.revoked_at = Null => m \in consent
           /\ \A l \in consent : l \in consent' \/ l \in which
  <1>1. consent \subseteq Lease
    BY DEF ConsentInv, TypeOK
  <1>2. /\ consent' \subseteq Lease
        /\ \A l \in consent \ which : l \in consent'
        /\ \A l \in which : [l EXCEPT !.revoked_at = now] \in consent'
        /\ \A m \in consent' : \/ m \in consent \ which
                               \/ \E l \in which : m = [l EXCEPT !.revoked_at = now]
    BY <1>1, Marked
  <1>3. ASSUME NEW m \in consent', m.revoked_at = Null PROVE m \in consent
    BY <1>1, <1>2, <1>3, Mark
  <1>4. QED
    BY <1>2, <1>3

\* A lease that is over stays so while the clock does not go back.
LEMMA ActiveAntitone ==
    ASSUME NEW l \in Lease, NEW now \in Int, NEW later \in Int, now <= later, Active(l, later)
    PROVE  Active(l, now)
  BY LeaseTyped DEF Active

LEMMA KeptStep ==
    ASSUME ConsentInv, ConsentInv', [Next]_vars, NEW l \in consent
    PROVE  \E m \in consent' :
              /\ KeptAs(l, m)
              /\ \A n \in consent' : n.consent_id = l.consent_id => n = m
  <1>1. consent \subseteq Lease /\ consent' \subseteq Lease
    BY DEF ConsentInv, TypeOK
  <1>2. ASSUME NEW which \in SUBSET consent, NEW now \in 0..MaxTime,
               consent' = MarkRevoked(consent, which, now), \A m \in which : m.revoked_at = Null
        PROVE  \E m \in consent' : m.consent_id = l.consent_id /\ KeptAs(l, m)
    <2>1. CASE l \in which
      <3>1. PICK m \in consent' : m = [l EXCEPT !.revoked_at = now]
        BY <1>2, <2>1 DEF MarkRevoked
      <3>2. l \in Lease /\ l.revoked_at = Null
        BY <1>1, <1>2, <2>1
      <3>3. m.revoked_at # Null /\ [m EXCEPT !.revoked_at = Null] = l
        BY <3>1, <3>2, Mark
      <3>4. m.consent_id = l.consent_id
        BY <3>1, <3>2 DEF Lease
      <3>5. QED
        BY <3>2, <3>3, <3>4 DEF KeptAs
    <2>2. CASE l \notin which
      BY <1>1, <1>2, <2>2, Marked DEF KeptAs
    <2>3. QED
      BY <2>1, <2>2
  <1>3. \A id : /\ ToRevoke(consent, id) \in SUBSET consent
                /\ \A m \in ToRevoke(consent, id) : m.revoked_at = Null
    BY DEF ToRevoke
  <1>4. \A now : /\ ToCleanUp(consent, now) \in SUBSET consent
                 /\ \A m \in ToCleanUp(consent, now) : m.revoked_at = Null
    BY DEF ToCleanUp
  <1>5. l \in consent' => \E m \in consent' : m.consent_id = l.consent_id /\ KeptAs(l, m)
    BY DEF KeptAs
  <1>6. PICK m \in consent' : m.consent_id = l.consent_id /\ KeptAs(l, m)
    BY <1>2, <1>3, <1>4, <1>5, TableChanges
  <1>7. \A n \in consent' : n.consent_id = m.consent_id => n = m
    BY DEF ConsentInv, OneRowEach
  <1>8. QED
    BY <1>6, <1>7

LEMMA BeginsStep ==
    ASSUME ConsentInv, ConsentInv', [Next]_vars, NEW path, NEW scope,
           AllowedNext(path, scope), ~Allowed(path, scope)
    PROVE  \/ \E p \in Proc :
                 /\ job[p].op = "grant" /\ job'[p] = NoJob
                 /\ job[p].lease.scope = scope
                 /\ IsPathCovered(path, job[p].lease)
           \/ /\ clock' < clock
              /\ \E l \in consent : l.revoked_at = Null /\ l.expires_at \in (clock' + 1)..clock
  <1>1. PICK m \in consent' : Active(m, clock') /\ m.scope = scope /\ IsPathCovered(path, m)
    BY DEF AllowedNext, Covering, ListActive
  <1>2. \A l \in consent : ~(Active(l, clock) /\ l.scope = scope /\ IsPathCovered(path, l))
    BY DEF Allowed, Covering, ListActive
  <1>3. /\ consent \subseteq Lease /\ m \in Lease /\ clock \in Int /\ clock' \in Int
        /\ m.revoked_at = Null
    BY <1>1, BoundsAssumption DEF ConsentInv, TypeOK, Active
  <1>4. CASE consent' = consent
    <2>1. ~Active(m, clock) /\ m \in consent
      BY <1>1, <1>2, <1>4
    <2>2. clock' < clock
      BY <1>1, <1>3, <2>1, ActiveAntitone
    <2>3. m.expires_at \in (clock' + 1)..clock
      BY <1>1, <1>3, <2>1, LeaseTyped DEF Active
    <2>4. QED
      BY <1>3, <2>1, <2>2, <2>3
  <1>5. ASSUME clock' = clock, NEW p \in Proc, job'[p] = NoJob, job[p].op = "grant",
               consent' = consent \cup {job[p].lease}
        PROVE  job[p].lease.scope = scope /\ IsPathCovered(path, job[p].lease)
    BY <1>1, <1>2, <1>5
  <1>6. ASSUME clock' = clock, NEW which \in SUBSET consent, NEW now \in 0..MaxTime,
               consent' = MarkRevoked(consent, which, now)
        PROVE  FALSE
    BY <1>1, <1>2, <1>3, <1>6, MarkedActive
  <1>7. \A id, now : /\ ToRevoke(consent, id) \in SUBSET consent
                     /\ ToCleanUp(consent, now) \in SUBSET consent
    BY DEF ToRevoke, ToCleanUp
  <1>8. QED
    BY <1>4, <1>5, <1>6, <1>7, TableChanges

LEMMA EndsStep ==
    ASSUME ConsentInv, ConsentInv', [Next]_vars, NEW path, NEW scope,
           Allowed(path, scope), ~AllowedNext(path, scope), NEW l \in ListActive(consent, clock),
           l.scope = scope, IsPathCovered(path, l)
    PROVE  \/ l.expires_at # Null /\ l.expires_at <= clock'
           \/ \E p \in Proc :
                 /\ job[p].op = "revoke" /\ job'[p] = NoJob
                 /\ job[p].id = l.consent_id
           \/ \E p \in Proc :
                 /\ job[p].op = "cleanup" /\ job'[p] = NoJob
                 /\ l.expires_at # Null /\ l.expires_at <= job[p].now
  <1>1. l \in consent /\ Active(l, clock)
    BY DEF ListActive
  <1>2. ~(l \in consent' /\ Active(l, clock'))
    BY DEF AllowedNext, Covering, ListActive
  <1>3. /\ l \in Lease /\ clock \in Int /\ clock' \in Int
    BY <1>1, BoundsAssumption DEF ConsentInv, TypeOK
  <1>4. CASE consent' = consent
    BY <1>1, <1>2, <1>3, <1>4, LeaseTyped DEF Active
  <1>5. ASSUME clock' = clock, NEW p \in Proc, consent' = consent \cup {job[p].lease}
        PROVE  FALSE
    BY <1>1, <1>2, <1>5
  <1>6. ASSUME clock' = clock, NEW which \in SUBSET consent, NEW now \in 0..MaxTime,
               consent' = MarkRevoked(consent, which, now)
        PROVE  l \in which
    BY <1>1, <1>2, <1>6, MarkedActive
  <1>7. \A id : /\ ToRevoke(consent, id) \in SUBSET consent
                /\ \A m \in ToRevoke(consent, id) : m.consent_id = id
    BY DEF ToRevoke
  <1>8. \A now : /\ ToCleanUp(consent, now) \in SUBSET consent
                 /\ \A m \in ToCleanUp(consent, now) : m.expires_at # Null /\ m.expires_at <= now
    BY DEF ToCleanUp
  <1>9. QED
    BY <1>4, <1>5, <1>6, <1>7, <1>8, TableChanges

-----------------------------------------------------------------------------
(* The theorems                                                            *)

\* The inductive invariant: ids are drawn once, a lease is one row, and what was
\* revoked with success is there and revoked.
THEOREM ConsentInductiveInvariant == Spec => []ConsentInv
  BY InitConsentInv, NextConsentInv, PTL DEF Spec

\* Every variable, and every write a process is about to make, has its type
\* (consent.py:57-131).
THEOREM ConsentTypeCorrect == Spec => []TypeOK
  <1>1. ConsentInv => TypeOK
    BY DEF ConsentInv
  <1>2. QED
    BY <1>1, ConsentInductiveInvariant, PTL

\* revoke() returns True to at most one of the processes that revoke a lease,
\* and then it is revoked for good (consent.py:89-106).
THEOREM RevokeWinsOnce == Spec => []OneRevokeWins
  <1>1. ConsentInv => OneRevokeWins
    BY DEF ConsentInv
  <1>2. QED
    BY <1>1, ConsentInductiveInvariant, PTL

\* No step loses the row of a lease, adds another of its id, or changes more of
\* it than that it is revoked now, once (consent.py:74-106, cleanup_expired).
THEOREM LeasesAreKept == Spec => LeasesKept
  <1>1. ConsentInv /\ ConsentInv' /\ [Next]_vars =>
           [\A l \in consent :
               \E m \in consent' :
                  /\ KeptAs(l, m)
                  /\ \A n \in consent' : n.consent_id = l.consent_id => n = m]_vars
    BY KeptStep
  <1>2. QED
    BY <1>1, ConsentInductiveInvariant, PTL DEF Spec, LeasesKept

\* Access begins with a grant for it, or with a clock that is set back.
THEOREM AccessBegins == Spec => AccessBeginsWithGrant
  <1>1. ConsentInv /\ ConsentInv' /\ [Next]_vars =>
           [\A path \in Paths, scope \in Scopes :
               AllowedNext(path, scope) /\ ~Allowed(path, scope) =>
                   \/ \E p \in Proc :
                         /\ job[p].op = "grant" /\ job'[p] = NoJob
                         /\ job[p].lease.scope = scope
                         /\ IsPathCovered(path, job[p].lease)
                   \/ /\ clock' < clock
                      /\ \E l \in consent : l.revoked_at = Null /\ l.expires_at \in (clock' + 1)..clock]_vars
    BY BeginsStep
  <1>2. QED
    BY <1>1, ConsentInductiveInvariant, PTL DEF Spec, AccessBeginsWithGrant

\* Access ends with the expiry of what gave it, with a revocation of it by name,
\* or with a clean-up that came after its expiry.
THEOREM AccessEnds == Spec => AccessEndsWithRevokeOrExpiry
  <1>1. ConsentInv /\ ConsentInv' /\ [Next]_vars =>
           [\A path \in Paths, scope \in Scopes :
               Allowed(path, scope) /\ ~AllowedNext(path, scope) =>
                   \A l \in ListActive(consent, clock) :
                       l.scope = scope /\ IsPathCovered(path, l) =>
                           \/ l.expires_at # Null /\ l.expires_at <= clock'
                           \/ \E p \in Proc :
                                 /\ job[p].op = "revoke" /\ job'[p] = NoJob
                                 /\ job[p].id = l.consent_id
                           \/ \E p \in Proc :
                                 /\ job[p].op = "cleanup" /\ job'[p] = NoJob
                                 /\ l.expires_at # Null /\ l.expires_at <= job[p].now]_vars
    BY EndsStep
  <1>2. QED
    BY <1>1, ConsentInductiveInvariant, PTL DEF Spec, AccessEndsWithRevokeOrExpiry
=============================================================================
