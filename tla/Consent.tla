------------------------------ MODULE Consent ------------------------------
(***************************************************************************)
(* ConsentManager (consent.py) in several processes on one table: CLI      *)
(* commands that grant, revoke and clean up, session hooks that clean up,  *)
(* servers that check.  Each operation reads the clock first and then      *)
(* executes one statement, and a write statement may wait for the lock up  *)
(* to the busy timeout: what it writes may carry a time already past.  The *)
(* time is the computer's (datetime.now): it may be set back.              *)
(***************************************************************************)
EXTENDS ConsentTable

CONSTANTS Proc,
          Paths,       \* the paths leases are granted for and checked on
          Windows,     \* window_seconds: integers and Null
          Defaults,    \* default_expiry_hours of the processes' configurations
          MaxGrants,   \* bound: leases
          MaxTime      \* bound: the clock

ASSUME WindowsAssumption == Windows \subseteq Int \cup {Null}
ASSUME DefaultsAssumption == Defaults \subseteq Nat
ASSUME BoundsAssumption == MaxGrants \in Nat /\ MaxTime \in Nat
ASSUME NullAssumption == Null \notin Int

VARIABLES clock,
          consent,     \* the table
          issued,      \* how many consent ids were drawn (uuid4: always fresh)
          job,         \* job[p]: the write p has taken the time for, or NoJob
          wins         \* wins[id]: how often revoke(id) returned True

vars == <<clock, consent, issued, job, wins>>

ConsentIds == 1..MaxGrants
Lease == [consent_id : ConsentIds, pattern : Paths, scope : Scopes,
          granularity : Granularities, granted_at : 0..MaxTime,
          expires_at : Int \cup {Null}, revoked_at : (0..MaxTime) \cup {Null}]

NoJob == [op |-> "none"]
GrantJob(lease) == [op |-> "grant", lease |-> lease]
RevokeJob(id, now) == [op |-> "revoke", id |-> id, now |-> now]
CleanupJob(now) == [op |-> "cleanup", now |-> now]
Jobs == {NoJob} \cup [op : {"grant"}, lease : Lease]
                \cup [op : {"revoke"}, id : ConsentIds, now : 0..MaxTime]
                \cup [op : {"cleanup"}, now : 0..MaxTime]

Init ==
    /\ clock = 0
    /\ consent = {}
    /\ issued = 0
    /\ job = [p \in Proc |-> NoJob]
    /\ wins = [id \in ConsentIds |-> 0]

Tick ==
    /\ clock < MaxTime
    /\ clock' = clock + 1
    /\ UNCHANGED <<consent, issued, job, wins>>

\* The computer's clock is set back.
SetBack(time) ==
    /\ time < clock
    /\ clock' = time
    /\ UNCHANGED <<consent, issued, job, wins>>

Start(p, j) ==
    /\ job[p] = NoJob
    /\ job' = [job EXCEPT ![p] = j]
    /\ UNCHANGED <<clock, consent, wins>>

\* Mutant of StartGrant: the id is the last one drawn.
StartGrantOldId(p, pattern, scope, granularity, window, default) ==
    /\ issued < MaxGrants
    /\ issued' = issued + 1
    /\ Start(p, GrantJob([consent_id |-> issued, pattern |-> pattern, scope |-> scope,
                          granularity |-> granularity, granted_at |-> clock,
                          expires_at |-> Expiry(clock, window, default),
                          revoked_at |-> Null]))

\* grant(): arguments outside VALID_SCOPES or VALID_GRANULARITIES are refused
\* before anything is read or written.
StartGrant(p, pattern, scope, granularity, window, default) ==
    /\ issued < MaxGrants
    /\ issued' = issued + 1
    /\ Start(p, GrantJob([consent_id |-> issued + 1, pattern |-> pattern, scope |-> scope,
                          granularity |-> granularity, granted_at |-> clock,
                          expires_at |-> Expiry(clock, window, default),
                          revoked_at |-> Null]))

FinishGrant(p) ==
    /\ job[p].op = "grant"
    /\ consent' = consent \cup {job[p].lease}
    /\ job' = [job EXCEPT ![p] = NoJob]
    /\ UNCHANGED <<clock, issued, wins>>

\* revoke(id), for an id that grant() or list_active() has shown.
StartRevoke(p, id) ==
    /\ \E l \in consent : l.consent_id = id
    /\ Start(p, RevokeJob(id, clock))
    /\ UNCHANGED issued

\* It returns True when its UPDATE changed a row.
FinishRevoke(p) ==
    /\ job[p].op = "revoke"
    /\ LET rows == ToRevoke(consent, job[p].id) IN
       /\ consent' = MarkRevoked(consent, rows, job[p].now)
       /\ wins' = [wins EXCEPT ![job[p].id] = IF rows # {} THEN @ + 1 ELSE @]
    /\ job' = [job EXCEPT ![p] = NoJob]
    /\ UNCHANGED <<clock, issued>>

\* cleanup_expired()
StartCleanup(p) ==
    /\ Start(p, CleanupJob(clock))
    /\ UNCHANGED issued

FinishCleanup(p) ==
    /\ job[p].op = "cleanup"
    /\ consent' = MarkRevoked(consent, ToCleanUp(consent, job[p].now), job[p].now)
    /\ job' = [job EXCEPT ![p] = NoJob]
    /\ UNCHANGED <<clock, issued, wins>>

\* "database is locked", or the process is killed: nothing was written.
Fail(p) ==
    /\ job[p] # NoJob
    /\ job' = [job EXCEPT ![p] = NoJob]
    /\ UNCHANGED <<clock, consent, issued, wins>>

Next ==
    \/ Tick
    \/ \E time \in 0..MaxTime : SetBack(time)
    \/ \E p \in Proc :
        \/ \E pattern \in Paths, scope \in Scopes, granularity \in Granularities,
              window \in Windows, default \in Defaults :
              StartGrant(p, pattern, scope, granularity, window, default)
        \/ FinishGrant(p)
        \/ \E id \in ConsentIds : StartRevoke(p, id)
        \/ FinishRevoke(p)
        \/ StartCleanup(p)
        \/ FinishCleanup(p)
        \/ Fail(p)

Spec == Init /\ [][Next]_vars

-----------------------------------------------------------------------------
(* Properties                                                              *)

TypeOK ==
    /\ clock \in 0..MaxTime
    /\ consent \subseteq Lease
    /\ issued \in 0..MaxGrants
    /\ job \in [Proc -> Jobs]
    /\ wins \in [ConsentIds -> Nat]

\* check() finds a lease for (path, scope) now.
Allowed(path, scope) == Covering(consent, path, scope, clock) # {}

\* The same, in the state after a step.
AllowedNext(path, scope) == Covering(consent', path, scope, clock') # {}

\* Access to a path begins only with a grant of its own: no passage of time,
\* no clean-up with an old timestamp, no revocation of another lease, no failed
\* or late write brings a lease back to life.  A clock that is set back does, and
\* only for a lease that had run out and that nobody had revoked or cleaned up
\* (consent.py:89-106, :119-131).
AccessBeginsWithGrant ==
    [][\A path \in Paths, scope \in Scopes :
          AllowedNext(path, scope) /\ ~Allowed(path, scope) =>
              \/ \E p \in Proc :
                    /\ job[p].op = "grant" /\ job'[p] = NoJob
                    /\ job[p].lease.scope = scope
                    /\ IsPathCovered(path, job[p].lease)
              \/ /\ clock' < clock
                 /\ \E l \in consent : l.revoked_at = Null /\ l.expires_at \in (clock' + 1)..clock]_vars

\* Access to a path ends only when the lease check() would have answered with
\* runs out or is revoked by name: a newer, shorter or narrower grant does not
\* take it away for longer than itself, and the clean-up of expired leases,
\* whose timestamp may be old, never ends a lease that had not run out when the
\* clean-up took the time.
AccessEndsWithRevokeOrExpiry ==
    [][\A path \in Paths, scope \in Scopes :
          Allowed(path, scope) /\ ~AllowedNext(path, scope) =>
              \A l \in ListActive(consent, clock) :
                  l.scope = scope /\ IsPathCovered(path, l) =>
                      \/ l.expires_at # Null /\ l.expires_at <= clock'
                      \/ \E p \in Proc :
                            /\ job[p].op = "revoke" /\ job'[p] = NoJob
                            /\ job[p].id = l.consent_id
                      \/ \E p \in Proc :
                            /\ job[p].op = "cleanup" /\ job'[p] = NoJob
                            /\ l.expires_at # Null /\ l.expires_at <= job[p].now]_vars

\* However many processes revoke a lease at once, and whatever clean-ups run
\* besides, revoke() returns True to at most one of them, and then the lease
\* is revoked and stays so.
OneRevokeWins ==
    \A id \in ConsentIds :
        /\ wins[id] <= 1
        /\ wins[id] = 1 => \A l \in consent : l.consent_id = id => l.revoked_at # Null

\* m is the row of lease l after a step: as it was, or revoked by the step.
KeptAs(l, m) ==
    \/ m = l
    \/ /\ l.revoked_at = Null
       /\ m.revoked_at # Null
       /\ [m EXCEPT !.revoked_at = Null] = l

\* A lease is one row: no step loses it, adds another of its id, or changes
\* more of it than that it is revoked now; and the time of the first revocation
\* stands, however many revocations and clean-ups with old times come after it
\* (consent.py:74-106).
LeasesKept ==
    [][\A l \in consent :
          \E m \in consent' :
             /\ KeptAs(l, m)
             /\ \A n \in consent' : n.consent_id = l.consent_id => n = m]_vars
-----------------------------------------------------------------------------
(* The inductive invariant: what the properties above rest on              *)

LeaseIds == {l.consent_id : l \in consent}

\* A lease is one row, with an id that was drawn.
OneRowEach ==
    /\ LeaseIds \subseteq 1..issued
    /\ \A l, m \in consent : l.consent_id = m.consent_id => l = m

\* A lease that is about to be granted has an id that is neither in the table
\* nor another process's, and nobody has revoked it.
GrantsFresh ==
    \A p \in Proc : job[p].op = "grant" =>
        LET new == job[p].lease IN
        /\ new.consent_id \in (1..issued) \ LeaseIds
        /\ new.revoked_at = Null
        /\ \A q \in Proc \ {p} :
              job[q].op = "grant" => job[q].lease.consent_id # new.consent_id

\* What was revoked with success is in the table.
WinsKnown == \A id \in ConsentIds : wins[id] > 0 => id \in LeaseIds

ConsentInv ==
    /\ TypeOK
    /\ OneRowEach
    /\ GrantsFresh
    /\ WinsKnown
    /\ OneRevokeWins
=============================================================================
