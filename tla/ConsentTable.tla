---------------------------- MODULE ConsentTable ----------------------------
(***************************************************************************)
(* The consent table and what consent.py computes from it.  A table is a   *)
(* set of leases.  Times are numbers of one clock; ISO-8601 strings in UTC *)
(* as isoformat() writes them compare like the times they denote.  A path  *)
(* is the sequence of its components as they are spelled: consent.py       *)
(* compares spellings (PurePath, startswith) and resolves neither ".." nor *)
(* links.  A "." and a doubled slash are left out.                         *)
(***************************************************************************)
EXTENDS Integers, SequencesExt

CONSTANTS Null,          \* SQL NULL
          Scopes,        \* VALID_SCOPES
          Granularities  \* VALID_GRANULARITIES: "file", "directory", "volume"

\* expires_at of a lease granted now: an explicit window wins, then the
\* configured default; no default (0) means a permanent lease.
Expiry(now, window, default) ==
    IF window # Null THEN now + window
    ELSE IF default > 0 THEN now + default ELSE Null

\* revoked_at IS NULL AND (expires_at IS NULL OR expires_at > now)
Active(lease, now) ==
    /\ lease.revoked_at = Null
    /\ lease.expires_at = Null \/ lease.expires_at > now

\* A file lease covers the very path; directory and volume leases cover what
\* is at or below their pattern.
IsPathCovered(path, lease) ==
    IF lease.granularity = "file" THEN path = lease.pattern
                                  ELSE IsPrefix(lease.pattern, path)

\* list_active()
ListActive(table, now) == {l \in table : Active(l, now)}

\* Mutant of Covering: a lease of any scope will do.
CoveringAnyScope(table, path, scope, now) ==
    {l \in ListActive(table, now) : IsPathCovered(path, l)}

\* Mutant of Covering: so will one that was revoked or has expired.
CoveringDead(table, path, scope, now) ==
    {l \in table : l.scope = scope /\ IsPathCovered(path, l)}

Covering(table, path, scope, now) ==
    {l \in ListActive(table, now) : l.scope = scope /\ IsPathCovered(path, l)}

\* check() answers with a most recently granted of the leases that cover the
\* path, and with None if none does.
Check(table, path, scope, now) ==
    LET hits == Covering(table, path, scope, now)
    IN  {l \in hits : \A m \in hits : m.granted_at <= l.granted_at}

\* Mutant of ToRevoke: without AND revoked_at IS NULL.
ToRevokeAgain(table, id) == {l \in table : l.consent_id = id}

\* UPDATE consent SET revoked_at = now WHERE consent_id = id AND revoked_at IS NULL
ToRevoke(table, id) == {l \in table : l.consent_id = id /\ l.revoked_at = Null}

\* Mutant of ToCleanUp: without AND expires_at <= now.
ToCleanUpEarly(table, now) == {l \in table : l.revoked_at = Null /\ l.expires_at # Null}

\* UPDATE ... WHERE revoked_at IS NULL AND expires_at IS NOT NULL AND expires_at <= now
ToCleanUp(table, now) ==
    {l \in table : l.revoked_at = Null /\ l.expires_at # Null /\ l.expires_at <= now}

\* Mutant of MarkRevoked: the revocation is a row of its own.
MarkRevokedAppending(table, which, now) ==
    table \cup {[l EXCEPT !.revoked_at = now] : l \in which}

MarkRevoked(table, which, now) ==
    (table \ which) \cup {[l EXCEPT !.revoked_at = now] : l \in which}
=============================================================================
