----------------------------- MODULE AuditTrail -----------------------------
(***************************************************************************)
(* What the audit log promises its callers and a later investigator,       *)
(* whatever processes write it: rows are appended, one at a time and for   *)
(* good, and numbered without a gap; every row is chained to a row before  *)
(* it; a caller that was told its entry is in finds it in; the entry of a  *)
(* caller that was told it failed is not in and never will be.             *)
(* It does not promise that a row is chained to the row just before it.    *)
(***************************************************************************)
EXTENDS AuditTable

CONSTANT EntryIds

VARIABLES trail, acked, failed

trailVars == <<trail, acked, failed>>

TrailInit == trail = <<>> /\ acked = {} /\ failed = {}

AppendRow ==
    \E id \in EntryIds \ (Ids(trail) \cup failed), hash \in Ids(trail) \cup {GenesisHash} :
        /\ trail' = Append(trail, [entry_id |-> id, prev |-> hash, seq |-> Len(trail) + 1])
        /\ UNCHANGED <<acked, failed>>

Acknowledge ==
    \E id \in Ids(trail) :
        /\ acked' = acked \cup {id}
        /\ UNCHANGED <<trail, failed>>

Refuse ==
    \E id \in EntryIds \ Ids(trail) :
        /\ failed' = failed \cup {id}
        /\ UNCHANGED <<trail, acked>>

TrailNext == AppendRow \/ Acknowledge \/ Refuse

TrailSpec == TrailInit /\ [][TrailNext]_trailVars
=============================================================================
