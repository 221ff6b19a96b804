------------------------------ MODULE MCAgent ------------------------------
(***************************************************************************)
(* Agent for TLC: one volume with a file below every cap and one above.    *)
(***************************************************************************)
EXTENDS Agent, TLC

CONSTANTS s1, o1, vol, notes, payroll, up

MCVolume == <<vol>>
MCVolumes == {MCVolume}
MCNotes == <<vol, notes>>
MCPayroll == <<vol, payroll>>
MCFiles == {MCNotes, MCPayroll}

\* A file, and one that is only met below a root spelled with a "..".
MCSpelled == {MCNotes, <<vol, up, notes>>}
MCScoped == MCFiles \cup {MCVolume}
MCVolumeAndFile == {MCVolume, MCNotes}
MCLevel == [f \in MCFiles \cup MCSpelled |-> IF f = MCPayroll THEN 2 ELSE 1]
MCCap == [p \in Servers |-> 1]
MCExcerptEnabled == [p \in Servers |-> TRUE]
MCExcerptOff == [p \in Servers |-> FALSE]

Lend(pattern, scope, granularity, window) ==
    [pattern |-> pattern, scope |-> scope, granularity |-> granularity, window |-> window]
MCGrants == {Lend(MCVolume, "search", "directory", Null),
             Lend(MCVolume, "index", "file", 1),
             Lend(MCNotes, "read", "file", 1)}
MCNoGrants == {}

MCRest == Tables

\* An empty database; and one after a crawl
\* whose lease was revoked, with one to read a file.
MCEmpty == [consent |-> {}, index |-> [f \in Files |-> Null]]
MCHeld(id, pattern, scope, granularity, revoked_at) ==
    [consent_id |-> id, pattern |-> pattern, scope |-> scope, granularity |-> granularity,
     granted_at |-> 0, expires_at |-> Null, revoked_at |-> revoked_at]
MCCrawled ==
    [consent |-> {MCHeld(1, MCVolume, "index", "volume", 0), MCHeld(2, MCNotes, "read", "file", Null)},
     index |-> [f \in Files |->
                  IF f \in Under(MCVolume)
                  THEN [level |-> Level[f], root |-> MCVolume, lease |-> 1, over |-> {}]
                  ELSE Null]]
MCFresh == {MCEmpty}
MCUsed == {MCCrawled}
=============================================================================
