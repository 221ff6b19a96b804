------------------------------ MODULE MCSearch ------------------------------
(***************************************************************************)
(* Search for TLC: a server of Goose's and a command without a             *)
(* configuration; a directory a_b with two files, and one beside it that   *)
(* LIKE takes for it.                                                      *)
(***************************************************************************)
EXTENDS Search, TLC

CONSTANTS goose, cli, a_b, axb, memo, plan

MCMemo == <<a_b, memo>>
MCPlan == <<a_b, plan>>
MCOther == <<axb, memo>>
MCFiles == {MCMemo, MCPlan, MCOther}
MCOrchestrator == [s \in {goose, cli} |-> IF s = goose THEN "goose" ELSE "manual"]
MCMaxLives == [s \in {goose, cli} |-> IF s = goose THEN 2 ELSE 1]
MCAlike == {<< <<a_b>>, <<axb>> >>}
MCGlobs == {{MCMemo, MCPlan}}
MCScopeArgs == {Null, <<a_b>>, MCMemo}
MCRequests == {Null, -1, 0, 1, 3}
MCFilters == {{}, {1}}
MCOrders == {<<MCMemo, MCPlan, MCOther>>, <<MCOther, MCPlan, MCMemo>>}

\* The shipped file with a rule; a section of goose's that forgets the cap and
\* asks for one result; one that asks for too many; a file that is refused.
MCShipped == [NoRaw EXCEPT !.rules = {[files |-> {MCPlan}, level |-> 3], [files |-> Null, level |-> 2]}]
MCLoose == [MCShipped EXCEPT !.profiles = [p \in {"goose"} |-> Section(Null, 1)]]
MCMany == [MCShipped EXCEPT !.profiles = [p \in {"goose"} |-> Section(1, 3)], !.max_results = 1]
MCRefused == [MCShipped EXCEPT !.max_results = 3]
MCRaws == {MCShipped, MCLoose, MCMany, MCRefused}
=============================================================================
