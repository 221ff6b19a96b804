------------------------------- MODULE Config -------------------------------
(***************************************************************************)
(* The configuration (config.py) as far as classification and search go by *)
(* it: how the contents of a TOML file become a configuration, which ones  *)
(* are refused, and which profile an orchestrator gets (agent.py).         *)
(*                                                                         *)
(* A raw configuration is what the file gives, Null for a key that is not  *)
(* there: [default_level, rules, max_results, rest, profiles].  "rest"     *)
(* says whether every other checked key (bind, snippet and excerpt sizes,  *)
(* key source) has a value validate() takes.  "profiles" is a function     *)
(* from the names of the [profiles.*] sections that are there to what they *)
(* give.  A value of the wrong type makes a start fail too: left out.      *)
(***************************************************************************)
EXTENDS Integers, FiniteSetsExt, SequencesExt

CONSTANTS Null,
          Default,      \* AgentConfig.max_results_per_query, 20
          MaxResults    \* the largest one validate() takes, 50

ASSUME NullAssumption == Null \notin Int
ASSUME ResultsAssumption == MaxResults \in Nat /\ Default \in 1..MaxResults

\* ORDERED_LEVELS by rank: public, internal, confidential, restricted.
Levels == 0..3
Internal == 1
Confidential == 2

ProfileNames == {"claude_code", "codex", "goose"}

\* ProfileOverride: a key that is not given is None.
Section(cap, max) == [cap |-> cap, max |-> max]

\* ProfilesConfig: the profiles that hold when the file says nothing of them.
Shipped ==
    [p \in ProfileNames |->
        CASE p = "claude_code" -> Section(Null, Null)
          [] p = "codex" -> Section(Confidential, Null)
          [] p = "goose" -> Section(Internal, Null)]

\* load_config of no file: Config().
NoRaw == [default_level |-> Null, rules |-> {}, max_results |-> Null, rest |-> TRUE,
          profiles |-> [p \in {} |-> Null]]

OrElse(x, y) == IF x = Null THEN y ELSE x

\* from_dict.  A rule without a pattern or a level is dropped; a section of a
\* profile takes the place of the shipped one as a whole, and one of another
\* name is not looked at.
FromDict(raw) ==
    [default_level |-> OrElse(raw.default_level, Internal),
     rules |-> {r \in raw.rules : Null \notin {r.files, r.level}},
     max_results |-> OrElse(raw.max_results, Default),
     rest |-> raw.rest,
     profiles |-> [p \in ProfileNames |->
                      IF p \in DOMAIN raw.profiles THEN raw.profiles[p] ELSE Shipped[p]]]

\* validate() finds no error.  The maximum of a profile is not looked at.
Valid(c) ==
    /\ c.rest
    /\ c.max_results \in 1..MaxResults
    /\ c.default_level \in Levels
    /\ \A r \in c.rules : r.level \in Levels
    /\ \A p \in ProfileNames : c.profiles[p].cap \in Levels \cup {Null}

\* The profile of an orchestrator; one that is not known has goose's.
Profile(c, orchestrator) ==
    c.profiles[IF orchestrator \in ProfileNames THEN orchestrator ELSE "goose"]

\* The level a configuration alone gives a file.
Matching(rules, f) == {r.level : r \in {q \in rules : f \in q.files}}
LevelBy(c, f) == Max({c.default_level} \cup Matching(c.rules, f))
=============================================================================
