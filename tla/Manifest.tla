------------------------------ MODULE Manifest ------------------------------
(***************************************************************************)
(* The file-hash manifest (manifest.py): `privacy-cli manifest install`,   *)
(* and its verification by the command and by the session hook, while the  *)
(* manifested files are edited, added and removed.                         *)
(*                                                                         *)
(* A file is its version, which stands for its contents and their hash.    *)
(* One installer and one verifier run at a time, each hashing one file     *)
(* after the other; the order (sorted in the code) is left open.  The      *)
(* manifest is shorter than a write buffer: a reader finds the old one, an *)
(* empty one, or the new one.                                              *)
(***************************************************************************)
EXTENDS Naturals, FiniteSets

CONSTANTS Files,      \* all paths that match MANIFESTED_PATTERNS
          Versions,   \* the contents a file may have
          Null,       \* no file, no manifest, nothing
          MaxEdits, MaxInstalls   \* bounds

ASSUME ManifestAssumption == Null \notin Versions \cup Files /\ MaxEdits \in Nat /\ MaxInstalls \in Nat

VARIABLES tree,       \* tree[f]: the version of f on disk, Null if there is none
          manifest,   \* the manifest file: versions of the files it lists, Null before the first
          install,    \* the installer: where it is, the files to hash, the hashes, and
                      \* the versions each file has had meanwhile (history)
          accepted,   \* of the install that wrote the manifest, these versions (history)
          check,      \* the verifier: where it is and its locals
          verdict,    \* what the last verification came to (history)
          edits, installs   \* counters for the bounds

manifestVars == <<tree, manifest, install, accepted, check, verdict, edits, installs>>

Nothing == [f \in {} |-> Null]
Present == {f \in Files : tree[f] # Null}
Unseen == [f \in Files |-> {}]
Now == [f \in Files |-> {tree[f]}]

NoInstall == [at |-> "none", todo |-> {}, hashes |-> Nothing, versions |-> Unseen]
NoCheck == [at |-> "none", mode |-> "none", expected |-> Nothing, todo |-> {}, file |-> Null,
            mismatches |-> {}, accepted |-> Unseen, versions |-> Unseen]
NoVerdict == [how |-> "none", valid |-> FALSE, run |-> NoCheck]

ManifestInit ==
    /\ tree \in [Files -> Versions \cup {Null}]
    /\ manifest = Null
    /\ install = NoInstall
    /\ accepted = Unseen
    /\ check = NoCheck
    /\ verdict = NoVerdict
    /\ edits = 0
    /\ installs = 0

-----------------------------------------------------------------------------
(* Somebody edits, adds or removes a file                                  *)

Edit(f, v) ==
    /\ edits < MaxEdits
    /\ edits' = edits + 1
    /\ tree[f] # v
    /\ tree' = [tree EXCEPT ![f] = v]
    /\ install' = IF install.at = "hashing" THEN [install EXCEPT !.versions[f] = @ \cup {v}] ELSE install
    /\ check' = IF check.at # "none" THEN [check EXCEPT !.versions[f] = @ \cup {v}] ELSE check
    /\ UNCHANGED <<manifest, accepted, verdict, installs>>

-----------------------------------------------------------------------------
(* install()                                                               *)

InstallStep == UNCHANGED <<tree, check, verdict, edits>>

\* generate: collect_files
Collect ==
    /\ install.at = "none"
    /\ installs < MaxInstalls
    /\ installs' = installs + 1
    /\ install' = [at |-> "hashing", todo |-> Present, hashes |-> Nothing, versions |-> Now]
    /\ UNCHANGED <<manifest, accepted>>
    /\ InstallStep

\* Mutant of HashFile: a file that is gone is listed all the same.
HashFileGone(f) ==
    /\ install.at = "hashing"
    /\ f \in install.todo
    /\ install' = [install EXCEPT !.todo = @ \ {f},
                                  !.hashes = [g \in DOMAIN @ \cup {f} |-> IF g = f THEN tree[f] ELSE @[g]]]
    /\ UNCHANGED <<manifest, accepted, installs>>
    /\ InstallStep

HashFile(f) ==
    /\ install.at = "hashing"
    /\ f \in install.todo
    /\ tree[f] # Null
    /\ install' = [install EXCEPT !.todo = @ \ {f},
                                  !.hashes = [g \in DOMAIN @ \cup {f} |-> IF g = f THEN tree[f] ELSE @[g]]]
    /\ UNCHANGED <<manifest, accepted, installs>>
    /\ InstallStep

\* A file is gone before it is hashed: the command fails, the old manifest stays.
FileGone ==
    /\ install.at = "hashing"
    /\ \E f \in install.todo : tree[f] = Null
    /\ install' = NoInstall
    /\ UNCHANGED <<manifest, accepted, installs>>
    /\ InstallStep

\* write: write_text opens the file and truncates it, ...
Truncate ==
    /\ install.at = "hashing"
    /\ install.todo = {}
    /\ manifest' = Nothing
    /\ install' = [install EXCEPT !.at = "writing"]
    /\ UNCHANGED <<accepted, installs>>
    /\ InstallStep

\* ... and its buffer is written when it is closed.
Write ==
    /\ install.at = "writing"
    /\ manifest' = install.hashes
    /\ accepted' = install.versions
    /\ install' = NoInstall
    /\ UNCHANGED installs
    /\ InstallStep

\* The command is killed anywhere, or fails: a file cannot be read or written.
InstallKilled ==
    /\ install.at # "none"
    /\ install' = NoInstall
    /\ UNCHANGED <<manifest, accepted, installs>>
    /\ InstallStep

-----------------------------------------------------------------------------
(* verify()                                                                *)

CheckStep == UNCHANGED <<tree, manifest, install, accepted, edits, installs>>

Decide(how, valid) ==
    /\ verdict' = [how |-> how, valid |-> valid, run |-> check]
    /\ check' = NoCheck

\* A mismatch.  The command reports it.  The hook logs it first, inside its try
\* block: if audit.log() raises, the mismatch passes.
Mismatch(how) ==
    \/ Decide(how, FALSE)
    \/ check.mode = "session" /\ Decide("unlogged", TRUE)

\* The session hook, the command, the command with --strict.
BeginVerify(mode) ==
    /\ check.at = "none"
    /\ check' = [NoCheck EXCEPT !.at = "begun", !.mode = mode, !.versions = Now]
    /\ verdict' = NoVerdict
    /\ CheckStep

\* PRIVACY_AGENT_SKIP_MANIFEST
Skip ==
    /\ check.at = "begun"
    /\ check.mode = "session"
    /\ Decide("skipped", TRUE)
    /\ CheckStep

\* No manifest is installed: to the hook that is no mismatch.
NotInstalled ==
    /\ check.at = "begun"
    /\ manifest = Null
    /\ Decide("not installed", check.mode = "session")
    /\ CheckStep

Parsed == [check EXCEPT !.at = "comparing", !.expected = manifest, !.todo = DOMAIN manifest,
                        !.accepted = accepted]

\* Mutant of Parse: an empty manifest has nothing that could differ.
ParseEmpty ==
    /\ check.at = "begun"
    /\ manifest # Null
    /\ check' = Parsed
    /\ UNCHANGED verdict
    /\ CheckStep

Parse ==
    /\ check.at = "begun"
    /\ manifest # Null
    /\ IF manifest = Nothing
       THEN Mismatch("empty")
       ELSE check' = Parsed /\ UNCHANGED verdict
    /\ CheckStep

\* full.exists()
LookFor(f) ==
    /\ check.at = "comparing"
    /\ f \in check.todo
    /\ check' = IF tree[f] = Null
                THEN [check EXCEPT !.todo = @ \ {f}, !.mismatches = @ \cup {f}]
                ELSE [check EXCEPT !.todo = @ \ {f}, !.file = f, !.at = "found"]
    /\ UNCHANGED verdict
    /\ CheckStep

\* compute_sha256(full)
Compare ==
    /\ check.at = "found"
    /\ tree[check.file] # Null
    /\ check' = [check EXCEPT !.at = "comparing", !.file = Null,
                              !.mismatches = IF tree[check.file] = check.expected[check.file]
                                             THEN @ ELSE @ \cup {check.file}]
    /\ UNCHANGED verdict
    /\ CheckStep

\* Something raises: the manifest or a file cannot be read or decoded, or has
\* gone since exists().  The command fails with a traceback, and the hook lets
\* it pass, whatever it has found before.
Raises ==
    /\ check.at # "none"
    /\ Decide("error", check.mode = "session")
    /\ CheckStep

\* Mutant of Extras: files the manifest does not list are never allowed.
ExtrasAlways == Present \ DOMAIN check.expected

Extras == IF check.mode = "strict" THEN Present \ DOMAIN check.expected ELSE {}

Conclude ==
    /\ check.at = "comparing"
    /\ check.todo = {}
    /\ IF check.mismatches \cup Extras = {} THEN Decide("compared", TRUE) ELSE Mismatch("compared")
    /\ CheckStep

ManifestNext ==
    \/ \E f \in Files : HashFile(f) \/ LookFor(f) \/ \E v \in Versions \cup {Null} : Edit(f, v)
    \/ Collect \/ FileGone \/ Truncate \/ Write \/ InstallKilled
    \/ \E mode \in {"session", "lax", "strict"} : BeginVerify(mode)
    \/ Skip \/ NotInstalled \/ Parse \/ Compare \/ Raises \/ Conclude

ManifestSpec == ManifestInit /\ [][ManifestNext]_manifestVars

-----------------------------------------------------------------------------
(* Properties                                                              *)

Listings == UNION {[S -> Versions] : S \in SUBSET Files}
Histories == [Files -> SUBSET (Versions \cup {Null})]
Installs == [at : {"none", "hashing", "writing"}, todo : SUBSET Files, hashes : Listings,
             versions : Histories]
Checks == [at : {"none", "begun", "comparing", "found"},
           mode : {"none", "session", "lax", "strict"}, expected : Listings,
           todo : SUBSET Files, file : Files \cup {Null}, mismatches : SUBSET Files,
           accepted : Histories, versions : Histories]
Verdicts == [how : {"none", "skipped", "not installed", "empty", "error",
                     "unlogged", "compared"},
             valid : BOOLEAN, run : Checks]

ManifestTypeOK ==
    /\ tree \in [Files -> Versions \cup {Null}]
    /\ manifest \in Listings \cup {Null}
    /\ install \in Installs
    /\ accepted \in Histories
    /\ check \in Checks
    /\ check.todo \cup check.mismatches \subseteq DOMAIN check.expected
    /\ verdict \in Verdicts

\* What the invariants need of the steps in between, for ManifestProofs.

\* A listing made of versions the files have had, and of all files but those that
\* were missing at some time.
Honest(listing, versions) ==
    \A f \in Files : IF f \in DOMAIN listing THEN listing[f] \in versions[f] ELSE Null \in versions[f]

\* The hashes in hand are of versions the files have had since the install began.
InstallFollows ==
    /\ install.at = "hashing" =>
          \A f \in Files :
             /\ tree[f] \in install.versions[f]
             /\ f \in DOMAIN install.hashes => install.hashes[f] \in install.versions[f]
             /\ f \notin DOMAIN install.hashes \cup install.todo => Null \in install.versions[f]
    /\ install.at = "writing" => Honest(install.hashes, install.versions)

\* The manifest, while it is not empty, is what its install accepted.
ManifestHonest == manifest \notin {Null, Nothing} => Honest(manifest, accepted)

\* What was compared is a version the file has had since the verification began.
CheckFollows ==
    /\ check.at # "none" => \A f \in Files : tree[f] \in check.versions[f]
    /\ check.at \in {"comparing", "found"} =>
          /\ Honest(check.expected, check.accepted)
          /\ \A f \in DOMAIN check.expected \ (check.todo \cup {check.file}) :
                IF f \in check.mismatches
                THEN \E v \in check.versions[f] : v # check.expected[f]
                ELSE check.expected[f] \in check.versions[f]
    /\ check.at = "begun" => check.mismatches = {}
    /\ check.todo \cap check.mismatches = {}
    /\ check.at \in {"begun", "comparing"} => check.file = Null
    /\ check.at = "found" =>
          /\ check.file \in DOMAIN check.expected
          /\ check.versions[check.file] # {Null}
          /\ check.file \notin check.todo \cup check.mismatches

\* f may be as the install that wrote the manifest accepted it: it has had one
\* version during both.
AsAccepted(run, f) == run.accepted[f] \cap run.versions[f] # {}

\* A comparison that passes has found what was installed, whatever was edited,
\* installed or killed in between: a file that was left alone during the install
\* and during the verification is the same in both, and unlisted ones are let
\* pass but by --strict.  The command passes nothing else: no manifest that an
\* interrupted or running install left empty, no file that came or went under
\* its hands.  The session hook does, and says ok without a comparison or against
\* one: if it is told to skip it, before the first install, if anything raises
\* while it verifies, and if the mismatch it found cannot be logged
\* (manifest.py:117-141, session_start.py:86-129).
AcceptedIsInstalled ==
    LET run == verdict.run IN
    verdict.how # "none" /\ verdict.valid =>
        \/ /\ verdict.how = "compared"
           /\ \A f \in Files : AsAccepted(run, f) \/ (run.mode # "strict" /\ Null \in run.accepted[f])
        \/ /\ verdict.how \in {"skipped", "not installed", "error", "unlogged"}
           /\ run.mode = "session"

\* What fails has changed, or was changing: a comparison finds a mismatch only
\* if some file had more than one version during the install and the
\* verification, and an unlisted file counts with --strict alone
\* (manifest.py:127-141).
RejectionHasCause ==
    LET run == verdict.run IN
    verdict.how = "compared" /\ ~verdict.valid =>
        \E f \in Files :
            /\ \E v, w \in run.accepted[f] \cup run.versions[f] : v # w
            /\ run.mode = "strict" \/ run.accepted[f] # {Null}

\* The inductive invariant.
ManifestInv ==
    /\ ManifestTypeOK
    /\ InstallFollows
    /\ ManifestHonest
    /\ CheckFollows
    /\ AcceptedIsInstalled
    /\ RejectionHasCause
=============================================================================
