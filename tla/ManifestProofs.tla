--------------------------- MODULE ManifestProofs ---------------------------
(***************************************************************************)
(* Proofs about Manifest, for any files, any versions, and any number of   *)
(* edits and installs.                                                     *)
(***************************************************************************)
EXTENDS Manifest, TLAPS

-----------------------------------------------------------------------------
(* Listings and histories                                                  *)

\* A listing gives versions to some of the files.
LEMMA ListingFacts ==
    ASSUME NEW m
    PROVE  m \in Listings <=> DOMAIN m \subseteq Files /\ m \in [DOMAIN m -> Versions]
  <1>1. ASSUME m \in Listings PROVE DOMAIN m \subseteq Files /\ m \in [DOMAIN m -> Versions]
    BY <1>1 DEF Listings
  <1>2. ASSUME DOMAIN m \subseteq Files, m \in [DOMAIN m -> Versions] PROVE m \in Listings
    BY <1>2 DEF Listings
  <1>3. QED
    BY <1>1, <1>2

\* The empty listing is one, and lists nothing.
LEMMA NothingFacts == Nothing \in Listings /\ DOMAIN Nothing = {}
  <1>1. DOMAIN Nothing = {} /\ Nothing \in [DOMAIN Nothing -> Versions]
    BY DEF Nothing
  <1>2. QED
    BY <1>1, ListingFacts

\* The locals of nobody.
LEMMA IdleTypes == Unseen \in Histories /\ NoInstall \in Installs /\ NoCheck \in Checks
  <1>1. Unseen \in Histories
    BY DEF Unseen, Histories
  <1>2. QED
    BY <1>1, NothingFacts DEF NoInstall, NoCheck, Installs, Checks

\* The versions of now begin a history.
LEMMA NowHistory ==
    ASSUME ManifestTypeOK
    PROVE  Now \in Histories /\ \A f \in Files : tree[f] \in Now[f]
  BY DEF ManifestTypeOK, Now, Histories

\* A longer history keeps what a shorter one has shown.
LEMMA HonestLonger ==
    ASSUME NEW listing, NEW versions, NEW longer,
           \A f \in Files : versions[f] \subseteq longer[f], Honest(listing, versions)
    PROVE  Honest(listing, longer)
  BY DEF Honest

-----------------------------------------------------------------------------
(* Steps of the installer and of its surroundings                          *)

LEMMA InitHolds ==
    ASSUME ManifestInit
    PROVE  ManifestInv
  <1>1. ManifestTypeOK
    BY IdleTypes, NothingFacts DEF ManifestInit, ManifestTypeOK, NoVerdict, Verdicts, NoCheck, Checks
  <1>2. InstallFollows /\ ManifestHonest /\ CheckFollows
    BY DEF ManifestInit, InstallFollows, ManifestHonest, CheckFollows, NoInstall, NoCheck
  <1>3. AcceptedIsInstalled /\ RejectionHasCause
    BY DEF ManifestInit, AcceptedIsInstalled, RejectionHasCause, NoVerdict
  <1>4. QED
    BY <1>1, <1>2, <1>3 DEF ManifestInv

LEMMA EditStep ==
    ASSUME ManifestInv, NEW f \in Files, NEW v \in Versions \cup {Null}, Edit(f, v)
    PROVE  ManifestInv'
  <1>1. ManifestTypeOK
    BY DEF ManifestInv
  <1>2. /\ install' = IF install.at = "hashing"
                      THEN [install EXCEPT !.versions[f] = install.versions[f] \cup {v}] ELSE install
        /\ check' = IF check.at # "none"
                    THEN [check EXCEPT !.versions[f] = check.versions[f] \cup {v}] ELSE check
        /\ tree' = [tree EXCEPT ![f] = v]
    BY DEF Edit
  <1>3. /\ install' \in Installs
        /\ \A a \in {"at", "todo", "hashes"} : install'[a] = install[a]
        /\ \A g \in Files : install.versions[g] \subseteq install'.versions[g]
        /\ install.at = "hashing" => v \in install'.versions[f]
    BY <1>1, <1>2 DEF ManifestTypeOK, Installs, Histories
  <1>4. /\ check' \in Checks
        /\ \A a \in {"at", "mode", "expected", "todo", "file", "mismatches", "accepted"} :
              check'[a] = check[a]
        /\ \A g \in Files : check.versions[g] \subseteq check'.versions[g]
        /\ check.at # "none" => v \in check'.versions[f]
    BY <1>1, <1>2 DEF ManifestTypeOK, Checks, Histories
  <1>5. ManifestTypeOK'
    BY <1>1, <1>2, <1>3, <1>4 DEF ManifestTypeOK, Edit
  <1>6. InstallFollows'
    BY <1>1, <1>2, <1>3, HonestLonger DEF ManifestInv, ManifestTypeOK, InstallFollows, Installs
  <1>7. ManifestHonest'
    BY DEF ManifestInv, ManifestHonest, Edit, Honest
  <1>8. CheckFollows'
    BY <1>1, <1>2, <1>4 DEF ManifestInv, ManifestTypeOK, CheckFollows, Honest, Checks
  <1>9. AcceptedIsInstalled' /\ RejectionHasCause'
    BY DEF ManifestInv, AcceptedIsInstalled, RejectionHasCause, Edit, AsAccepted
  <1>10. QED
    BY <1>5, <1>6, <1>7, <1>8, <1>9 DEF ManifestInv

\* A step of the installer leaves the verifier and the verdict alone.
LEMMA CheckAlone ==
    ASSUME ManifestInv, UNCHANGED <<tree, check, verdict>>
    PROVE  CheckFollows' /\ AcceptedIsInstalled' /\ RejectionHasCause'
  BY DEF ManifestInv, CheckFollows, Honest, AcceptedIsInstalled, AsAccepted, RejectionHasCause

LEMMA CollectStep ==
    ASSUME ManifestInv, Collect
    PROVE  ManifestInv'
  <1>1. /\ ManifestTypeOK
        /\ install' = [at |-> "hashing", todo |-> Present, hashes |-> Nothing, versions |-> Now]
        /\ UNCHANGED <<tree, manifest, accepted, check, verdict>>
    BY DEF ManifestInv, Collect, InstallStep
  <1>2. install' \in Installs /\ \A f \in Files : f \in Present \/ tree[f] = Null
    BY <1>1, NowHistory, NothingFacts DEF Installs, Present
  <1>3. ManifestTypeOK'
    BY <1>1, <1>2 DEF ManifestTypeOK
  <1>4. InstallFollows'
    BY <1>1, <1>2, NowHistory, NothingFacts DEF InstallFollows
  <1>5. ManifestHonest'
    BY <1>1 DEF ManifestInv, ManifestHonest, Honest
  <1>6. QED
    BY <1>1, <1>3, <1>4, <1>5, CheckAlone DEF ManifestInv

LEMMA HashFileStep ==
    ASSUME ManifestInv, NEW f \in Files, HashFile(f)
    PROVE  ManifestInv'
  <1> DEFINE more == [g \in DOMAIN install.hashes \cup {f} |->
                         IF g = f THEN tree[f] ELSE install.hashes[g]]
  <1>1. /\ ManifestTypeOK
        /\ install.at = "hashing"
        /\ f \in install.todo /\ tree[f] # Null
        /\ install' = [install EXCEPT !.todo = install.todo \ {f}, !.hashes = more]
        /\ UNCHANGED <<tree, manifest, accepted, check, verdict>>
    BY DEF ManifestInv, HashFile, InstallStep
  <1>2. install.hashes \in Listings /\ tree[f] \in Versions
    BY <1>1 DEF ManifestTypeOK, Installs
  <1>3. more \in Listings
    BY <1>2, ListingFacts
  <1>4. /\ install' \in Installs
        /\ install'.at = "hashing" /\ install'.hashes = more
        /\ install'.todo = install.todo \ {f} /\ install'.versions = install.versions
    BY <1>1, <1>3 DEF ManifestTypeOK, Installs
  <1>5. ManifestTypeOK'
    BY <1>1, <1>4 DEF ManifestTypeOK
  <1>6. InstallFollows'
    BY <1>1, <1>4 DEF ManifestInv, InstallFollows
  <1>7. ManifestHonest'
    BY <1>1 DEF ManifestInv, ManifestHonest, Honest
  <1>8. QED
    BY <1>1, <1>5, <1>6, <1>7, CheckAlone DEF ManifestInv

\* The command fails, or is killed.
LEMMA InstallEndStep ==
    ASSUME ManifestInv, FileGone \/ InstallKilled
    PROVE  ManifestInv'
  <1>1. install' = NoInstall /\ UNCHANGED <<tree, manifest, accepted, check, verdict>>
    BY DEF FileGone, InstallKilled, InstallStep
  <1>2. ManifestTypeOK'
    BY <1>1, IdleTypes DEF ManifestInv, ManifestTypeOK
  <1>3. InstallFollows' /\ ManifestHonest'
    BY <1>1 DEF ManifestInv, InstallFollows, ManifestHonest, Honest, NoInstall
  <1>4. QED
    BY <1>1, <1>2, <1>3, CheckAlone DEF ManifestInv

LEMMA TruncateStep ==
    ASSUME ManifestInv, Truncate
    PROVE  ManifestInv'
  <1>1. /\ ManifestTypeOK
        /\ install.at = "hashing" /\ install.todo = {}
        /\ manifest' = Nothing
        /\ install' = [install EXCEPT !.at = "writing"]
        /\ UNCHANGED <<tree, accepted, check, verdict>>
    BY DEF ManifestInv, Truncate, InstallStep
  <1>2. /\ install' \in Installs
        /\ install'.at = "writing" /\ install'.hashes = install.hashes
        /\ install'.versions = install.versions
    BY <1>1 DEF ManifestTypeOK, Installs
  <1>3. ManifestTypeOK'
    BY <1>1, <1>2, NothingFacts DEF ManifestTypeOK
  <1>4. InstallFollows' /\ ManifestHonest'
    BY <1>1, <1>2 DEF ManifestInv, InstallFollows, ManifestHonest, Honest
  <1>5. QED
    BY <1>1, <1>3, <1>4, CheckAlone DEF ManifestInv

LEMMA WriteStep ==
    ASSUME ManifestInv, Write
    PROVE  ManifestInv'
  <1>1. /\ ManifestTypeOK
        /\ install.at = "writing"
        /\ manifest' = install.hashes /\ accepted' = install.versions
        /\ install' = NoInstall
        /\ UNCHANGED <<tree, check, verdict>>
    BY DEF ManifestInv, Write, InstallStep
  <1>2. ManifestTypeOK'
    BY <1>1, IdleTypes DEF ManifestTypeOK, Installs
  <1>3. InstallFollows' /\ ManifestHonest'
    BY <1>1 DEF ManifestInv, InstallFollows, ManifestHonest, Honest, NoInstall
  <1>4. QED
    BY <1>1, <1>2, <1>3, CheckAlone DEF ManifestInv

-----------------------------------------------------------------------------
(* Steps of the verifier                                                   *)

\* They leave the installer and its manifest alone.
LEMMA InstallAlone ==
    ASSUME ManifestInv, CheckStep
    PROVE  InstallFollows' /\ ManifestHonest'
  BY DEF ManifestInv, CheckStep, InstallFollows, ManifestHonest, Honest

\* A verification that goes on has come to no new verdict.
LEMMA GoesOn ==
    ASSUME ManifestInv, CheckStep, verdict' \in {verdict, NoVerdict},
           check' \in Checks, CheckFollows',
           check'.todo \cup check'.mismatches \subseteq DOMAIN check'.expected
    PROVE  ManifestInv'
  <1>1. NoVerdict \in Verdicts
    BY IdleTypes DEF NoVerdict, Verdicts
  <1>2. ManifestTypeOK'
    BY <1>1 DEF ManifestInv, ManifestTypeOK, CheckStep
  <1>3. AcceptedIsInstalled' /\ RejectionHasCause'
    <2>1. CASE verdict' = verdict
      BY <2>1 DEF ManifestInv, AcceptedIsInstalled, AsAccepted, RejectionHasCause
    <2>2. CASE verdict' = NoVerdict
      BY <2>2 DEF AcceptedIsInstalled, RejectionHasCause, NoVerdict
    <2>3. QED
      BY <2>1, <2>2
  <1>4. QED
    BY <1>2, <1>3, InstallAlone DEF ManifestInv

\* One that ends leaves its verdict, which has to be right.
LEMMA Ends ==
    ASSUME ManifestInv, CheckStep, NEW how, NEW valid, Decide(how, valid),
           [how |-> how, valid |-> valid, run |-> check] \in Verdicts,
           AcceptedIsInstalled', RejectionHasCause'
    PROVE  ManifestInv'
  <1>1. check' = NoCheck /\ verdict' \in Verdicts
    BY DEF Decide
  <1>2. ManifestTypeOK'
    BY <1>1, IdleTypes, NothingFacts DEF ManifestInv, ManifestTypeOK, CheckStep, NoCheck
  <1>3. CheckFollows'
    BY <1>1 DEF CheckFollows, NoCheck
  <1>4. QED
    BY <1>2, <1>3, InstallAlone DEF ManifestInv

LEMMA BeginVerifyStep ==
    ASSUME ManifestInv, NEW mode \in {"session", "lax", "strict"}, BeginVerify(mode)
    PROVE  ManifestInv'
  <1>1. /\ ManifestTypeOK
        /\ check' = [NoCheck EXCEPT !.at = "begun", !.mode = mode, !.versions = Now]
        /\ verdict' = NoVerdict
        /\ CheckStep
    BY DEF ManifestInv, BeginVerify
  <1>2. /\ check' \in Checks
        /\ check'.at = "begun" /\ check'.versions = Now
        /\ check'.todo = {} /\ check'.mismatches = {} /\ check'.file = Null
    BY <1>1, IdleTypes, NowHistory DEF Checks, NoCheck
  <1>3. CheckFollows'
    BY <1>1, <1>2, NowHistory DEF CheckFollows, CheckStep
  <1>4. QED
    BY <1>1, <1>2, <1>3, GoesOn

\* A verdict without a comparison: what is let pass, the hook lets pass.
LEMMA ExcusedStep ==
    ASSUME ManifestInv, Skip \/ NotInstalled \/ Raises
    PROVE  ManifestInv'
  <1>1. PICK how \in {"skipped", "not installed", "error"} :
            CheckStep /\ Decide(how, check.mode = "session")
    BY DEF Skip, NotInstalled, Raises
  <1>2. [how |-> how, valid |-> (check.mode = "session"), run |-> check] \in Verdicts
    BY DEF ManifestInv, ManifestTypeOK, Verdicts
  <1>3. AcceptedIsInstalled' /\ RejectionHasCause'
    BY <1>1 DEF Decide, AcceptedIsInstalled, RejectionHasCause
  <1>4. QED
    BY <1>1, <1>2, <1>3, Ends

\* A mismatch: either it is reported, and the report has to have a cause, or the
\* hook could not log it.
LEMMA MismatchStep ==
    ASSUME ManifestInv, CheckStep, NEW how \in {"empty", "compared"}, Mismatch(how),
           how = "compared" =>
              \E f \in Files :
                 /\ \E v, w \in check.accepted[f] \cup check.versions[f] : v # w
                 /\ check.mode = "strict" \/ check.accepted[f] # {Null}
    PROVE  ManifestInv'
  <1>1. check \in Checks
    BY DEF ManifestInv, ManifestTypeOK
  <1>2. CASE Decide(how, FALSE)
    <2>1. [how |-> how, valid |-> FALSE, run |-> check] \in Verdicts
      BY <1>1 DEF Verdicts
    <2>2. AcceptedIsInstalled' /\ RejectionHasCause'
      BY <1>2 DEF Decide, AcceptedIsInstalled, RejectionHasCause
    <2>3. QED
      BY <1>2, <2>1, <2>2, Ends
  <1>3. CASE check.mode = "session" /\ Decide("unlogged", TRUE)
    <2>1. [how |-> "unlogged", valid |-> TRUE, run |-> check] \in Verdicts
      BY <1>1 DEF Verdicts
    <2>2. AcceptedIsInstalled' /\ RejectionHasCause'
      BY <1>3 DEF Decide, AcceptedIsInstalled, RejectionHasCause
    <2>3. QED
      BY <1>3, <2>1, <2>2, Ends
  <1>4. QED
    BY <1>2, <1>3 DEF Mismatch

\* A manifest that is not empty is what its install accepted.
LEMMA ParseStep ==
    ASSUME ManifestInv, Parse
    PROVE  ManifestInv'
  <1>1. ManifestTypeOK /\ CheckStep /\ manifest # Null /\ check.at = "begun"
    BY DEF ManifestInv, Parse
  <1>2. CASE manifest = Nothing
    BY <1>1, <1>2, MismatchStep DEF Parse
  <1>3. CASE manifest # Nothing
    <2>1. check' = Parsed /\ verdict' = verdict
      BY <1>3 DEF Parse
    <2>2. manifest \in Listings /\ DOMAIN manifest \subseteq Files
      BY <1>1, ListingFacts DEF ManifestTypeOK
    <2>3. /\ check' \in Checks
          /\ check'.at = "comparing" /\ check'.expected = manifest
          /\ check'.todo = DOMAIN manifest /\ check'.mismatches = check.mismatches
          /\ check'.accepted = accepted /\ check'.versions = check.versions
          /\ check'.file = check.file
      BY <1>1, <2>1, <2>2 DEF ManifestTypeOK, Checks, Parsed
    <2>4. check.mismatches = {} /\ check.file = Null
      BY <1>1 DEF ManifestInv, CheckFollows
    <2>5. Honest(manifest, accepted)
      BY <1>1, <1>3 DEF ManifestInv, ManifestHonest
    <2>6. CheckFollows'
      BY <1>1, <2>3, <2>4, <2>5 DEF ManifestInv, CheckFollows, Honest, CheckStep
    <2>7. QED
      BY <1>1, <2>1, <2>3, <2>4, <2>6, GoesOn
  <1>4. QED
    BY <1>2, <1>3

LEMMA LookForStep ==
    ASSUME ManifestInv, NEW f \in Files, LookFor(f)
    PROVE  ManifestInv'
  <1>1. /\ ManifestTypeOK /\ CheckStep /\ verdict' = verdict
        /\ check.at = "comparing" /\ f \in check.todo
        /\ check.file = Null /\ tree[f] \in check.versions[f]
    BY DEF ManifestInv, LookFor, CheckFollows
  <1>2. check.expected[f] \in Versions
    BY <1>1, ListingFacts DEF ManifestTypeOK, Checks
  <1>3. CASE tree[f] = Null
    <2>1. check' = [check EXCEPT !.todo = check.todo \ {f}, !.mismatches = check.mismatches \cup {f}]
      BY <1>3 DEF LookFor
    <2>2. /\ check' \in Checks
          /\ check'.todo = check.todo \ {f} /\ check'.mismatches = check.mismatches \cup {f}
          /\ \A a \in {"at", "expected", "file", "accepted", "versions"} : check'[a] = check[a]
      BY <1>1, <2>1 DEF ManifestTypeOK, Checks
    <2>3. \E v \in check.versions[f] : v # check.expected[f]
      BY <1>1, <1>2, <1>3, ManifestAssumption
    <2>4. CheckFollows'
      BY <1>1, <2>2, <2>3 DEF ManifestInv, CheckFollows, Honest, CheckStep
    <2>5. QED
      BY <1>1, <2>2, <2>4, GoesOn DEF ManifestTypeOK
  <1>4. CASE tree[f] # Null
    <2>1. check' = [check EXCEPT !.todo = check.todo \ {f}, !.file = f, !.at = "found"]
      BY <1>4 DEF LookFor
    <2>2. /\ check' \in Checks
          /\ check'.todo = check.todo \ {f} /\ check'.file = f /\ check'.at = "found"
          /\ \A a \in {"expected", "mismatches", "accepted", "versions"} : check'[a] = check[a]
      BY <1>1, <2>1 DEF ManifestTypeOK, Checks
    <2>3. f \in DOMAIN check.expected /\ check.versions[f] # {Null}
      BY <1>1, <1>4 DEF ManifestTypeOK
    <2>4. f \notin check.mismatches
      BY <1>1 DEF ManifestInv, CheckFollows
    <2>5. CheckFollows'
      <3>1. \A g \in DOMAIN check.expected \ ((check.todo \ {f}) \cup {f}) :
                IF g \in check.mismatches
                THEN \E v \in check.versions[g] : v # check.expected[g]
                ELSE check.expected[g] \in check.versions[g]
        <4>1. check.file \notin DOMAIN check.expected
          BY <1>1, ListingFacts, ManifestAssumption DEF ManifestTypeOK, Checks
        <4>2. QED
          BY <1>1, <4>1 DEF ManifestInv, CheckFollows
      <3>2. /\ Honest(check.expected, check.accepted)
            /\ \A g \in Files : tree[g] \in check.versions[g]
            /\ check.todo \cap check.mismatches = {}
        BY <1>1 DEF ManifestInv, CheckFollows
      <3>3. tree' = tree
        BY <1>1 DEF CheckStep
      <3>4. Honest(check'.expected, check'.accepted)
        BY <2>2, <3>2 DEF Honest
      <3>5. /\ check'.todo \cap check'.mismatches = {}
            /\ check'.file \notin check'.todo \cup check'.mismatches
        BY <2>2, <2>4, <3>2
      <3>6. check'.expected = check.expected /\ check'.mismatches = check.mismatches
            /\ check'.versions = check.versions
        BY <2>2
      <3>7. QED
        BY <2>2, <2>3, <3>1, <3>2, <3>3, <3>4, <3>5, <3>6 DEF CheckFollows, Honest
    <2>6. QED
      BY <1>1, <2>2, <2>5, GoesOn DEF ManifestTypeOK
  <1>5. QED
    BY <1>3, <1>4

LEMMA CompareStep ==
    ASSUME ManifestInv, Compare
    PROVE  ManifestInv'
  <1> DEFINE f == check.file
             differs == tree[f] # check.expected[f]
  <1>1. /\ ManifestTypeOK /\ CheckStep /\ verdict' = verdict
        /\ check.at = "found" /\ f \in DOMAIN check.expected /\ f \notin check.todo \cup check.mismatches
        /\ check.todo \cap check.mismatches = {}
        /\ Honest(check.expected, check.accepted)
        /\ \A g \in Files : tree[g] \in check.versions[g]
    BY DEF ManifestInv, Compare, CheckFollows
  <1>2. f \in Files /\ tree[f] \in check.versions[f]
    BY <1>1, ListingFacts DEF ManifestInv, CheckFollows, ManifestTypeOK, Checks
  <1>3. check' = [check EXCEPT !.at = "comparing", !.file = Null,
                               !.mismatches = IF differs THEN check.mismatches \cup {f}
                                              ELSE check.mismatches]
    BY DEF Compare
  <1>4. /\ check' \in Checks
        /\ check'.at = "comparing" /\ check'.file = Null
        /\ check'.mismatches = IF differs THEN check.mismatches \cup {f} ELSE check.mismatches
        /\ \A a \in {"expected", "todo", "accepted", "versions"} : check'[a] = check[a]
    BY <1>1, <1>2, <1>3 DEF ManifestTypeOK, Checks
  <1>5. \A g \in DOMAIN check.expected \ check.todo :
            IF g \in check'.mismatches
            THEN \E v \in check.versions[g] : v # check.expected[g]
            ELSE check.expected[g] \in check.versions[g]
    BY <1>1, <1>2, <1>4 DEF ManifestInv, CheckFollows
  <1>6. CheckFollows'
    BY <1>1, <1>4, <1>5 DEF CheckFollows, Honest, CheckStep
  <1>7. QED
    BY <1>1, <1>4, <1>6, GoesOn DEF ManifestTypeOK

\* The comparison is over: what was listed, compared and found is in both
\* histories; what was not listed was missing at the install.
LEMMA ConcludeStep ==
    ASSUME ManifestInv, Conclude
    PROVE  ManifestInv'
  <1> DEFINE valid == check.mismatches \cup Extras = {}
  <1>1. /\ ManifestTypeOK /\ CheckStep
        /\ IF valid THEN Decide("compared", TRUE) ELSE Mismatch("compared")
        /\ check.at = "comparing" /\ check.todo = {} /\ check.file = Null
    BY DEF ManifestInv, Conclude, CheckFollows
  <1>2. /\ Honest(check.expected, check.accepted)
        /\ DOMAIN check.expected \subseteq Files /\ Null \notin DOMAIN check.expected \ Files
        /\ check.expected \in [DOMAIN check.expected -> Versions]
        /\ \A f \in Files : tree[f] \in check.versions[f]
    BY <1>1, ListingFacts DEF ManifestInv, CheckFollows, ManifestTypeOK, Checks
  <1>4. ASSUME valid, NEW f \in Files
        PROVE  AsAccepted(check, f) \/ (check.mode # "strict" /\ Null \in check.accepted[f])
    <2>1. CASE f \in DOMAIN check.expected
      <3>1. check.mismatches = {} /\ f # check.file
        BY <1>1, <1>4, ManifestAssumption
      <3>2. check.expected[f] \in check.versions[f]
        BY <1>1, <2>1, <3>1 DEF ManifestInv, CheckFollows
      <3>3. check.expected[f] \in check.accepted[f]
        BY <1>2, <2>1 DEF Honest
      <3>4. QED
        BY <3>2, <3>3 DEF AsAccepted
    <2>2. CASE f \notin DOMAIN check.expected
      <3>1. Null \in check.accepted[f]
        BY <1>2, <2>2 DEF Honest
      <3>2. check.mode = "strict" => tree[f] = Null
        BY <1>4, <2>2 DEF Extras, Present
      <3>3. QED
        BY <1>2, <3>1, <3>2 DEF AsAccepted
    <2>3. QED
      BY <2>1, <2>2
  <1>5. ASSUME ~valid
        PROVE  \E f \in Files :
                  /\ \E v, w \in check.accepted[f] \cup check.versions[f] : v # w
                  /\ check.mode = "strict" \/ check.accepted[f] # {Null}
    <2>1. CASE check.mismatches # {}
      <3>1. PICK f \in check.mismatches : TRUE
        BY <2>1
      <3>2. f \in DOMAIN check.expected /\ f \in Files /\ check.expected[f] \in Versions
        BY <1>1, <1>2 DEF ManifestTypeOK
      <3>3. check.expected[f] \in check.accepted[f] /\ check.expected[f] # Null
        BY <1>2, <3>2, ManifestAssumption DEF Honest
      <3>4. \E v \in check.versions[f] : v # check.expected[f]
        <4>1. f # check.file
          BY <1>1, <3>2, ManifestAssumption
        <4>2. QED
          BY <1>1, <3>1, <3>2, <4>1 DEF ManifestInv, CheckFollows
      <3>5. QED
        BY <3>2, <3>3, <3>4
    <2>2. CASE check.mismatches = {}
      <3>1. PICK f \in Extras : TRUE
        BY <1>5, <2>2
      <3>2. /\ check.mode = "strict" /\ f \in Files
            /\ tree[f] # Null /\ f \notin DOMAIN check.expected
        BY <3>1 DEF Extras, Present
      <3>3. Null \in check.accepted[f] /\ tree[f] \in check.versions[f]
        BY <1>2, <3>2 DEF Honest
      <3>4. QED
        BY <3>2, <3>3
    <2>3. QED
      BY <2>1, <2>2
  <1>6. CASE valid
    <2>1. Decide("compared", TRUE) /\ [how |-> "compared", valid |-> TRUE, run |-> check] \in Verdicts
      BY <1>1, <1>6 DEF ManifestTypeOK, Verdicts
    <2>2. AcceptedIsInstalled'
      BY <1>4, <1>6, <2>1 DEF Decide, AcceptedIsInstalled, AsAccepted
    <2>3. RejectionHasCause'
      BY <2>1 DEF Decide, RejectionHasCause
    <2>4. QED
      BY <1>1, <2>1, <2>2, <2>3, Ends
  <1>7. CASE ~valid
    BY <1>1, <1>5, <1>7, MismatchStep
  <1>8. QED
    BY <1>6, <1>7

-----------------------------------------------------------------------------
(* The theorems                                                            *)

LEMMA StutterStep ==
    ASSUME ManifestInv, UNCHANGED manifestVars
    PROVE  ManifestInv'
  <1>1. ManifestTypeOK'
    BY DEF manifestVars, ManifestInv, ManifestTypeOK
  <1>2. InstallFollows' /\ ManifestHonest'
    BY DEF manifestVars, ManifestInv, InstallFollows, ManifestHonest, Honest
  <1>3. CheckFollows'
    BY DEF manifestVars, ManifestInv, CheckFollows, Honest
  <1>4. AcceptedIsInstalled' /\ RejectionHasCause'
    BY DEF manifestVars, ManifestInv, AcceptedIsInstalled, AsAccepted, RejectionHasCause
  <1>5. QED
    BY <1>1, <1>2, <1>3, <1>4 DEF ManifestInv

\* The types, the honesty of what is in hand and the two promises are kept by
\* every step of install() and verify() (manifest.py:61-156).
THEOREM ManifestInvariant == ManifestSpec => []ManifestInv
  <1>1. ASSUME ManifestInv, [ManifestNext]_manifestVars PROVE ManifestInv'
    <2>1. ASSUME NEW f \in Files, HashFile(f) \/ LookFor(f) PROVE ManifestInv'
      BY <1>1, <2>1, HashFileStep, LookForStep
    <2>2. ASSUME NEW f \in Files, NEW v \in Versions \cup {Null}, Edit(f, v) PROVE ManifestInv'
      BY <1>1, <2>2, EditStep
    <2>3. CASE Collect \/ FileGone \/ Truncate \/ Write \/ InstallKilled
      BY <1>1, <2>3, CollectStep, InstallEndStep, TruncateStep, WriteStep
    <2>4. ASSUME NEW mode \in {"session", "lax", "strict"}, BeginVerify(mode) PROVE ManifestInv'
      BY <1>1, <2>4, BeginVerifyStep
    <2>5. CASE Skip \/ NotInstalled \/ Parse \/ Compare \/ Raises \/ Conclude
      BY <1>1, <2>5, ExcusedStep, ParseStep, CompareStep, ConcludeStep
    <2>6. CASE UNCHANGED manifestVars
      BY <1>1, <2>6, StutterStep
    <2>7. QED
      BY <1>1, <2>1, <2>2, <2>3, <2>4, <2>5, <2>6 DEF ManifestNext
  <1>2. QED
    BY <1>1, InitHolds, PTL DEF ManifestSpec

\* The state is of its types.
THEOREM ManifestTypeCorrect == ManifestSpec => []ManifestTypeOK
  <1>1. ManifestInv => ManifestTypeOK
    BY DEF ManifestInv
  <1>2. QED
    BY <1>1, ManifestInvariant, PTL

\* A comparison that passes has found what was installed, and nothing else passes
\* but what the session hook lets pass (manifest.py:117-141, session_start.py:86-129).
THEOREM PassesAsInstalled == ManifestSpec => []AcceptedIsInstalled
  <1>1. ManifestInv => AcceptedIsInstalled
    BY DEF ManifestInv
  <1>2. QED
    BY <1>1, ManifestInvariant, PTL

\* What fails has changed, or was changing (manifest.py:127-141).
THEOREM FailsForACause == ManifestSpec => []RejectionHasCause
  <1>1. ManifestInv => RejectionHasCause
    BY DEF ManifestInv
  <1>2. QED
    BY <1>1, ManifestInvariant, PTL
=============================================================================
