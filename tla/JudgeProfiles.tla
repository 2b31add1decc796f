----------------------------- MODULE JudgeProfiles -----------------------------
(***************************************************************************)
(* The profile of the judge a matter is before: public opinions are        *)
(* fetched and distilled, the result is archived once under the digest of  *)
(* its evidence, and a pointer names the current one.  A worker whose      *)
(* lease ran out, or a command beside it, may build at the same time.      *)
(***************************************************************************)
EXTENDS Naturals

CONSTANTS
  Judges,       \* whom the caption of matter.yaml may name
  Evidence,     \* the opinions a search may find
  Calibrated,   \* the evidence whose held-out error is within the limit
  Builders,
  MaxProfiles   \* bound: builds and edits of the caption in a behaviour

ASSUME EvidenceAssumption    == Calibrated \subseteq Evidence
ASSUME MaxProfilesAssumption == MaxProfiles \in Nat

VARIABLES
  judge,    \* the caption in matter.yaml
  archive,  \* law/judge-profiles/<id>.json
  pointer,  \* law/judge-profiles/current.json, or NoProfile
  builder,
  profileOps

profileVars == <<judge, archive, pointer, builder, profileOps>>

NoProfile == [built |-> 0]
AtRest    == [at |-> "idle"]
Profiles  == [judge: Judges, evidence: Evidence, built: 1 .. MaxProfiles]

\* The time a profile was built is no part of what identifies it.
Identity(p) == [p EXCEPT !.built = 0]
Archived(p) == {a \in archive : Identity(a) = Identity(p)}

ProfileSpend == profileOps < MaxProfiles /\ profileOps' = profileOps + 1

-----------------------------------------------------------------------------
ProfileInit ==
  /\ judge \in Judges
  /\ archive = {} /\ pointer = NoProfile
  /\ builder = [b \in Builders |-> AtRest]
  /\ profileOps = 0

EditCaption(j) ==
  /\ j # judge
  /\ ProfileSpend
  /\ judge' = j
  /\ UNCHANGED <<archive, pointer, builder>>

BeginBuild(b) ==
  /\ builder[b] = AtRest
  /\ ProfileSpend
  /\ builder' = [builder EXCEPT ![b] = [at |-> "fetching", judge |-> judge, built |-> profileOps']]
  /\ UNCHANGED <<judge, archive, pointer>>

Fetched(b, e) ==
  /\ builder[b].at = "fetching"
  /\ builder' = [builder EXCEPT ![b] =
       [at |-> "built",
        body |-> [judge |-> builder[b].judge, evidence |-> e, built |-> builder[b].built]]]
  /\ UNCHANGED <<judge, archive, pointer, profileOps>>

\* Mutant: the pointer is written with the body just built.
ArchiveOwn(b) ==
  LET body == builder[b].body IN
  /\ builder[b].at = "built"
  /\ archive' = IF Archived(body) = {} THEN archive \cup {body} ELSE archive
  /\ builder' = [builder EXCEPT ![b].at = "archived"]
  /\ UNCHANGED <<judge, pointer, profileOps>>

\* What is archived under the same evidence already is what the pointer will say.
ArchiveProfile(b) ==
  LET body == builder[b].body IN
  /\ builder[b].at = "built"
  /\ archive' = IF Archived(body) = {} THEN archive \cup {body} ELSE archive
  /\ builder' = [builder EXCEPT ![b] =
       [at |-> "archived", body |-> CHOOSE a \in archive' : Identity(a) = Identity(body)]]
  /\ UNCHANGED <<judge, pointer, profileOps>>

PointAt(b) ==
  /\ builder[b].at = "archived"
  /\ pointer' = builder[b].body
  /\ builder' = [builder EXCEPT ![b] = AtRest]
  /\ UNCHANGED <<judge, archive, profileOps>>

\* No opinions, a lost lease, an error, a crash.
BuildEnds(b) ==
  /\ builder[b] # AtRest
  /\ builder' = [builder EXCEPT ![b] = AtRest]
  /\ UNCHANGED <<judge, archive, pointer, profileOps>>

ProfileNext ==
  \/ \E j \in Judges : EditCaption(j)
  \/ \E b \in Builders : \/ BeginBuild(b) \/ ArchiveProfile(b) \/ PointAt(b) \/ BuildEnds(b)
                         \/ \E e \in Evidence : Fetched(b, e)

-----------------------------------------------------------------------------
\* A pointer that disagrees with its archive stops every launch.
Loads == pointer = NoProfile \/ pointer \in archive

\* The profile a launch takes for the caption it read.
ProfileFor(j) ==
  IF pointer # NoProfile /\ pointer.judge = j /\ pointer.evidence \in Calibrated
  THEN pointer ELSE NoProfile

ProfileTypeOK ==
  /\ judge \in Judges
  /\ archive \subseteq Profiles
  /\ pointer \in Profiles \cup {NoProfile}
  /\ builder \in [Builders -> {AtRest} \cup [at: {"fetching"}, judge: Judges, built: 1 .. MaxProfiles]
                                       \cup [at: {"built", "archived"}, body: Profiles]]
  /\ profileOps \in 0 .. MaxProfiles

\* The current profile is the archived one, to the time it was built: two builders
\* that found the same evidence, or a crash between the two files, never leave a
\* pointer that makes every later launch fail (JudgeProfileStore.publish, latest).
PointerArchived == Loads
=============================================================================
