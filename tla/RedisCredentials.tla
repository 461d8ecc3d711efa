-------------------------- MODULE RedisCredentials --------------------------
(***************************************************************************)
(* How the operator creates the Redis credentials Secret of a Project,     *)
(* tells its own Secret from any other at the same predictable name, and   *)
(* rolls the Deployments that read it.                                     *)
(*                                                                         *)
(* What is kept and what is abstracted:                                    *)
(*  - The provenance is two status fields: the UID of the approved Secret, *)
(*    or the digest of data generated for a Secret not yet known to exist. *)
(*    A digest stands for its data (SHA-256 does not collide).             *)
(*  - The reconcile works on a cached copy of the Project; every call to   *)
(*    the API server is a step.  There is one operator, and it never       *)
(*    reconciles one Project twice at a time.                              *)
(*  - Tenants create, delete and relabel the Secret; an administrator      *)
(*    adopts one; a user turns Redis on and off in the spec.               *)
(*  - labelled stands for all the metadata the operator repairs.           *)
(*  - The source-build and migration gates only decide how far a reconcile *)
(*    goes; they are choices here.                                         *)
(***************************************************************************)
EXTENDS Naturals, Sequences

CONSTANTS
  Consumers,   \* the Deployments that read the password
  MaxUid,      \* bound on Secrets ever created at the name
  MaxGen,      \* bound on passwords the operator generates
  RcMaxFaults, \* bound on failed calls, restarts and tenant actions
  MaxToggles,  \* bound on changes of the spec
  RcMaxLag,    \* bound on the versions a reconcile's cache is behind
  LagUntil,    \* version from which a reconcile's cache is current
  None

ASSUME RedisAssumption ==
  /\ MaxUid \in Nat /\ MaxGen \in Nat /\ RcMaxFaults \in Nat
  /\ MaxToggles \in Nat /\ RcMaxLag \in Nat /\ LagUntil \in Nat
  /\ None \notin Nat

Uids == 1 .. MaxUid
Foreign == 0                  \* data somebody else chose
Data == 0 .. MaxGen
Secrets == [uid : Uids, data : Data, immutable : BOOLEAN, labelled : BOOLEAN]
RcProjects == [needs : BOOLEAN, uid : Uids \cup {None},
               digest : Data \cup {None}, rv : Nat]

VARIABLES
  secret,      \* the Secret at the predictable name, as a set of at most one
  rcProj,      \* spec (needs), provenance fields and resourceVersion
  rcWatch,     \* Project versions the operator's cache has not seen
  rcCache,     \* the operator's cached Project
  rcDirty,     \* a reconcile request is queued
  rcPc,        \* next call of the running reconcile, or "idle"
  rcApp,       \* the copy of the cache that reconcile works on
  seen,        \* the Secret the reconcile read, as a set of at most one
  prov,        \* UID the reconcile has approved
  gen,         \* data the reconcile generated
  todo,        \* consumers still to be handled
  stamp,       \* consumer -> UID in its Pod template; None: no Deployment
  nextUid, nextGen,
  dataOf,      \* history: data of every Secret ever created
  own,         \* history: UIDs of Secrets the operator created
  adopted,     \* history: UIDs an administrator adopted
  rcFaults, toggles

rcOpVars == <<rcPc, rcApp, seen, prov, gen, todo>>
histVars == <<nextUid, nextGen, dataOf, own, adopted>>
rcVars == <<secret, rcProj, rcWatch, rcCache, rcDirty, rcOpVars, stamp,
            histVars, rcFaults, toggles>>

RcTypeOK ==
  /\ secret \in {{}} \cup {{s} : s \in Secrets}
  /\ rcProj \in RcProjects
  /\ rcWatch \in Seq(RcProjects)
  /\ rcCache \in RcProjects
  /\ rcDirty \in BOOLEAN
  /\ rcPc \in {"idle", "get", "meta", "record", "commit", "create", "roll",
             "apply", "status"}
  /\ rcApp \in RcProjects
  /\ seen \in {{}} \cup {{s} : s \in Secrets}
  /\ prov \in Uids \cup {None}
  /\ gen \in Data
  /\ todo \subseteq Consumers
  /\ stamp \in [Consumers -> Uids \cup {None}]
  /\ nextUid \in 1 .. MaxUid + 1
  /\ nextGen \in 1 .. MaxGen + 1
  /\ dataOf \in [Uids -> Data]
  /\ own \subseteq Uids
  /\ adopted \subseteq Uids
  /\ rcFaults \in 0 .. RcMaxFaults
  /\ toggles \in 0 .. MaxToggles

NewProject == [needs |-> TRUE, uid |-> None, digest |-> None, rv |-> 0]

RcInit ==
  /\ secret = {}
  /\ rcProj = NewProject
  /\ rcWatch = <<>>
  /\ rcCache = NewProject
  /\ rcDirty = TRUE
  /\ rcPc = "idle"
  /\ rcApp = NewProject
  /\ seen = {}
  /\ prov = None
  /\ gen = Foreign
  /\ todo = {}
  /\ stamp = [c \in Consumers |-> None]
  /\ nextUid = 1
  /\ nextGen = 1
  /\ dataOf = [u \in Uids |-> Foreign]
  /\ own = {}
  /\ adopted = {}
  /\ rcFaults = 0
  /\ toggles = 0

-----------------------------------------------------------------------------
(* The API server *)

\* Write the Project: a new version unless nothing changed.
RcStore(p) ==
  IF p = rcProj THEN UNCHANGED <<rcProj, rcWatch>>
    ELSE /\ rcProj' = [p EXCEPT !.rv = rcProj.rv + 1]
         /\ rcWatch' = Append(rcWatch, rcProj')

\* patch_redis_credentials_provenance: one field is set, the other cleared.
PatchProvenance(uid, digest) ==
  RcStore([rcProj EXCEPT !.uid = uid, !.digest = digest])

CreateSecret(s) ==
  /\ secret = {}
  /\ nextUid <= MaxUid
  /\ secret' = {s}
  /\ nextUid' = nextUid + 1
  /\ dataOf' = [dataOf EXCEPT ![nextUid] = s.data]

RcDeliver ==
  /\ rcWatch # <<>>
  /\ rcCache' = Head(rcWatch)
  /\ rcWatch' = Tail(rcWatch)
  /\ rcDirty' = TRUE
  /\ UNCHANGED <<secret, rcProj, rcOpVars, stamp, histVars, rcFaults, toggles>>

-----------------------------------------------------------------------------
(* Reconcile *)

RcIdle ==
  /\ rcPc' = "idle"
  /\ rcApp' = NewProject
  /\ seen' = {}
  /\ prov' = None
  /\ gen' = Foreign
  /\ todo' = {}

\* Mutant of Fails: the reconcile gives up and waits for an event.
FailsAwaits == RcIdle /\ rcDirty' = rcDirty

\* The error policy queues a retry (30 s, 60 s or 300 s later).
Fails == RcIdle /\ rcDirty' = TRUE

RcStart ==
  /\ rcPc = "idle"
  /\ rcDirty
  /\ rcWatch = <<>> \/ (Len(rcWatch) <= RcMaxLag /\ rcProj.rv < LagUntil)
  /\ rcDirty' = FALSE
  /\ rcApp' = rcCache
  /\ rcPc' = IF rcCache.needs THEN "get" ELSE "status"
  /\ UNCHANGED <<secret, rcProj, rcWatch, rcCache, seen, prov, gen, todo,
                 stamp, histVars, rcFaults, toggles>>

\* Mutant of Trusted: without a recorded UID any Secret will do.
TrustedAny(s, p) == p.uid \in {None, s.uid}

\* redis_credentials_secret_provenance: a recorded UID must match; without one
\* the data must be what the pending digest commits to.
Trusted(s, p) ==
  IF p.uid # None THEN p.uid = s.uid ELSE p.digest = s.data

\* Look the Secret up.  One that cannot be trusted is an ownership conflict.
Get ==
  /\ rcPc = "get"
  /\ \/ /\ secret = {}
        /\ rcPc' = "commit"
        /\ UNCHANGED <<rcDirty, rcApp, seen, prov, gen, todo>>
     \/ \E s \in secret :
          /\ Trusted(s, rcApp)
          /\ rcPc' = "meta"
          /\ seen' = {s}
          /\ UNCHANGED <<rcDirty, rcApp, prov, gen, todo>>
     \/ \E s \in secret : ~ Trusted(s, rcApp) /\ Fails
  /\ UNCHANGED <<secret, rcProj, rcWatch, rcCache, stamp, histVars, rcFaults,
                 toggles>>

\* Mutant of Meta: the data is taken for the UID.
MetaApprovesData ==
  /\ rcPc = "meta"
  /\ \E s \in seen : prov' = s.data
  /\ todo' = Consumers
  /\ rcPc' = "roll"
  /\ UNCHANGED <<secret, rcProj, rcWatch, rcCache, rcDirty, rcApp, seen, gen,
                 stamp, histVars, rcFaults, toggles>>

\* enforce_redis_credentials_metadata, then the immutability check on the
\* Secret as read.  The metadata patch carries the UID and resourceVersion
\* seen, so it fails if the Secret changed.
Meta ==
  /\ rcPc = "meta"
  /\ \E s \in seen :
       \/ /\ s.labelled \/ secret = seen
          /\ secret' = IF s.labelled THEN secret
                                     ELSE {[s EXCEPT !.labelled = TRUE]}
          /\ s.immutable
          /\ prov' = s.uid
          /\ todo' = Consumers
          /\ rcPc' = IF rcApp.uid = None \/ rcApp.digest # None THEN "record"
                                                          ELSE "roll"
          /\ UNCHANGED <<rcDirty, rcApp, seen, gen>>
       \/ /\ s.labelled \/ secret = seen
          /\ secret' = IF s.labelled THEN secret
                                     ELSE {[s EXCEPT !.labelled = TRUE]}
          /\ ~ s.immutable
          /\ Fails
       \/ /\ ~ s.labelled /\ secret # seen
          /\ Fails
          /\ UNCHANGED secret
  /\ UNCHANGED <<rcProj, rcWatch, rcCache, stamp, histVars, rcFaults, toggles>>

\* Mutant of Commit: the Secret is created before anything is written.
CommitNothing ==
  /\ rcPc = "commit"
  /\ nextGen <= MaxGen
  /\ nextGen' = nextGen + 1
  /\ gen' = nextGen
  /\ rcPc' = "create"
  /\ UNCHANGED <<secret, rcProj, rcWatch, rcCache, rcDirty, rcApp, seen, prov,
                 todo, stamp, nextUid, dataOf, own, adopted, rcFaults,
                 toggles>>

\* No Secret: commit to new data in the status.  The resourceVersion of the
\* copy must still be current.
Commit ==
  /\ rcPc = "commit"
  /\ \/ /\ rcApp.rv = rcProj.rv
        /\ nextGen <= MaxGen
        /\ nextGen' = nextGen + 1
        /\ PatchProvenance(None, nextGen)
        /\ gen' = nextGen
        /\ rcPc' = "create"
        /\ UNCHANGED <<rcDirty, rcApp, seen, prov, todo>>
     \/ /\ rcApp.rv # rcProj.rv
        /\ Fails
        /\ UNCHANGED <<rcProj, rcWatch, nextGen>>
  /\ UNCHANGED <<secret, rcCache, stamp, nextUid, dataOf, own, adopted,
                 rcFaults, toggles>>

\* Create the Secret; AlreadyExists if somebody took the name.
Create ==
  /\ rcPc = "create"
  /\ \/ /\ CreateSecret([uid |-> nextUid, data |-> gen,
                         immutable |-> TRUE, labelled |-> TRUE])
        /\ own' = own \cup {nextUid}
        /\ prov' = nextUid
        /\ todo' = Consumers
        /\ rcPc' = "record"
        /\ UNCHANGED <<rcApp, seen, gen, rcDirty>>
     \/ /\ secret # {}
        /\ Fails
        /\ UNCHANGED <<secret, nextUid, dataOf, own>>
  /\ UNCHANGED <<rcProj, rcWatch, rcCache, stamp, nextGen, adopted, rcFaults,
                 toggles>>

\* Record the UID and drop the digest, unconditionally.
Record ==
  /\ rcPc = "record"
  /\ PatchProvenance(prov, None)
  /\ rcPc' = "roll"
  /\ UNCHANGED <<secret, rcCache, rcDirty, rcApp, seen, prov, gen, todo, stamp,
                 histVars, rcFaults, toggles>>

\* Mutant of Roll: running Deployments are left to the apply behind the gates.
RollNothing(c) ==
  /\ rcPc = "roll"
  /\ c \in todo
  /\ todo' = todo \ {c}
  /\ UNCHANGED <<secret, rcProj, rcWatch, rcCache, rcDirty, rcPc, rcApp, seen,
                 prov, gen, stamp, histVars, rcFaults, toggles>>

\* roll_redis_credential_consumers: stamp the Deployments that exist.
Roll(c) ==
  /\ rcPc = "roll"
  /\ c \in todo
  /\ todo' = todo \ {c}
  /\ stamp' = IF stamp[c] = None THEN stamp ELSE [stamp EXCEPT ![c] = prov]
  /\ UNCHANGED <<secret, rcProj, rcWatch, rcCache, rcDirty, rcPc, rcApp, seen,
                 prov, gen, histVars, rcFaults, toggles>>

\* A source build or a migration may hold the rest back: the reconcile ends,
\* or goes straight to its status write.
Gates ==
  /\ rcPc = "roll"
  /\ todo = {}
  /\ \/ /\ rcPc' = "apply" /\ todo' = Consumers
        /\ UNCHANGED <<rcApp, seen, prov, gen>>
     \/ /\ rcPc' = "status"
        /\ UNCHANGED <<rcApp, seen, prov, gen, todo>>
     \/ RcIdle
  /\ UNCHANGED <<secret, rcProj, rcWatch, rcCache, rcDirty, stamp, histVars,
                 rcFaults, toggles>>

\* Apply a stamped Deployment, creating it if need be.
Apply(c) ==
  /\ rcPc = "apply"
  /\ c \in todo
  /\ todo' = todo \ {c}
  /\ stamp' = [stamp EXCEPT ![c] = prov]
  /\ rcPc' = IF todo' = {} THEN "status" ELSE rcPc
  /\ UNCHANGED <<secret, rcProj, rcWatch, rcCache, rcDirty, rcApp, seen, prov,
                 gen, histVars, rcFaults, toggles>>

\* build_status copies the provenance of the cached Project, record overrides
\* it with the approved UID; the merge patch leaves out what is None.
RcUpdateStatus ==
  /\ rcPc = "status"
  /\ LET uid == IF rcApp.needs THEN prov ELSE rcApp.uid
         digest == IF rcApp.needs THEN None ELSE rcApp.digest
     IN RcStore([rcProj EXCEPT !.uid = IF uid = None THEN @ ELSE uid,
                           !.digest = IF digest = None THEN @ ELSE digest])
  /\ RcIdle
  /\ UNCHANGED <<secret, rcCache, rcDirty, stamp, histVars, rcFaults, toggles>>

RcCallFails ==
  /\ rcPc # "idle"
  /\ rcFaults < RcMaxFaults
  /\ rcFaults' = rcFaults + 1
  /\ Fails
  /\ UNCHANGED <<secret, rcProj, rcWatch, rcCache, stamp, histVars, toggles>>

RcRestart ==
  /\ rcFaults < RcMaxFaults
  /\ rcFaults' = rcFaults + 1
  /\ rcCache' = rcProj
  /\ rcWatch' = <<>>
  /\ Fails
  /\ UNCHANGED <<secret, rcProj, stamp, histVars, toggles>>

RcReconcile ==
  \/ RcStart \/ Get \/ Meta \/ Commit \/ Create \/ Record
  \/ (\E c \in Consumers : Roll(c) \/ Apply(c))
  \/ Gates \/ RcUpdateStatus

-----------------------------------------------------------------------------
(* Everybody else *)

\* The controller watches labelled Secrets.
TenantDelete ==
  /\ rcFaults < RcMaxFaults
  /\ rcFaults' = rcFaults + 1
  /\ \E s \in secret : rcDirty' = (rcDirty \/ s.labelled)
  /\ secret' = {}
  /\ UNCHANGED <<rcProj, rcWatch, rcCache, rcOpVars, stamp, histVars, toggles>>

\* A Secret of somebody else's making: other data, or data read from a Secret
\* that was there before.
TenantCreate ==
  /\ rcFaults < RcMaxFaults
  /\ rcFaults' = rcFaults + 1
  /\ \E data \in {Foreign} \cup {dataOf[u] : u \in 1 .. nextUid - 1},
        immutable, labelled \in BOOLEAN :
       /\ CreateSecret([uid |-> nextUid, data |-> data,
                        immutable |-> immutable, labelled |-> labelled])
       /\ rcDirty' = (rcDirty \/ labelled)
  /\ UNCHANGED <<rcProj, rcWatch, rcCache, rcOpVars, stamp, nextGen, own,
                 adopted, toggles>>

\* Leaving the watch's selector is itself an event.
TenantUnlabel ==
  /\ rcFaults < RcMaxFaults
  /\ rcFaults' = rcFaults + 1
  /\ \E s \in secret : s.labelled /\ secret' = {[s EXCEPT !.labelled = FALSE]}
  /\ rcDirty' = TRUE
  /\ UNCHANGED <<rcProj, rcWatch, rcCache, rcOpVars, stamp, histVars, toggles>>

\* The documented procedure: freeze a verified Secret, then record its UID.
AdminAdopt ==
  /\ rcFaults < RcMaxFaults
  /\ rcFaults' = rcFaults + 1
  /\ \E s \in secret :
       /\ secret' = {[s EXCEPT !.immutable = TRUE]}
       /\ PatchProvenance(s.uid, None)
       /\ adopted' = adopted \cup {s.uid}
       /\ rcDirty' = (rcDirty \/ s.labelled)
  /\ UNCHANGED <<rcCache, rcOpVars, stamp, nextUid, nextGen, dataOf, own,
                 toggles>>

\* The cache or session backend is turned on or off in the spec.
ToggleRedis ==
  /\ toggles < MaxToggles
  /\ toggles' = toggles + 1
  /\ RcStore([rcProj EXCEPT !.needs = ~ rcProj.needs])
  /\ UNCHANGED <<secret, rcCache, rcDirty, rcOpVars, stamp, histVars,
                 rcFaults>>

Others ==
  TenantDelete \/ TenantCreate \/ TenantUnlabel \/ AdminAdopt \/ ToggleRedis

RcNext == RcDeliver \/ RcReconcile \/ RcCallFails \/ RcRestart \/ Others

RcSpec == RcInit /\ [][RcNext]_rcVars

\* The watch delivers and the controller runs queued reconciles.
RcFairness == WF_rcVars(RcDeliver) /\ WF_rcVars(RcReconcile)

RcFairSpec == RcSpec /\ RcFairness

-----------------------------------------------------------------------------
(* Properties *)

\* The data of the Secret was generated by the operator, or an administrator
\* vouched for it.
Approved(u) == u \in adopted \/ dataOf[u] # Foreign

\* A UID is only recorded, and a Deployment only rolled onto it, for a Secret
\* whose data the operator generated or an administrator adopted, however
\* tenants, stale copies and crashes interleave with the reconcile.
OnlyApproved ==
  /\ rcProj.uid # None => Approved(rcProj.uid)
  /\ \A c \in Consumers : stamp[c] # None => Approved(stamp[c])

\* A Secret the operator created is recognised by the Project's status from
\* the moment it exists, so a crash between create and the UID write never
\* turns it into an ownership conflict; as long as Redis stays on and no
\* adoption lands between the two writes.
OwnSecretRecognised ==
  adopted = {} /\ toggles = 0 =>
    \A s \in secret : s.uid \in own => Trusted(s, rcProj)

\* Once tenants and faults stop, every consumer that exists runs with the
\* current password, unless a Secret the status does not approve, or a mutable
\* one, holds the name or Redis is off: a regenerated password reaches them
\* although the gates may end every reconcile early.
ConsumersCatchUp ==
  <>[](\/ ~ rcProj.needs
       \/ \E s \in secret :
            \/ ~ Trusted(s, rcProj) \/ ~ s.immutable
            \/ \A c \in Consumers : stamp[c] \in {None, s.uid})

-----------------------------------------------------------------------------
(* The inductive invariant *)

\* A copy of the Project names only approved Secrets and real digests.
RcSoundCopy(p) ==
  /\ p.uid # None => p.uid < nextUid /\ Approved(p.uid)
  /\ p.digest # Foreign
  /\ toggles = 0 => p.needs

\* A Secret somebody has seen: it exists or existed with that data.
SoundSecret(s) == s.uid < nextUid /\ dataOf[s.uid] = s.data

RcCopiesSound ==
  /\ RcSoundCopy(rcProj) /\ RcSoundCopy(rcCache) /\ RcSoundCopy(rcApp)
  /\ \A i \in 1 .. Len(rcWatch) : RcSoundCopy(rcWatch[i])

SecretsSound ==
  /\ \A s \in secret : SoundSecret(s)
  /\ \A s \in seen : SoundSecret(s) /\ Approved(s.uid)
  /\ \A u \in own : u < nextUid /\ dataOf[u] # Foreign

\* What the reconcile holds is approved.
RcLocalsSound ==
  /\ prov # None => prov < nextUid /\ Approved(prov)
  /\ rcPc \in {"record", "roll", "apply"} => prov # None
  /\ rcPc = "status" /\ rcApp.needs => prov # None
  /\ rcPc = "create" => gen # Foreign
  /\ rcPc = "meta" => seen # {}
  /\ \A c \in Consumers :
       stamp[c] # None => stamp[c] < nextUid /\ Approved(stamp[c])

\* While the operator works, the Secret at the name is not one of its own
\* unless it is the one the operator holds.
OwnIsHeld ==
  adopted = {} /\ toggles = 0 =>
    /\ rcPc \in {"commit", "create"} => \A s \in secret : s.uid \notin own
    /\ rcPc = "create" => rcProj.uid = None /\ rcProj.digest = gen
    /\ rcPc = "meta" => \A s \in secret, t \in seen :
                        s.uid \in own => s.uid = t.uid
    /\ rcPc \in {"record", "roll", "apply", "status"} =>
         \A s \in secret : s.uid \in own => s.uid = prov

RcIInv ==
  /\ RcTypeOK
  /\ RcCopiesSound /\ SecretsSound /\ RcLocalsSound
  /\ OwnIsHeld /\ OwnSecretRecognised

-----------------------------------------------------------------------------
(* What holds when the operator has nothing left to do *)

\* Nothing is queued and nothing is on its way.
RcQuiet == ~rcDirty /\ rcWatch = <<>>
AtRest == RcQuiet /\ rcPc = "idle"

\* s is the Secret that status and running Deployments agree on.
Settled(s) ==
  /\ s.labelled /\ s.immutable
  /\ rcProj.uid = s.uid /\ rcProj.digest = None
  /\ \A c \in Consumers : stamp[c] \in {None, s.uid}

\* When the operator waits for an event, nothing is left undone: there is a
\* Secret, it is the recorded one, frozen and watched, and every Deployment that
\* exists runs with its password.  No wake-up is missing, whatever was deleted,
\* replaced, adopted, toggled or failed before.
RestIsSettled == AtRest /\ rcProj.needs => \E s \in secret : Settled(s)

\* The cache ends at the current version.
RcCacheFollows ==
  IF rcWatch = <<>> THEN rcCache = rcProj ELSE rcWatch[Len(rcWatch)] = rcProj

\* A reconcile with nothing queued behind it works on the current version.
CopyCurrent == RcQuiet /\ rcPc # "idle" => rcApp = rcProj

\* The steps between the first look at the Secret and the status write.
RcOnItsWay ==
  /\ rcPc \in {"get", "meta", "record", "commit", "create", "roll", "apply"} =>
       rcApp.needs
  /\ rcPc = "record" => todo = Consumers

\* What the steps so far have established, if no event says otherwise.
RcStepsDone ==
  RcQuiet =>
    /\ rcPc = "meta" => \A s \in seen : /\ Trusted(s, rcProj)
                                        /\ s.labelled => secret = seen
    /\ \/ rcPc \in {"record", "roll", "apply"}
       \/ rcPc = "status" /\ rcApp.needs
       => \E s \in secret : s.labelled /\ s.immutable /\ s.uid = prov
    /\ rcPc \in {"roll", "apply"} \/ (rcPc = "status" /\ rcApp.needs) =>
         /\ rcProj.uid = prov /\ rcProj.digest = None
         /\ \A c \in Consumers :
              stamp[c] \in {None, prov} \/ (rcPc = "roll" /\ c \in todo)

RcRestInv ==
  RcCacheFollows /\ CopyCurrent /\ RcOnItsWay /\ RcStepsDone /\ RestIsSettled
=============================================================================
