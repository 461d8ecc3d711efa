----------------------- MODULE RedisCredentialsProofs -----------------------
(***************************************************************************)
(* Proofs about RedisCredentials, for every set of consumers and every     *)
(* bound on Secrets, passwords, faults, spec changes and lag.              *)
(***************************************************************************)
EXTENDS RedisCredentials, TLAPS

-----------------------------------------------------------------------------
(* Types *)

\* A write of the Project keeps the types of the Project and of the watch.
LEMMA StoreType ==
  ASSUME RcTypeOK, NEW p \in RcProjects, RcStore(p)
  PROVE  rcProj' \in RcProjects /\ rcWatch' \in Seq(RcProjects)
<1>1. CASE p = rcProj
  BY <1>1 DEF RcStore, RcTypeOK
<1>2. CASE p # rcProj
  <2>1. rcProj' = [p EXCEPT !.rv = rcProj.rv + 1] /\ rcWatch' = Append(rcWatch, rcProj')
    BY <1>2 DEF RcStore
  <2>2. rcProj.rv + 1 \in Nat
    BY DEF RcTypeOK, RcProjects
  <2>3. rcProj' \in RcProjects
    BY <2>1, <2>2 DEF RcProjects
  <2> QED BY <2>1, <2>3 DEF RcTypeOK
<1> QED BY <1>1, <1>2

LEMMA IdleType ==
  ASSUME RcIdle
  PROVE  /\ rcPc' = "idle" /\ rcApp' \in RcProjects /\ seen' = {} /\ prov' = None
         /\ gen' \in Data /\ todo' \subseteq Consumers
BY RedisAssumption DEF RcIdle, NewProject, RcProjects, Foreign, Data

LEMMA InitType == RcInit => RcTypeOK
BY RedisAssumption DEF RcInit, RcTypeOK, NewProject, RcProjects, Uids, Data, Foreign

\* What the reconcile's locals look like between two of its calls.
LEMMA TypeStep == RcTypeOK /\ [RcNext]_rcVars => RcTypeOK'
<1> SUFFICES ASSUME RcTypeOK, [RcNext]_rcVars PROVE RcTypeOK'
  OBVIOUS
<1> USE RedisAssumption
<1>1. CASE RcDeliver
  BY <1>1 DEF RcDeliver, RcTypeOK, rcOpVars, histVars
<1>2. CASE RcStart
  BY <1>2 DEF RcStart, RcTypeOK, histVars
<1>3. CASE Get
  <2>1. CASE secret = {} /\ rcPc' = "commit" /\ UNCHANGED <<rcDirty, rcApp, seen, prov, gen, todo>>
    BY <1>3, <2>1 DEF Get, RcTypeOK, histVars
  <2>2. CASE \E s \in secret : /\ rcPc' = "meta" /\ seen' = {s}
                               /\ UNCHANGED <<rcDirty, rcApp, prov, gen, todo>>
    BY <1>3, <2>2 DEF Get, RcTypeOK, histVars
  <2>3. CASE Fails
    BY <1>3, <2>3, IdleType DEF Get, Fails, RcTypeOK, histVars
  <2> QED BY <1>3, <2>1, <2>2, <2>3 DEF Get
<1>4. CASE Meta
  <2>1. PICK s \in Secrets : /\ seen = {s}
                             /\ secret' \in {secret, {[s EXCEPT !.labelled = TRUE]}}
                             /\ \/ /\ prov' = s.uid /\ todo' = Consumers
                                   /\ rcPc' \in {"record", "roll"}
                                   /\ UNCHANGED <<rcDirty, rcApp, seen, gen>>
                                \/ Fails
    BY <1>4 DEF Meta, RcTypeOK
  <2>2. secret' \in {{}} \cup {{t} : t \in Secrets}
    BY <2>1 DEF RcTypeOK, Secrets
  <2>3. s.uid \in Uids
    BY <2>1 DEF Secrets
  <2>4. CASE Fails
    BY <1>4, <2>2, <2>4, IdleType DEF Meta, Fails, RcTypeOK, histVars
  <2>5. CASE /\ prov' = s.uid /\ todo' = Consumers
             /\ rcPc' \in {"record", "roll"}
             /\ UNCHANGED <<rcDirty, rcApp, seen, gen>>
    BY <1>4, <2>2, <2>3, <2>5 DEF Meta, RcTypeOK, histVars
  <2> QED BY <2>1, <2>4, <2>5
<1>5. CASE Commit
  <2>1. CASE Fails /\ UNCHANGED <<rcProj, rcWatch, nextGen>>
    BY <1>5, <2>1, IdleType DEF Commit, Fails, RcTypeOK
  <2>2. CASE /\ nextGen <= MaxGen /\ nextGen' = nextGen + 1
             /\ PatchProvenance(None, nextGen) /\ gen' = nextGen /\ rcPc' = "create"
             /\ UNCHANGED <<rcDirty, rcApp, seen, prov, todo>>
    <3>1. nextGen \in Data /\ nextGen' \in 1 .. MaxGen + 1
      BY <2>2 DEF RcTypeOK, Data
    <3>2. [rcProj EXCEPT !.uid = None, !.digest = nextGen] \in RcProjects
      BY <3>1 DEF RcTypeOK, RcProjects
    <3>3. rcProj' \in RcProjects /\ rcWatch' \in Seq(RcProjects)
      BY <2>2, <3>2, StoreType DEF PatchProvenance
    <3> QED BY <1>5, <2>2, <3>1, <3>3 DEF Commit, RcTypeOK
  <2> QED BY <1>5, <2>1, <2>2 DEF Commit
<1>6. CASE Create
  <2>1. CASE Fails /\ UNCHANGED <<secret, nextUid, dataOf, own>>
    BY <1>6, <2>1, IdleType DEF Create, Fails, RcTypeOK
  <2>2. CASE /\ CreateSecret([uid |-> nextUid, data |-> gen,
                              immutable |-> TRUE, labelled |-> TRUE])
             /\ own' = own \cup {nextUid} /\ prov' = nextUid
             /\ todo' = Consumers /\ rcPc' = "record"
             /\ UNCHANGED <<rcApp, seen, gen, rcDirty>>
    <3>1. nextUid \in Uids /\ nextUid' \in 1 .. MaxUid + 1
      BY <2>2 DEF CreateSecret, RcTypeOK, Uids
    <3>2. [uid |-> nextUid, data |-> gen, immutable |-> TRUE, labelled |-> TRUE] \in Secrets
      BY <3>1 DEF RcTypeOK, Secrets
    <3>3. secret' \in {{}} \cup {{s} : s \in Secrets}
      BY <2>2, <3>2 DEF CreateSecret
    <3>4. dataOf' \in [Uids -> Data]
      BY <2>2, <3>1 DEF CreateSecret, RcTypeOK
    <3> QED BY <1>6, <2>2, <3>1, <3>3, <3>4 DEF Create, RcTypeOK
  <2> QED BY <1>6, <2>1, <2>2 DEF Create
<1>7. CASE Record
  <2>1. [rcProj EXCEPT !.uid = prov, !.digest = None] \in RcProjects
    BY DEF RcTypeOK, RcProjects
  <2>2. rcProj' \in RcProjects /\ rcWatch' \in Seq(RcProjects)
    BY <1>7, <2>1, StoreType DEF Record, PatchProvenance
  <2> QED BY <1>7, <2>2 DEF Record, RcTypeOK, histVars
<1>8. CASE \E c \in Consumers : Roll(c) \/ Apply(c)
  BY <1>8 DEF Roll, Apply, RcTypeOK, histVars
<1>9. CASE Gates
  <2>1. CASE RcIdle
    BY <1>9, <2>1, IdleType DEF Gates, RcTypeOK, histVars
  <2>2. CASE rcPc' \in {"apply", "status"} /\ todo' \in {Consumers, todo}
             /\ UNCHANGED <<rcApp, seen, prov, gen>>
    BY <1>9, <2>2 DEF Gates, RcTypeOK, histVars
  <2> QED BY <1>9, <2>1, <2>2 DEF Gates
<1>10. CASE RcUpdateStatus
  <2>1. PICK p \in RcProjects : RcStore(p)
    BY <1>10 DEF RcUpdateStatus, RcTypeOK, RcProjects
  <2>2. rcProj' \in RcProjects /\ rcWatch' \in Seq(RcProjects)
    BY <2>1, StoreType
  <2> QED BY <1>10, <2>2, IdleType DEF RcUpdateStatus, RcTypeOK, histVars
<1>11. CASE RcCallFails
  BY <1>11, IdleType DEF RcCallFails, Fails, RcTypeOK, histVars
<1>12. CASE RcRestart
  BY <1>12, IdleType DEF RcRestart, Fails, RcTypeOK, histVars
<1>13. CASE TenantDelete
  BY <1>13 DEF TenantDelete, RcTypeOK, rcOpVars, histVars
<1>14. CASE TenantCreate
  <2>1. PICK data \in {Foreign} \cup {dataOf[u] : u \in 1 .. nextUid - 1},
             immutable \in BOOLEAN, labelled \in BOOLEAN :
          /\ CreateSecret([uid |-> nextUid, data |-> data,
                           immutable |-> immutable, labelled |-> labelled])
          /\ rcDirty' = (rcDirty \/ labelled)
    BY <1>14 DEF TenantCreate
  <2>2. nextUid \in Uids /\ nextUid' \in 1 .. MaxUid + 1
    BY <2>1 DEF CreateSecret, RcTypeOK, Uids
  <2>3. data \in Data
    BY <2>1 DEF RcTypeOK, Data, Uids, Foreign
  <2>4. [uid |-> nextUid, data |-> data, immutable |-> immutable, labelled |-> labelled] \in Secrets
    BY <2>1, <2>2, <2>3 DEF Secrets
  <2>5. secret' \in {{}} \cup {{s} : s \in Secrets} /\ dataOf' \in [Uids -> Data]
    BY <2>1, <2>2, <2>3, <2>4 DEF CreateSecret, RcTypeOK
  <2>6. rcDirty' \in BOOLEAN
    BY <2>1 DEF RcTypeOK
  <2> QED BY <1>14, <2>2, <2>5, <2>6 DEF TenantCreate, RcTypeOK, rcOpVars
<1>15. CASE TenantUnlabel
  <2>1. PICK s \in Secrets : secret' = {[s EXCEPT !.labelled = FALSE]}
    BY <1>15 DEF TenantUnlabel, RcTypeOK
  <2>2. secret' \in {{}} \cup {{t} : t \in Secrets}
    BY <2>1 DEF Secrets
  <2>3. /\ rcFaults' \in 0 .. RcMaxFaults /\ rcDirty' \in BOOLEAN
        /\ UNCHANGED <<rcProj, rcWatch, rcCache, rcOpVars, stamp, histVars, toggles>>
    BY <1>15 DEF TenantUnlabel, RcTypeOK
  <2> QED BY <2>2, <2>3 DEF RcTypeOK, rcOpVars, histVars
<1>16. CASE AdminAdopt
  <2>1. PICK s \in Secrets : /\ secret' = {[s EXCEPT !.immutable = TRUE]}
                             /\ PatchProvenance(s.uid, None)
                             /\ adopted' = adopted \cup {s.uid}
                             /\ rcDirty' = (rcDirty \/ s.labelled)
    BY <1>16 DEF AdminAdopt, RcTypeOK
  <2>2. s.uid \in Uids /\ s.labelled \in BOOLEAN
    BY DEF Secrets
  <2>3. secret' \in {{}} \cup {{t} : t \in Secrets}
    BY <2>1 DEF Secrets
  <2>4. [rcProj EXCEPT !.uid = s.uid, !.digest = None] \in RcProjects
    BY <2>2 DEF RcTypeOK, RcProjects
  <2>5. rcProj' \in RcProjects /\ rcWatch' \in Seq(RcProjects)
    BY <2>1, <2>4, StoreType DEF PatchProvenance
  <2>6. rcDirty' \in BOOLEAN /\ adopted' \subseteq Uids
    BY <2>1, <2>2 DEF RcTypeOK
  <2>7. /\ rcFaults' \in 0 .. RcMaxFaults
        /\ UNCHANGED <<rcCache, rcOpVars, stamp, nextUid, nextGen, dataOf, own, toggles>>
    BY <1>16 DEF AdminAdopt, RcTypeOK
  <2> QED BY <2>3, <2>5, <2>6, <2>7 DEF RcTypeOK, rcOpVars
<1>17. CASE ToggleRedis
  <2>1. [rcProj EXCEPT !.needs = ~ rcProj.needs] \in RcProjects
    BY DEF RcTypeOK, RcProjects
  <2>2. rcProj' \in RcProjects /\ rcWatch' \in Seq(RcProjects)
    BY <1>17, <2>1, StoreType DEF ToggleRedis
  <2> QED BY <1>17, <2>2 DEF ToggleRedis, RcTypeOK, rcOpVars, histVars
<1>18. CASE UNCHANGED rcVars
  BY <1>18 DEF rcVars, RcTypeOK, rcOpVars, histVars
<1> QED
  BY <1>1, <1>2, <1>3, <1>4, <1>5, <1>6, <1>7, <1>8, <1>9, <1>10, <1>11, <1>12,
     <1>13, <1>14, <1>15, <1>16, <1>17, <1>18 DEF RcNext, RcReconcile, Others

-----------------------------------------------------------------------------
(* Approval never goes away *)

\* What a step does to the history: it only grows, and the data of a Secret
\* that has been created is fixed.
Grows ==
  /\ nextUid <= nextUid'
  /\ \A u \in Uids : u < nextUid => dataOf'[u] = dataOf[u]
  /\ own \subseteq own' /\ adopted \subseteq adopted'
  /\ toggles' = 0 => toggles = 0

LEMMA HistoryGrows == RcTypeOK /\ [RcNext]_rcVars => Grows
<1> SUFFICES ASSUME RcTypeOK, [RcNext]_rcVars PROVE Grows
  OBVIOUS
<1>n. nextUid \in Nat /\ toggles \in Nat
  BY RedisAssumption DEF RcTypeOK
<1>1. ASSUME UNCHANGED <<nextUid, dataOf, own, adopted, toggles>> PROVE Grows
  BY <1>n, <1>1 DEF Grows
<1>3. CASE Create
  BY <1>n, <1>1, <1>3 DEF Create, CreateSecret, Grows, RcTypeOK
<1>4. CASE TenantCreate
  BY <1>n, <1>4 DEF TenantCreate, CreateSecret, Grows, RcTypeOK
<1>5. CASE AdminAdopt
  BY <1>n, <1>5 DEF AdminAdopt, Grows
<1>6. CASE ToggleRedis
  BY <1>n, <1>6 DEF ToggleRedis, histVars, Grows
<1>7. CASE RcDeliver \/ RcCallFails \/ RcRestart \/ TenantDelete \/ TenantUnlabel \/ UNCHANGED rcVars
  BY <1>1, <1>7 DEF RcDeliver, RcCallFails, RcRestart, TenantDelete, TenantUnlabel, rcVars, histVars
<1>8. CASE RcReconcile /\ ~ Create
  BY <1>1, <1>8 DEF RcReconcile, RcStart, Get, Meta, Commit, Record, Roll, Apply, Gates,
                    RcUpdateStatus, histVars
<1> QED BY <1>3, <1>4, <1>5, <1>6, <1>7, <1>8 DEF RcNext, Others

LEMMA ApprovedStays ==
  ASSUME Grows, NEW u \in Uids, u < nextUid, Approved(u)
  PROVE  Approved(u)'
BY DEF Grows, Approved

\* A sound copy of the Project stays sound.
LEMMA SoundStays ==
  ASSUME RcTypeOK, RcTypeOK', Grows, NEW p \in RcProjects, RcSoundCopy(p)
  PROVE  RcSoundCopy(p)'
<1>1. p.uid # None => p.uid \in Uids /\ p.uid < nextUid /\ Approved(p.uid)
  BY DEF RcSoundCopy, RcProjects
<1>2. p.uid # None => p.uid < nextUid'
  BY <1>1, RedisAssumption DEF Grows, RcTypeOK, Uids
<1>3. p.uid # None => Approved(p.uid)'
  BY <1>1, ApprovedStays
<1> QED BY <1>2, <1>3 DEF RcSoundCopy, Grows

-----------------------------------------------------------------------------
(* Every copy of the Project is sound *)

\* A write of a sound Project keeps the Project and the watch sound.
LEMMA StoreSound ==
  ASSUME RcTypeOK, RcTypeOK', Grows, RcCopiesSound,
         NEW p \in RcProjects, RcSoundCopy(p)', RcStore(p)
  PROVE  RcSoundCopy(rcProj)' /\ \A i \in 1 .. Len(rcWatch') : RcSoundCopy(rcWatch[i])'
<1>1. \A i \in 1 .. Len(rcWatch) : rcWatch[i] \in RcProjects /\ RcSoundCopy(rcWatch[i])
  BY DEF RcCopiesSound, RcTypeOK
<1>2. ASSUME NEW i \in 1 .. Len(rcWatch), NEW q, q = rcWatch[i] PROVE RcSoundCopy(q)'
  BY <1>1, <1>2, SoundStays
<1>3. CASE p = rcProj
  <2>1. rcProj' = p /\ rcWatch' = rcWatch
    BY <1>3 DEF RcStore
  <2>2. RcSoundCopy(rcProj)'
    BY <2>1 DEF RcSoundCopy
  <2>3. ASSUME NEW i \in 1 .. Len(rcWatch') PROVE RcSoundCopy(rcWatch[i])'
    <3>1. PICK q : q = rcWatch[i]
      OBVIOUS
    <3>2. RcSoundCopy(q)' /\ rcWatch'[i] = q
      BY <1>2, <2>1, <3>1
    <3> QED BY <3>2 DEF RcSoundCopy
  <2> QED BY <2>2, <2>3
<1>4. CASE p # rcProj
  <2>1. rcProj' = [p EXCEPT !.rv = rcProj.rv + 1] /\ rcWatch' = Append(rcWatch, rcProj')
    BY <1>4 DEF RcStore
  <2>2. rcProj'.uid = p.uid /\ rcProj'.digest = p.digest /\ rcProj'.needs = p.needs
    BY <2>1 DEF RcProjects
  <2>3. RcSoundCopy(rcProj)'
    BY <2>2 DEF RcSoundCopy
  <2>4. ASSUME NEW i \in 1 .. Len(rcWatch') PROVE RcSoundCopy(rcWatch[i])'
    <3>1. CASE i \in 1 .. Len(rcWatch)
      <4>1. PICK q : q = rcWatch[i]
        OBVIOUS
      <4>2. RcSoundCopy(q)' /\ rcWatch'[i] = q
        BY <1>2, <2>1, <3>1, <4>1 DEF RcTypeOK
      <4> QED BY <4>2 DEF RcSoundCopy
    <3>2. CASE i \notin 1 .. Len(rcWatch)
      <4>1. rcWatch'[i] = rcProj'
        BY <2>1, <3>2 DEF RcTypeOK
      <4> QED BY <2>3, <4>1 DEF RcSoundCopy
    <3> QED BY <3>1, <3>2
  <2> QED BY <2>3, <2>4
<1> QED BY <1>3, <1>4

\* A copy with a new UID and digest is as sound as they are.
LEMMA SoundPatched ==
  ASSUME RcTypeOK, Grows, RcSoundCopy(rcProj),
         NEW u \in Uids \cup {None}, NEW d \in Data \cup {None}, NEW p,
         p = [rcProj EXCEPT !.uid = u, !.digest = d],
         u # None => u < nextUid' /\ Approved(u)',
         d # Foreign
  PROVE  p \in RcProjects /\ RcSoundCopy(p)'
<1>1. p \in RcProjects /\ p.uid = u /\ p.digest = d /\ p.needs = rcProj.needs
  BY DEF RcTypeOK, RcProjects
<1>2. toggles' = 0 => p.needs
  BY <1>1 DEF RcSoundCopy, Grows
<1> QED BY <1>1, <1>2 DEF RcSoundCopy

LEMMA NewProjectSound == RcSoundCopy(NewProject)
BY RedisAssumption DEF RcSoundCopy, NewProject, Foreign

\* The conjuncts of CopiesSound, for a step that leaves the Project alone.
LEMMA CopiesKept ==
  ASSUME RcTypeOK, RcTypeOK', Grows, RcCopiesSound, UNCHANGED <<rcProj, rcWatch>>,
         rcCache' = rcCache, rcApp' \in {rcApp, rcCache, NewProject}
  PROVE  RcCopiesSound'
<1>1. ASSUME NEW q \in RcProjects, RcSoundCopy(q) PROVE RcSoundCopy(q)'
  BY <1>1, SoundStays
<1>2. RcSoundCopy(rcProj)' /\ RcSoundCopy(rcCache)'
  <2>1. PICK q \in RcProjects, r \in RcProjects : q = rcProj /\ r = rcCache
    BY DEF RcTypeOK
  <2>2. RcSoundCopy(q)' /\ RcSoundCopy(r)'
    BY <1>1, <2>1 DEF RcCopiesSound
  <2>3. rcProj' = q /\ rcCache' = r
    BY <2>1
  <2> QED BY <2>2, <2>3 DEF RcSoundCopy
<1>3. RcSoundCopy(rcApp)'
  <2>1. PICK q \in RcProjects : q = rcApp'
    BY DEF RcTypeOK
  <2>2. RcSoundCopy(q)
    BY <2>1, NewProjectSound DEF RcCopiesSound
  <2>3. RcSoundCopy(q)'
    BY <1>1, <2>2
  <2> QED BY <2>1, <2>3 DEF RcSoundCopy
<1>4. ASSUME NEW i \in 1 .. Len(rcWatch') PROVE RcSoundCopy(rcWatch[i])'
  <2>1. PICK q \in RcProjects : q = rcWatch[i]
    BY DEF RcTypeOK
  <2>2. RcSoundCopy(q)' /\ rcWatch'[i] = q
    BY <1>1, <2>1 DEF RcCopiesSound
  <2> QED BY <2>2 DEF RcSoundCopy
<1> QED BY <1>2, <1>3, <1>4 DEF RcCopiesSound

\* The same for a step that writes a sound Project.
LEMMA CopiesStored ==
  ASSUME RcTypeOK, RcTypeOK', Grows, RcCopiesSound,
         NEW p \in RcProjects, RcSoundCopy(p)', RcStore(p),
         rcCache' = rcCache, rcApp' \in {rcApp, NewProject}
  PROVE  RcCopiesSound'
<1>1. RcSoundCopy(rcProj)' /\ \A i \in 1 .. Len(rcWatch') : RcSoundCopy(rcWatch[i])'
  BY StoreSound
<1>2. ASSUME NEW q \in RcProjects, RcSoundCopy(q) PROVE RcSoundCopy(q)'
  BY <1>2, SoundStays
<1>3. RcSoundCopy(rcCache)' /\ RcSoundCopy(rcApp)'
  <2>1. PICK q \in RcProjects, r \in RcProjects : q = rcCache /\ r = rcApp'
    BY DEF RcTypeOK
  <2>2. RcSoundCopy(q) /\ RcSoundCopy(r)
    BY <2>1, NewProjectSound DEF RcCopiesSound
  <2>3. RcSoundCopy(q)' /\ RcSoundCopy(r)' /\ rcCache' = q
    BY <1>2, <2>1, <2>2
  <2> QED BY <2>1, <2>3 DEF RcSoundCopy
<1> QED BY <1>1, <1>3 DEF RcCopiesSound

LEMMA CopiesStep == RcIInv /\ [RcNext]_rcVars => RcCopiesSound'
<1> SUFFICES ASSUME RcIInv, [RcNext]_rcVars PROVE RcCopiesSound'
  OBVIOUS
<1>t. RcTypeOK /\ RcTypeOK' /\ Grows
  BY TypeStep, HistoryGrows DEF RcIInv
<1>i. RcCopiesSound /\ SecretsSound /\ RcLocalsSound
  BY DEF RcIInv
<1>p. /\ rcProj.uid \in Uids \cup {None} /\ rcProj.digest \in Data \cup {None}
      /\ rcApp.uid \in Uids \cup {None} /\ rcApp.digest \in Data \cup {None}
  BY <1>t DEF RcTypeOK, RcProjects
<1>f. None \notin Nat /\ Foreign # None /\ nextUid \in Nat /\ nextUid' \in Nat
  BY <1>t, RedisAssumption DEF Foreign, RcTypeOK
\* A UID that is approved now is approved after the step.
<1>a. ASSUME NEW u \in Uids, u < nextUid, Approved(u)
      PROVE  u < nextUid' /\ Approved(u)'
  BY <1>t, <1>f, <1>a, ApprovedStays DEF Grows, Uids
<1>1. CASE RcDeliver
  <2>1. PICK h \in RcProjects : h = Head(rcWatch) /\ h = rcWatch[1]
    BY <1>t, <1>1 DEF RcDeliver, RcTypeOK
  <2>2. RcSoundCopy(h)
    BY <1>t, <1>i, <1>1, <2>1 DEF RcDeliver, RcCopiesSound, RcTypeOK
  <2>3. rcCache' = h /\ rcWatch' = Tail(rcWatch) /\ rcProj' = rcProj /\ rcApp' = rcApp
    BY <1>1, <2>1 DEF RcDeliver, rcOpVars
  <2>4. RcSoundCopy(rcCache)'
    BY <1>t, <2>2, <2>3, SoundStays DEF RcSoundCopy
  <2>5. PICK q \in RcProjects, r \in RcProjects : q = rcProj /\ r = rcApp
    BY <1>t DEF RcTypeOK
  <2>6. RcSoundCopy(q)' /\ RcSoundCopy(r)'
    BY <1>t, <1>i, <2>5, SoundStays DEF RcCopiesSound
  <2>7. RcSoundCopy(rcProj)' /\ RcSoundCopy(rcApp)'
    BY <2>3, <2>5, <2>6 DEF RcSoundCopy
  <2>8. ASSUME NEW i \in 1 .. Len(rcWatch') PROVE RcSoundCopy(rcWatch[i])'
    <3>1. i + 1 \in 1 .. Len(rcWatch) /\ rcWatch'[i] = rcWatch[i + 1]
      BY <1>t, <1>1, <2>3 DEF RcDeliver, RcTypeOK
    <3>2. PICK w \in RcProjects : w = rcWatch[i + 1]
      BY <1>t, <3>1 DEF RcTypeOK
    <3>3. RcSoundCopy(w)
      BY <1>i, <3>1, <3>2 DEF RcCopiesSound
    <3>4. RcSoundCopy(w)'
      BY <1>t, <3>3, SoundStays
    <3> QED BY <3>1, <3>2, <3>4 DEF RcSoundCopy
  <2> QED BY <2>4, <2>7, <2>8 DEF RcCopiesSound
<1>2. CASE RcStart
  BY <1>t, <1>i, <1>2, CopiesKept DEF RcStart
<1>3. CASE Get \/ Meta \/ Create \/ Gates \/ \E c \in Consumers : Roll(c) \/ Apply(c)
  <2>1. UNCHANGED <<rcProj, rcWatch>> /\ rcCache' = rcCache /\ rcApp' \in {rcApp, NewProject}
    BY <1>3 DEF Get, Meta, Create, Gates, Roll, Apply, Fails, RcIdle
  <2> QED BY <1>t, <1>i, <2>1, CopiesKept
<1>4. CASE Commit
  <2>1. CASE Fails /\ UNCHANGED <<rcProj, rcWatch>>
    BY <1>t, <1>i, <1>4, <2>1, CopiesKept DEF Commit, Fails, RcIdle
  <2>2. CASE nextGen <= MaxGen /\ PatchProvenance(None, nextGen) /\ rcApp' = rcApp
    <3>1. nextGen \in Data /\ nextGen # Foreign
      BY <1>t, <2>2, RedisAssumption DEF RcTypeOK, Data, Foreign
    <3>2. PICK d, p : d = nextGen /\ p = [rcProj EXCEPT !.uid = None, !.digest = d]
      OBVIOUS
    <3>3. p \in RcProjects /\ RcSoundCopy(p)'
      BY <1>t, <1>i, <3>1, <3>2, SoundPatched DEF RcCopiesSound
    <3>4. RcStore(p)
      BY <2>2, <3>2 DEF PatchProvenance
    <3> QED BY <1>t, <1>i, <1>4, <2>2, <3>3, <3>4, CopiesStored DEF Commit
  <2> QED BY <1>4, <2>1, <2>2 DEF Commit
<1>5. CASE Record
  <2>1. prov \in Uids /\ prov < nextUid /\ Approved(prov)
    BY <1>t, <1>i, <1>5 DEF Record, RcLocalsSound, RcTypeOK
  <2>2. PICK u, p : u = prov /\ p = [rcProj EXCEPT !.uid = u, !.digest = None]
    OBVIOUS
  <2>3. u \in Uids /\ u < nextUid' /\ Approved(u)'
    BY <1>a, <2>1, <2>2
  <2>5. p \in RcProjects /\ RcSoundCopy(p)'
    BY <1>t, <1>i, <1>f, <2>2, <2>3, SoundPatched DEF RcCopiesSound
  <2>4. RcStore(p) /\ rcCache' = rcCache /\ rcApp' = rcApp
    BY <1>5, <2>2 DEF Record, PatchProvenance
  <2> QED BY <1>t, <1>i, <2>4, <2>5, CopiesStored
<1>6. CASE RcUpdateStatus
  <2>1. PICK u, d, p :
          /\ u \in Uids \cup {None} /\ d \in Data \cup {None}
          /\ u \in {rcProj.uid, rcApp.uid, prov} /\ d \in {rcProj.digest, rcApp.digest}
          /\ p = [rcProj EXCEPT !.uid = u, !.digest = d]
          /\ RcStore(p)
    <3> DEFINE uid == IF rcApp.needs THEN prov ELSE rcApp.uid
               digest == IF rcApp.needs THEN None ELSE rcApp.digest
               u == IF uid = None THEN rcProj.uid ELSE uid
               d == IF digest = None THEN rcProj.digest ELSE digest
    <3>1. u \in Uids \cup {None} /\ d \in Data \cup {None}
      BY <1>t, <1>p DEF RcTypeOK
    <3>2. u \in {rcProj.uid, rcApp.uid, prov} /\ d \in {rcProj.digest, rcApp.digest}
      OBVIOUS
    <3>3. RcStore([rcProj EXCEPT !.uid = u, !.digest = d])
      BY <1>6 DEF RcUpdateStatus
    <3> HIDE DEF u, d
    <3> QED BY <3>1, <3>2, <3>3
  <2>2. u # None => u \in Uids /\ u < nextUid /\ Approved(u)
    BY <1>i, <2>1 DEF RcCopiesSound, RcSoundCopy, RcLocalsSound
  <2>3. d # Foreign
    BY <1>i, <2>1 DEF RcCopiesSound, RcSoundCopy
  <2>4. p \in RcProjects /\ RcSoundCopy(p)'
    BY <1>t, <1>i, <1>a, <2>1, <2>2, <2>3, SoundPatched DEF RcCopiesSound
  <2>5. rcCache' = rcCache /\ rcApp' = NewProject
    BY <1>6 DEF RcUpdateStatus, RcIdle
  <2> QED BY <1>t, <1>i, <2>1, <2>4, <2>5, CopiesStored
<1>7. CASE RcCallFails
  BY <1>t, <1>i, <1>7, CopiesKept DEF RcCallFails, Fails, RcIdle
<1>8. CASE RcRestart
  <2>1. PICK q \in RcProjects : q = rcProj
    BY <1>t DEF RcTypeOK
  <2>2. RcSoundCopy(q)' /\ RcSoundCopy(NewProject)' /\ NewProject \in RcProjects
    <3>1. NewProject \in RcProjects
      BY RedisAssumption DEF NewProject, RcProjects
    <3> QED BY <1>t, <1>i, <2>1, <3>1, SoundStays, NewProjectSound DEF RcCopiesSound
  <2>3. rcProj' = q /\ rcCache' = q /\ rcApp' = NewProject /\ rcWatch' = <<>>
    BY <1>8, <2>1 DEF RcRestart, Fails, RcIdle
  <2>4. RcSoundCopy(rcProj)' /\ RcSoundCopy(rcCache)' /\ RcSoundCopy(rcApp)'
    BY <2>2, <2>3 DEF RcSoundCopy, NewProject
  <2> QED BY <2>3, <2>4 DEF RcCopiesSound
<1>9. CASE TenantDelete \/ TenantCreate \/ TenantUnlabel \/ UNCHANGED rcVars
  <2>1. UNCHANGED <<rcProj, rcWatch, rcCache, rcApp>>
    BY <1>9 DEF TenantDelete, TenantCreate, TenantUnlabel, rcVars, rcOpVars
  <2> QED BY <1>t, <1>i, <2>1, CopiesKept
<1>10. CASE AdminAdopt
  <2>1. PICK s \in secret : /\ PatchProvenance(s.uid, None)
                            /\ adopted' = adopted \cup {s.uid}
    BY <1>10 DEF AdminAdopt
  <2>2. s.uid \in Uids /\ s.uid < nextUid
    BY <1>t, <1>i, <2>1 DEF RcTypeOK, Secrets, SecretsSound, SoundSecret
  <2>3. s.uid < nextUid' /\ Approved(s.uid)'
    BY <1>t, <1>f, <2>1, <2>2 DEF Approved, Grows, Uids
  <2>4. PICK u : u = s.uid
    OBVIOUS
  <2>5. PICK p : p = [rcProj EXCEPT !.uid = u, !.digest = None]
    OBVIOUS
  <2>6. u < nextUid' /\ Approved(u)'
    BY <2>3, <2>4
  <2>7. p \in RcProjects /\ RcSoundCopy(p)'
    BY <1>t, <1>i, <1>f, <2>2, <2>4, <2>5, <2>6, SoundPatched DEF RcCopiesSound
  <2>8. RcStore(p) /\ rcCache' = rcCache /\ rcApp' = rcApp
    BY <1>10, <2>1, <2>4, <2>5 DEF AdminAdopt, PatchProvenance, rcOpVars
  <2> QED BY <1>t, <1>i, <2>7, <2>8, CopiesStored
<1>11. CASE ToggleRedis
  <2>1. PICK p : p = [rcProj EXCEPT !.needs = ~ rcProj.needs]
    OBVIOUS
  <2>2. p \in RcProjects /\ p.uid = rcProj.uid /\ p.digest = rcProj.digest
    BY <1>t, <2>1 DEF RcTypeOK, RcProjects
  <2>3. toggles' # 0
    BY <1>t, <1>11, RedisAssumption DEF ToggleRedis, RcTypeOK
  <2>4. p.uid # None => p.uid < nextUid' /\ Approved(p.uid)'
    BY <1>i, <1>a, <1>p, <2>2 DEF RcCopiesSound, RcSoundCopy
  <2>5. RcSoundCopy(p)'
    BY <1>i, <2>2, <2>3, <2>4 DEF RcCopiesSound, RcSoundCopy
  <2>6. RcStore(p) /\ rcCache' = rcCache /\ rcApp' = rcApp
    BY <1>11, <2>1 DEF ToggleRedis, rcOpVars
  <2> QED BY <1>t, <1>i, <2>2, <2>5, <2>6, CopiesStored
<1> QED
  BY <1>1, <1>2, <1>3, <1>4, <1>5, <1>6, <1>7, <1>8, <1>9, <1>10, <1>11
     DEF RcNext, RcReconcile, Others

-----------------------------------------------------------------------------
(* The Secrets seen agree with the history *)

\* A Secret with the UID and data of one that is sound is sound after the step.
LEMMA SecretStays ==
  ASSUME RcTypeOK, RcTypeOK', Grows, NEW s \in Secrets, SoundSecret(s),
         NEW r, r.uid = s.uid, r.data = s.data
  PROVE  SoundSecret(r)'
BY RedisAssumption DEF SoundSecret, Grows, RcTypeOK, Secrets, Uids

LEMMA SecretsStep == RcIInv /\ [RcNext]_rcVars => SecretsSound'
<1> SUFFICES ASSUME RcIInv, [RcNext]_rcVars PROVE SecretsSound'
  OBVIOUS
<1>t. RcTypeOK /\ RcTypeOK' /\ Grows
  BY TypeStep, HistoryGrows DEF RcIInv
<1>i. RcCopiesSound /\ SecretsSound /\ RcLocalsSound
  BY DEF RcIInv
<1>f. None \notin Nat /\ Foreign # None /\ nextUid \in Nat /\ nextUid' \in Nat
  BY <1>t, RedisAssumption DEF Foreign, RcTypeOK
<1>s. ASSUME NEW s \in secret PROVE s \in Secrets /\ SoundSecret(s)
  BY <1>t, <1>i DEF RcTypeOK, SecretsSound
<1>v. ASSUME NEW s \in seen PROVE s \in Secrets /\ SoundSecret(s) /\ Approved(s.uid)
  BY <1>t, <1>i DEF RcTypeOK, SecretsSound
<1>w. ASSUME NEW s \in seen PROVE SoundSecret(s)' /\ Approved(s.uid)'
  <2>1. PICK r, u : r = s /\ u = s.uid
    OBVIOUS
  <2>2. r \in Secrets /\ SoundSecret(r) /\ u \in Uids /\ u < nextUid /\ Approved(u)
    BY <1>v, <2>1 DEF SoundSecret, Secrets
  <2>3. SoundSecret(r)' /\ Approved(u)'
    BY <1>t, <2>2, SecretStays, ApprovedStays
  <2> QED BY <2>1, <2>3
<1>o. ASSUME own' = own PROVE \A u \in own' : u < nextUid' /\ dataOf'[u] # Foreign
  BY <1>t, <1>i, <1>f, <1>o DEF SecretsSound, Grows, RcTypeOK, Uids
\* A step that at most relabels or removes the Secret and keeps what was seen.
<1>k. ASSUME own' = own, seen' \in {seen, {}},
             \A r \in secret' : \E s \in secret : r.uid = s.uid /\ r.data = s.data
      PROVE  SecretsSound'
  <2>1. ASSUME NEW r \in secret' PROVE SoundSecret(r)'
    <3>1. PICK s \in secret : r.uid = s.uid /\ r.data = s.data
      BY <1>k
    <3>2. PICK q, p : q = s /\ p = r
      OBVIOUS
    <3>3. q \in Secrets /\ SoundSecret(q) /\ p.uid = q.uid /\ p.data = q.data
      BY <1>s, <3>1, <3>2
    <3>4. SoundSecret(p)'
      BY <1>t, <3>3, SecretStays
    <3> QED BY <3>2, <3>4
  <2>2. ASSUME NEW r \in seen' PROVE SoundSecret(r)' /\ Approved(r.uid)'
    BY <1>k, <1>w
  <2> QED BY <1>o, <1>k, <2>1, <2>2 DEF SecretsSound
<1>1. CASE Get
  <2>1. CASE seen' \in {seen, {}}
    BY <1>k, <1>1, <2>1 DEF Get, histVars
  <2>2. CASE seen' \notin {seen, {}}
    <3>1. PICK s \in secret : Trusted(s, rcApp) /\ seen' = {s}
      BY <1>1, <2>2 DEF Get, Fails, RcIdle
    <3>2. PICK q, u : q = s /\ u = q.uid
      OBVIOUS
    <3>3. q \in Secrets /\ SoundSecret(q) /\ u \in Uids /\ u < nextUid
      BY <1>s, <3>1, <3>2 DEF SoundSecret, Secrets
    <3>4. Approved(u)
      <4>1. CASE rcApp.uid # None
        BY <1>i, <3>1, <3>2, <4>1 DEF Trusted, RcCopiesSound, RcSoundCopy
      <4>2. CASE rcApp.uid = None
        BY <1>i, <3>1, <3>2, <3>3, <4>2
           DEF Trusted, RcCopiesSound, RcSoundCopy, SoundSecret, Approved
      <4> QED BY <4>1, <4>2
    <3>5. SoundSecret(q)' /\ Approved(u)'
      BY <1>t, <3>3, <3>4, SecretStays, ApprovedStays
    <3>6. seen' = {q} /\ secret' = secret /\ own' = own
      BY <1>1, <3>1, <3>2 DEF Get, histVars
    <3>7. ASSUME NEW r \in secret' PROVE SoundSecret(r)'
      <4>1. PICK x : x = r
        OBVIOUS
      <4>2. x \in Secrets /\ SoundSecret(x)
        BY <1>s, <3>6, <4>1
      <4>3. SoundSecret(x)'
        BY <1>t, <4>2, SecretStays
      <4> QED BY <4>1, <4>3
    <3> QED BY <1>o, <3>2, <3>5, <3>6, <3>7 DEF SecretsSound
  <2> QED BY <2>1, <2>2
<1>2. CASE Meta
  <2>1. own' = own /\ seen' \in {seen, {}}
    BY <1>2 DEF Meta, Fails, RcIdle, histVars
  <2>2. ASSUME NEW r \in secret' PROVE \E s \in secret : r.uid = s.uid /\ r.data = s.data
    <3>1. CASE secret' = secret
      BY <3>1
    <3>2. CASE secret' # secret
      <4>1. PICK s \in seen : secret = seen /\ secret' = {[s EXCEPT !.labelled = TRUE]}
        BY <1>2, <3>2 DEF Meta
      <4>2. s \in Secrets /\ r = [s EXCEPT !.labelled = TRUE]
        BY <1>v, <4>1
      <4> QED BY <4>1, <4>2 DEF Secrets
    <3> QED BY <3>1, <3>2
  <2> QED BY <1>k, <2>1, <2>2
<1>3. CASE Create
  <2>1. CASE secret' = secret /\ own' = own
    BY <1>k, <1>3, <2>1 DEF Create, Fails, RcIdle
  <2>2. CASE /\ CreateSecret([uid |-> nextUid, data |-> gen,
                              immutable |-> TRUE, labelled |-> TRUE])
             /\ own' = own \cup {nextUid} /\ seen' = seen
    <3>1. gen # Foreign /\ nextUid \in Uids
      BY <1>t, <1>i, <1>3, <2>2 DEF Create, RcLocalsSound, CreateSecret, RcTypeOK, Uids
    <3>2. dataOf'[nextUid] = gen /\ nextUid < nextUid'
      BY <1>t, <1>f, <2>2, <3>1 DEF CreateSecret, RcTypeOK
    <3>3. ASSUME NEW r \in secret' PROVE SoundSecret(r)'
      BY <2>2, <3>2, <3>3 DEF CreateSecret, SoundSecret
    <3>4. ASSUME NEW u \in own' PROVE u < nextUid' /\ dataOf'[u] # Foreign
      <4>1. CASE u \in own
        BY <1>t, <1>i, <1>f, <4>1 DEF SecretsSound, Grows, RcTypeOK, Uids
      <4>2. CASE u = nextUid
        BY <3>1, <3>2, <4>2
      <4> QED BY <2>2, <4>1, <4>2
    <3>5. \A r \in seen' : SoundSecret(r)' /\ Approved(r.uid)'
      BY <1>w, <2>2
    <3> QED BY <3>3, <3>4, <3>5 DEF SecretsSound
  <2> QED BY <1>3, <2>1, <2>2 DEF Create
<1>4. CASE TenantCreate
  <2>1. PICK d, i, l : CreateSecret([uid |-> nextUid, data |-> d, immutable |-> i, labelled |-> l])
    BY <1>4 DEF TenantCreate
  <2>2. nextUid \in Uids /\ own' = own /\ seen' = seen
    BY <1>t, <1>4, <2>1 DEF TenantCreate, CreateSecret, RcTypeOK, Uids, rcOpVars
  <2>3. dataOf'[nextUid] = d /\ nextUid < nextUid'
    BY <1>t, <1>f, <2>1, <2>2 DEF CreateSecret, RcTypeOK
  <2>4. ASSUME NEW r \in secret' PROVE SoundSecret(r)'
    BY <2>1, <2>3, <2>4 DEF CreateSecret, SoundSecret
  <2>5. \A r \in seen' : SoundSecret(r)' /\ Approved(r.uid)'
    BY <1>w, <2>2
  <2> QED BY <1>o, <2>2, <2>4, <2>5 DEF SecretsSound
<1>5. CASE TenantUnlabel \/ AdminAdopt
  <2>1. own' = own /\ seen' = seen
    BY <1>5 DEF TenantUnlabel, AdminAdopt, rcOpVars, histVars
  <2>2. PICK s \in secret : \/ secret' = {[s EXCEPT !.labelled = FALSE]}
                            \/ secret' = {[s EXCEPT !.immutable = TRUE]}
    BY <1>5 DEF TenantUnlabel, AdminAdopt
  <2>3. ASSUME NEW r \in secret' PROVE r.uid = s.uid /\ r.data = s.data
    BY <1>s, <2>2 DEF Secrets
  <2> QED BY <1>k, <2>1, <2>2, <2>3
<1>6. CASE TenantDelete
  BY <1>k, <1>6 DEF TenantDelete, rcOpVars, histVars
<1>7. CASE RcDeliver \/ RcCallFails \/ RcRestart \/ ToggleRedis \/ UNCHANGED rcVars
  <2>1. secret' = secret /\ own' = own /\ seen' \in {seen, {}}
    BY <1>7 DEF RcDeliver, RcCallFails, RcRestart, ToggleRedis, rcVars, Fails, RcIdle, rcOpVars, histVars
  <2> QED BY <1>k, <2>1
<1>8. CASE \/ RcStart \/ Commit \/ Record \/ Gates \/ RcUpdateStatus
           \/ \E c \in Consumers : Roll(c) \/ Apply(c)
  <2>1. secret' = secret /\ own' = own /\ seen' \in {seen, {}}
    BY <1>8 DEF RcStart, Commit, Record, Gates, RcUpdateStatus, Roll, Apply, Fails, RcIdle, histVars
  <2> QED BY <1>k, <2>1
<1> QED
  BY <1>1, <1>2, <1>3, <1>4, <1>5, <1>6, <1>7, <1>8 DEF RcNext, RcReconcile, Others

-----------------------------------------------------------------------------
(* What the reconcile holds and what it has rolled out is approved *)

\* LocalsSound without the stamps.
Held ==
  /\ prov # None => prov < nextUid /\ Approved(prov)
  /\ rcPc \in {"record", "roll", "apply"} => prov # None
  /\ rcPc = "status" /\ rcApp.needs => prov # None
  /\ rcPc = "create" => gen # Foreign
  /\ rcPc = "meta" => seen # {}

LEMMA HeldStep == RcIInv /\ [RcNext]_rcVars => Held'
<1> SUFFICES ASSUME RcIInv, [RcNext]_rcVars PROVE Held'
  OBVIOUS
<1>t. RcTypeOK /\ RcTypeOK' /\ Grows
  BY TypeStep, HistoryGrows DEF RcIInv
<1>i. SecretsSound /\ RcLocalsSound
  BY DEF RcIInv
<1>h. Held
  BY <1>i DEF RcLocalsSound, Held
<1>f. None \notin Nat /\ Foreign # None /\ nextUid \in Nat /\ nextUid' \in Nat
  BY <1>t, RedisAssumption DEF Foreign, RcTypeOK
<1>a. ASSUME NEW u \in Uids, u < nextUid, Approved(u)
      PROVE  u < nextUid' /\ Approved(u)'
  BY <1>t, <1>f, <1>a, ApprovedStays DEF Grows, Uids
\* The UID in hand stays approved, and giving it up is always sound.
<1>p. ASSUME prov' \in {prov, None}
      PROVE  prov' # None => prov' < nextUid' /\ Approved(prov)'
  <2> SUFFICES ASSUME prov' # None PROVE prov' < nextUid' /\ Approved(prov)'
    OBVIOUS
  <2>1. PICK u : u = prov
    OBVIOUS
  <2>2. u \in Uids /\ u < nextUid /\ Approved(u)
    BY <1>t, <1>h, <1>p, <2>1 DEF Held, RcTypeOK
  <2>3. u < nextUid' /\ Approved(u)'
    BY <1>a, <2>2
  <2> QED BY <1>p, <2>1, <2>3
<1>e. ASSUME RcIdle PROVE Held'
  BY <1>e DEF Held, RcIdle
<1>k. ASSUME UNCHANGED rcOpVars PROVE Held'
  BY <1>p, <1>h, <1>k DEF Held, rcOpVars
<1>1. CASE RcStart
  BY <1>p, <1>h, <1>1 DEF RcStart, Held
<1>2. CASE Get
  <2>1. CASE Fails
    BY <1>e, <2>1 DEF Fails
  <2>2. CASE prov' = prov /\ rcPc' = "commit"
    BY <1>p, <2>2 DEF Held
  <2>3. CASE prov' = prov /\ rcPc' = "meta" /\ seen' # {}
    BY <1>p, <2>3 DEF Held
  <2> QED BY <1>2, <2>1, <2>2, <2>3 DEF Get
<1>3. CASE Meta
  <2>1. CASE Fails
    BY <1>e, <2>1 DEF Fails
  <2>2. CASE ~ Fails
    <3>1. PICK s \in seen : prov' = s.uid /\ rcPc' \in {"record", "roll"}
      BY <1>3, <2>2 DEF Meta
    <3>2. PICK u : u = s.uid
      OBVIOUS
    <3>3. u \in Uids /\ u < nextUid /\ Approved(u)
      BY <1>t, <1>i, <3>1, <3>2 DEF SecretsSound, SoundSecret, RcTypeOK, Secrets
    <3>4. u < nextUid' /\ Approved(u)' /\ u # None
      BY <1>a, <1>f, <3>3 DEF Uids
    <3>5. prov' = u
      BY <3>1, <3>2
    <3>6. Approved(prov)'
      BY <3>4, <3>5 DEF Approved
    <3> QED BY <3>1, <3>4, <3>5, <3>6 DEF Held
  <2> QED BY <2>1, <2>2
<1>4. CASE Commit
  <2>1. CASE Fails
    BY <1>e, <2>1 DEF Fails
  <2>2. CASE prov' = prov /\ rcPc' = "create" /\ gen' = nextGen
    <3>1. gen' # Foreign
      BY <1>t, <2>2, RedisAssumption DEF RcTypeOK, Foreign
    <3> QED BY <1>p, <2>2, <3>1 DEF Held
  <2> QED BY <1>4, <2>1, <2>2 DEF Commit
<1>5. CASE Create
  <2>1. CASE Fails
    BY <1>e, <2>1 DEF Fails
  <2>2. CASE ~ Fails
    <3>1. /\ prov' = nextUid /\ rcPc' = "record" /\ nextUid' = nextUid + 1
          /\ dataOf' = [dataOf EXCEPT ![nextUid] = gen] /\ nextUid <= MaxUid
          /\ rcPc = "create"
      BY <1>5, <2>2 DEF Create, CreateSecret
    <3>2. prov' \in Uids /\ dataOf'[prov'] # Foreign /\ prov' < nextUid'
      BY <1>t, <1>h, <1>f, <3>1, RedisAssumption DEF Held, RcTypeOK, Uids
    <3>3. Approved(prov)'
      BY <3>2 DEF Approved
    <3> QED BY <1>f, <3>1, <3>2, <3>3 DEF Held
  <2> QED BY <2>1, <2>2
<1>6. CASE Record
  BY <1>p, <1>h, <1>6 DEF Record, Held
<1>7. CASE \E c \in Consumers : Roll(c) \/ Apply(c)
  BY <1>p, <1>h, <1>7 DEF Roll, Apply, Held
<1>8. CASE Gates
  <2>1. CASE RcIdle
    BY <1>e, <2>1
  <2>2. CASE prov' = prov /\ rcPc' \in {"apply", "status"} /\ rcPc = "roll"
    BY <1>p, <1>h, <2>2 DEF Held
  <2> QED BY <1>8, <2>1, <2>2 DEF Gates
<1>9. CASE RcUpdateStatus \/ RcCallFails \/ RcRestart
  BY <1>e, <1>9 DEF RcUpdateStatus, RcCallFails, RcRestart, Fails
<1>10. CASE RcDeliver \/ Others \/ UNCHANGED rcVars
  BY <1>k, <1>10 DEF RcDeliver, Others, TenantDelete, TenantCreate, TenantUnlabel,
                     AdminAdopt, ToggleRedis, rcVars
<1> QED
  BY <1>1, <1>2, <1>3, <1>4, <1>5, <1>6, <1>7, <1>8, <1>9, <1>10 DEF RcNext, RcReconcile

LEMMA StampStep ==
  ASSUME RcIInv, [RcNext]_rcVars, NEW c \in Consumers, stamp'[c] # None
  PROVE  stamp'[c] < nextUid' /\ Approved(stamp[c])'
<1>t. RcTypeOK /\ RcTypeOK' /\ Grows
  BY TypeStep, HistoryGrows DEF RcIInv
<1>i. RcLocalsSound
  BY DEF RcIInv
<1>f. nextUid \in Nat /\ nextUid' \in Nat
  BY <1>t, RedisAssumption DEF RcTypeOK
<1>1. stamp'[c] \in {stamp[c], prov}
  <2>1. CASE stamp' = stamp
    BY <2>1
  <2>2. CASE stamp' # stamp
    <3>1. PICK d \in Consumers : stamp' = [stamp EXCEPT ![d] = prov]
      BY <2>2 DEF RcNext, RcReconcile, Others, RcDeliver, RcCallFails, RcRestart, RcStart, Get, Meta,
                  Commit, Create, Record, Roll, Apply, Gates, RcUpdateStatus, TenantDelete,
                  TenantCreate, TenantUnlabel, AdminAdopt, ToggleRedis, rcVars
    <3> QED BY <1>t, <3>1 DEF RcTypeOK
  <2> QED BY <2>1, <2>2
<1>2. PICK u : u = stamp'[c]
  OBVIOUS
<1>3. u \in Uids /\ u < nextUid /\ Approved(u)
  BY <1>t, <1>i, <1>1, <1>2 DEF RcLocalsSound, RcTypeOK
<1>4. u < nextUid' /\ Approved(u)'
  BY <1>t, <1>f, <1>3, ApprovedStays DEF Grows, Uids
<1> QED BY <1>2, <1>4

LEMMA LocalsStep == RcIInv /\ [RcNext]_rcVars => RcLocalsSound'
BY HeldStep, StampStep DEF RcLocalsSound, Held

-----------------------------------------------------------------------------
(* The operator recognises its own Secret *)

\* OwnIsHeld and OwnSecretRecognised, for a state in which nothing was adopted
\* and Redis has stayed on.
OwnHeld ==
  /\ rcPc \in {"commit", "create"} => \A s \in secret : s.uid \notin own
  /\ rcPc = "create" => rcProj.uid = None /\ rcProj.digest = gen
  /\ rcPc = "meta" => \A s \in secret, t \in seen : s.uid \in own => s.uid = t.uid
  /\ rcPc \in {"record", "roll", "apply", "status"} =>
       \A s \in secret : s.uid \in own => s.uid = prov
OwnKnown == \A s \in secret : s.uid \in own => Trusted(s, rcProj)

\* Only the UID and the digest matter to Trusted.
LEMMA StoreFields ==
  ASSUME NEW p \in RcProjects, RcStore(p)
  PROVE  rcProj'.uid = p.uid /\ rcProj'.digest = p.digest
BY DEF RcStore, RcProjects

LEMMA OwnStep ==
  ASSUME RcIInv, [RcNext]_rcVars, adopted' = {}, toggles' = 0
  PROVE  OwnHeld' /\ OwnKnown'
<1>t. RcTypeOK /\ RcTypeOK' /\ Grows
  BY TypeStep, HistoryGrows DEF RcIInv
<1>i. RcCopiesSound /\ SecretsSound /\ RcLocalsSound
  BY DEF RcIInv
<1>z. adopted = {} /\ toggles = 0
  BY <1>t DEF Grows
<1>h. OwnHeld /\ OwnKnown
  BY <1>z DEF RcIInv, OwnIsHeld, OwnSecretRecognised, OwnHeld, OwnKnown
<1>n. rcCache.needs /\ rcApp.needs
  BY <1>z, <1>i DEF RcCopiesSound, RcSoundCopy
<1>f. None \notin Nat /\ nextUid \in Nat /\ nextUid \notin own /\ None \notin Uids
  BY <1>t, <1>i, RedisAssumption DEF RcTypeOK, SecretsSound, Uids
<1>s. ASSUME NEW s \in secret PROVE s \in Secrets /\ secret = {s}
  BY <1>t DEF RcTypeOK
\* Every Secret after the step was there before, possibly with other metadata.
<1> DEFINE Same == \A r \in secret' : \E s \in secret : r.uid = s.uid /\ r.data = s.data
<1>k. ASSUME Same, own' = own, rcProj' = rcProj PROVE OwnKnown'
  BY <1>h, <1>k DEF OwnKnown, Trusted
<1>e. ASSUME rcPc' \in {"idle", "get"} PROVE OwnHeld'
  BY <1>e DEF OwnHeld
<1>m. ASSUME Same, own' = own, rcProj' = rcProj, UNCHANGED rcOpVars PROVE OwnHeld'
  BY <1>h, <1>m DEF OwnHeld, rcOpVars
<1> HIDE DEF Same
<1>1. CASE RcDeliver \/ TenantDelete \/ UNCHANGED rcVars
  <2>1. secret' \in {secret, {}} /\ own' = own /\ rcProj' = rcProj /\ UNCHANGED rcOpVars
    BY <1>1 DEF RcDeliver, TenantDelete, rcVars, histVars
  <2>2. Same
    BY <2>1 DEF Same
  <2> QED BY <1>k, <1>m, <2>1, <2>2
<1>2. CASE TenantUnlabel
  <2>1. own' = own /\ rcProj' = rcProj /\ UNCHANGED rcOpVars
    BY <1>2 DEF TenantUnlabel, histVars
  <2>2. PICK s \in secret : secret' = {[s EXCEPT !.labelled = FALSE]}
    BY <1>2 DEF TenantUnlabel
  <2>3. Same
    BY <1>s, <2>2 DEF Same, Secrets
  <2> QED BY <1>k, <1>m, <2>1, <2>3
<1>3. CASE TenantCreate
  <2>1. own' = own /\ rcProj' = rcProj /\ UNCHANGED rcOpVars
    BY <1>3 DEF TenantCreate
  <2>2. \A r \in secret' : r.uid = nextUid
    BY <1>3 DEF TenantCreate, CreateSecret
  <2>3. \A r \in secret' : r.uid \notin own'
    BY <1>f, <2>1, <2>2
  <2> QED BY <1>h, <2>1, <2>3 DEF OwnHeld, OwnKnown, rcOpVars
<1>4. CASE AdminAdopt \/ ToggleRedis
  <2>1. CASE AdminAdopt
    BY <2>1 DEF AdminAdopt
  <2>2. CASE ToggleRedis
    BY <1>t, <2>2, RedisAssumption DEF ToggleRedis, RcTypeOK
  <2> QED BY <1>4, <2>1, <2>2
<1>5. CASE RcCallFails \/ RcRestart
  <2>1. secret' = secret /\ own' = own /\ rcProj' = rcProj /\ rcPc' = "idle"
    BY <1>5 DEF RcCallFails, RcRestart, Fails, RcIdle, histVars
  <2>2. Same
    BY <2>1 DEF Same
  <2> QED BY <1>k, <1>e, <2>1, <2>2
<1>6. CASE RcStart
  <2>1. secret' = secret /\ own' = own /\ rcProj' = rcProj /\ rcPc' = "get"
    BY <1>n, <1>6 DEF RcStart, histVars
  <2>2. Same
    BY <2>1 DEF Same
  <2> QED BY <1>k, <1>e, <2>1, <2>2
<1>7. CASE Get
  <2>1. secret' = secret /\ own' = own /\ rcProj' = rcProj
    BY <1>7 DEF Get, histVars
  <2>2. Same
    BY <2>1 DEF Same
  <2>3. CASE Fails
    BY <1>k, <1>e, <2>1, <2>2, <2>3 DEF Fails, RcIdle
  <2>4. CASE secret = {} /\ rcPc' = "commit"
    BY <1>k, <2>1, <2>2, <2>4 DEF OwnHeld
  <2>5. CASE \E s \in secret : rcPc' = "meta" /\ seen' = {s}
    BY <1>k, <1>s, <2>1, <2>2, <2>5 DEF OwnHeld
  <2> QED BY <1>7, <2>3, <2>4, <2>5 DEF Get
<1>8. CASE Meta
  <2>1. own' = own /\ rcProj' = rcProj
    BY <1>8 DEF Meta, histVars
  <2>2. PICK s \in seen : /\ \/ secret' = secret
                             \/ secret = seen /\ secret' = {[s EXCEPT !.labelled = TRUE]}
                          /\ \/ prov' = s.uid /\ rcPc' \in {"record", "roll"}
                             \/ Fails
    BY <1>8 DEF Meta
  <2>3. s \in Secrets
    BY <1>t, <2>2 DEF RcTypeOK
  <2>4. Same
    BY <2>2, <2>3 DEF Same, Secrets
  <2>5. CASE Fails
    BY <1>k, <1>e, <2>1, <2>4, <2>5 DEF Fails, RcIdle
  <2>6. CASE prov' = s.uid /\ rcPc' \in {"record", "roll"}
    <3>1. \A r \in secret : r.uid \in own => r.uid = s.uid
      BY <1>h, <1>8 DEF OwnHeld, Meta
    <3>2. \A r \in secret' : r.uid \in own' => r.uid = prov'
      BY <2>1, <2>4, <2>6, <3>1 DEF Same
    <3> QED BY <1>k, <2>1, <2>4, <2>6, <3>2 DEF OwnHeld
  <2> QED BY <2>2, <2>5, <2>6
<1>9. CASE Commit
  <2>1. secret' = secret /\ own' = own
    BY <1>9 DEF Commit
  <2>2. \A s \in secret : s.uid \notin own
    BY <1>h, <1>9 DEF OwnHeld, Commit
  <2>3. OwnKnown'
    BY <2>1, <2>2 DEF OwnKnown
  <2>4. CASE Fails
    BY <1>e, <2>3, <2>4 DEF Fails, RcIdle
  <2>5. CASE rcPc' = "create" /\ gen' = nextGen /\ PatchProvenance(None, nextGen) /\ nextGen <= MaxGen
    <3>1. PICK p : p = [rcProj EXCEPT !.uid = None, !.digest = nextGen]
      OBVIOUS
    <3>2. p \in RcProjects /\ p.uid = None /\ p.digest = nextGen
      BY <1>t, <2>5, <3>1, RedisAssumption DEF RcTypeOK, RcProjects, Data
    <3>3. rcProj'.uid = None /\ rcProj'.digest = gen'
      BY <2>5, <3>1, <3>2, StoreFields DEF PatchProvenance
    <3> QED BY <2>1, <2>2, <2>3, <2>5, <3>3 DEF OwnHeld
  <2> QED BY <1>9, <2>4, <2>5 DEF Commit
<1>10. CASE Create
  <2>1. rcProj' = rcProj
    BY <1>10 DEF Create
  <2>2. CASE Fails /\ UNCHANGED <<secret, own>>
    <3>1. Same
      BY <2>2 DEF Same
    <3> QED BY <1>k, <1>e, <2>1, <2>2, <3>1 DEF Fails, RcIdle
  <2>3. CASE /\ CreateSecret([uid |-> nextUid, data |-> gen,
                              immutable |-> TRUE, labelled |-> TRUE])
             /\ prov' = nextUid /\ rcPc' = "record"
    <3>1. \A r \in secret' : r.uid = nextUid /\ r.data = gen
      BY <2>3 DEF CreateSecret
    <3>2. rcProj.uid = None /\ rcProj.digest = gen
      BY <1>h, <1>10 DEF OwnHeld, Create
    <3>3. OwnKnown'
      BY <2>1, <3>1, <3>2 DEF OwnKnown, Trusted
    <3> QED BY <2>3, <3>1, <3>3 DEF OwnHeld
  <2> QED BY <1>10, <2>2, <2>3 DEF Create
<1>11. CASE Record
  <2>1. secret' = secret /\ own' = own /\ prov' = prov /\ rcPc' = "roll" /\ rcPc = "record"
    BY <1>11 DEF Record, histVars
  <2>2. prov \in Uids
    BY <1>t, <1>i, <2>1 DEF RcLocalsSound, RcTypeOK
  <2>3. PICK p : p = [rcProj EXCEPT !.uid = prov, !.digest = None]
    OBVIOUS
  <2>4. p \in RcProjects /\ p.uid = prov
    BY <1>t, <2>2, <2>3 DEF RcTypeOK, RcProjects
  <2>5. rcProj'.uid = prov
    BY <1>11, <2>3, <2>4, StoreFields DEF Record, PatchProvenance
  <2>6. \A s \in secret : s.uid \in own => s.uid = prov
    BY <1>h, <2>1 DEF OwnHeld
  <2> QED BY <1>f, <2>1, <2>2, <2>5, <2>6 DEF OwnHeld, OwnKnown, Trusted
<1>12. CASE Gates \/ \E c \in Consumers : Roll(c) \/ Apply(c)
  <2>1. /\ secret' = secret /\ own' = own /\ rcProj' = rcProj
        /\ rcPc \in {"roll", "apply"}
        /\ \/ prov' = prov /\ rcPc' \in {"roll", "apply", "status"}
           \/ rcPc' = "idle"
    BY <1>12 DEF Gates, Roll, Apply, RcIdle, histVars
  <2>2. Same
    BY <2>1 DEF Same
  <2> QED BY <1>h, <1>k, <2>1, <2>2 DEF OwnHeld
<1>13. CASE RcUpdateStatus
  <2>1. secret' = secret /\ own' = own /\ rcPc' = "idle" /\ rcPc = "status"
    BY <1>13 DEF RcUpdateStatus, RcIdle, histVars
  <2>2. prov \in Uids /\ prov # None
    BY <1>t, <1>i, <1>n, <2>1 DEF RcLocalsSound, RcTypeOK
  <2>3. PICK p : p = [rcProj EXCEPT !.uid = prov, !.digest = rcProj.digest]
    OBVIOUS
  <2>4. RcStore(p)
    BY <1>n, <1>13, <2>2, <2>3 DEF RcUpdateStatus
  <2>5. p \in RcProjects /\ p.uid = prov
    BY <1>t, <2>2, <2>3 DEF RcTypeOK, RcProjects
  <2>6. rcProj'.uid = prov
    BY <2>4, <2>5, StoreFields
  <2>7. \A s \in secret : s.uid \in own => s.uid = prov
    BY <1>h, <2>1 DEF OwnHeld
  <2> QED BY <1>f, <1>e, <2>1, <2>2, <2>6, <2>7 DEF OwnKnown, Trusted
<1> QED
  BY <1>1, <1>2, <1>3, <1>4, <1>5, <1>6, <1>7, <1>8, <1>9, <1>10, <1>11, <1>12, <1>13
     DEF RcNext, RcReconcile, Others

-----------------------------------------------------------------------------
(* The results *)

LEMMA InitIInv == RcInit => RcIInv
<1> SUFFICES ASSUME RcInit PROVE RcIInv
  OBVIOUS
<1>1. RcTypeOK
  BY InitType
<1>2. RcCopiesSound
  BY NewProjectSound DEF RcInit, RcCopiesSound
<1>3. SecretsSound /\ RcLocalsSound /\ OwnIsHeld /\ OwnSecretRecognised
  BY DEF RcInit, SecretsSound, RcLocalsSound, OwnIsHeld, OwnSecretRecognised
<1> QED BY <1>1, <1>2, <1>3 DEF RcIInv

LEMMA StepIInv == RcIInv /\ [RcNext]_rcVars => RcIInv'
<1> SUFFICES ASSUME RcIInv, [RcNext]_rcVars PROVE RcIInv'
  OBVIOUS
<1>1. RcTypeOK'
  BY TypeStep DEF RcIInv
<1>2. OwnIsHeld' /\ OwnSecretRecognised'
  BY OwnStep DEF OwnIsHeld, OwnSecretRecognised, OwnHeld, OwnKnown
<1> QED BY <1>1, <1>2, CopiesStep, SecretsStep, LocalsStep DEF RcIInv

\* The strengthened invariant holds in every reachable state.
THEOREM Invariance == RcSpec => []RcIInv
<1>1. RcInit => RcIInv
  BY InitIInv
<1>2. RcIInv /\ [RcNext]_rcVars => RcIInv'
  BY StepIInv
<1> QED BY <1>1, <1>2, PTL DEF RcSpec

\* Every variable keeps its type.
THEOREM TypeCorrect == RcSpec => []RcTypeOK
<1>1. RcIInv => RcTypeOK
  BY DEF RcIInv
<1> QED BY <1>1, Invariance, PTL

\* Whatever tenants do to the Secret at the predictable name and wherever the
\* operator stops, a UID is recorded and a Deployment rolled onto it only for
\* data the operator generated or an administrator adopted
\* (redis_credentials_secret_provenance, roll_redis_credential_consumers).
THEOREM ApprovedOnly == RcSpec => []OnlyApproved
<1>1. RcIInv => OnlyApproved
  BY DEF RcIInv, OnlyApproved, RcCopiesSound, RcSoundCopy, RcLocalsSound
<1> QED BY <1>1, Invariance, PTL

\* A Secret the operator created is recognised by the status from the moment
\* it exists: the digest is committed before the create and replaced by the
\* UID after it (reconcile_redis_credentials_secret).
THEOREM OwnRecognised == RcSpec => []OwnSecretRecognised
<1>1. RcIInv => OwnSecretRecognised
  BY DEF RcIInv
<1> QED BY <1>1, Invariance, PTL

-----------------------------------------------------------------------------
(* At rest *)

\* A write adds a version to the watch, unless it changes nothing.
LEMMA StoreSeen ==
  ASSUME RcTypeOK, RcCacheFollows, NEW p \in RcProjects, RcStore(p), rcCache' = rcCache
  PROVE  /\ RcCacheFollows'
         /\ rcWatch' = <<>> => p = rcProj /\ rcProj' = rcProj /\ rcWatch = <<>>
<1>1. CASE p = rcProj
  BY <1>1 DEF RcStore, RcCacheFollows
<1>2. CASE p # rcProj
  <2>1. rcWatch' = Append(rcWatch, rcProj') /\ rcWatch \in Seq(RcProjects)
        /\ rcProj' \in RcProjects
    BY <1>2, StoreType DEF RcStore, RcTypeOK
  <2>2. rcWatch' # <<>> /\ rcWatch'[Len(rcWatch')] = rcProj'
    BY <2>1
  <2> QED BY <2>2 DEF RcCacheFollows
<1> QED BY <1>1, <1>2

\* While something is queued or on its way, only the bookkeeping counts.
LEMMA NotQuiet ==
  ASSUME RcCacheFollows', RcOnItsWay', ~RcQuiet'
  PROVE  RcRestInv'
BY DEF RcRestInv, CopyCurrent, RcStepsDone, RestIsSettled, AtRest

LEMMA FailsRest ==
  ASSUME Fails, RcCacheFollows'
  PROVE  RcRestInv'
<1>1. rcPc' = "idle" /\ ~RcQuiet'
  BY DEF Fails, RcIdle, RcQuiet
<1>2. RcOnItsWay'
  BY <1>1 DEF RcOnItsWay
<1> QED BY <1>1, <1>2, NotQuiet

LEMMA FollowsKept ==
  ASSUME RcCacheFollows, UNCHANGED <<rcProj, rcWatch, rcCache>>
  PROVE  RcCacheFollows'
BY DEF RcCacheFollows

LEMMA OneSecret ==
  ASSUME RcTypeOK, NEW s \in secret, NEW t \in secret
  PROVE  s = t
BY DEF RcTypeOK

LEMMA DeliverRest ==
  ASSUME RcTypeOK, RcRestInv, RcDeliver
  PROVE  RcRestInv'
<1>1. ~RcQuiet' /\ RcOnItsWay'
  BY DEF RcDeliver, RcQuiet, RcOnItsWay, RcRestInv, rcOpVars
<1>2. rcWatch \in Seq(RcProjects) /\ rcWatch # <<>> /\ rcWatch[Len(rcWatch)] = rcProj
  BY DEF RcDeliver, RcTypeOK, RcRestInv, RcCacheFollows
<1>3. PICK w : w = Tail(rcWatch)
  OBVIOUS
<1>4. rcWatch' = w /\ rcCache' = rcWatch[1] /\ rcProj' = rcProj
  BY <1>2, <1>3 DEF RcDeliver
<1>5. IF w = <<>> THEN rcWatch[1] = rcProj ELSE w[Len(w)] = rcProj
  <2>1. Len(rcWatch) \in Nat \ {0} /\ w \in Seq(RcProjects)
        /\ Len(w) = Len(rcWatch) - 1
    BY <1>2, <1>3
  <2>2. CASE w = <<>>
    <3>1. Len(rcWatch) = 1
      BY <2>1, <2>2
    <3> QED BY <1>2, <2>2, <3>1
  <2>3. CASE w # <<>>
    <3>1. Len(w) \in Nat \ {0}
      BY <2>1, <2>3
    <3>2. w[Len(w)] = rcWatch[Len(w) + 1]
      BY <1>2, <1>3, <2>1, <3>1
    <3> QED BY <1>2, <2>1, <2>3, <3>1, <3>2
  <2> QED BY <2>2, <2>3
<1>6. RcCacheFollows'
  BY <1>4, <1>5 DEF RcCacheFollows
<1> QED BY <1>1, <1>6, NotQuiet

LEMMA StartRest ==
  ASSUME RcTypeOK, RcRestInv, RcStart
  PROVE  RcRestInv'
<1>1. RcCacheFollows'
  BY FollowsKept DEF RcStart, RcRestInv
<1>2. rcPc' \in {"get", "status"} /\ (rcPc' = "get" <=> rcCache.needs) /\ rcApp' = rcCache
  BY DEF RcStart
<1>3. RcOnItsWay'
  BY <1>2 DEF RcOnItsWay
<1>4. CopyCurrent'
  BY <1>2 DEF CopyCurrent, RcQuiet, RcRestInv, RcCacheFollows, RcStart
<1>5. RcStepsDone' /\ RestIsSettled'
  BY <1>2 DEF RcStepsDone, RestIsSettled, AtRest
<1> QED BY <1>1, <1>3, <1>4, <1>5 DEF RcRestInv

LEMMA GetRest ==
  ASSUME RcTypeOK, RcRestInv, Get
  PROVE  RcRestInv'
<1>1. RcCacheFollows'
  BY FollowsKept DEF Get, RcRestInv
<1>2. CASE Fails
  BY <1>1, <1>2, FailsRest
<1>3. CASE /\ rcPc' = "commit" /\ UNCHANGED <<rcDirty, rcApp, seen, prov, gen, todo>>
  BY <1>1, <1>3 DEF Get, RcRestInv, CopyCurrent, RcOnItsWay, RcStepsDone,
     RestIsSettled, AtRest, RcQuiet
<1>4. CASE \E s \in secret : /\ Trusted(s, rcApp) /\ rcPc' = "meta" /\ seen' = {s}
                             /\ UNCHANGED <<rcDirty, rcApp, prov, gen, todo>>
  <2>1. PICK s \in secret : /\ Trusted(s, rcApp) /\ rcPc' = "meta" /\ seen' = {s}
                            /\ UNCHANGED <<rcDirty, rcApp, prov, gen, todo>>
    BY <1>4
  <2>2. secret = {s} /\ UNCHANGED <<secret, rcProj, rcWatch, rcCache>> /\ rcPc = "get"
    BY <2>1, OneSecret DEF Get
  <2>3. RcOnItsWay' /\ CopyCurrent' /\ RestIsSettled'
    BY <2>1, <2>2 DEF RcRestInv, RcOnItsWay, CopyCurrent, RestIsSettled, AtRest, RcQuiet
  <2>4. RcQuiet' => Trusted(s, rcProj)
    BY <2>1, <2>2 DEF RcRestInv, CopyCurrent, RcQuiet
  <2>5. RcStepsDone'
    BY <2>1, <2>2, <2>4 DEF RcStepsDone, Trusted
  <2> QED BY <1>1, <2>3, <2>5 DEF RcRestInv
<1> QED BY <1>2, <1>3, <1>4 DEF Get

LEMMA MetaRest ==
  ASSUME RcTypeOK, RcRestInv, Meta
  PROVE  RcRestInv'
<1>1. RcCacheFollows'
  BY FollowsKept DEF Meta, RcRestInv
<1>2. CASE Fails
  BY <1>1, <1>2, FailsRest
<1>3. CASE ~Fails
  <2>1. PICK s \in seen :
          /\ s.labelled \/ secret = seen
          /\ secret' = IF s.labelled THEN secret
                                     ELSE {[s EXCEPT !.labelled = TRUE]}
          /\ s.immutable
          /\ prov' = s.uid
          /\ todo' = Consumers
          /\ rcPc' = IF rcApp.uid = None \/ rcApp.digest # None THEN "record"
                                                          ELSE "roll"
          /\ UNCHANGED <<rcDirty, rcApp, seen, gen>>
    BY <1>3 DEF Meta
  <2>2. UNCHANGED <<rcProj, rcWatch, rcCache, stamp>> /\ rcPc = "meta" /\ seen = {s}
        /\ s \in Secrets
    BY <2>1 DEF Meta, RcTypeOK
  <2>3. RcOnItsWay' /\ CopyCurrent' /\ RestIsSettled'
    BY <2>1, <2>2 DEF RcRestInv, RcOnItsWay, CopyCurrent, RestIsSettled, AtRest, RcQuiet
  <2>4. ASSUME RcQuiet' PROVE \E t \in secret' : t.labelled /\ t.immutable /\ t.uid = prov'
    <3>1. RcQuiet
      BY <2>1, <2>2, <2>4 DEF RcQuiet
    <3>2. CASE s.labelled
      <4>1. s \in secret'
        BY <2>1, <2>2, <3>1, <3>2 DEF RcRestInv, RcStepsDone
      <4> QED BY <2>1, <3>2, <4>1
    <3>3. CASE ~s.labelled
      <4>1. PICK t : t = [s EXCEPT !.labelled = TRUE]
        OBVIOUS
      <4>2. t.labelled /\ t.immutable /\ t.uid = s.uid
        BY <2>1, <2>2, <4>1 DEF Secrets
      <4>3. t \in secret'
        BY <2>1, <3>3, <4>1
      <4> QED BY <2>1, <4>2, <4>3
    <3> QED BY <3>2, <3>3
  <2>5. ASSUME RcQuiet', rcPc' = "roll" PROVE rcProj.uid = prov' /\ rcProj.digest = None
    <3>1. RcQuiet
      BY <2>1, <2>2, <2>5 DEF RcQuiet
    <3>2. Trusted(s, rcProj) /\ rcApp = rcProj
      BY <2>2, <3>1 DEF RcRestInv, RcStepsDone, CopyCurrent
    <3> QED BY <2>1, <2>5, <3>2 DEF Trusted
  <2>6. rcPc' \in {"record", "roll"}
    BY <2>1
  <2>7. RcStepsDone'
    BY <2>1, <2>2, <2>4, <2>5, <2>6 DEF RcStepsDone
  <2> QED BY <1>1, <2>3, <2>7 DEF RcRestInv
<1> QED BY <1>2, <1>3

LEMMA CommitRest ==
  ASSUME RcTypeOK, RcRestInv, Commit
  PROVE  RcRestInv'
<1>1. CASE Fails /\ UNCHANGED <<rcProj, rcWatch, nextGen>>
  <2>1. RcCacheFollows'
    BY <1>1, FollowsKept DEF Commit, RcRestInv
  <2> QED BY <1>1, <2>1, FailsRest
<1>2. CASE /\ nextGen <= MaxGen /\ PatchProvenance(None, nextGen)
           /\ rcPc' = "create"
           /\ UNCHANGED <<rcDirty, rcApp, seen, prov, todo>>
  <2>1. nextGen \in Data /\ rcCache' = rcCache /\ rcPc = "commit"
    BY <1>2 DEF RcTypeOK, Data, Commit
  <2>2. [rcProj EXCEPT !.uid = None, !.digest = nextGen] \in RcProjects
    BY <2>1 DEF RcTypeOK, RcProjects
  <2>3. RcCacheFollows' /\ (rcWatch' = <<>> => rcProj' = rcProj /\ rcWatch = <<>>)
    BY <1>2, <2>1, <2>2, StoreSeen DEF PatchProvenance, RcRestInv
  <2>4. RcOnItsWay' /\ CopyCurrent' /\ RestIsSettled' /\ RcStepsDone'
    BY <1>2, <2>1, <2>3 DEF RcRestInv, RcOnItsWay, CopyCurrent, RestIsSettled,
       AtRest, RcQuiet, RcStepsDone
  <2> QED BY <2>3, <2>4 DEF RcRestInv
<1> QED BY <1>1, <1>2 DEF Commit

LEMMA CreateRest ==
  ASSUME RcTypeOK, RcRestInv, Create
  PROVE  RcRestInv'
<1>1. RcCacheFollows'
  BY FollowsKept DEF Create, RcRestInv
<1>2. CASE Fails
  BY <1>1, <1>2, FailsRest
<1>3. CASE ~Fails
  <2>1. PICK s : s = [uid |-> nextUid, data |-> gen,
                      immutable |-> TRUE, labelled |-> TRUE]
    OBVIOUS
  <2>2. /\ secret' = {s} /\ prov' = nextUid /\ todo' = Consumers /\ rcPc' = "record"
        /\ UNCHANGED <<rcApp, seen, gen, rcDirty, rcProj, rcWatch, rcCache, stamp>>
        /\ rcPc = "create"
    BY <1>3, <2>1 DEF Create, CreateSecret
  <2>3. s.labelled /\ s.immutable /\ s.uid = nextUid
    BY <2>1
  <2>4. RcOnItsWay' /\ CopyCurrent' /\ RestIsSettled' /\ RcStepsDone'
    BY <2>2, <2>3 DEF RcRestInv, RcOnItsWay, CopyCurrent, RestIsSettled, AtRest,
       RcQuiet, RcStepsDone
  <2> QED BY <1>1, <2>4 DEF RcRestInv
<1> QED BY <1>2, <1>3

LEMMA RecordRest ==
  ASSUME RcTypeOK, RcRestInv, Record
  PROVE  RcRestInv'
<1>1. PICK p : p = [rcProj EXCEPT !.uid = prov, !.digest = None]
  OBVIOUS
<1>2. p \in RcProjects /\ p.uid = prov /\ p.digest = None
  BY <1>1 DEF RcTypeOK, RcProjects
<1>3. RcCacheFollows' /\ (rcWatch' = <<>> => p = rcProj /\ rcProj' = rcProj /\ rcWatch = <<>>)
  BY <1>1, <1>2, StoreSeen DEF Record, PatchProvenance, RcRestInv
<1>4. /\ UNCHANGED <<secret, rcDirty, rcApp, seen, prov, todo, stamp>>
      /\ rcPc = "record" /\ rcPc' = "roll"
  BY DEF Record
<1>5. RcOnItsWay' /\ CopyCurrent' /\ RestIsSettled' /\ RcStepsDone'
  BY <1>2, <1>3, <1>4 DEF RcRestInv, RcOnItsWay, CopyCurrent, RestIsSettled,
     AtRest, RcQuiet, RcStepsDone
<1> QED BY <1>3, <1>5 DEF RcRestInv

LEMMA RollRest ==
  ASSUME RcTypeOK, RcRestInv, NEW c \in Consumers, Roll(c) \/ Apply(c)
  PROVE  RcRestInv'
<1>1. RcCacheFollows'
  BY FollowsKept DEF Roll, Apply, RcRestInv
<1>2. /\ UNCHANGED <<secret, rcProj, rcWatch, rcDirty, rcApp, seen, prov>>
      /\ rcPc \in {"roll", "apply"} /\ rcPc' \in {"roll", "apply", "status"}
      /\ rcPc' = "roll" <=> rcPc = "roll"
      /\ todo' = todo \ {c}
      /\ rcPc = "roll" => rcPc' = "roll"
  BY DEF Roll, Apply
<1>3. \A d \in Consumers : d # c => stamp'[d] = stamp[d]
  BY DEF Roll, Apply, RcTypeOK
<1>4. stamp'[c] \in {None, prov}
  BY DEF Roll, Apply, RcTypeOK
<1>5. RcOnItsWay' /\ CopyCurrent' /\ RestIsSettled'
  BY <1>2 DEF RcRestInv, RcOnItsWay, CopyCurrent, RestIsSettled, AtRest, RcQuiet
<1>6. RcStepsDone'
  BY <1>2, <1>3, <1>4 DEF RcRestInv, RcStepsDone, RcQuiet
<1> QED BY <1>1, <1>5, <1>6 DEF RcRestInv

LEMMA GatesRest ==
  ASSUME RcTypeOK, RcRestInv, Gates
  PROVE  RcRestInv'
<1>1. RcCacheFollows'
  BY FollowsKept DEF Gates, RcRestInv
<1>2. UNCHANGED <<secret, rcProj, rcWatch, rcCache, rcDirty, stamp>> /\ rcPc = "roll"
      /\ todo = {} /\ rcApp.needs
  BY DEF Gates, RcRestInv, RcOnItsWay
<1>3. CASE rcPc' \in {"apply", "status"} /\ UNCHANGED <<rcApp, seen, prov, gen>>
  BY <1>1, <1>2, <1>3 DEF RcRestInv, RcOnItsWay, CopyCurrent, RestIsSettled, AtRest,
     RcQuiet, RcStepsDone
<1>4. CASE RcIdle
  <2>1. rcPc' = "idle"
    BY <1>4 DEF RcIdle
  <2>2. RcOnItsWay' /\ CopyCurrent' /\ RcStepsDone'
    BY <2>1 DEF RcOnItsWay, CopyCurrent, RcStepsDone
  <2>3. ASSUME RcQuiet' PROVE \E s \in secret' : Settled(s)'
    <3>1. RcQuiet
      BY <1>2, <2>3 DEF RcQuiet
    <3>2. PICK s \in secret : s.labelled /\ s.immutable /\ s.uid = prov
      BY <1>2, <3>1 DEF RcRestInv, RcStepsDone
    <3>3. /\ rcProj.uid = prov /\ rcProj.digest = None
          /\ \A c \in Consumers : stamp[c] \in {None, prov}
      BY <1>2, <3>1 DEF RcRestInv, RcStepsDone
    <3> QED BY <1>2, <3>2, <3>3 DEF Settled
  <2>4. RestIsSettled'
    BY <2>3 DEF RestIsSettled, AtRest
  <2> QED BY <1>1, <2>2, <2>4 DEF RcRestInv
<1> QED BY <1>3, <1>4 DEF Gates

LEMMA StatusRest ==
  ASSUME RcTypeOK, RcRestInv, RcUpdateStatus
  PROVE  RcRestInv'
<1>1. PICK p \in RcProjects : RcStore(p)
  BY DEF RcUpdateStatus, RcTypeOK, RcProjects
<1>2. /\ UNCHANGED <<secret, rcCache, rcDirty, stamp>> /\ rcPc = "status" /\ rcPc' = "idle"
  BY DEF RcUpdateStatus, RcIdle
<1>3. RcCacheFollows' /\ (rcWatch' = <<>> => rcProj' = rcProj /\ rcWatch = <<>>)
  BY <1>1, <1>2, StoreSeen DEF RcRestInv
<1>4. RcOnItsWay' /\ CopyCurrent' /\ RcStepsDone'
  BY <1>2 DEF RcOnItsWay, CopyCurrent, RcStepsDone
<1>5. ASSUME RcQuiet', rcProj.needs PROVE \E s \in secret' : Settled(s)'
  <2>1. RcQuiet /\ rcProj' = rcProj
    BY <1>2, <1>3, <1>5 DEF RcQuiet
  <2>2. rcApp.needs
    BY <1>2, <1>5, <2>1 DEF RcRestInv, CopyCurrent
  <2>3. PICK s \in secret : s.labelled /\ s.immutable /\ s.uid = prov
    BY <1>2, <2>1, <2>2 DEF RcRestInv, RcStepsDone
  <2>4. /\ rcProj.uid = prov /\ rcProj.digest = None
        /\ \A c \in Consumers : stamp[c] \in {None, prov}
    BY <1>2, <2>1, <2>2 DEF RcRestInv, RcStepsDone
  <2> QED BY <1>2, <2>1, <2>3, <2>4 DEF Settled
<1>6. RestIsSettled'
  BY <1>3, <1>5 DEF RestIsSettled, AtRest, RcQuiet
<1> QED BY <1>3, <1>4, <1>6 DEF RcRestInv

\* An action on an unlabelled Secret, or on none, changes nothing the
\* operator relies on.
LEMMA UnwatchedRest ==
  ASSUME RcTypeOK, RcLocalsSound, RcRestInv, RcCacheFollows',
         UNCHANGED <<rcCache, rcOpVars, stamp>>,
         RcQuiet' => RcQuiet /\ rcProj' = rcProj,
         RcQuiet' => \A s \in secret : ~s.labelled
  PROVE  RcRestInv'
<1>1. UNCHANGED <<rcPc, rcApp, seen, prov, gen, todo, stamp>>
  BY DEF rcOpVars
<1>2. RcOnItsWay' /\ CopyCurrent'
  BY <1>1 DEF RcRestInv, RcOnItsWay, CopyCurrent
<1>3. ASSUME RcQuiet' PROVE ~(rcPc \in {"record", "roll", "apply"}
                              \/ (rcPc = "status" /\ rcApp.needs))
  <2> SUFFICES ASSUME rcPc \in {"record", "roll", "apply"}
                        \/ (rcPc = "status" /\ rcApp.needs)
               PROVE  FALSE
    OBVIOUS
  <2>1. \E s \in secret : s.labelled
    BY <1>3 DEF RcRestInv, RcStepsDone
  <2> QED BY <1>3, <2>1
<1>4. ASSUME RcQuiet', rcPc = "meta", NEW s \in seen
      PROVE  Trusted(s, rcProj) /\ ~s.labelled
  BY <1>4 DEF RcRestInv, RcStepsDone
<1>5. RcStepsDone'
  BY <1>1, <1>3, <1>4 DEF RcStepsDone, Trusted
<1>6. RestIsSettled'
  <2> SUFFICES ASSUME RcQuiet', rcPc = "idle", rcProj.needs PROVE FALSE
    BY <1>1 DEF RestIsSettled, AtRest
  <2>1. \E s \in secret : s.labelled
    BY DEF RcRestInv, RestIsSettled, AtRest, Settled
  <2> QED BY <2>1
<1> QED BY <1>2, <1>5, <1>6 DEF RcRestInv

LEMMA OthersRest ==
  ASSUME RcTypeOK, RcLocalsSound, RcRestInv, Others
  PROVE  RcRestInv'
<1>k. RcOnItsWay' /\ rcCache' = rcCache /\ UNCHANGED rcOpVars /\ stamp' = stamp
  BY DEF Others, TenantDelete, TenantCreate, TenantUnlabel, AdminAdopt,
     ToggleRedis, RcRestInv, RcOnItsWay, rcOpVars
<1>1. CASE TenantDelete
  <2>1. RcCacheFollows' /\ UNCHANGED <<rcProj, rcWatch>>
    BY <1>1, FollowsKept DEF TenantDelete, RcRestInv
  <2>2. PICK s \in secret : rcDirty' = (rcDirty \/ s.labelled)
    BY <1>1 DEF TenantDelete
  <2>3. RcQuiet' => RcQuiet /\ rcProj' = rcProj /\ \A t \in secret : ~t.labelled
    BY <2>1, <2>2, OneSecret DEF RcQuiet, RcTypeOK
  <2> QED BY <1>k, <2>1, <2>3, UnwatchedRest
<1>2. CASE TenantCreate
  <2>1. RcCacheFollows' /\ UNCHANGED <<rcProj, rcWatch>> /\ secret = {}
    BY <1>2, FollowsKept DEF TenantCreate, CreateSecret, RcRestInv
  <2>2. PICK labelled \in BOOLEAN : rcDirty' = (rcDirty \/ labelled)
    BY <1>2 DEF TenantCreate
  <2>3. RcQuiet' => RcQuiet /\ rcProj' = rcProj /\ \A t \in secret : ~t.labelled
    BY <2>1, <2>2 DEF RcQuiet, RcTypeOK
  <2> QED BY <1>k, <2>1, <2>3, UnwatchedRest
<1>3. CASE TenantUnlabel
  <2>1. RcCacheFollows' /\ ~RcQuiet'
    BY <1>3, FollowsKept DEF TenantUnlabel, RcRestInv, RcQuiet
  <2> QED BY <1>k, <2>1, NotQuiet
<1>4. CASE AdminAdopt
  <2>1. PICK s \in secret : /\ PatchProvenance(s.uid, None)
                            /\ rcDirty' = (rcDirty \/ s.labelled)
    BY <1>4 DEF AdminAdopt
  <2>2. [rcProj EXCEPT !.uid = s.uid, !.digest = None] \in RcProjects
    BY <2>1 DEF RcTypeOK, RcProjects, Secrets
  <2>3. RcCacheFollows' /\ (rcWatch' = <<>> => rcProj' = rcProj /\ rcWatch = <<>>)
    BY <1>k, <2>1, <2>2, StoreSeen DEF PatchProvenance, RcRestInv
  <2>4. RcQuiet' => RcQuiet /\ rcProj' = rcProj /\ \A t \in secret : ~t.labelled
    BY <2>1, <2>3, OneSecret DEF RcQuiet, RcTypeOK
  <2> QED BY <1>k, <2>3, <2>4, UnwatchedRest
<1>5. CASE ToggleRedis
  <2>1. PICK p : p = [rcProj EXCEPT !.needs = ~ rcProj.needs]
    OBVIOUS
  <2>2. p \in RcProjects /\ p # rcProj
    BY <2>1 DEF RcTypeOK, RcProjects
  <2>3. RcCacheFollows' /\ rcWatch' # <<>>
    BY <1>5, <1>k, <2>1, <2>2, StoreSeen DEF ToggleRedis, RcRestInv
  <2> QED BY <1>k, <2>3, NotQuiet DEF RcQuiet
<1> QED BY <1>1, <1>2, <1>3, <1>4, <1>5 DEF Others

LEMMA FaultRest ==
  ASSUME RcTypeOK, RcRestInv, RcCallFails \/ RcRestart
  PROVE  RcRestInv'
<1>1. Fails
  BY DEF RcCallFails, RcRestart
<1>2. RcCacheFollows'
  BY FollowsKept DEF RcCallFails, RcRestart, RcRestInv, RcCacheFollows
<1> QED BY <1>1, <1>2, FailsRest

THEOREM RestInvariance == RcSpec => []RcRestInv
<1>1. RcInit => RcRestInv
  BY DEF RcInit, RcRestInv, RcCacheFollows, CopyCurrent, RcOnItsWay, RcStepsDone,
     RestIsSettled, AtRest, RcQuiet
<1>2. RcIInv /\ RcRestInv /\ [RcNext]_rcVars => RcRestInv'
  <2> SUFFICES ASSUME RcIInv, RcRestInv, [RcNext]_rcVars PROVE RcRestInv'
    OBVIOUS
  <2>1. RcTypeOK /\ RcLocalsSound
    BY DEF RcIInv
  <2>2. CASE UNCHANGED rcVars
    BY <2>2 DEF rcVars, rcOpVars, RcRestInv, RcCacheFollows, CopyCurrent, RcOnItsWay,
       RcStepsDone, RestIsSettled, AtRest, RcQuiet, Settled, Trusted
  <2>3. CASE RcNext
    BY <2>1, <2>3, DeliverRest, StartRest, GetRest, MetaRest, CommitRest,
       CreateRest, RecordRest, RollRest, GatesRest, StatusRest, OthersRest,
       FaultRest
    DEF RcNext, RcReconcile
  <2> QED BY <2>2, <2>3
<1> QED BY <1>1, <1>2, Invariance, PTL DEF RcSpec

\* Whatever was deleted, replaced, adopted, toggled or failed before: when the
\* operator has nothing queued, no event is on its way and Redis is on, there is
\* a Secret, status records it, and every Deployment that exists reads it.
THEOREM RestSettled == RcSpec => []RestIsSettled
<1>1. RcRestInv => RestIsSettled
  BY DEF RcRestInv
<1> QED BY <1>1, RestInvariance, PTL
=============================================================================
