----------------------- MODULE ProjectLifecycleProofs -----------------------
(***************************************************************************)
(* Proofs about ProjectLifecycle, for any specs and images and any number  *)
(* of Projects at the name, of edits, failures and restarts.               *)
(***************************************************************************)
EXTENDS ProjectLifecycle, TLAPS

\* The Project, if there is one, is the same one, with the same finalizer.
ProjSame ==
  /\ \A p \in proj : \E q \in proj' :
       q.uid = p.uid /\ (q.fin <=> p.fin) /\ (q.deleting <=> p.deleting)
  /\ \A q \in proj' : \E p \in proj :
       q.uid = p.uid /\ (q.fin <=> p.fin) /\ (q.deleting <=> p.deleting)

LEMMA ProjectTypes ==
  ASSUME ProjTypeOK, NEW p \in proj \cup projCache \cup projApp
  PROVE  /\ p \in Projects /\ p.uid \in ProjUids /\ p.uid \in Nat
         /\ p.spec \in ProjSpecRecords
         /\ p.spec.image \in ProjImages /\ p.spec.policy \in ProjPolicies
         /\ p.spec.db \in {"none", "introspect", "explicit"}
         /\ p.spec.isolation \in BOOLEAN /\ p.spec.tenantOk \in BOOLEAN
         /\ p.spec.claims \subseteq {"account", "ingress"}
         /\ p.fin \in BOOLEAN /\ p.deleting \in BOOLEAN
<1>1. p \in Projects
  BY DEF ProjTypeOK, AtMostOne
<1>2. p.spec \in ProjSpecRecords /\ p.uid \in ProjUids /\ p.fin \in BOOLEAN
      /\ p.deleting \in BOOLEAN
  BY <1>1 DEF Projects
<1> QED BY <1>1, <1>2, ProjAssumption DEF ProjUids, ProjSpecRecords

LEMMA ProjInitInv == ProjInit => ProjInv
<1> SUFFICES ASSUME ProjInit PROVE ProjInv
  OBVIOUS
<1>1. ProjTypeOK
  <2>1. deployed \in [image : ProjImages, gated : BOOLEAN, stamp : Nat]
    BY ProjAssumption DEF ProjInit
  <2>2. redisUid \in Nat
    BY ProjAssumption DEF ProjInit
  <2>3. jobs \in [ProjImages -> JobRecords] /\ own \in [Kinds -> Owners]
        /\ gauge \in [ProjPhases -> Int]
        /\ gone \in [policy : ProjPolicies \cup {"none"}, had : SUBSET Kinds]
    BY DEF ProjInit, JobRecords, NoJob, Owners
  <2>4. AtMostOne(proj) /\ AtMostOne(projCache) /\ AtMostOne(projApp)
    BY DEF ProjInit, AtMostOne
  <2>5. projPc \in ProjPcs /\ projBuild \in {"none", "asked", "running", "failed"}
        /\ phaseState \in ProjPhases \cup {NoPhase}
        /\ migrated \subseteq ProjUids \X ProjImages
    BY DEF ProjInit, ProjPcs
  <2>6. /\ projDue \in BOOLEAN /\ projTimer \in BOOLEAN
        /\ projGate \in {"NotRequired", "Running", "Succeeded", "Failed"}
        /\ ready \in BOOLEAN /\ ignored \in BOOLEAN
    BY Zenon DEF ProjInit
  <2>7. projRedis \in Nat /\ projNext \in Nat \ {0} /\ projEvents \in Nat
    BY DEF ProjInit
  <2> QED BY <2>1, <2>2, <2>3, <2>4, <2>5, <2>6, <2>7 DEF ProjTypeOK
<1>2. ProjOneCopy /\ ProjCopiesPast /\ ProjFinalized
  BY DEF ProjInit, ProjOneCopy, ProjCopiesPast, ProjFinalized
<1>3. ProjOwned /\ MigratedBeforeServed /\ ProjSwept
  BY DEF ProjInit, ProjOwned, MigratedBeforeServed, ProjSwept, Kinds, ProjUids,
         Absent, Ownerless, Foreign
<1>4. ProjJobs /\ ProjBehind /\ ProjCounted
  BY DEF ProjInit, ProjJobs, ProjBehind, ProjCounted, NoJob, NoPhase, ProjPhases
<1> QED BY <1>1, <1>2, <1>3, <1>4 DEF ProjInv

\* The copy of a running reconcile.
LEMMA TheApp ==
  ASSUME ProjInv, projPc # "idle"
  PROVE  \E a \in Projects : /\ projApp = {a} /\ a.fin
                             /\ a.deleting <=> projPc \in Cleaning
BY DEF ProjInv, ProjOneCopy

\* A reconcile that applies works for the Project that is there.
LEMMA AppliesToProject ==
  ASSUME ProjInv, NEW a \in projApp, projPc \notin Cleaning
  PROVE  \E p \in proj : p.uid = a.uid /\ p.fin
BY DEF ProjInv, ProjOneCopy, ProjFinalized

\* A cleanup that finds the finalizer on the Project has a copy of it.
LEMMA CleansProject ==
  ASSUME ProjInv, NEW a \in projApp, projPc \in Cleaning, NEW p \in proj, p.fin
  PROVE  p.uid = a.uid /\ p.deleting
<1>1. a.fin /\ a.deleting
  BY DEF ProjInv, ProjOneCopy, Cleaning
<1>2. p.uid = a.uid
  BY <1>1 DEF ProjInv, ProjFinalized
<1>3. Follows(p, a) /\ a.uid \in Nat
  BY ProjectTypes DEF ProjInv, ProjCopiesPast
<1> QED BY <1>1, <1>2, <1>3 DEF Follows

\* Copies stay in the past while the Project stays the same.
LEMMA CopiesKept ==
  ASSUME ProjInv, ProjSame, projCache' = projCache, projNext' = projNext,
         projApp' \subseteq projApp
  PROVE  ProjCopiesPast' /\ ProjFinalized'
<1>1. \A a \in projApp', c \in projCache' : Follows(c, a)
  BY DEF ProjInv, ProjCopiesPast
<1>2. \A c \in projCache' \cup projApp', q \in proj' : Follows(q, c)
  BY DEF ProjInv, ProjCopiesPast, ProjSame, Follows
<1>3. \A c \in proj' \cup projCache' \cup projApp' :
         c.uid < projNext' /\ (c.deleting => c.fin)
  BY DEF ProjInv, ProjCopiesPast, ProjSame
<1>4. ProjFinalized'
  <2>1. \A c \in projCache' \cup projApp', q \in proj' :
           c.fin /\ q.fin => c.uid = q.uid
    BY DEF ProjInv, ProjFinalized, ProjSame
  <2>2. \A c \in projCache' \cup projApp' :
           c.fin /\ ~c.deleting => \E q \in proj' : q.uid = c.uid /\ q.fin
    BY DEF ProjInv, ProjFinalized, ProjSame
  <2> QED BY <2>1, <2>2 DEF ProjFinalized
<1> QED BY <1>1, <1>2, <1>3, <1>4 DEF ProjCopiesPast

\* Nothing that a finished or failed reconcile touches matters to the rest.
LEMMA RestKept ==
  ASSUME ProjInv, ProjSame, projNext' = projNext,
         UNCHANGED <<own, deployed, jobs, migrated, gone, ignored>>,
         projPc' = projPc \/ projPc' \notin {"clean2", "unfinal"}
  PROVE  ProjOwned' /\ ProjJobs' /\ MigratedBeforeServed' /\ ProjSwept'
<1>1. ProjOwned'
  BY DEF ProjInv, ProjOwned, ProjSame
<1>2. ProjJobs'
  BY DEF ProjInv, ProjJobs, ProjSame
<1>3. MigratedBeforeServed'
  BY DEF ProjInv, MigratedBeforeServed
<1>4. ProjSwept'
  BY DEF ProjInv, ProjSwept, ProjSame
<1> QED BY <1>1, <1>2, <1>3, <1>4

\* An object gets an owner: none, the Project, somebody else, or, for those
\* an explicit database has and the signing key, nobody.
LEMMA OwnersAssigned ==
  ASSUME ProjInv, proj' = proj, projNext' = projNext, gone' = gone,
         ignored => ignored',
         \A k \in Kinds :
           \/ own'[k] = own[k] \/ own'[k] = Absent
           \/ k \in Contested /\ own'[k] = Foreign
           \/ /\ k \in {"credentials", "explicit", "corekey"}
              /\ own'[k] = Ownerless /\ \E p \in proj : p.fin
           \/ \E p \in proj : p.fin /\ own'[k] = p.uid
  PROVE  ProjOwned' /\ ProjSwept'
<1>0. \A p \in proj : /\ p.uid \in 1 .. ProjMaxUid /\ p.uid < projNext
                      /\ \A q \in proj : p = q
  BY ProjectTypes DEF ProjInv, ProjCopiesPast, ProjTypeOK, AtMostOne, ProjUids
<1>1. ASSUME NEW k \in Kinds
      PROVE  /\ own'[k] \in ProjUids => own'[k] < projNext
             /\ \A p \in proj : own'[k] = p.uid => p.fin
             /\ own'[k] = Ownerless => k \in {"credentials", "explicit", "corekey"}
             /\ own'[k] = Foreign => k \in Contested
  BY <1>0 DEF ProjInv, ProjOwned, ProjUids, Absent, Ownerless, Foreign
<1>2. ProjOwned'
  BY <1>1 DEF ProjOwned
<1>3. ProjSwept'
  BY <1>0 DEF ProjInv, ProjSwept, Kinds, Contested, Absent, Ownerless
<1> QED BY <1>2, <1>3

-----------------------------------------------------------------------------
(* Types *)

\* A reconcile that ends leaves nothing behind.
LEMMA EndsTypes ==
  ASSUME NEW requeue \in BOOLEAN, Ends(requeue)
  PROVE  /\ projPc' = "idle" /\ projApp' = {} /\ projPc' \in ProjPcs
         /\ AtMostOne(projApp)' /\ projTimer' \in BOOLEAN
         /\ projGate' \in {"NotRequired", "Running", "Succeeded", "Failed"}
         /\ projRedis' \in Nat
<1>1. projTimer' \in BOOLEAN
  BY Zenon DEF Ends
<1> QED BY <1>1 DEF Ends, ProjPcs, AtMostOne

LEMMA PolicyTypes ==
  ASSUME NEW class, ErrorPolicy(class)
  PROVE  /\ projPc' = "idle" /\ projApp' = {} /\ projPc' \in ProjPcs
         /\ AtMostOne(projApp)' /\ projTimer' \in BOOLEAN
         /\ projGate' \in {"NotRequired", "Running", "Succeeded", "Failed"}
         /\ projRedis' \in Nat
<1>1. projTimer' \in BOOLEAN
  BY DEF ErrorPolicy, Ends
<1> QED BY <1>1 DEF ErrorPolicy, Ends, ProjPcs, AtMostOne

\* Changing the phase of whatever Project there is.
LEMMA PhaseWritten ==
  ASSUME ProjTypeOK, NEW ph \in ProjPhases \cup {NoPhase, "Failed"},
         proj' = {[q EXCEPT !.phase = ph] : q \in proj}
  PROVE  AtMostOne(proj)' /\ ProjSame
<1>1. ASSUME NEW q \in proj
      PROVE  /\ [q EXCEPT !.phase = ph] \in Projects
             /\ [q EXCEPT !.phase = ph].uid = q.uid
             /\ [q EXCEPT !.phase = ph].fin = q.fin
             /\ [q EXCEPT !.phase = ph].deleting = q.deleting
  BY ProjectTypes DEF Projects
<1>2. AtMostOne(proj)'
  BY <1>1 DEF AtMostOne, ProjTypeOK
<1>3. \A p \in proj : \E q \in proj' :
         q.uid = p.uid /\ (q.fin <=> p.fin) /\ (q.deleting <=> p.deleting)
  <2> TAKE p \in proj
  <2> WITNESS [p EXCEPT !.phase = ph] \in proj'
  <2> QED BY <1>1
<1>4. \A q \in proj' : \E p \in proj :
         q.uid = p.uid /\ (q.fin <=> p.fin) /\ (q.deleting <=> p.deleting)
  <2> TAKE q \in proj'
  <2>1. PICK p \in proj : q = [p EXCEPT !.phase = ph]
    OBVIOUS
  <2> QED BY <1>1, <2>1
<1> QED BY <1>2, <1>3, <1>4 DEF ProjSame

\* A production build changing the image of whatever Project there is.
LEMMA ImageWritten ==
  ASSUME ProjTypeOK, NEW i \in ProjImages,
         proj' = {[q EXCEPT !.spec.image = i] : q \in proj}
  PROVE  AtMostOne(proj)' /\ ProjSame
<1>1. ASSUME NEW q \in proj
      PROVE  /\ [q EXCEPT !.spec.image = i] \in Projects
             /\ [q EXCEPT !.spec.image = i].uid = q.uid
             /\ [q EXCEPT !.spec.image = i].fin = q.fin
             /\ [q EXCEPT !.spec.image = i].deleting = q.deleting
  <2>1. q \in Projects /\ q.spec \in ProjSpecRecords
    BY ProjectTypes
  <2>2. PICK s : s = [q.spec EXCEPT !.image = i]
    OBVIOUS
  <2>3. s \in ProjSpecRecords
    BY <2>1, <2>2 DEF ProjSpecRecords
  <2>4. [q EXCEPT !.spec.image = i] = [q EXCEPT !.spec = s]
    BY <2>1, <2>2 DEF Projects
  <2> QED BY <2>1, <2>3, <2>4 DEF Projects
<1>2. AtMostOne(proj)'
  BY <1>1 DEF AtMostOne, ProjTypeOK
<1>3. \A p \in proj : \E q \in proj' :
         q.uid = p.uid /\ (q.fin <=> p.fin) /\ (q.deleting <=> p.deleting)
  <2> TAKE p \in proj
  <2> WITNESS [p EXCEPT !.spec.image = i] \in proj'
  <2> QED BY <1>1
<1>4. \A q \in proj' : \E p \in proj :
         q.uid = p.uid /\ (q.fin <=> p.fin) /\ (q.deleting <=> p.deleting)
  <2> TAKE q \in proj'
  <2>1. PICK p \in proj : q = [p EXCEPT !.spec.image = i]
    OBVIOUS
  <2> QED BY <1>1, <2>1
<1> QED BY <1>2, <1>3, <1>4 DEF ProjSame

LEMMA SameIsSame == ASSUME proj' = proj PROVE ProjSame
BY DEF ProjSame

LEMMA StatusTypes ==
  ASSUME ProjTypeOK, NEW isReady \in BOOLEAN, WriteStatus(isReady)
  PROVE  /\ AtMostOne(proj)' /\ ProjSame
         /\ phaseState' = PhaseOf(isReady) /\ PhaseOf(isReady) \in ProjPhases
         /\ gauge' \in [ProjPhases -> Int]
         /\ projPc' = "idle" /\ projApp' = {}
         /\ AtMostOne(projApp)' /\ projTimer' \in BOOLEAN
         /\ projGate' \in {"NotRequired", "Running", "Succeeded", "Failed"}
         /\ projRedis' \in Nat
<1>1. PICK ph : ph = PhaseOf(isReady)
  OBVIOUS
<1>2. ph \in ProjPhases
  BY <1>1 DEF PhaseOf, ProjPhases
<1>3. proj' = {[q EXCEPT !.phase = ph] : q \in proj}
  BY <1>1 DEF WriteStatus
<1>4. AtMostOne(proj)' /\ ProjSame
  BY <1>2, <1>3, PhaseWritten
<1>5. phaseState' = ph /\ gauge' \in [ProjPhases -> Int]
  BY <1>1 DEF WriteStatus, CountPhase, ProjTypeOK
<1>6. Ends(FALSE)
  BY DEF WriteStatus
<1> QED BY <1>1, <1>2, <1>4, <1>5, <1>6, EndsTypes

LEMMA JobTypes ==
  ASSUME ProjTypeOK, NEW p \in projApp, NEW j \in JobRecords
  PROVE  /\ MigrationJob(p, j).job \in JobRecords
         /\ MigrationJob(p, j).state \in {"Running", "Succeeded", "Failed"}
         /\ MigrationJob(p, j).state = "Succeeded" => j.st = "ok"
         /\ MigrationJob(p, j).job \in
              {j, NoJob, [st |-> "running", owner |-> p.uid, stamp |-> projRedis]}
<1>1. /\ NoJob \in JobRecords
      /\ [st |-> "running", owner |-> p.uid, stamp |-> projRedis] \in JobRecords
  BY ProjectTypes DEF JobRecords, NoJob, ProjTypeOK
<1>2. j.st \in {"none", "running", "ok", "failed"}
  BY DEF JobRecords
<1>3. CASE j.st = "none"
  BY <1>1, <1>3 DEF MigrationJob
<1>4. CASE j.st = "running"
  BY <1>4 DEF MigrationJob
<1>5. CASE j.st = "ok"
  BY <1>5 DEF MigrationJob
<1>6. CASE j.st = "failed" /\ StaleRedis(j)
  BY <1>1, <1>6 DEF MigrationJob
<1>7. CASE j.st = "failed" /\ ~StaleRedis(j)
  BY <1>7 DEF MigrationJob
<1> QED BY <1>2, <1>3, <1>4, <1>5, <1>6, <1>7

-----------------------------------------------------------------------------
(* Steps *)

\* Steps that at most end the reconcile and change the Project's spec or phase.
LEMMA Quiet ==
  ASSUME ProjInv, ProjTypeOK', ProjSame,
         UNCHANGED <<projCache, own, deployed, jobs, phaseState, gauge,
                     migrated, gone, ignored, projNext>>,
         (projPc' = projPc /\ projApp' = projApp)
           \/ (projPc' = "idle" /\ projApp' = {})
  PROVE  ProjInv'
<1>1. ProjCopiesPast' /\ ProjFinalized'
  BY CopiesKept
<1>2. ProjOwned' /\ ProjJobs' /\ MigratedBeforeServed' /\ ProjSwept'
  BY RestKept
<1>3. ProjOneCopy' /\ ProjBehind'
  BY DEF ProjInv, ProjOneCopy, ProjBehind
<1>4. ProjCounted'
  BY DEF ProjInv, ProjCounted, ProjSame
<1> QED BY <1>1, <1>2, <1>3, <1>4 DEF ProjInv

LEMMA CreateInv ==
  ASSUME ProjInv, NEW s \in ProjSpecs, ProjCreate(s) PROVE ProjInv'
<1>t. ProjTypeOK
  BY DEF ProjInv
<1>1. PICK n : /\ n = [uid |-> projNext, spec |-> s, deleting |-> FALSE,
                       fin |-> FALSE, phase |-> NoPhase]
               /\ proj' = {n}
  BY DEF ProjCreate
<1>2. /\ proj = {} /\ projNext <= ProjMaxUid /\ projNext' = projNext + 1
      /\ UNCHANGED <<projCache, projDue, projTimer, projOp, own, deployed, ready,
                     jobs, redisUid, projMetrics, migrated, gone, ignored>>
      /\ projBuild' = "none"
      /\ projEvents' = projEvents + 1
  BY DEF ProjCreate, ProjEvent
<1>3. /\ n.uid = projNext /\ n.fin = FALSE /\ n.deleting = FALSE
      /\ projNext \in Nat \ {0} /\ projNext \in ProjUids
  BY <1>1, <1>2, <1>t, ProjAssumption DEF ProjTypeOK, ProjUids
<1>4. n \in Projects
  BY <1>1, <1>3, ProjAssumption DEF Projects
<1>5. ProjTypeOK'
  <2>1. AtMostOne(proj)'
    BY <1>1, <1>4 DEF AtMostOne
  <2> QED BY <1>t, <1>2, <2>1
             DEF ProjTypeOK, projOp, projMetrics
<1>6. \A c \in projCache \cup projApp : c.uid < projNext /\ c.uid \in Nat
  BY <1>t, ProjectTypes DEF ProjInv, ProjCopiesPast
<1>7. \A c \in projCache \cup projApp : ~(c.fin /\ ~c.deleting)
  BY <1>2 DEF ProjInv, ProjFinalized
<1>8. ProjCopiesPast' /\ ProjFinalized'
  <2>1. projCache' = projCache /\ projApp' = projApp
    BY <1>2 DEF projOp
  <2>2. ProjCopiesPast'
    <3>1. \A c \in projCache' \cup projApp', p \in proj' : Follows(p, c)
      BY <1>1, <1>3, <1>6, <2>1 DEF Follows
    <3>2. \A c \in proj' \cup projCache' \cup projApp' :
             c.uid < projNext' /\ (c.deleting => c.fin)
      BY <1>1, <1>2, <1>3, <1>6, <2>1 DEF ProjInv, ProjCopiesPast
    <3> QED BY <2>1, <3>1, <3>2 DEF ProjInv, ProjCopiesPast
  <2>3. ProjFinalized'
    BY <1>1, <1>3, <1>7, <2>1 DEF ProjFinalized
  <2> QED BY <2>2, <2>3
<1>9. ProjOwned'
  BY <1>1, <1>2, <1>3, <1>t
     DEF ProjInv, ProjOwned, ProjTypeOK, ProjUids
<1>10. ProjJobs'
  BY <1>2 DEF ProjInv, ProjJobs, projOp
<1>11. ProjOneCopy' /\ ProjBehind' /\ MigratedBeforeServed'
  BY <1>2 DEF ProjInv, ProjOneCopy, ProjBehind, MigratedBeforeServed,
              projOp, projMetrics
<1>12. ProjCounted' /\ ProjSwept'
  BY <1>1, <1>2, <1>3
     DEF ProjInv, ProjCounted, ProjSwept, projMetrics
<1> QED BY <1>5, <1>8, <1>9, <1>10, <1>11, <1>12 DEF ProjInv

LEMMA EditInv ==
  ASSUME ProjInv, NEW s \in ProjSpecs, ProjEdit(s) PROVE ProjInv'
<1>t. ProjTypeOK
  BY DEF ProjInv
<1>1. PICK p \in proj : proj' = {[p EXCEPT !.spec = s]}
  BY DEF ProjEdit
<1>2. PICK n : n = [p EXCEPT !.spec = s]
  OBVIOUS
<1>s. s \in ProjSpecRecords
  BY ProjAssumption
<1>3. /\ n \in Projects /\ n.uid = p.uid /\ n.fin = p.fin
      /\ n.deleting = p.deleting
  BY <1>s, <1>2, <1>t, ProjectTypes DEF Projects
<1>4. proj = {p} /\ proj' = {n}
  BY <1>1, <1>2, <1>t DEF ProjTypeOK, AtMostOne
<1>5. ProjSame
  BY <1>3, <1>4 DEF ProjSame
<1>6. /\ UNCHANGED <<projCache, projDue, projTimer, projOp, projObjs, redisUid,
                     projMetrics, projHist>>
      /\ projEvents' = projEvents + 1
  BY DEF ProjEdit, ProjEvent
<1>7. ProjTypeOK'
  <2>1. AtMostOne(proj)'
    BY <1>3, <1>4 DEF AtMostOne
  <2> QED BY <1>t, <1>6, <2>1
             DEF ProjTypeOK, projOp, projObjs, projMetrics, projHist
<1> QED BY <1>5, <1>6, <1>7, Quiet DEF projOp, projObjs, projMetrics, projHist

\* When the Project goes: no copy can be applied, and no Job is left.
LEMMA ProjectGone ==
  ASSUME ProjInv, proj' = {},
         UNCHANGED <<projCache, projNext, own, deployed, jobs, phaseState, gauge,
                     migrated, ignored>>,
         (projPc' = projPc /\ projApp' = projApp)
           \/ (projPc' = "idle" /\ projApp' = {}),
         \A c \in projCache \cup projApp' : ~(c.fin /\ ~c.deleting),
         \A i \in ProjImages : jobs[i].st = "none",
         phaseState = NoPhase, ProjSwept'
  PROVE  ProjTypeOK' => ProjInv'
<1> SUFFICES ASSUME ProjTypeOK' PROVE ProjInv'
  OBVIOUS
<1>1. ProjCopiesPast' /\ ProjFinalized'
  BY DEF ProjInv, ProjCopiesPast, ProjFinalized
<1>2. ProjOwned'
  BY DEF ProjInv, ProjOwned
<1>3. ProjJobs'
  BY DEF ProjInv, ProjJobs
<1>4. MigratedBeforeServed' /\ ProjCounted'
  BY DEF ProjInv, MigratedBeforeServed, ProjCounted
<1>5. ProjOneCopy' /\ ProjBehind'
  BY DEF ProjInv, ProjOneCopy, ProjBehind
<1> QED BY <1>1, <1>2, <1>3, <1>4, <1>5 DEF ProjInv

LEMMA DeleteInv == ASSUME ProjInv, ProjDelete PROVE ProjInv'
<1>t. ProjTypeOK
  BY DEF ProjInv
<1>1. PICK p \in proj :
        ~p.deleting /\ proj' = IF p.fin THEN {[p EXCEPT !.deleting = TRUE]} ELSE {}
  BY DEF ProjDelete
<1>2. proj = {p} /\ p \in Projects /\ p.uid \in Nat
  BY <1>t, ProjectTypes DEF ProjTypeOK, AtMostOne
<1>3. /\ UNCHANGED <<projCache, projDue, projTimer, projOp, projObjs, redisUid,
                     projMetrics, projHist>>
      /\ projEvents' = projEvents + 1
  BY DEF ProjDelete, ProjEvent
<1>4. CASE ~p.fin
  <2>1. proj' = {}
    BY <1>1, <1>4
  <2>2. ProjTypeOK'
    BY <1>t, <1>3, <2>1
       DEF ProjTypeOK, AtMostOne, projOp, projObjs, projMetrics, projHist
  <2>3. \A c \in projCache \cup projApp : ~(c.fin /\ ~c.deleting)
    BY <1>2, <1>4 DEF ProjInv, ProjFinalized
  <2>4. (\A i \in ProjImages : jobs[i].st = "none") /\ phaseState = NoPhase
    BY <1>2, <1>4 DEF ProjInv, ProjJobs, ProjCounted
  <2>5. ProjSwept'
    BY <1>2, <1>3, <1>4 DEF ProjInv, ProjSwept, projObjs, projHist
  <2> QED BY <1>3, <2>1, <2>2, <2>3, <2>4, <2>5, ProjectGone
             DEF projOp, projObjs, projMetrics, projHist
<1>5. CASE p.fin
  <2>1. PICK n : n = [p EXCEPT !.deleting = TRUE]
    OBVIOUS
  <2>2. /\ proj' = {n} /\ n \in Projects /\ n.uid = p.uid /\ n.fin
        /\ n.deleting
    BY <1>1, <1>2, <1>5, <2>1 DEF Projects
  <2>3. ProjTypeOK'
    <3>1. AtMostOne(proj)'
      BY <2>2 DEF AtMostOne
    <3> QED BY <1>t, <1>3, <3>1
               DEF ProjTypeOK, projOp, projObjs, projMetrics, projHist
  <2>4. ProjCopiesPast'
    <3>1. \A c \in projCache' \cup projApp', q \in proj' : Follows(q, c)
      BY <1>2, <1>3, <2>2 DEF ProjInv, ProjCopiesPast, Follows, projOp
    <3> QED BY <1>2, <1>3, <2>2, <3>1
               DEF ProjInv, ProjCopiesPast, projOp, projHist
  <2>5. ProjFinalized'
    BY <1>2, <1>3, <1>5, <2>2 DEF ProjInv, ProjFinalized, projOp
  <2>6. ProjOwned'
    BY <1>2, <1>3, <2>2 DEF ProjInv, ProjOwned, projObjs, projHist
  <2>7. ProjJobs'
    BY <1>2, <1>3, <2>2 DEF ProjInv, ProjJobs, projObjs, projHist, projOp
  <2>8. ProjOneCopy' /\ ProjBehind' /\ MigratedBeforeServed'
    BY <1>3 DEF ProjInv, ProjOneCopy, ProjBehind, MigratedBeforeServed, projOp,
                projObjs, projMetrics, projHist
  <2>9. ProjCounted' /\ ProjSwept'
    BY <1>3, <2>2 DEF ProjInv, ProjCounted, ProjSwept, projObjs, projMetrics,
                      projHist
  <2> QED BY <2>3, <2>4, <2>5, <2>6, <2>7, <2>8, <2>9 DEF ProjInv
<1> QED BY <1>4, <1>5

LEMMA ForeignInv ==
  ASSUME ProjInv, NEW k \in Contested, ForeignObject(k) PROVE ProjInv'
<1>t. ProjTypeOK
  BY DEF ProjInv
<1>1. PICK o \in {Absent, Foreign} :
        own' = [own EXCEPT ![k] = o]
  BY DEF ForeignObject
<1>2. /\ UNCHANGED <<proj, projCache, projDue, projTimer, projOp, deployed, ready,
                     jobs, projBuild, redisUid, projMetrics, projHist>>
      /\ projEvents' = projEvents + 1
  BY DEF ForeignObject, ProjEvent
<1>3. /\ k \in Kinds /\ own' \in [Kinds -> Owners] /\ own'[k] = o
      /\ \A j \in Kinds \ {k} : own'[j] = own[j]
  BY <1>1, <1>t DEF ProjTypeOK, Owners, Kinds, Contested
<1>4. ProjTypeOK'
  BY <1>t, <1>2, <1>3 DEF ProjTypeOK, projOp, projMetrics, projHist
<1>5. ProjCopiesPast' /\ ProjFinalized'
  BY <1>2, SameIsSame, CopiesKept DEF projOp, projHist
<1>6. ProjOwned' /\ ProjSwept'
  BY <1>2, <1>3, OwnersAssigned DEF projHist
<1>7. ProjJobs' /\ ProjOneCopy'
  BY <1>2 DEF ProjInv, ProjJobs, ProjOneCopy, projHist, projOp
<1>8. ProjBehind'
  BY <1>2, <1>3 DEF ProjInv, ProjBehind, projOp, projHist, projMetrics, Kinds,
                    Contested
<1>9. MigratedBeforeServed'
  BY <1>1, <1>2, <1>3
     DEF ProjInv, MigratedBeforeServed, projHist, ProjUids, Absent, Foreign, Kinds
<1>10. ProjCounted'
  BY <1>2 DEF ProjInv, ProjCounted, projMetrics
<1> QED BY <1>4, <1>5, <1>6, <1>7, <1>8, <1>9, <1>10 DEF ProjInv

\* Steps that only move events, timers and requests.
LEMMA EventsInv ==
  ASSUME ProjInv,
         \/ BuildAsked \/ RedisRegenerated \/ DeploymentReady \/ TimerFires
         \/ ReconcileGone \/ CallFails
  PROVE  ProjInv'
<1>t. ProjTypeOK
  BY DEF ProjInv
<1>1. /\ proj' = proj
      /\ UNCHANGED <<projCache, own, deployed, jobs, phaseState, gauge,
                     migrated, gone, ignored, projNext>>
  BY DEF BuildAsked, RedisRegenerated, DeploymentReady, TimerFires, ReconcileGone,
         CallFails, projObjs, projMetrics, projHist
<1>2. \/ UNCHANGED projOp
      \/ CallFails /\ ErrorPolicy("Transient")
  BY DEF BuildAsked, RedisRegenerated, DeploymentReady, TimerFires, ReconcileGone,
         CallFails
<1>3. /\ (projPc' = projPc /\ projApp' = projApp)
           \/ (projPc' = "idle" /\ projApp' = {})
      /\ projPc' \in ProjPcs /\ AtMostOne(projApp)'
      /\ projGate' \in {"NotRequired", "Running", "Succeeded", "Failed"}
      /\ projRedis' \in Nat
  BY <1>2, <1>t, PolicyTypes DEF projOp, ProjTypeOK
<1>4. projDue' \in BOOLEAN /\ projTimer' \in BOOLEAN /\ ready' \in BOOLEAN
  <2>1. CASE CallFails
    BY <2>1, <1>t, PolicyTypes DEF CallFails, ProjTypeOK, projObjs
  <2>2. CASE BuildAsked \/ RedisRegenerated \/ DeploymentReady
    BY <2>2, <1>t, Zenon
       DEF BuildAsked, RedisRegenerated, DeploymentReady, ProjTypeOK, projObjs
  <2>3. CASE TimerFires \/ ReconcileGone
    BY <2>3, <1>t, Zenon
       DEF TimerFires, ReconcileGone, TakesRequest, ProjTypeOK, projObjs
  <2> QED BY <2>1, <2>2, <2>3
<1>5. redisUid' \in Nat /\ projEvents' \in Nat
      /\ projBuild' \in {"none", "asked", "running", "failed"}
  BY <1>t DEF BuildAsked, RedisRegenerated, DeploymentReady, TimerFires,
              ReconcileGone, CallFails, ProjEvent, ProjTypeOK, projObjs
<1>6. ProjTypeOK'
  BY <1>t, <1>1, <1>3, <1>4, <1>5 DEF ProjTypeOK
<1> QED BY <1>1, <1>3, <1>6, SameIsSame, Quiet

LEMMA JobFinishesInv ==
  ASSUME ProjInv, NEW i \in ProjImages, JobFinishes(i) PROVE ProjInv'
<1>t. ProjTypeOK
  BY DEF ProjInv
<1>1. PICK r \in {"ok", "failed"} :
        /\ jobs' = [jobs EXCEPT ![i].st = r]
        /\ migrated' = migrated \cup
             (IF r = "ok" THEN {<<jobs[i].owner, i>>} ELSE {})
  BY DEF JobFinishes
<1>2. /\ jobs[i].st = "running" /\ projDue' = TRUE
      /\ UNCHANGED <<proj, projCache, projTimer, projOp, own, deployed, ready,
                     projBuild, redisUid, projMetrics, gone, ignored, projNext,
                     projEvents>>
  BY DEF JobFinishes
<1>3. jobs[i].owner \in ProjUids
  <2>1. PICK p \in proj : p.uid = jobs[i].owner
    BY <1>2 DEF ProjInv, ProjJobs
  <2> QED BY <2>1, <1>t, ProjectTypes
<1>4. /\ jobs' \in [ProjImages -> JobRecords]
      /\ \A j \in ProjImages : /\ jobs'[j].owner = jobs[j].owner
                               /\ j # i => jobs'[j] = jobs[j]
      /\ jobs'[i].st = r
  BY <1>1, <1>t DEF ProjTypeOK, JobRecords
<1>5. migrated \subseteq migrated' /\ migrated' \subseteq ProjUids \X ProjImages
  BY <1>1, <1>3, <1>t DEF ProjTypeOK
<1>6. ProjTypeOK'
  <2>1. projDue' \in BOOLEAN
    BY <1>2, Zenon
  <2> QED BY <1>t, <1>2, <1>4, <1>5, <2>1 DEF ProjTypeOK, projOp, projMetrics
<1>7. ProjCopiesPast' /\ ProjFinalized'
  BY <1>2, SameIsSame, CopiesKept DEF projOp
<1>8. ProjOwned' /\ ProjSwept'
  BY <1>2, OwnersAssigned
<1>9. ProjJobs'
  <2>1. projPc \notin {"clean2", "unfinal"} /\ projPc' = projPc
    BY <1>2 DEF ProjInv, ProjJobs, projOp
  <2>2. ASSUME NEW j \in ProjImages
        PROVE  /\ jobs'[j].st = "none" => jobs'[j] = NoJob
               /\ jobs'[j].st # "none" =>
                    \E p \in proj : p.uid = jobs'[j].owner /\ p.fin
               /\ jobs'[j].st = "ok" => <<jobs'[j].owner, j>> \in migrated'
    <3>1. CASE j = i
      <4>1. jobs'[j].st # "none"
        BY <1>4, <3>1
      <4>2. \E p \in proj : p.uid = jobs'[j].owner /\ p.fin
        BY <1>2, <1>4, <3>1 DEF ProjInv, ProjJobs
      <4>3. r = "ok" => <<jobs[i].owner, i>> \in migrated'
        BY <1>1
      <4> QED BY <1>4, <3>1, <4>1, <4>2, <4>3
    <3>2. CASE j # i
      BY <1>4, <1>5, <3>2 DEF ProjInv, ProjJobs
    <3> QED BY <3>1, <3>2
  <2> QED BY <1>2, <2>1, <2>2 DEF ProjJobs
<1>10. ProjOneCopy' /\ ProjBehind' /\ MigratedBeforeServed' /\ ProjCounted'
  BY <1>2, <1>5
     DEF ProjInv, ProjOneCopy, ProjBehind, MigratedBeforeServed, ProjCounted,
         projOp, projMetrics
<1> QED BY <1>6, <1>7, <1>8, <1>9, <1>10 DEF ProjInv

LEMMA GarbageInv ==
  ASSUME ProjInv, NEW k \in Kinds, CollectGarbage(k) PROVE ProjInv'
<1>t. ProjTypeOK
  BY DEF ProjInv
<1>1. /\ OwnerGone(own[k]) /\ own' = [own EXCEPT ![k] = Absent]
      /\ ready' = IF k = "deployment" THEN FALSE ELSE ready
      /\ projDue' = (projDue \/ k \in Watched)
      /\ UNCHANGED <<proj, projCache, projTimer, projOp, deployed, jobs, projBuild,
                     redisUid, projMetrics, projHist, projEvents>>
  BY DEF CollectGarbage
<1>2. /\ own' \in [Kinds -> Owners] /\ own'[k] = Absent
      /\ \A j \in Kinds \ {k} : own'[j] = own[j]
  BY <1>1, <1>t DEF ProjTypeOK, Owners
<1>3. ready' \in BOOLEAN /\ projDue' \in BOOLEAN
  BY <1>1, <1>t, Zenon DEF ProjTypeOK
<1>4. ProjTypeOK'
  BY <1>t, <1>1, <1>2, <1>3 DEF ProjTypeOK, projOp, projMetrics, projHist
<1>5. ProjCopiesPast' /\ ProjFinalized'
  BY <1>1, SameIsSame, CopiesKept DEF projOp, projHist
<1>6. ProjOwned' /\ ProjSwept'
  BY <1>1, <1>2, OwnersAssigned DEF projHist
<1>7. ProjJobs' /\ ProjOneCopy' /\ ProjCounted'
  BY <1>1 DEF ProjInv, ProjJobs, ProjOneCopy, ProjCounted, projHist, projOp,
              projMetrics
<1>8. ProjBehind'
  <2> SUFFICES ASSUME NEW a \in projApp'
               PROVE  /\ projPc' \in {"db1", "db2", "gate", "own", "deploy"}
                           /\ a.spec.isolation => own'["guards"] = a.uid
                      /\ projPc' \in {"own", "deploy"} /\ a.spec.db # "none"
                           => <<a.uid, a.spec.image>> \in migrated'
                      /\ projPc' = "unfinal" => phaseState' = NoPhase
                      /\ projPc' = "unfinal" /\ a.spec.policy = "Delete" /\ ~ignored'
                           => own'["credentials"] = Absent
    BY DEF ProjBehind
  <2>1. a \in projApp /\ projPc' = projPc
    BY <1>1 DEF projOp
  <2>2. projPc \in {"db1", "db2", "gate", "own", "deploy"} =>
          own[k] # a.uid
    BY <1>1, <2>1, AppliesToProject DEF OwnerGone, Cleaning
  <2>3. own'["credentials"] = own["credentials"] \/ own'["credentials"] = Absent
    BY <1>2 DEF Kinds
  <2>4. projPc \in {"db1", "db2", "gate", "own", "deploy"} /\ a.spec.isolation
          => own'["guards"] = a.uid
    BY <1>2, <2>1, <2>2 DEF ProjInv, ProjBehind, Kinds
  <2> QED BY <1>1, <2>1, <2>3, <2>4 DEF ProjInv, ProjBehind, projHist, projMetrics
<1>9. MigratedBeforeServed'
  BY <1>1, <1>2 DEF ProjInv, MigratedBeforeServed, projHist, ProjUids, Absent, Kinds
<1> QED BY <1>4, <1>5, <1>6, <1>7, <1>8, <1>9 DEF ProjInv

\* The cache catches up with the Project, in a running or a new operator.
LEMMA CacheCatchesUp ==
  ASSUME ProjInv, proj' = proj, projCache' = proj, projNext' = projNext,
         projApp' \subseteq projApp
  PROVE  ProjCopiesPast' /\ ProjFinalized'
<1>t. \A p \in proj : p.uid \in Nat /\ \A q \in proj : p = q
  BY ProjectTypes DEF ProjInv, ProjTypeOK, AtMostOne
<1>1. \A p, q \in proj : Follows(p, q)
  BY <1>t DEF Follows
<1>2. ProjCopiesPast'
  BY <1>1 DEF ProjInv, ProjCopiesPast
<1>3. ProjFinalized'
  BY <1>t DEF ProjInv, ProjFinalized
<1> QED BY <1>2, <1>3

LEMMA SyncInv == ASSUME ProjInv, ProjSync PROVE ProjInv'
<1>t. ProjTypeOK
  BY DEF ProjInv
<1>1. /\ projCache' = proj /\ projDue' = TRUE
      /\ UNCHANGED <<proj, projTimer, projOp, projObjs, redisUid, projMetrics,
                     projHist, projEvents>>
  BY DEF ProjSync
<1>2. ProjTypeOK'
  <2>1. projDue' \in BOOLEAN
    BY <1>1, Zenon
  <2> QED BY <1>t, <1>1, <2>1
             DEF ProjTypeOK, projOp, projObjs, projMetrics, projHist
<1>3. ProjCopiesPast' /\ ProjFinalized'
  BY <1>1, CacheCatchesUp DEF projOp, projHist
<1>4. ProjOwned' /\ ProjJobs' /\ MigratedBeforeServed' /\ ProjSwept'
  BY <1>1, SameIsSame, RestKept DEF projOp, projObjs, projHist
<1>5. ProjOneCopy' /\ ProjBehind' /\ ProjCounted'
  BY <1>1 DEF ProjInv, ProjOneCopy, ProjBehind, ProjCounted, projOp, projObjs,
              projMetrics, projHist
<1> QED BY <1>2, <1>3, <1>4, <1>5 DEF ProjInv

LEMMA RestartInv == ASSUME ProjInv, OperatorRestarts PROVE ProjInv'
<1>t. ProjTypeOK
  BY DEF ProjInv
<1>1. /\ Ends(FALSE) /\ projCache' = proj /\ projDue' = TRUE
      /\ phaseState' = NoPhase /\ gauge' = [ph \in ProjPhases |-> 0]
      /\ UNCHANGED <<proj, projObjs, redisUid, projHist>>
      /\ projEvents' = projEvents + 1
  BY DEF OperatorRestarts, ProjEvent
<1>2. /\ projPc' = "idle" /\ projApp' = {} /\ projPc' \in ProjPcs
      /\ AtMostOne(projApp)' /\ projTimer' \in BOOLEAN
      /\ projGate' \in {"NotRequired", "Running", "Succeeded", "Failed"}
      /\ projRedis' \in Nat
  BY <1>1, EndsTypes
<1>3. projDue' \in BOOLEAN
  BY <1>1, Zenon
<1>4. ProjTypeOK'
  BY <1>t, <1>1, <1>2, <1>3 DEF ProjTypeOK, projObjs, projHist
<1>5. ProjCopiesPast' /\ ProjFinalized'
  BY <1>1, <1>2, CacheCatchesUp DEF projHist
<1>6. ProjOwned' /\ ProjJobs' /\ MigratedBeforeServed' /\ ProjSwept'
  BY <1>1, <1>2, SameIsSame, RestKept DEF projObjs, projHist
<1>7. ProjOneCopy' /\ ProjBehind'
  BY <1>2 DEF ProjOneCopy, ProjBehind
<1>8. ProjCounted'
  BY <1>1 DEF ProjCounted, ProjPhases, NoPhase
<1> QED BY <1>4, <1>5, <1>6, <1>7, <1>8 DEF ProjInv

LEMMA AddFinalizerInv == ASSUME ProjInv, AddFinalizer PROVE ProjInv'
<1>t. ProjTypeOK
  BY DEF ProjInv
<1>1. PICK c \in projCache :
        /\ ~c.fin /\ ~c.deleting
        /\ IF \E q \in proj : ~q.fin
             THEN /\ proj' = {[q EXCEPT !.fin = TRUE] : q \in proj}
                  /\ Ends(FALSE)
             ELSE /\ proj' = proj
                  /\ ErrorPolicy("Transient")
  BY DEF AddFinalizer
<1>2. /\ projPc = "idle" /\ projDue' = FALSE
      /\ UNCHANGED <<projCache, projObjs, redisUid, projMetrics, projHist,
                     projEvents>>
  BY DEF AddFinalizer, TakesRequest
<1>3. /\ projPc' = "idle" /\ projApp' = {} /\ projPc' \in ProjPcs
      /\ AtMostOne(projApp)' /\ projTimer' \in BOOLEAN
      /\ projGate' \in {"NotRequired", "Running", "Succeeded", "Failed"}
      /\ projRedis' \in Nat
  BY <1>1, EndsTypes, PolicyTypes
<1>4. projDue' \in BOOLEAN
  BY <1>2, Zenon
<1>5. CASE \A q \in proj : q.fin
  <2>1. proj' = proj
    BY <1>1, <1>5
  <2>2. ProjTypeOK'
    BY <1>t, <1>2, <1>3, <1>4, <2>1 DEF ProjTypeOK, projObjs, projMetrics, projHist
  <2> QED BY <1>2, <1>3, <2>1, <2>2, SameIsSame, Quiet
             DEF projObjs, projMetrics, projHist
<1>6. CASE \E q \in proj : ~q.fin
  <2>1. PICK q \in proj : ~q.fin
    BY <1>6
  <2>2. proj = {q} /\ q \in Projects /\ q.uid \in Nat
    BY <1>t, ProjectTypes DEF ProjTypeOK, AtMostOne
  <2>3. PICK n : n = [q EXCEPT !.fin = TRUE]
    OBVIOUS
  <2>4. proj' = {n}
    BY <1>1, <1>6, <2>2, <2>3
  <2>5. n \in Projects /\ n.uid = q.uid /\ n.fin /\ n.deleting = q.deleting
    BY <2>2, <2>3 DEF Projects
  <2>6. ProjTypeOK'
    <3>1. AtMostOne(proj)'
      BY <2>4, <2>5 DEF AtMostOne
    <3> QED BY <1>t, <1>2, <1>3, <1>4, <3>1
               DEF ProjTypeOK, projObjs, projMetrics, projHist
  <2>7. projCache = {c}
    BY <1>t DEF ProjTypeOK, AtMostOne
  <2>8. ProjCopiesPast'
    <3>1. \A d \in projCache' \cup projApp', p \in proj' : Follows(p, d)
      BY <1>2, <1>3, <2>2, <2>4, <2>5 DEF ProjInv, ProjCopiesPast, Follows
    <3> QED BY <1>2, <1>3, <2>2, <2>4, <2>5, <3>1
               DEF ProjInv, ProjCopiesPast, projHist
  <2>9. ProjFinalized'
    BY <1>1, <1>2, <1>3, <2>7 DEF ProjFinalized
  <2>10. ProjOwned'
    BY <1>2, <2>2, <2>4, <2>5 DEF ProjInv, ProjOwned, projObjs, projHist
  <2>11. ProjJobs'
    BY <1>2, <1>3, <2>1, <2>2 DEF ProjInv, ProjJobs, projObjs, projHist
  <2>12. ProjOneCopy' /\ ProjBehind'
    BY <1>3 DEF ProjOneCopy, ProjBehind
  <2>13. MigratedBeforeServed' /\ ProjCounted' /\ ProjSwept'
    BY <1>2, <2>4, <2>5
       DEF ProjInv, MigratedBeforeServed, ProjCounted, ProjSwept, projObjs,
           projMetrics, projHist
  <2> QED BY <2>6, <2>8, <2>9, <2>10, <2>11, <2>12, <2>13 DEF ProjInv
<1> QED BY <1>5, <1>6

LEMMA StartReconcileInv == ASSUME ProjInv, StartReconcile PROVE ProjInv'
<1>t. ProjTypeOK
  BY DEF ProjInv
<1>1. PICK c \in projCache :
        /\ c.fin /\ projApp' = {c}
        /\ projPc' = IF c.deleting THEN "clean1" ELSE "setup"
  BY DEF StartReconcile
<1>2. /\ projPc = "idle" /\ projDue' = FALSE /\ projTimer' = FALSE
      /\ UNCHANGED <<proj, projCache, projGate, projRedis, projObjs, redisUid,
                     projMetrics, projHist, projEvents>>
  BY DEF StartReconcile, TakesRequest
<1>3. projCache = {c} /\ c \in Projects /\ c.uid \in Nat
  BY <1>t, ProjectTypes DEF ProjTypeOK, AtMostOne
<1>4. ProjTypeOK'
  <2>1. projDue' \in BOOLEAN /\ projTimer' \in BOOLEAN
    BY <1>2, Zenon
  <2>2. AtMostOne(projApp)' /\ projPc' \in ProjPcs
    BY <1>1, <1>3 DEF AtMostOne, ProjPcs
  <2> QED BY <1>t, <1>2, <2>1, <2>2 DEF ProjTypeOK, projObjs, projMetrics, projHist
<1>5. ProjCopiesPast'
  <2>1. Follows(c, c)
    BY <1>3 DEF Follows
  <2> QED BY <1>1, <1>2, <1>3, <2>1 DEF ProjInv, ProjCopiesPast, projHist
<1>6. ProjFinalized'
  BY <1>1, <1>2, <1>3 DEF ProjInv, ProjFinalized
<1>7. ProjOwned' /\ ProjJobs' /\ MigratedBeforeServed' /\ ProjSwept'
  BY <1>1, <1>2, SameIsSame, RestKept DEF projObjs, projHist
<1>8. ProjOneCopy'
  BY <1>1, <1>3 DEF ProjOneCopy, Cleaning
<1>9. ProjBehind' /\ ProjCounted'
  BY <1>1, <1>2 DEF ProjInv, ProjBehind, ProjCounted, projMetrics
<1> QED BY <1>4, <1>5, <1>6, <1>7, <1>8, <1>9 DEF ProjInv

LEMMA RemoveFinalizerInv == ASSUME ProjInv, RemoveFinalizer PROVE ProjInv'
<1>t. ProjTypeOK
  BY DEF ProjInv
<1>1. /\ projPc = "unfinal"
      /\ UNCHANGED <<projCache, projDue, projObjs, redisUid, projMetrics, migrated,
                     ignored, projNext, projEvents>>
  BY DEF RemoveFinalizer
<1>2. PICK a \in Projects : projApp = {a} /\ a.fin /\ a.deleting
  BY <1>1, TheApp DEF Cleaning
<1>3. CASE \A q \in proj : ~q.fin
  <2>1. proj' = proj /\ gone' = gone /\ ErrorPolicy("Transient")
    BY <1>3 DEF RemoveFinalizer
  <2>2. ProjTypeOK'
    BY <1>t, <1>1, <2>1, PolicyTypes DEF ProjTypeOK, projObjs, projMetrics
  <2> QED BY <1>1, <2>1, <2>2, PolicyTypes, SameIsSame, Quiet
             DEF projObjs, projMetrics
<1>4. CASE \E q \in proj : q.fin
  <2>1. PICK q \in proj :
          /\ proj' = IF q.deleting THEN {} ELSE {[q EXCEPT !.fin = FALSE]}
          /\ gone' = [policy |-> a.spec.policy,
                      had |-> {k \in Kinds : own[k] # Absent}]
          /\ Ends(FALSE)
    BY <1>2, <1>4 DEF RemoveFinalizer
  <2>2. proj = {q} /\ q.fin
    BY <1>4, <1>t DEF ProjTypeOK, AtMostOne
  <2>3. q.uid = a.uid /\ q.deleting /\ a.uid \in Nat
    BY <1>1, <1>2, <1>t, <2>2, CleansProject, ProjectTypes DEF Cleaning
  <2>4. proj' = {}
    BY <2>1, <2>3
  <2>5. /\ projPc' = "idle" /\ projApp' = {} /\ projPc' \in ProjPcs
        /\ AtMostOne(projApp)' /\ projTimer' \in BOOLEAN
        /\ projGate' \in {"NotRequired", "Running", "Succeeded", "Failed"}
        /\ projRedis' \in Nat
    BY <2>1, EndsTypes
  <2>6. gone' \in [policy : ProjPolicies \cup {"none"}, had : SUBSET Kinds]
    BY <1>2, <1>t, <2>1, ProjectTypes
  <2>7. ProjTypeOK'
    <3>1. AtMostOne(proj)'
      BY <2>4 DEF AtMostOne
    <3> QED BY <1>t, <1>1, <2>5, <2>6, <3>1 DEF ProjTypeOK, projObjs, projMetrics
  <2>8. ASSUME NEW c \in projCache, c.fin, ~c.deleting PROVE FALSE
    <3>1. c.uid = q.uid
      BY <2>2, <2>8 DEF ProjInv, ProjFinalized
    <3>2. Follows(c, a) /\ c.uid \in Nat
      BY <1>2, <1>t, ProjectTypes DEF ProjInv, ProjCopiesPast
    <3> QED BY <1>2, <2>3, <2>8, <3>1, <3>2 DEF Follows
  <2>9. (\A i \in ProjImages : jobs[i].st = "none") /\ phaseState = NoPhase
    BY <1>1, <1>2 DEF ProjInv, ProjJobs, ProjBehind
  <2>10. ProjSwept'
    BY <1>1, <1>2, <2>1
       DEF ProjInv, ProjBehind, ProjSwept, projObjs, Absent, Ownerless
  <2> QED BY <1>1, <2>4, <2>5, <2>7, <2>8, <2>9, <2>10, ProjectGone
             DEF projObjs, projMetrics
<1> QED BY <1>3, <1>4

\* A step of an apply: it goes on with its copy, and objects it writes become
\* the Project's or nobody's.
LEMMA ApplyStep ==
  ASSUME ProjInv, NEW a \in projApp, projPc \notin Cleaning \cup {"idle"},
         projPc' \in ProjPcs \ (Cleaning \cup {"idle"}), projApp' = projApp,
         UNCHANGED <<proj, projCache, jobs, phaseState, gauge, migrated, gone,
                     ignored, projNext>>,
         \A k \in Kinds :
           \/ own'[k] = own[k] \/ own'[k] = a.uid
           \/ k \in {"credentials", "explicit", "corekey"} /\ own'[k] = Ownerless,
         MigratedBeforeServed', ProjBehind', ProjTypeOK'
  PROVE  ProjInv'
<1>1. PICK p \in proj : p.uid = a.uid /\ p.fin
  BY AppliesToProject
<1>2. ProjOwned' /\ ProjSwept'
  BY <1>1, OwnersAssigned
<1>3. ProjCopiesPast' /\ ProjFinalized'
  BY SameIsSame, CopiesKept
<1>4. ProjJobs'
  BY DEF ProjInv, ProjJobs, Cleaning
<1>5. ProjOneCopy' /\ ProjCounted'
  BY DEF ProjInv, ProjOneCopy, ProjCounted
<1> QED BY <1>2, <1>3, <1>4, <1>5 DEF ProjInv

LEMMA SetupInv == ASSUME ProjInv, Setup PROVE ProjInv'
<1>t. ProjTypeOK
  BY DEF ProjInv
<1>1. PICK a \in projApp :
       IF a.spec.tenantOk
         THEN /\ projRedis' = redisUid
              /\ deployed' = IF redisUid # 0 /\ own["deployment"] = a.uid
                               THEN [deployed EXCEPT !.stamp = redisUid]
                               ELSE deployed
              /\ ready' = (ready /\ deployed' = deployed)
              /\ projPc' = "keys"
              /\ UNCHANGED <<proj, projTimer, projApp, projGate>>
         ELSE /\ proj' = {[q EXCEPT !.phase = "Failed"] : q \in proj}
              /\ ErrorPolicy("Permanent")
              /\ UNCHANGED <<deployed, ready>>
  BY DEF Setup
<1>2. /\ projPc = "setup"
      /\ UNCHANGED <<projStep, own, jobs, projBuild, projMetrics>>
  BY DEF Setup
<1>3. CASE ~a.spec.tenantOk
  <2>1. /\ proj' = {[q EXCEPT !.phase = "Failed"] : q \in proj}
        /\ ErrorPolicy("Permanent") /\ UNCHANGED <<deployed, ready>>
    BY <1>1, <1>3
  <2>2. AtMostOne(proj)' /\ ProjSame
    BY <1>t, <2>1, PhaseWritten
  <2>3. ProjTypeOK'
    BY <1>t, <1>2, <2>1, <2>2, PolicyTypes
       DEF ProjTypeOK, projStep, projMetrics, projHist
  <2> QED BY <1>2, <2>1, <2>2, <2>3, PolicyTypes, Quiet
             DEF projStep, projMetrics, projHist
<1>4. CASE a.spec.tenantOk
  <2>1. /\ projRedis' = redisUid /\ projPc' = "keys"
        /\ ready' = (ready /\ deployed' = deployed)
        /\ UNCHANGED <<proj, projTimer, projApp, projGate>>
    BY <1>1, <1>4
  <2>2. deployed' = deployed \/ deployed' = [deployed EXCEPT !.stamp = redisUid]
    BY <1>1, <1>4
  <2>3. /\ deployed' \in [image : ProjImages, gated : BOOLEAN, stamp : Nat]
        /\ deployed'.image = deployed.image /\ deployed'.gated = deployed.gated
    BY <1>t, <2>2 DEF ProjTypeOK
  <2>4. ProjTypeOK'
    <3>1. ready' \in BOOLEAN /\ projPc' \in ProjPcs
      BY <2>1 DEF ProjPcs
    <3> QED BY <1>t, <1>2, <2>1, <2>3, <3>1
               DEF ProjTypeOK, projStep, projMetrics, projHist
  <2>5. ProjBehind'
    BY <2>1 DEF ProjBehind
  <2>6. MigratedBeforeServed'
    BY <1>2, <2>3 DEF ProjInv, MigratedBeforeServed, projStep, projHist
  <2> QED BY <1>2, <2>1, <2>4, <2>5, <2>6, ApplyStep
             DEF projStep, projMetrics, projHist, Cleaning, ProjPcs
<1> QED BY <1>3, <1>4

\* The build gate lets the reconcile through or ends it; what it writes is the
\* image of the spec and its own Job.
LEMMA BuildGateInv == ASSUME ProjInv, BuildGate PROVE ProjInv'
<1>t. ProjTypeOK
  BY DEF ProjInv
<1>0. projPc = "build"
  BY DEF BuildGate, NoBuild, BuildStarts, BuildRuns, BuildSucceeds, BuildFails,
         BuildBlocks
<1>a. PICK a \in Projects : projApp = {a} /\ a.fin
  BY <1>0, TheApp
<1>p. PICK p \in proj : p.uid = a.uid /\ p.fin
  BY <1>0, <1>a, AppliesToProject DEF Cleaning
<1>1. CASE NoBuild
  <2>1. /\ projPc' = "account"
        /\ UNCHANGED <<projStep, proj, projTimer, projApp, projGate, projRedis,
                       projObjs, projMetrics>>
    BY <1>1 DEF NoBuild
  <2>2. ProjTypeOK'
    <3>1. projPc' \in ProjPcs
      BY <2>1 DEF ProjPcs
    <3> QED BY <1>t, <2>1, <3>1
               DEF ProjTypeOK, projStep, projObjs, projMetrics, projHist
  <2>3. ProjBehind' /\ MigratedBeforeServed'
    BY <2>1 DEF ProjInv, ProjBehind, MigratedBeforeServed, projStep, projObjs,
                projHist
  <2> QED BY <1>0, <1>a, <2>1, <2>2, <2>3, ApplyStep
             DEF projStep, projObjs, projMetrics, projHist, Cleaning, ProjPcs
<1>2. CASE BuildStarts
  <2>1. /\ own' = [own EXCEPT !["build"] = IF @ = Absent THEN a.uid ELSE @]
        /\ projBuild' = "running" /\ projDue' = TRUE /\ Ends(TRUE)
        /\ UNCHANGED <<proj, projCache, redisUid, projHist, projEvents, deployed,
                       ready, jobs, projMetrics>>
    BY <1>2, <1>a DEF BuildStarts
  <2>2. a.uid \in ProjUids
    BY <1>a, <1>t, ProjectTypes
  <2>3. /\ own' \in [Kinds -> Owners] /\ own'["deployment"] = own["deployment"]
        /\ \A k \in Kinds : own'[k] = own[k] \/ own'[k] = a.uid
    BY <1>t, <2>1, <2>2 DEF ProjTypeOK, Owners, Kinds
  <2>4. /\ projPc' = "idle" /\ projApp' = {} /\ projPc' \in ProjPcs
        /\ AtMostOne(projApp)' /\ projTimer' \in BOOLEAN
        /\ projGate' \in {"NotRequired", "Running", "Succeeded", "Failed"}
        /\ projRedis' \in Nat
    BY <2>1, EndsTypes
  <2>5. ProjTypeOK'
    <3>1. projDue' \in BOOLEAN
      BY <2>1, Zenon
    <3> QED BY <1>t, <2>1, <2>3, <2>4, <3>1 DEF ProjTypeOK, projMetrics, projHist
  <2>6. ProjCopiesPast' /\ ProjFinalized'
    BY <2>1, <2>4, SameIsSame, CopiesKept DEF projHist
  <2>7. ProjOwned' /\ ProjSwept'
    BY <1>p, <2>1, <2>3, OwnersAssigned DEF projHist
  <2>8. ProjJobs' /\ ProjOneCopy' /\ ProjBehind'
    BY <2>1, <2>4 DEF ProjInv, ProjJobs, ProjOneCopy, ProjBehind, projHist
  <2>9. MigratedBeforeServed' /\ ProjCounted'
    BY <2>1, <2>3 DEF ProjInv, MigratedBeforeServed, ProjCounted, projHist,
                      projMetrics
  <2> QED BY <2>5, <2>6, <2>7, <2>8, <2>9 DEF ProjInv
<1>3. CASE BuildRuns \/ BuildSucceeds \/ BuildFails \/ BuildBlocks
  <2>1. /\ Ends(TRUE) \/ Ends(FALSE)
        /\ UNCHANGED <<projCache, redisUid, projHist, own, deployed, ready, jobs,
                       projMetrics>>
    BY <1>3 DEF BuildRuns, BuildSucceeds, BuildFails, BuildBlocks, projStep,
                projObjs
  <2>2. /\ projPc' = "idle" /\ projApp' = {} /\ projPc' \in ProjPcs
        /\ AtMostOne(projApp)' /\ projTimer' \in BOOLEAN
        /\ projGate' \in {"NotRequired", "Running", "Succeeded", "Failed"}
        /\ projRedis' \in Nat
    BY <2>1, EndsTypes
  <2>3. projDue' \in BOOLEAN
    <3>1. projDue' = projDue \/ projDue' = TRUE
      BY <1>3 DEF BuildRuns, BuildSucceeds, BuildFails, BuildBlocks, projStep
    <3> QED BY <1>t, <3>1, Zenon DEF ProjTypeOK
  <2>4. projEvents' \in Nat /\ projBuild' \in {"none", "asked", "running", "failed"}
    <3>1. CASE BuildRuns
      BY <1>t, <3>1 DEF BuildRuns, projObjs, ProjEvent, ProjTypeOK
    <3>2. CASE BuildSucceeds
      BY <1>t, <3>2 DEF BuildSucceeds, ProjTypeOK
    <3>3. CASE BuildFails
      BY <1>t, <3>3 DEF BuildFails, ProjTypeOK
    <3>4. CASE BuildBlocks
      BY <1>t, <3>4 DEF BuildBlocks, projStep, projObjs, ProjTypeOK
    <3> QED BY <1>3, <3>1, <3>2, <3>3, <3>4
  <2>5. AtMostOne(proj)' /\ ProjSame
    <3>1. CASE proj' = proj
      BY <1>t, <3>1, SameIsSame DEF ProjTypeOK, AtMostOne
    <3>2. CASE proj' # proj
      <4>1. PICK i \in ProjImages : proj' = {[q EXCEPT !.spec.image = i] : q \in proj}
        BY <1>3, <3>2 DEF BuildRuns, BuildSucceeds, BuildFails, BuildBlocks
      <4> QED BY <1>t, <4>1, ImageWritten
    <3> QED BY <3>1, <3>2
  <2>6. ProjTypeOK'
    BY <1>t, <2>1, <2>2, <2>3, <2>4, <2>5 DEF ProjTypeOK, projMetrics, projHist
  <2> QED BY <2>1, <2>2, <2>5, <2>6, Quiet DEF projMetrics, projHist
<1> QED BY <1>1, <1>2, <1>3 DEF BuildGate

\* The ServiceAccount and the Ingress: taken, or somebody else's.
LEMMA TakeClaimInv ==
  ASSUME ProjInv, NEW k \in {"account", "ingress"}, NEW next \in {"guard", "rest"},
         projPc = k, NEW a \in projApp, TakeClaim(k, a, next),
         UNCHANGED <<projStep, proj, deployed, ready, jobs, projBuild, projMetrics>>
  PROVE  ProjInv'
<1>t. ProjTypeOK
  BY DEF ProjInv
<1>1. CASE ErrorPolicy("Permanent") /\ own' = own
  <2>1. ProjTypeOK'
    BY <1>t, <1>1, PolicyTypes DEF ProjTypeOK, projStep, projMetrics, projHist
  <2> QED BY <1>1, <2>1, PolicyTypes, SameIsSame, Quiet
             DEF projStep, projMetrics, projHist
<1>2. CASE /\ own' = own \/ own' = [own EXCEPT ![k] = a.uid]
           /\ projPc' = next
           /\ UNCHANGED <<projTimer, projApp, projGate, projRedis>>
  <2>1. a.uid \in ProjUids
    BY <1>t, ProjectTypes
  <2>2. /\ own' \in [Kinds -> Owners] /\ own'["deployment"] = own["deployment"]
        /\ \A j \in Kinds : own'[j] = own[j] \/ own'[j] = a.uid
    BY <1>t, <1>2, <2>1 DEF ProjTypeOK, Owners, Kinds
  <2>3. ProjTypeOK'
    <3>1. projPc' \in ProjPcs
      BY <1>2 DEF ProjPcs
    <3> QED BY <1>t, <1>2, <2>2, <3>1
               DEF ProjTypeOK, projStep, projMetrics, projHist
  <2>4. ProjBehind'
    BY <1>2 DEF ProjBehind
  <2>5. MigratedBeforeServed'
    BY <2>2 DEF ProjInv, MigratedBeforeServed, projStep, projHist
  <2> QED BY <1>2, <2>2, <2>3, <2>4, <2>5, ApplyStep
             DEF projStep, projMetrics, projHist, Cleaning, ProjPcs
<1> QED BY <1>1, <1>2 DEF TakeClaim

LEMMA ClaimsInv ==
  ASSUME ProjInv, EnsureAccount \/ ApplyProjIngress PROVE ProjInv'
<1>1. CASE EnsureAccount
  <2>1. PICK a \in projApp : TakeClaim("account", a, "guard")
    BY <1>1 DEF EnsureAccount
  <2> QED BY <1>1, <2>1, TakeClaimInv DEF EnsureAccount
<1>2. CASE ApplyProjIngress
  <2>1. PICK a \in projApp : TakeClaim("ingress", a, "rest")
    BY <1>2 DEF ApplyProjIngress
  <2> QED BY <1>2, <2>1, TakeClaimInv DEF ApplyProjIngress
<1> QED BY <1>1, <1>2

\* The policies, the database and the rest of the objects.
LEMMA ApplyObjectsInv ==
  ASSUME ProjInv,
         \/ CreateKeys \/ ApplyGuards \/ ApplyDatabase1 \/ ApplyDatabase2
         \/ ApplyProjService \/ ApplyRest
  PROVE  ProjInv'
<1>t. ProjTypeOK
  BY DEF ProjInv
<1>1. /\ projPc \in {"keys", "guard", "db1", "db2", "svc", "rest"}
      /\ UNCHANGED <<projStep, proj, projTimer, projApp, projGate, projRedis,
                     deployed, ready, jobs, projBuild, projMetrics>>
  BY DEF CreateKeys, ApplyGuards, ApplyDatabase1, ApplyDatabase2,
         ApplyProjService, ApplyRest
<1>2. PICK a \in Projects : projApp = {a}
  BY <1>1, TheApp
<1>3. a.uid \in ProjUids
  BY <1>2, <1>t, ProjectTypes
<1>4. /\ own' \in [Kinds -> Owners]
      /\ \A k \in Kinds :
           \/ own'[k] = own[k] \/ own'[k] = a.uid
           \/ k \in {"credentials", "explicit", "corekey"} /\ own'[k] = Ownerless
      /\ own'["deployment"] = own["deployment"]
      /\ projPc' \in {"build", "gate", "db1", "db2", "ingress", "status"}
      /\ projPc' \in {"gate", "db1", "db2"} =>
           IF projPc = "guard" THEN a.spec.isolation => own'["guards"] = a.uid
             ELSE own'["guards"] = own["guards"] /\ projPc \in {"db1", "db2"}
  <2>1. CASE ApplyGuards
    <3>1. own' = (IF a.spec.isolation THEN [own EXCEPT !["guards"] = a.uid]
                   ELSE own) /\ projPc = "guard" /\ projPc' \in {"gate", "db1"}
      BY <1>2, <2>1 DEF ApplyGuards
    <3> QED BY <1>3, <1>t, <3>1 DEF ProjTypeOK, Owners, Kinds
  <2>2. CASE ApplyDatabase1
    <3>1. PICK o \in {own["credentials"], a.uid, Ownerless} :
             \/ own' = [own EXCEPT !["credentials"] = o]
             \/ o = Ownerless /\ own' = [own EXCEPT !["explicit"] = o]
      BY <1>2, <2>2 DEF ApplyDatabase1, CreateCredentials
    <3>2. projPc = "db1" /\ projPc' = "db2"
      BY <2>2 DEF ApplyDatabase1
    <3> QED BY <1>3, <1>t, <3>1, <3>2 DEF ProjTypeOK, Owners, Kinds
  <2>3. CASE ApplyDatabase2
    <3>1. PICK o \in {own["credentials"], a.uid, Ownerless} :
             \/ own' = [own EXCEPT !["credentials"] = o]
             \/ o = a.uid /\ own' = [own EXCEPT !["postgresql"] = o]
      BY <1>2, <2>3 DEF ApplyDatabase2, CreateCredentials
    <3>2. projPc = "db2" /\ projPc' = "gate"
      BY <2>3 DEF ApplyDatabase2
    <3> QED BY <1>3, <1>t, <3>1, <3>2 DEF ProjTypeOK, Owners, Kinds
  <2>4. CASE ApplyRest
    <3>1. own' = [own EXCEPT !["stateless"] = a.uid] /\ projPc' = "status"
      BY <1>2, <2>4 DEF ApplyRest
    <3> QED BY <1>3, <1>t, <3>1 DEF ProjTypeOK, Owners, Kinds
  <2>5. CASE CreateKeys
    <3>1. PICK o : /\ own' = [own EXCEPT !["corekey"] = o] /\ projPc' = "build"
                   /\ o = own["corekey"] \/ o = Ownerless
      BY <2>5 DEF CreateKeys
    <3> QED BY <1>3, <1>t, <3>1 DEF ProjTypeOK, Owners, Kinds
  <2>6. CASE ApplyProjService
    <3>1. own' = [own EXCEPT !["service"] = a.uid] /\ projPc' = "ingress"
      BY <1>2, <2>6 DEF ApplyProjService
    <3> QED BY <1>3, <1>t, <3>1 DEF ProjTypeOK, Owners, Kinds
  <2> QED BY <2>1, <2>2, <2>3, <2>4, <2>5, <2>6
<1>5. ProjTypeOK'
  <2>1. projPc' \in ProjPcs
    BY <1>4 DEF ProjPcs
  <2> QED BY <1>t, <1>1, <1>4, <2>1 DEF ProjTypeOK, projStep, projMetrics, projHist
<1>6. ProjBehind'
  <2>1. projPc' \in {"gate", "db1", "db2"} /\ a.spec.isolation
          => own'["guards"] = a.uid
    BY <1>2, <1>4 DEF ProjInv, ProjBehind
  <2> QED BY <1>1, <1>2, <1>4, <2>1 DEF ProjBehind
<1>7. MigratedBeforeServed'
  BY <1>1, <1>4 DEF ProjInv, MigratedBeforeServed, projStep, projHist
<1> QED BY <1>1, <1>2, <1>4, <1>5, <1>6, <1>7, ApplyStep
           DEF projStep, projMetrics, projHist, Cleaning, ProjPcs

LEMMA GateInv == ASSUME ProjInv, MigrationGate PROVE ProjInv'
<1>t. ProjTypeOK
  BY DEF ProjInv
<1>1. /\ projPc = "gate"
      /\ UNCHANGED <<projCache, redisUid, projHist, projEvents, proj,
                     projTimer, projApp, projRedis, own, deployed, ready,
                     projBuild, projMetrics>>
  BY DEF MigrationGate
<1>2. PICK a \in Projects : projApp = {a}
  BY <1>1, TheApp
<1>3. PICK p \in proj : p.uid = a.uid /\ p.fin
  BY <1>1, <1>2, AppliesToProject DEF Cleaning
<1>4. /\ proj = {p} /\ a.uid \in ProjUids
      /\ a.spec.image \in ProjImages /\ jobs[a.spec.image] \in JobRecords
  BY <1>2, <1>t, ProjectTypes DEF ProjTypeOK, AtMostOne
<1>5. PICK i, m : i = a.spec.image /\ m = MigrationJob(a, jobs[i])
  OBVIOUS
<1>6. /\ m.job \in JobRecords /\ m.state \in {"Running", "Succeeded", "Failed"}
      /\ m.state = "Succeeded" => jobs[i].st = "ok"
      /\ m.job \in {jobs[i], NoJob,
                    [st |-> "running", owner |-> a.uid, stamp |-> projRedis]}
  BY <1>2, <1>4, <1>5, <1>t, JobTypes
<1>7. IF a.spec.db = "none"
        THEN /\ projGate' = "NotRequired" /\ projPc' = "own"
             /\ UNCHANGED <<jobs, projDue>>
        ELSE /\ projGate' = m.state
             /\ jobs' = [jobs EXCEPT ![i] = m.job]
             /\ projPc' = IF m.state = "Succeeded" THEN "own" ELSE "held"
             /\ projDue' = (projDue \/ m.job # jobs[i])
  BY <1>2, <1>5 DEF MigrationGate
<1>8. ProjTypeOK'
  <2>1. projDue' \in BOOLEAN
    BY <1>7, <1>t DEF ProjTypeOK
  <2>2. jobs' \in [ProjImages -> JobRecords]
    BY <1>4, <1>5, <1>6, <1>7, <1>t DEF ProjTypeOK
  <2>3. projPc' \in ProjPcs
        /\ projGate' \in {"NotRequired", "Running", "Succeeded", "Failed"}
    BY <1>6, <1>7 DEF ProjPcs
  <2> QED BY <1>1, <1>t, <2>1, <2>2, <2>3 DEF ProjTypeOK, projMetrics, projHist
<1>9. ProjCopiesPast' /\ ProjFinalized'
  BY <1>1, SameIsSame, CopiesKept DEF projHist
<1>10. ProjOwned' /\ ProjSwept'
  BY <1>1, OwnersAssigned DEF projHist
<1>11. ProjJobs'
  <2>1. ASSUME NEW j \in ProjImages
        PROVE  /\ jobs'[j].st = "none" => jobs'[j] = NoJob
               /\ jobs'[j].st # "none" =>
                    \E q \in proj : q.uid = jobs'[j].owner /\ q.fin
               /\ jobs'[j].st = "ok" => <<jobs'[j].owner, j>> \in migrated
    <3>1. \/ jobs'[j] = jobs[j] \/ jobs'[j] = NoJob
          \/ jobs'[j] = [st |-> "running", owner |-> a.uid, stamp |-> projRedis]
      BY <1>4, <1>5, <1>6, <1>7, <1>t DEF ProjTypeOK
    <3>2. CASE jobs'[j] = jobs[j]
      BY <3>2 DEF ProjInv, ProjJobs
    <3>3. CASE jobs'[j] = NoJob
      BY <3>3 DEF NoJob
    <3>4. CASE jobs'[j] = [st |-> "running", owner |-> a.uid, stamp |-> projRedis]
      BY <1>3, <3>4
    <3> QED BY <3>1, <3>2, <3>3, <3>4
  <2> QED BY <1>1, <1>6, <1>7, <2>1 DEF ProjJobs, projHist
<1>12. ProjBehind'
  <2>1. a.spec.isolation => own["guards"] = a.uid
    BY <1>1, <1>2 DEF ProjInv, ProjBehind
  <2>2. ASSUME a.spec.db # "none", projPc' = "own"
        PROVE  <<a.uid, a.spec.image>> \in migrated
    <3>1. jobs[i].st = "ok"
      BY <1>6, <1>7, <2>2
    <3>2. <<jobs[i].owner, i>> \in migrated /\ jobs[i].owner = p.uid
      BY <1>4, <1>5, <3>1 DEF ProjInv, ProjJobs
    <3> QED BY <1>3, <1>5, <3>2
  <2>3. projPc' \in {"own", "held"}
    BY <1>7
  <2> QED BY <1>1, <1>2, <2>1, <2>2, <2>3 DEF ProjBehind, projHist
<1>13. MigratedBeforeServed' /\ ProjCounted'
  BY <1>1 DEF ProjInv, MigratedBeforeServed, ProjCounted, projHist, projMetrics
<1>14. ProjOneCopy'
  BY <1>1, <1>7 DEF ProjInv, ProjOneCopy, Cleaning
<1> QED BY <1>8, <1>9, <1>10, <1>11, <1>12, <1>13, <1>14 DEF ProjInv

\* Writing the status counts the Project once, under its new phase.
LEMMA CountedOnce ==
  ASSUME ProjInv, NEW ph \in ProjPhases, CountPhase(ph)
  PROVE  \A x \in ProjPhases : gauge'[x] = IF x = phaseState' THEN 1 ELSE 0
BY DEF ProjInv, ProjCounted, CountPhase

LEMMA StatusInv ==
  ASSUME ProjInv, HeldByMigration \/ FinishApply PROVE ProjInv'
<1>t. ProjTypeOK
  BY DEF ProjInv
<1>1. /\ projPc \in {"held", "status"} /\ UNCHANGED <<projStep, projObjs>>
  BY DEF HeldByMigration, FinishApply
<1>2. PICK isReady \in BOOLEAN : WriteStatus(isReady)
  <2>1. CASE HeldByMigration
    BY <2>1 DEF HeldByMigration
  <2>2. CASE FinishApply
    BY <1>t, <2>2 DEF FinishApply, ProjTypeOK
  <2> QED BY <2>1, <2>2
<1>3. PICK a \in Projects : projApp = {a}
  BY <1>1, TheApp
<1>4. PICK p \in proj : p.uid = a.uid /\ p.fin
  BY <1>1, <1>3, AppliesToProject DEF Cleaning
<1>5. PICK ph \in ProjPhases : /\ ph = PhaseOf(isReady) /\ CountPhase(ph)
                              /\ phaseState' = ph
  BY <1>t, <1>2, StatusTypes DEF WriteStatus
<1>6. /\ AtMostOne(proj)' /\ ProjSame /\ gauge' \in [ProjPhases -> Int]
      /\ projPc' = "idle" /\ projApp' = {}
      /\ AtMostOne(projApp)' /\ projTimer' \in BOOLEAN
      /\ projGate' \in {"NotRequired", "Running", "Succeeded", "Failed"}
      /\ projRedis' \in Nat
  BY <1>t, <1>2, StatusTypes
<1>7. ProjTypeOK'
  <2>1. projPc' \in ProjPcs /\ phaseState' \in ProjPhases \cup {NoPhase}
    BY <1>5, <1>6 DEF ProjPcs
  <2> QED BY <1>t, <1>1, <1>6, <2>1 DEF ProjTypeOK, projStep, projObjs, projHist
<1>8. ProjCopiesPast' /\ ProjFinalized'
  BY <1>1, <1>6, CopiesKept DEF projStep, projHist
<1>9. ProjOwned' /\ ProjJobs' /\ MigratedBeforeServed' /\ ProjSwept'
  BY <1>1, <1>6, RestKept DEF projStep, projHist, projObjs
<1>10. ProjOneCopy' /\ ProjBehind'
  BY <1>6 DEF ProjOneCopy, ProjBehind
<1>11. ProjCounted'
  <2>1. \E q \in proj' : q.fin
    BY <1>4, <1>6 DEF ProjSame
  <2>2. \A x \in ProjPhases : gauge'[x] = IF x = phaseState' THEN 1 ELSE 0
    BY <1>5, CountedOnce
  <2> QED BY <2>1, <2>2 DEF ProjCounted
<1> QED BY <1>7, <1>8, <1>9, <1>10, <1>11 DEF ProjInv

LEMMA CheckOwnershipInv ==
  ASSUME ProjInv, CheckOwnership \/ CheckService PROVE ProjInv'
<1>t. ProjTypeOK
  BY DEF ProjInv
<1>1. /\ projPc \in {"own", "svcown"}
      /\ UNCHANGED <<projStep, proj, projObjs, projMetrics>>
  BY DEF CheckOwnership, CheckService
<1>2. CASE ErrorPolicy("OwnershipConflict")
  <2>1. ProjTypeOK'
    BY <1>t, <1>1, <1>2, PolicyTypes
       DEF ProjTypeOK, projStep, projObjs, projMetrics, projHist
  <2> QED BY <1>1, <1>2, <2>1, PolicyTypes, SameIsSame, Quiet
             DEF projStep, projObjs, projMetrics, projHist
<1>3. CASE /\ projPc' = IF projPc = "own" THEN "deploy" ELSE "svc"
           /\ UNCHANGED <<projTimer, projApp, projGate, projRedis>>
  <2>1. PICK a \in Projects : projApp = {a}
    BY <1>1, TheApp
  <2>2. ProjTypeOK'
    <3>1. projPc' \in ProjPcs
      BY <1>3 DEF ProjPcs
    <3> QED BY <1>t, <1>1, <1>3, <3>1
               DEF ProjTypeOK, projStep, projObjs, projMetrics, projHist
  <2>3. ProjBehind'
    BY <1>1, <1>3
       DEF ProjInv, ProjBehind, projStep, projObjs, projMetrics, projHist
  <2>4. MigratedBeforeServed'
    BY <1>1 DEF ProjInv, MigratedBeforeServed, projStep, projObjs, projHist
  <2> QED BY <1>1, <1>3, <2>1, <2>2, <2>3, <2>4, ApplyStep
             DEF projStep, projObjs, projMetrics, projHist, Cleaning, ProjPcs
<1> QED BY <1>2, <1>3 DEF CheckOwnership, CheckService

LEMMA ApplyDeploymentInv == ASSUME ProjInv, ApplyDeployment PROVE ProjInv'
<1>t. ProjTypeOK
  BY DEF ProjInv
<1>1. /\ projPc = "deploy" /\ projPc' = "svcown"
      /\ UNCHANGED <<projStep, proj, projTimer, projApp, projGate, projRedis, jobs,
                     projBuild, projMetrics>>
  BY DEF ApplyDeployment
<1>2. PICK a \in Projects : projApp = {a}
  BY <1>1, TheApp
<1>3. /\ own' = [own EXCEPT !["deployment"] = a.uid]
      /\ deployed' = [image |-> a.spec.image, gated |-> a.spec.db # "none",
                      stamp |-> projRedis]
      /\ ready' = (ready /\ own' = own /\ deployed' = deployed)
  BY <1>2 DEF ApplyDeployment
<1>4. a.uid \in ProjUids /\ a.spec.image \in ProjImages
  BY <1>2, <1>t, ProjectTypes
<1>5. /\ own' \in [Kinds -> Owners] /\ own'["deployment"] = a.uid
      /\ \A k \in Kinds \ {"deployment"} : own'[k] = own[k]
  BY <1>3, <1>4, <1>t DEF ProjTypeOK, Owners, Kinds
<1>6. ProjTypeOK'
  <2>1. deployed' \in [image : ProjImages, gated : BOOLEAN, stamp : Nat]
    BY <1>t, <1>3, <1>4 DEF ProjTypeOK
  <2>2. ready' \in BOOLEAN /\ projPc' \in ProjPcs
    BY <1>1, <1>3 DEF ProjPcs
  <2> QED BY <1>t, <1>1, <1>5, <2>1, <2>2
             DEF ProjTypeOK, projStep, projMetrics, projHist
<1>7. MigratedBeforeServed'
  <2>1. a.spec.db # "none" => <<a.uid, a.spec.image>> \in migrated
    BY <1>1, <1>2 DEF ProjInv, ProjBehind
  <2>2. /\ deployed'.image = a.spec.image
        /\ deployed'.gated => a.spec.db # "none"
    BY <1>3
  <2> QED BY <1>1, <1>5, <2>1, <2>2 DEF MigratedBeforeServed, projStep, projHist
<1>8. ProjBehind'
  BY <1>1 DEF ProjBehind
<1> QED BY <1>1, <1>2, <1>5, <1>6, <1>7, <1>8, ApplyStep
           DEF projStep, projMetrics, projHist, Cleaning, ProjPcs

LEMMA CleanStatelessInv == ASSUME ProjInv, CleanStateless PROVE ProjInv'
<1>t. ProjTypeOK
  BY DEF ProjInv
<1>1. /\ projPc = "clean1" /\ projPc' = "clean2" /\ projDue' = TRUE
      /\ jobs' = [i \in ProjImages |-> NoJob]
      /\ UNCHANGED <<proj, projCache, redisUid, projHist, projEvents,
                     projTimer, projApp, projGate, projRedis, deployed, ready,
                     projBuild, projMetrics>>
  BY DEF CleanStateless
<1>o. PICK b, c, d :
        /\ own' = [own EXCEPT !["stateless"] = Absent, !["guards"] = Absent,
                             !["account"] = c, !["ingress"] = d, !["build"] = b]
        /\ b \in {Absent, own["build"]} /\ c \in {Absent, own["account"]}
        /\ d \in {Absent, own["ingress"]}
  <2>1. PICK a \in projApp, b \in {Absent, own["build"]} :
          own' = [own EXCEPT !["stateless"] = Absent, !["guards"] = Absent,
                             !["account"] = IF @ = a.uid THEN Absent ELSE @,
                             !["ingress"] = IF @ = Foreign THEN @ ELSE Absent,
                             !["build"] = b]
    BY DEF CleanStateless
  <2>2. PICK c : c = IF own["account"] = a.uid THEN Absent ELSE own["account"]
    OBVIOUS
  <2>3. PICK d : d = IF own["ingress"] = Foreign THEN own["ingress"] ELSE Absent
    OBVIOUS
  <2>4. own' = [own EXCEPT !["stateless"] = Absent, !["guards"] = Absent,
                           !["account"] = c, !["ingress"] = d, !["build"] = b]
    BY <1>t, <2>1, <2>2, <2>3 DEF ProjTypeOK, Kinds
  <2> QED BY <2>2, <2>3, <2>4
<1>2. /\ own' \in [Kinds -> Owners] /\ own'["deployment"] = own["deployment"]
      /\ \A k \in Kinds : own'[k] = own[k] \/ own'[k] = Absent
  BY <1>o, <1>t DEF ProjTypeOK, Owners, Kinds
<1>3. ProjTypeOK'
  <2>1. projDue' \in BOOLEAN
    BY <1>1, Zenon
  <2>2. jobs' \in [ProjImages -> JobRecords] /\ projPc' \in ProjPcs
    BY <1>1 DEF NoJob, JobRecords, ProjPcs
  <2> QED BY <1>t, <1>1, <1>2, <2>1, <2>2 DEF ProjTypeOK, projMetrics, projHist
<1>4. ProjCopiesPast' /\ ProjFinalized'
  BY <1>1, SameIsSame, CopiesKept DEF projHist
<1>5. ProjOwned' /\ ProjSwept'
  BY <1>1, <1>2, OwnersAssigned DEF projHist
<1>6. ProjJobs'
  BY <1>1 DEF ProjJobs, NoJob
<1>7. ProjOneCopy' /\ ProjBehind' /\ ProjCounted'
  BY <1>1 DEF ProjInv, ProjOneCopy, ProjBehind, ProjCounted, Cleaning, projMetrics
<1>8. MigratedBeforeServed'
  BY <1>1, <1>2 DEF ProjInv, MigratedBeforeServed, projHist
<1> QED BY <1>3, <1>4, <1>5, <1>6, <1>7, <1>8 DEF ProjInv

LEMMA CleanPolicyInv == ASSUME ProjInv, CleanPolicy PROVE ProjInv'
<1>t. ProjTypeOK
  BY DEF ProjInv
<1>1. /\ projPc = "clean2" /\ projPc' = "unfinal" /\ phaseState' = NoPhase
      /\ gauge' = [ph \in ProjPhases |->
                     gauge[ph] - (IF ph = phaseState THEN 1 ELSE 0)]
      /\ UNCHANGED <<proj, projCache, projDue, redisUid, migrated, gone, projNext,
                     projTimer, projApp, projGate, projRedis, deployed,
                     ready, jobs, projBuild>>
  BY DEF CleanPolicy
<1>2. PICK a \in Projects : projApp = {a}
  BY <1>1, TheApp
<1>3. \/ UNCHANGED <<own, ignored, projEvents>> /\ a.spec.policy = "Retain"
      \/ DeleteDatabase({}) /\ UNCHANGED <<ignored, projEvents>>
      \/ DeleteDatabase({"credentials"}) /\ ignored' = TRUE /\ ProjEvent
  BY <1>2 DEF CleanPolicy
<1>4. /\ own' \in [Kinds -> Owners] /\ own'["deployment"] = own["deployment"]
      /\ \A k \in Kinds : own'[k] = own[k] \/ own'[k] = Absent
      /\ ignored' \in BOOLEAN /\ (ignored => ignored')
      /\ projEvents' \in Nat
  <2>1. CASE UNCHANGED <<own, ignored, projEvents>>
    BY <1>t, <2>1 DEF ProjTypeOK
  <2>2. CASE DeleteDatabase({}) /\ UNCHANGED <<ignored, projEvents>>
    BY <1>t, <2>2 DEF ProjTypeOK, DeleteDatabase, Owners, Kinds
  <2>3. CASE DeleteDatabase({"credentials"}) /\ ignored' = TRUE /\ ProjEvent
    <3>1. ignored' \in BOOLEAN /\ (ignored => ignored')
      BY <2>3, Zenon
    <3> QED BY <1>t, <2>3, <3>1
               DEF ProjTypeOK, DeleteDatabase, Owners, Kinds, ProjEvent
  <2> QED BY <1>3, <2>1, <2>2, <2>3
<1>5. gauge' \in [ProjPhases -> Int] /\ \A ph \in ProjPhases : gauge'[ph] = 0
  BY <1>1, <1>t DEF ProjTypeOK, ProjInv, ProjCounted
<1>6. ProjTypeOK'
  <2>1. projPc' \in ProjPcs /\ phaseState' \in ProjPhases \cup {NoPhase}
    BY <1>1 DEF ProjPcs
  <2> QED BY <1>t, <1>1, <1>4, <1>5, <2>1 DEF ProjTypeOK
<1>7. ProjCopiesPast' /\ ProjFinalized'
  BY <1>1, SameIsSame, CopiesKept
<1>8. ProjOwned' /\ ProjSwept'
  BY <1>1, <1>4, OwnersAssigned
<1>9. ProjJobs' /\ ProjOneCopy'
  BY <1>1 DEF ProjInv, ProjJobs, ProjOneCopy, Cleaning
<1>10. ProjBehind'
  <2>1. a.spec.policy = "Delete" /\ ~ignored' => own'["credentials"] = Absent
    BY <1>3 DEF DeleteDatabase, Kinds
  <2> QED BY <1>1, <1>2, <2>1 DEF ProjBehind
<1>11. MigratedBeforeServed'
  BY <1>1, <1>4 DEF ProjInv, MigratedBeforeServed
<1>12. ProjCounted'
  BY <1>1, <1>5 DEF ProjCounted, ProjPhases, NoPhase
<1> QED BY <1>6, <1>7, <1>8, <1>9, <1>10, <1>11, <1>12 DEF ProjInv

LEMMA ProjStepInv == ProjInv /\ [ProjectNext]_projVars => ProjInv'
<1> SUFFICES ASSUME ProjInv, [ProjectNext]_projVars PROVE ProjInv'
  OBVIOUS
<1>1. CASE UNCHANGED projVars
  <2>1. ProjTypeOK'
    BY <1>1 DEF ProjInv, ProjTypeOK, projVars, projOp, projObjs, projMetrics,
                projHist
  <2> QED BY <1>1, <2>1, SameIsSame, Quiet
             DEF projVars, projOp, projObjs, projMetrics, projHist
<1>2. CASE ProjUser
  BY <1>2, CreateInv, EditInv, DeleteInv, ForeignInv, EventsInv DEF ProjUser
<1>3. CASE ProjCluster
  BY <1>3, JobFinishesInv, EventsInv, GarbageInv DEF ProjCluster
<1>4. CASE ProjSync \/ TimerFires
  BY <1>4, SyncInv, EventsInv
<1>5. CASE ProjReconcile
  BY <1>5, EventsInv, AddFinalizerInv, StartReconcileInv, RemoveFinalizerInv,
     SetupInv, BuildGateInv, ClaimsInv, ApplyObjectsInv, GateInv, StatusInv, CheckOwnershipInv,
     ApplyDeploymentInv, CleanStatelessInv, CleanPolicyInv
     DEF ProjReconcile
<1>6. CASE ProjFails
  BY <1>6, EventsInv, RestartInv DEF ProjFails
<1> QED BY <1>1, <1>2, <1>3, <1>4, <1>5, <1>6 DEF ProjectNext

-----------------------------------------------------------------------------
(* Theorems *)

\* The invariant of the Project's life: copies are of the past, a Project
\* keeps its finalizer until it is cleaned up, objects and Jobs are those of
\* a Project with the finalizer, and each step of a reconcile finds what the
\* steps before it made.
THEOREM ProjInvariance == ProjectSpec => []ProjInv
<1>1. ProjInit => ProjInv
  BY ProjInitInv
<1>2. ProjInv /\ [ProjectNext]_projVars => ProjInv'
  BY ProjStepInv
<1> QED BY <1>1, <1>2, PTL DEF ProjectSpec

\* The migration gate: whatever edits, restarts, failed calls and recreated
\* Projects there were, a Deployment with a database runs only an image whose
\* migration Job succeeded for that same Project (reconcile_apply).
THEOREM MigratedFirst == ProjectSpec => []MigratedBeforeServed
<1>1. ProjInv => MigratedBeforeServed
  BY DEF ProjInv
<1> QED BY <1>1, ProjInvariance, PTL

\* managed_apps counts a Project once and a Project that is gone not at all,
\* across restarts of the operator and failed cleanups (update_status,
\* cleanup).
THEOREM GaugeSound == ProjectSpec => []GaugeCountsLive
<1>1. ProjInv => GaugeCountsLive
  BY DEF ProjInv, ProjCounted, GaugeCountsLive
<1> QED BY <1>1, ProjInvariance, PTL

\* The deletion policy Delete: once the Project is gone and its garbage
\* collected, only an explicit database and the signing key are left, and
\* credentials whose deletion failed (cleanup).
THEOREM SweepsAll == ProjectSpec => []DeleteSweeps
<1>1. ProjInv => DeleteSweeps
  <2> SUFFICES ASSUME ProjInv, proj = {}, gone.policy = "Delete",
                      \A k \in Kinds : ~OwnerGone(own[k]),
                      NEW k \in Kinds, own[k] \notin {Absent, Foreign}
               PROVE  k \in {"explicit", "corekey"}
                              \cup (IF ignored THEN {"credentials"} ELSE {})
    BY DEF DeleteSweeps
  <2>1. own[k] \in Owners /\ own[k] \notin ProjUids
    BY DEF ProjInv, ProjTypeOK, OwnerGone
  <2>2. own[k] = Ownerless
    BY <2>1 DEF Owners
  <2>3. k \in {"credentials", "explicit", "corekey"}
    BY <2>2 DEF ProjInv, ProjOwned
  <2>4. ~ignored => own["credentials"] # Ownerless
    BY DEF ProjInv, ProjSwept
  <2> QED BY <2>2, <2>3, <2>4
<1> QED BY <1>1, ProjInvariance, PTL

\* A cleanup that is under way leaves no object of a Project that is not
\* being deleted.
LEMMA CleanupSpares ==
  ASSUME ProjInv, projPc \in Cleaning, NEW p \in proj, ~p.deleting,
         NEW k \in Kinds
  PROVE  own[k] # p.uid
<1>1. PICK a \in Projects : projApp = {a}
  BY TheApp DEF Cleaning
<1>2. p.fin => p.deleting
  BY <1>1, CleansProject
<1> QED BY <1>2 DEF ProjInv, ProjOwned

\* No step, not even of a cleanup that works on the copy of an earlier
\* Project of the name, takes an object from a live Project (finalizer,
\* cleanup).
THEOREM SparesLive == ProjectSpec => SparesLiveProject
<1>1. ProjInv /\ [ProjectNext]_projVars =>
        [\A k \in Kinds :
           (\E p \in proj : ~p.deleting /\ own[k] = p.uid) => own'[k] # Absent]_projVars
  <2> SUFFICES ASSUME ProjInv, ProjectNext, NEW k \in Kinds, NEW p \in proj,
                      ~p.deleting, own[k] = p.uid
               PROVE  own'[k] # Absent
    OBVIOUS
  <2>t. own \in [Kinds -> Owners] /\ own[k] \in ProjUids
    BY ProjectTypes DEF ProjInv, ProjTypeOK
  <2>0. own[k] \notin {Absent, Ownerless, Foreign}
    BY <2>t, ProjAssumption DEF ProjUids, Absent, Ownerless, Foreign
  <2>1. CASE UNCHANGED own
    BY <2>0, <2>1
  <2>2. ASSUME NEW j \in Contested, ForeignObject(j) PROVE own'[k] # Absent
    BY <2>0, <2>2, <2>t DEF ForeignObject, Kinds
  <2>3. ASSUME NEW j \in Kinds, CollectGarbage(j) PROVE own'[k] # Absent
    BY <2>0, <2>3, <2>t DEF CollectGarbage, OwnerGone
  <2>4. CASE projPc \in Cleaning
    BY <2>4, CleanupSpares
  <2>5. CASE CreateKeys \/ BuildStarts
    <3>1. ASSUME NEW j \in Kinds, NEW o,
                 own' = [own EXCEPT ![j] = IF @ = Absent THEN o ELSE @]
          PROVE  own'[k] # Absent
      BY <2>0, <2>t, <3>1
    <3>2. CASE CreateKeys
      BY <3>1, <3>2 DEF CreateKeys, Kinds
    <3>3. CASE BuildStarts
      <4>1. PICK a \in projApp :
              own' = [own EXCEPT !["build"] = IF @ = Absent THEN a.uid ELSE @]
        BY <3>3 DEF BuildStarts
      <4> QED BY <3>1, <4>1 DEF Kinds
    <3> QED BY <2>5, <3>2, <3>3
  <2>6. CASE \/ ApplyGuards \/ ApplyDatabase1 \/ ApplyDatabase2 \/ ApplyRest
             \/ ApplyDeployment \/ ApplyProjService
             \/ EnsureAccount \/ ApplyProjIngress
    <3>1. PICK a, j, o :
             /\ a \in projApp /\ j \in Kinds
             /\ own' = own \/ own' = [own EXCEPT ![j] = o]
             /\ \/ o = a.uid \/ o = Ownerless
                \/ o = own["credentials"] /\ j = "credentials"
      <4>1. CASE ApplyGuards
        <5>1. PICK a \in projApp :
                own' = own \/ own' = [own EXCEPT !["guards"] = a.uid]
          BY <4>1 DEF ApplyGuards
        <5> QED BY <5>1 DEF Kinds
      <4>2. CASE ApplyDatabase1
        BY <4>2 DEF ApplyDatabase1, CreateCredentials, Kinds
      <4>3. CASE ApplyDatabase2
        BY <4>3 DEF ApplyDatabase2, CreateCredentials, Kinds
      <4>4. CASE ApplyRest \/ ApplyDeployment \/ ApplyProjService
        BY <4>4 DEF ApplyRest, ApplyDeployment, ApplyProjService, Kinds
      <4>5. CASE EnsureAccount \/ ApplyProjIngress
        <5>1. PICK a \in projApp, j \in {"account", "ingress"} :
                own' = own \/ own' = [own EXCEPT ![j] = a.uid]
          BY <4>5 DEF EnsureAccount, ApplyProjIngress, TakeClaim
        <5> QED BY <5>1 DEF Kinds
      <4> QED BY <2>6, <4>1, <4>2, <4>3, <4>4, <4>5
    <3>2. a.uid # Absent
      BY <3>1, ProjectTypes, ProjAssumption DEF ProjInv, ProjUids, Absent
    <3> QED BY <2>0, <2>t, <3>1, <3>2 DEF Absent, Ownerless
  <2>7. CASE ProjUser
    BY <2>1, <2>2, <2>7
       DEF ProjUser, ProjCreate, ProjEdit, ProjDelete, BuildAsked,
           RedisRegenerated, projObjs
  <2>8. CASE ProjCluster
    BY <2>1, <2>3, <2>8 DEF ProjCluster, JobFinishes, DeploymentReady
  <2>9. CASE ProjSync \/ TimerFires \/ ProjFails
    BY <2>1, <2>9
       DEF ProjSync, TimerFires, ProjFails, CallFails, OperatorRestarts, projObjs
  <2>10. CASE ProjReconcile
    <3>1. \/ UNCHANGED own \/ projPc \in Cleaning
          \/ CreateKeys \/ BuildStarts
          \/ ApplyGuards \/ ApplyDatabase1 \/ ApplyDatabase2 \/ ApplyRest
          \/ ApplyDeployment \/ ApplyProjService
          \/ EnsureAccount \/ ApplyProjIngress
      BY <2>10 DEF ProjReconcile, ReconcileGone, AddFinalizer, StartReconcile,
                   RemoveFinalizer, MigrationGate, HeldByMigration,
                   CheckOwnership, CheckService, FinishApply, CleanStateless,
                   CleanPolicy, Setup, BuildGate, NoBuild, BuildRuns,
                   BuildSucceeds, BuildFails, BuildBlocks, projObjs, Cleaning
    <3> QED BY <2>1, <2>4, <2>5, <2>6, <3>1
  <2> QED BY <2>7, <2>8, <2>9, <2>10 DEF ProjectNext
<1> QED BY <1>1, ProjInvariance, PTL DEF ProjectSpec, SparesLiveProject

\* The NetworkPolicies and the LimitRange of an isolated Project are in place
\* before a migration Job of it starts, a Deployment is made for it or its
\* Deployment gets another image (reconcile_apply).  Build Jobs and the roll
\* onto other Redis credentials come before them.
THEOREM GuardedFirst == ProjectSpec => GuardedBeforeRelease
<1>1. ProjInv /\ [ProjectNext]_projVars =>
        [\A p \in projApp :
           /\ p.spec.isolation
           /\ MigrationStarts \/ WorkloadChanges(p.uid)
           => own["guards"] = p.uid]_projVars
  <2> SUFFICES ASSUME ProjInv, ProjectNext, NEW p \in projApp, p.spec.isolation,
                      MigrationStarts \/ WorkloadChanges(p.uid)
               PROVE  own["guards"] = p.uid
    OBVIOUS
  <2>t. own \in [Kinds -> Owners]
        /\ deployed \in [image : ProjImages, gated : BOOLEAN, stamp : Nat]
        /\ jobs \in [ProjImages -> JobRecords]
    BY DEF ProjInv, ProjTypeOK
  <2>0. p.uid \notin {Absent, Foreign}
    BY ProjectTypes, ProjAssumption DEF ProjInv, ProjUids, Absent, Foreign
  <2>1. CASE projPc \in {"gate", "deploy"}
    BY <2>1 DEF ProjInv, ProjBehind
  <2>2. ASSUME UNCHANGED <<jobs, deployed>>,
               \/ own'["deployment"] = own["deployment"]
               \/ own'["deployment"] \in {Absent, Foreign}
        PROVE  FALSE
    BY <2>0, <2>2 DEF MigrationStarts, WorkloadChanges
  <2>3. ASSUME NEW i \in ProjImages, JobFinishes(i) PROVE FALSE
    <3>1. UNCHANGED <<own, deployed>> /\ jobs[i].st = "running"
      BY <2>3 DEF JobFinishes
    <3>2. \A j \in ProjImages : jobs[j].st = "none" => jobs'[j] = jobs[j]
      BY <2>3, <2>t, <3>1 DEF JobFinishes
    <3> QED BY <3>1, <3>2 DEF MigrationStarts, WorkloadChanges
  <2>4. CASE CleanStateless
    <3>1. /\ own'["deployment"] = own["deployment"] /\ UNCHANGED deployed
          /\ \A j \in ProjImages : jobs'[j] = NoJob
      BY <2>4, <2>t DEF CleanStateless, Kinds
    <3> QED BY <3>1 DEF MigrationStarts, WorkloadChanges, NoJob
  <2>5. CASE Setup
    <3>1. UNCHANGED <<own, jobs>> /\ deployed'.image = deployed.image
      BY <2>5, <2>t DEF Setup
    <3> QED BY <3>1 DEF MigrationStarts, WorkloadChanges
  <2>7. CASE ProjUser
    <3>1. ASSUME NEW k \in Contested, ForeignObject(k) PROVE FALSE
      BY <2>2, <2>t, <3>1 DEF ForeignObject, Kinds
    <3> QED BY <2>2, <2>7, <3>1 DEF ProjUser, ProjCreate, ProjEdit, ProjDelete,
                                    BuildAsked, RedisRegenerated, projObjs
  <2>8. CASE ProjCluster
    <3>1. ASSUME NEW k \in Kinds, CollectGarbage(k) PROVE FALSE
      BY <2>2, <2>t, <3>1 DEF CollectGarbage, Kinds
    <3> QED BY <2>2, <2>3, <2>8, <3>1 DEF ProjCluster, DeploymentReady
  <2>9. CASE ProjSync \/ TimerFires \/ ProjFails
    BY <2>2, <2>9
       DEF ProjSync, TimerFires, ProjFails, CallFails, OperatorRestarts, projObjs
  <2>10. CASE \/ ReconcileGone \/ AddFinalizer \/ StartReconcile \/ RemoveFinalizer
              \/ HeldByMigration \/ CheckOwnership \/ CheckService \/ FinishApply
              \/ NoBuild \/ BuildRuns \/ BuildSucceeds \/ BuildFails \/ BuildBlocks
    BY <2>2, <2>10
       DEF ReconcileGone, AddFinalizer, StartReconcile, RemoveFinalizer,
           HeldByMigration, CheckOwnership, CheckService, FinishApply, NoBuild,
           BuildRuns, BuildSucceeds, BuildFails, BuildBlocks, projObjs
  <2>11. CASE \/ CreateKeys \/ BuildStarts \/ EnsureAccount \/ ApplyGuards
              \/ ApplyDatabase1 \/ ApplyDatabase2 \/ ApplyProjService
              \/ ApplyProjIngress \/ ApplyRest
    <3>1. own'["deployment"] = own["deployment"] /\ UNCHANGED <<jobs, deployed>>
      BY <2>11, <2>t
         DEF CreateKeys, BuildStarts, EnsureAccount, ApplyGuards, ApplyDatabase1,
             ApplyDatabase2, ApplyProjService, ApplyProjIngress, ApplyRest,
             TakeClaim, CreateCredentials, Kinds
    <3> QED BY <2>2, <3>1
  <2>12. CASE CleanPolicy
    <3>1. own'["deployment"] = own["deployment"] /\ UNCHANGED <<jobs, deployed>>
      BY <2>12, <2>t DEF CleanPolicy, DeleteDatabase, Kinds
    <3> QED BY <2>2, <3>1
  <2>13. CASE MigrationGate \/ ApplyDeployment
    BY <2>1, <2>13 DEF MigrationGate, ApplyDeployment
  <2> QED BY <2>4, <2>5, <2>7, <2>8, <2>9, <2>10, <2>11, <2>12, <2>13
          DEF ProjectNext, ProjReconcile, BuildGate
<1> QED BY <1>1, ProjInvariance, PTL DEF ProjectSpec, GuardedBeforeRelease

-----------------------------------------------------------------------------
(* An operator at rest *)

\* Redis is used from the beginning or never, and then no Job has a stamp.
LEMMA UnstampedStep ==
  ASSUME ProjInv, ProjUnstamped, [ProjectNext]_projVars
  PROVE  ProjUnstamped'
<1>t. ProjTypeOK
  BY DEF ProjInv
<1> SUFFICES ASSUME redisUid' = 0
             PROVE  projRedis' = 0 /\ \A i \in ProjImages : jobs'[i].stamp = 0
  BY DEF ProjUnstamped
<1>1. redisUid' = redisUid \/ (redisUid > 0 /\ redisUid' = redisUid + 1)
  BY DEF ProjectNext, ProjUser, ProjCluster, ProjReconcile, ProjFails, projVars,
         ProjCreate, ProjEdit, ProjDelete, ForeignObject, BuildAsked,
         RedisRegenerated, JobFinishes, DeploymentReady, CollectGarbage, ProjSync,
         TimerFires, ReconcileGone, AddFinalizer, StartReconcile, RemoveFinalizer,
         Setup, CreateKeys, BuildGate, NoBuild, BuildStarts, BuildRuns,
         BuildSucceeds, BuildFails, BuildBlocks, EnsureAccount, TakeClaim,
         ApplyGuards, ApplyDatabase1, ApplyDatabase2, MigrationGate,
         HeldByMigration, CheckOwnership, ApplyDeployment, CheckService,
         ApplyProjService, ApplyProjIngress, ApplyRest, FinishApply,
         CleanStateless, CleanPolicy, CallFails, OperatorRestarts, projStep
<1>2. redisUid = 0 /\ projRedis = 0 /\ \A i \in ProjImages : jobs[i].stamp = 0
  BY <1>1, <1>t DEF ProjUnstamped, ProjTypeOK
<1>3. projRedis' = 0
  BY <1>2
     DEF ProjectNext, ProjUser, ProjCluster, ProjReconcile, ProjFails, projVars,
         ProjCreate, ProjEdit, ProjDelete, ForeignObject, BuildAsked,
         RedisRegenerated, JobFinishes, DeploymentReady, CollectGarbage, ProjSync,
         TimerFires, ReconcileGone, AddFinalizer, StartReconcile, RemoveFinalizer,
         Setup, CreateKeys, BuildGate, NoBuild, BuildStarts, BuildRuns,
         BuildSucceeds, BuildFails, BuildBlocks, EnsureAccount, TakeClaim,
         ApplyGuards, ApplyDatabase1, ApplyDatabase2, MigrationGate,
         HeldByMigration, CheckOwnership, ApplyDeployment, CheckService,
         ApplyProjService, ApplyProjIngress, ApplyRest, FinishApply,
         CleanStateless, CleanPolicy, CallFails, OperatorRestarts,
         projOp, projStep, Ends, ErrorPolicy, WriteStatus
<1>4. \A i \in ProjImages : jobs'[i].stamp = 0
  <2>1. CASE UNCHANGED jobs
    BY <1>2, <2>1
  <2>2. ASSUME NEW j \in ProjImages, JobFinishes(j)
        PROVE  \A i \in ProjImages : jobs'[i].stamp = 0
    <3>1. PICK r : jobs' = [jobs EXCEPT ![j].st = r]
      BY <2>2 DEF JobFinishes
    <3>2. ASSUME NEW i \in ProjImages PROVE jobs'[i].stamp = jobs[i].stamp
      BY <1>t, <3>1 DEF ProjTypeOK, JobRecords
    <3> QED BY <1>2, <3>2
  <2>3. CASE CleanStateless
    BY <2>3 DEF CleanStateless, NoJob
  <2>4. CASE MigrationGate
    <3>1. PICK p \in projApp :
             IF p.spec.db = "none" THEN UNCHANGED jobs
               ELSE jobs' = [jobs EXCEPT ![p.spec.image] =
                               MigrationJob(p, jobs[p.spec.image]).job]
      BY <2>4 DEF MigrationGate
    <3>2. p.spec.image \in ProjImages
      BY <1>t, ProjectTypes
    <3>3. PICK j : j = MigrationJob(p, jobs[p.spec.image]).job
      OBVIOUS
    <3>4. j \in {jobs[p.spec.image], NoJob,
                 [st |-> "running", owner |-> p.uid, stamp |-> projRedis]}
      BY <1>t, <3>2, <3>3, JobTypes DEF ProjTypeOK
    <3>5. j.stamp = 0
      BY <1>2, <3>2, <3>4 DEF NoJob
    <3> QED BY <1>t, <1>2, <3>1, <3>2, <3>3, <3>5 DEF ProjTypeOK
  <2> QED
    BY <2>1, <2>2, <2>3, <2>4
       DEF ProjectNext, ProjUser, ProjCluster, ProjReconcile, ProjFails, projVars,
           ProjCreate, ProjEdit, ProjDelete, ForeignObject, BuildAsked,
           RedisRegenerated, DeploymentReady, CollectGarbage, ProjSync,
           TimerFires, ReconcileGone, AddFinalizer, StartReconcile, RemoveFinalizer,
           Setup, CreateKeys, BuildGate, NoBuild, BuildStarts, BuildRuns,
           BuildSucceeds, BuildFails, BuildBlocks, EnsureAccount, TakeClaim,
           ApplyGuards, ApplyDatabase1, ApplyDatabase2,
           HeldByMigration, CheckOwnership, ApplyDeployment, CheckService,
           ApplyProjService, ApplyProjIngress, ApplyRest, FinishApply,
           CleanPolicy, CallFails, OperatorRestarts,
           projObjs
<1> QED BY <1>3, <1>4

\* With a request queued nothing has to be done yet.
LEMMA RequestQueued == ASSUME projDue' PROVE ProjOnItsWay' /\ ProjDone'
BY DEF ProjOnItsWay, ProjDone, ProjWaits

\* A failed reconcile comes back by its timer.
LEMMA RetryPending ==
  ASSUME projPc' = "idle", projApp' = {}, projTimer'
  PROVE  ProjOnItsWay' /\ ProjDone'
BY DEF ProjOnItsWay, ProjDone, ProjWaits, AfterSetup

\* Objects that come and go without the Project, and its claims when they go,
\* leave what was concluded.
LEMMA ConcludedKept ==
  ASSUME NEW c \in Projects, Concluded(c),
         UNCHANGED <<jobs, redisUid, deployed, projBuild>>,
         \A k \in Contested : own'[k] = own[k] \/ own'[k] \notin ProjUids,
         \A k \in {"deployment", "service"} :
           own'[k] = own[k] \/ own[k] \notin ProjUids
  PROVE  Concluded(c)'
<1>1. c.uid \in ProjUids /\ c.spec.claims \subseteq Contested
  BY DEF Projects, ProjSpecRecords, Contested
<1>2. CASE Serves(c)
  BY <1>1, <1>2 DEF Serves, Denied, Concluded
<1>3. CASE Denied(c)
  BY <1>1, <1>3 DEF Denied, Concluded
<1>4. CASE ~c.spec.tenantOk \/ MigrationHolds(c) \/ projBuild = "failed"
  BY <1>4 DEF Concluded, MigrationHolds, MigrationFailed
<1> QED BY <1>2, <1>3, <1>4 DEF Concluded

\* What users and the garbage collector do takes neither the finalizer nor an
\* object it serves with from the Project.
LEMMA RestFramed ==
  ASSUME ProjInv, ProjOnItsWay, ProjDone,
         UNCHANGED <<projCache, projDue, projTimer, projOp, jobs, redisUid,
                     deployed, projBuild>>,
         \A k \in Contested : own'[k] = own[k] \/ own'[k] \notin ProjUids,
         \A k \in {"deployment", "service"} :
           own'[k] = own[k] \/ own[k] \notin ProjUids,
         \A a \in projApp :
           projPc \in {"rest", "status"} /\ own["ingress"] = a.uid
             => own'["ingress"] = a.uid,
         (\E q \in proj : q.fin) => \E q \in proj' : q.fin
  PROVE  ProjOnItsWay' /\ ProjDone'
<1>1. \A c \in projCache \cup projApp : c \in Projects /\ c.uid \in ProjUids
  BY ProjectTypes DEF ProjInv
<1>2. ProjOnItsWay'
  <2>1. \A c \in projApp : MigrationHolds(c) => MigrationHolds(c)'
    BY DEF MigrationHolds, MigrationFailed
  <2> QED BY <1>1, <2>1 DEF ProjOnItsWay, projOp
<1>3. ProjDone'
  <2>1. \A c \in projCache : Concluded(c) => Concluded(c)'
    BY <1>1, ConcludedKept
  <2> QED BY <2>1 DEF ProjDone, ProjWaits, projOp
<1> QED BY <1>2, <1>3

\* A reconcile that ends for good has served its copy, which is what is cached.
LEMMA EndsServed ==
  ASSUME ProjInv, ProjOnItsWay, ~projDue, projPc \notin Cleaning \cup {"idle"},
         UNCHANGED <<projCache, own, deployed, jobs, redisUid, projBuild>>,
         projPc' = "idle", projApp' = {},
         \A p \in projApp : Concluded(p)
  PROVE  ProjOnItsWay' /\ ProjDone'
<1>1. PICK a \in Projects : projApp = {a} /\ a.fin /\ ~a.deleting
  BY TheApp
<1>2. projCache' = {a}
  BY <1>1 DEF ProjOnItsWay
<1>3. Concluded(a)'
  BY <1>1, ConcludedKept
<1>4. ProjDone'
  BY <1>1, <1>2, <1>3 DEF ProjDone
<1>5. ProjOnItsWay'
  BY DEF ProjOnItsWay, AfterSetup
<1> QED BY <1>4, <1>5

\* A reconcile that goes on.
LEMMA GoesOn ==
  ASSUME ProjOnItsWay, ~projDue, projPc # "idle", projPc' \notin Cleaning \cup {"idle"},
         projApp' = projApp, projCache' = projCache, redisUid' = redisUid,
         projPc' \in AfterSetup => projRedis' = redisUid,
         \A p \in projApp : /\ projPc' = "held" => MigrationHolds(p)'
                            /\ projPc' \in {"svcown", "svc", "ingress", "rest", "status"} =>
                                 own'["deployment"] = p.uid
                                 /\ deployed'.image = p.spec.image
                            /\ projPc' \in {"ingress", "rest", "status"} =>
                                 own'["service"] = p.uid
                            /\ projPc' \in {"rest", "status"}
                               /\ "ingress" \in p.spec.claims =>
                                 own'["ingress"] = p.uid
  PROVE  ProjOnItsWay' /\ ProjDone'
<1>1. ProjDone'
  BY DEF ProjDone, ProjWaits
<1> QED BY <1>1 DEF ProjOnItsWay, Cleaning

LEMMA RestUser ==
  ASSUME ProjInv, ProjOnItsWay, ProjDone, ProjUser
  PROVE  ProjOnItsWay' /\ ProjDone'
<1>1. ASSUME NEW s \in ProjSpecs, ProjCreate(s) PROVE ProjOnItsWay' /\ ProjDone'
  <2>1. /\ proj = {} /\ UNCHANGED <<projCache, projDue, projTimer, projOp, own,
                                   deployed, jobs, redisUid>>
    BY <1>1 DEF ProjCreate
  <2>2. \A c \in projCache : ~(c.fin /\ ~c.deleting)
    BY <2>1 DEF ProjInv, ProjFinalized
  <2>3. ProjDone'
    BY <2>1, <2>2 DEF ProjDone, ProjWaits, projOp
  <2>4. \A p \in projApp : MigrationHolds(p) => MigrationHolds(p)'
    BY <2>1 DEF MigrationHolds, MigrationFailed
  <2>5. ProjOnItsWay'
    BY <2>1, <2>4 DEF ProjOnItsWay, projOp
  <2> QED BY <2>3, <2>5
<1>2. ASSUME NEW s \in ProjSpecs, ProjEdit(s) PROVE ProjOnItsWay' /\ ProjDone'
  <2>1. PICK p \in proj : proj' = {[p EXCEPT !.spec = s]}
    BY <1>2 DEF ProjEdit
  <2>2. \A q \in proj : q = p /\ q \in Projects
    BY DEF ProjInv, ProjTypeOK, AtMostOne
  <2>3. [p EXCEPT !.spec = s].fin = p.fin
    BY <2>2 DEF Projects
  <2>4. (\E q \in proj : q.fin) => \E q \in proj' : q.fin
    BY <2>1, <2>2, <2>3
  <2> QED BY <1>2, <2>4, RestFramed DEF ProjEdit, projObjs
<1>3. CASE ProjDelete
  <2>1. PICK p \in proj :
          proj' = IF p.fin THEN {[p EXCEPT !.deleting = TRUE]} ELSE {}
    BY <1>3 DEF ProjDelete
  <2>2. \A q \in proj : q = p /\ q \in Projects
    BY DEF ProjInv, ProjTypeOK, AtMostOne
  <2>3. [p EXCEPT !.deleting = TRUE].fin = p.fin
    BY <2>2 DEF Projects
  <2>4. (\E q \in proj : q.fin) => \E q \in proj' : q.fin
    BY <2>1, <2>2, <2>3
  <2> QED BY <1>3, <2>4, RestFramed DEF ProjDelete, projObjs
<1>4. ASSUME NEW k \in Contested, ForeignObject(k) PROVE ProjOnItsWay' /\ ProjDone'
  <2>1. own[k] \notin ProjUids /\ own'[k] \notin ProjUids
        /\ \A j \in Contested \ {k} : own'[j] = own[j]
    BY <1>4, ProjAssumption
       DEF ForeignObject, ProjInv, ProjTypeOK, ProjUids, Absent, Foreign, Kinds,
           Contested
  <2>2. \A a \in projApp : a.uid \in ProjUids
    BY ProjectTypes DEF ProjInv
  <2>3. /\ \A j \in Contested : own'[j] = own[j] \/ own'[j] \notin ProjUids
        /\ \A j \in {"deployment", "service"} :
             own'[j] = own[j] \/ own[j] \notin ProjUids
        /\ \A a \in projApp : own["ingress"] = a.uid => own'["ingress"] = a.uid
    BY <2>1, <2>2 DEF Contested
  <2> QED BY <1>4, <2>3, RestFramed DEF ForeignObject
<1>5. CASE BuildAsked \/ RedisRegenerated
  BY <1>5, RequestQueued DEF BuildAsked, RedisRegenerated
<1> QED BY <1>1, <1>2, <1>3, <1>4, <1>5 DEF ProjUser

LEMMA RestCluster ==
  ASSUME ProjInv, ProjOnItsWay, ProjDone, ProjCluster
  PROVE  ProjOnItsWay' /\ ProjDone'
<1>1. CASE DeploymentReady \/ \E i \in ProjImages : JobFinishes(i)
  BY <1>1, RequestQueued DEF DeploymentReady, JobFinishes
<1>2. ASSUME NEW k \in Kinds, CollectGarbage(k) PROVE ProjOnItsWay' /\ ProjDone'
  <2>1. CASE k \in Watched
    BY <1>2, <2>1, RequestQueued DEF CollectGarbage
  <2>2. CASE k \notin Watched
    <3>1. /\ OwnerGone(own[k]) /\ own' = [own EXCEPT ![k] = Absent]
          /\ projDue' = projDue
          /\ UNCHANGED <<proj, projCache, projTimer, projOp, deployed, jobs,
                         projBuild, redisUid>>
      BY <1>2, <2>2 DEF CollectGarbage, ProjInv, ProjTypeOK
    <3>2. /\ \A j \in Contested : own'[j] = own[j] \/ own'[j] \notin ProjUids
          /\ own'["deployment"] = own["deployment"]
          /\ own'["service"] = own["service"]
          /\ own'["ingress"] = own["ingress"] \/ OwnerGone(own["ingress"])
      BY <2>2, <3>1, ProjAssumption
         DEF ProjInv, ProjTypeOK, Kinds, Contested, Watched, ProjUids, Absent
    <3>3. \A a \in projApp :
            projPc \in {"rest", "status"} /\ own["ingress"] = a.uid
              => own'["ingress"] = a.uid
      BY <3>2, AppliesToProject DEF OwnerGone, Cleaning
    <3> QED BY <3>1, <3>2, <3>3, RestFramed
  <2> QED BY <2>1, <2>2
<1> QED BY <1>1, <1>2 DEF ProjCluster

LEMMA RestFinalizer ==
  ASSUME ProjInv, ProjOnItsWay, ProjDone,
         ReconcileGone \/ AddFinalizer \/ StartReconcile \/ RemoveFinalizer
  PROVE  ProjOnItsWay' /\ ProjDone'
<1>1. CASE ReconcileGone
  <2>1. projCache' = {} /\ projPc' = "idle" /\ projApp' = projApp
    BY <1>1 DEF ReconcileGone, TakesRequest, projOp
  <2>2. projApp = {}
    BY <1>1 DEF ReconcileGone, TakesRequest, ProjInv, ProjOneCopy
  <2> QED BY <2>1, <2>2 DEF ProjOnItsWay, ProjDone, AfterSetup
<1>2. CASE AddFinalizer
  <2>1. PICK p \in projCache :
          /\ ~p.fin
          /\ IF \E q \in proj : ~q.fin
               THEN /\ proj' = {[q EXCEPT !.fin = TRUE] : q \in proj}
                    /\ Ends(FALSE)
               ELSE ErrorPolicy("Transient")
    BY <1>2 DEF AddFinalizer
  <2>2. CASE \E q \in proj : ~q.fin
    <3>1. PICK q \in proj : ~q.fin
      BY <2>2
    <3>2. [q EXCEPT !.fin = TRUE] \in proj'
      BY <2>1, <2>2
    <3>3. [q EXCEPT !.fin = TRUE].fin
      BY ProjectTypes DEF ProjInv, Projects
    <3>4. \A c \in projCache : c = p
      BY DEF ProjInv, ProjTypeOK, AtMostOne
    <3>5. projPc' = "idle" /\ projApp' = {} /\ projCache' = projCache
      BY <1>2, <2>1, <2>2 DEF Ends, AddFinalizer
    <3>6. ProjDone'
      BY <2>1, <3>2, <3>3, <3>4, <3>5 DEF ProjDone
    <3> QED BY <3>5, <3>6 DEF ProjOnItsWay, AfterSetup
  <2>3. CASE ~ \E q \in proj : ~q.fin
    BY <2>1, <2>3, RetryPending DEF ErrorPolicy, Ends
  <2> QED BY <2>2, <2>3
<1>3. CASE StartReconcile
  <2>1. PICK p \in projCache : projApp' = {p} /\ projPc' \in {"setup", "clean1"}
    BY <1>3 DEF StartReconcile
  <2>2. projCache = {p} /\ projCache' = projCache
    BY <1>3 DEF StartReconcile, ProjInv, ProjTypeOK, AtMostOne
  <2> QED BY <2>1, <2>2 DEF ProjOnItsWay, ProjDone, ProjWaits, AfterSetup
<1>4. CASE RemoveFinalizer
  BY <1>4, RequestQueued DEF RemoveFinalizer, ProjOnItsWay
<1> QED BY <1>1, <1>2, <1>3, <1>4

\* The gate reports a Job that runs, or one that failed with the credentials
\* of now; a Job it creates or deletes sends an event.
LEMMA RestGate ==
  ASSUME ProjInv, ProjUnstamped, ProjOnItsWay, ProjDone, MigrationGate, ~projDue'
  PROVE  ProjOnItsWay' /\ ProjDone'
<1>t. ProjTypeOK
  BY DEF ProjInv
<1>1. PICK a \in Projects : projApp = {a}
  BY TheApp DEF MigrationGate
<1>2. /\ projPc = "gate" /\ projPc' \in {"own", "held"} /\ ~projDue
      /\ projApp' = projApp /\ projCache' = projCache /\ redisUid' = redisUid
      /\ projRedis' = projRedis
  BY <1>1 DEF MigrationGate
<1>3. projRedis = redisUid
  BY <1>2 DEF ProjOnItsWay, AfterSetup
<1>4. ASSUME projPc' = "held" PROVE MigrationHolds(a)'
  <2>1. PICK j : j = jobs[a.spec.image]
    OBVIOUS
  <2>2. a.spec.image \in ProjImages
    BY <1>1, <1>t, ProjectTypes
  <2>3. j \in JobRecords /\ j.st \in {"none", "running", "ok", "failed"}
    BY <1>t, <2>1, <2>2 DEF ProjTypeOK, JobRecords
  <2>4. /\ MigrationJob(a, j).state # "Succeeded" /\ MigrationJob(a, j).job = j
        /\ jobs' = [jobs EXCEPT ![a.spec.image] = MigrationJob(a, j).job]
    BY <1>1, <1>2, <1>4, <2>1 DEF MigrationGate
  <2>5. jobs'[a.spec.image] = j
    BY <1>t, <2>2, <2>4 DEF ProjTypeOK
  <2>6. j.st # "none"
    BY <2>4 DEF MigrationJob
  <2>7. j.st # "ok"
    BY <2>4 DEF MigrationJob
  <2>8. j.st = "failed" => ~StaleRedis(j)
    BY <2>4 DEF MigrationJob, NoJob
  <2>9. j.st = "failed" => j.stamp \in {0, redisUid}
    BY <1>3, <2>1, <2>2, <2>8 DEF StaleRedis, ProjUnstamped
  <2> QED BY <1>2, <2>3, <2>5, <2>6, <2>7, <2>9 DEF MigrationHolds, MigrationFailed
<1> QED BY <1>1, <1>2, <1>3, <1>4, GoesOn DEF Cleaning

\* Steps of an apply that go on to the next.
LEMMA RestApply ==
  ASSUME ProjInv, ProjOnItsWay, ProjDone, ~projDue',
         \/ CreateKeys \/ NoBuild \/ ApplyGuards \/ ApplyDatabase1 \/ ApplyDatabase2
         \/ ApplyDeployment \/ ApplyProjService \/ ApplyRest
  PROVE  ProjOnItsWay' /\ ProjDone'
<1>t. own \in [Kinds -> Owners]
  BY DEF ProjInv, ProjTypeOK
<1>1. /\ ~projDue /\ projApp' = projApp /\ projCache' = projCache
      /\ redisUid' = redisUid /\ projRedis' = projRedis
      /\ projPc \in AfterSetup
  BY DEF CreateKeys, NoBuild, ApplyGuards, ApplyDatabase1, ApplyDatabase2,
         ApplyDeployment, ApplyProjService, ApplyRest, projStep, AfterSetup
<1>2. projRedis' = redisUid /\ projPc # "idle"
  BY <1>1 DEF ProjOnItsWay, AfterSetup
<1>3. PICK a \in Projects : projApp = {a}
  BY <1>2, TheApp
<1>4. CASE CreateKeys \/ NoBuild \/ ApplyGuards \/ ApplyDatabase1 \/ ApplyDatabase2
  <2>1. projPc' \in {"build", "account", "db1", "db2", "gate"}
    BY <1>3, <1>4 DEF CreateKeys, NoBuild, ApplyGuards, ApplyDatabase1,
                      ApplyDatabase2
  <2> QED BY <1>1, <1>2, <2>1, GoesOn DEF Cleaning
<1>5. CASE ApplyDeployment
  <2>1. /\ projPc' = "svcown" /\ own' = [own EXCEPT !["deployment"] = a.uid]
        /\ deployed' = [image |-> a.spec.image, gated |-> a.spec.db # "none",
                        stamp |-> projRedis]
    BY <1>3, <1>5 DEF ApplyDeployment
  <2>2. own'["deployment"] = a.uid /\ deployed'.image = a.spec.image
    BY <1>t, <2>1 DEF Kinds
  <2> QED BY <1>1, <1>2, <1>3, <2>1, <2>2, GoesOn DEF Cleaning
<1>6. CASE ApplyProjService \/ ApplyRest
  <2>1. PICK k \in {"service", "stateless"} :
          /\ deployed' = deployed /\ own' = [own EXCEPT ![k] = a.uid]
          /\ \/ k = "service" /\ projPc = "svc" /\ projPc' = "ingress"
             \/ k = "stateless" /\ projPc = "rest" /\ projPc' = "status"
    BY <1>3, <1>6 DEF ApplyProjService, ApplyRest
  <2>2. /\ own'["deployment"] = own["deployment"]
        /\ own'["ingress"] = own["ingress"]
        /\ own'["service"] = IF k = "service" THEN a.uid ELSE own["service"]
    BY <1>t, <2>1 DEF Kinds
  <2>3. /\ own["deployment"] = a.uid /\ deployed.image = a.spec.image
        /\ k = "stateless" => /\ own["service"] = a.uid
                              /\ "ingress" \in a.spec.claims => own["ingress"] = a.uid
    BY <1>1, <1>3, <2>1 DEF ProjOnItsWay
  <2> QED BY <1>1, <1>2, <1>3, <2>1, <2>2, <2>3, GoesOn DEF Cleaning
<1> QED BY <1>4, <1>5, <1>6

\* Steps of an apply that may end the reconcile.
LEMMA RestEnds ==
  ASSUME ProjInv, ProjOnItsWay, ProjDone, ~projDue',
         Setup \/ HeldByMigration \/ CheckOwnership \/ CheckService \/ FinishApply
  PROVE  ProjOnItsWay' /\ ProjDone'
<1>1. /\ ~projDue /\ projCache' = projCache /\ redisUid' = redisUid
      /\ UNCHANGED <<own, jobs, projBuild>>
      /\ projPc \in {"setup", "held", "own", "svcown", "status"}
  <2>1. CASE Setup
    BY <2>1 DEF Setup, projStep
  <2>2. CASE HeldByMigration
    BY <2>2 DEF HeldByMigration, projStep, projObjs
  <2>3. CASE CheckOwnership \/ CheckService
    BY <2>3 DEF CheckOwnership, CheckService, projStep, projObjs
  <2>4. CASE FinishApply
    BY <2>4 DEF FinishApply, projStep, projObjs
  <2> QED BY <2>1, <2>2, <2>3, <2>4
<1>2. PICK a \in Projects : projApp = {a}
  BY <1>1, TheApp
<1>3. CASE Setup
  <2>1. CASE a.spec.tenantOk
    <3>1. projPc' = "keys" /\ projRedis' = redisUid /\ projApp' = projApp
      BY <1>2, <1>3, <2>1 DEF Setup
    <3> QED BY <1>1, <3>1, GoesOn DEF Cleaning
  <2>2. CASE ~a.spec.tenantOk
    <3>1. deployed' = deployed /\ projPc' = "idle" /\ projApp' = {}
      BY <1>2, <1>3, <2>2 DEF Setup, ErrorPolicy, Ends
    <3>2. \A p \in projApp : Concluded(p)
      BY <1>2, <2>2 DEF Concluded
    <3> QED BY <1>1, <3>1, <3>2, EndsServed DEF Cleaning
  <2> QED BY <2>1, <2>2
<1>4. CASE HeldByMigration
  <2>1. /\ projPc = "held" /\ projPc' = "idle" /\ projApp' = {}
        /\ UNCHANGED <<own, deployed, jobs, projBuild>>
    BY <1>4 DEF HeldByMigration, WriteStatus, Ends, projObjs
  <2>2. \A p \in projApp : Concluded(p)
    BY <1>1, <2>1 DEF ProjOnItsWay, Concluded
  <2> QED BY <1>1, <2>1, <2>2, EndsServed DEF Cleaning
<1>5. CASE CheckOwnership
  <2>1. CASE own["deployment"] \in {Absent, a.uid}
    <3>1. /\ projPc = "own" /\ projPc' = "deploy" /\ projApp' = projApp
          /\ projRedis' = projRedis
      BY <1>2, <1>5, <2>1 DEF CheckOwnership
    <3>2. projRedis' = redisUid
      BY <1>1, <3>1 DEF ProjOnItsWay, AfterSetup
    <3> QED BY <1>1, <3>1, <3>2, GoesOn DEF Cleaning
  <2>2. CASE own["deployment"] \notin {Absent, a.uid}
    BY <1>2, <1>5, <2>2, RetryPending DEF CheckOwnership, ErrorPolicy, Ends
  <2> QED BY <2>1, <2>2
<1>6. CASE CheckService
  <2>1. CASE own["service"] \in {Absent, a.uid}
    <3>1. /\ projPc = "svcown" /\ projPc' = "svc" /\ projApp' = projApp
          /\ projRedis' = projRedis /\ UNCHANGED <<own, deployed>>
      BY <1>2, <1>6, <2>1 DEF CheckService, projObjs
    <3>2. projRedis' = redisUid
      BY <1>1, <3>1 DEF ProjOnItsWay, AfterSetup
    <3>3. own["deployment"] = a.uid /\ deployed.image = a.spec.image
      BY <1>1, <1>2, <3>1 DEF ProjOnItsWay
    <3> QED BY <1>1, <1>2, <3>1, <3>2, <3>3, GoesOn DEF Cleaning
  <2>2. CASE own["service"] \notin {Absent, a.uid}
    BY <1>2, <1>6, <2>2, RetryPending DEF CheckService, ErrorPolicy, Ends
  <2> QED BY <2>1, <2>2
<1>7. CASE FinishApply
  <2>1. /\ projPc = "status" /\ projPc' = "idle" /\ projApp' = {}
        /\ UNCHANGED <<own, deployed, jobs, projBuild>>
    BY <1>7 DEF FinishApply, WriteStatus, Ends, projObjs
  <2>2. \A p \in projApp : Serves(p)
    BY <1>1, <2>1 DEF ProjOnItsWay, Serves
  <2>3. \A p \in projApp : Concluded(p)
    BY <2>2 DEF Concluded
  <2> QED BY <1>1, <2>1, <2>3, EndsServed DEF Cleaning
<1> QED BY <1>3, <1>4, <1>5, <1>6, <1>7

\* The build gate ends the reconcile with a request, with a timer, or because
\* the last build failed.
LEMMA RestBuild ==
  ASSUME ProjInv, ProjOnItsWay, ProjDone, ~projDue',
         BuildStarts \/ BuildRuns \/ BuildSucceeds \/ BuildFails \/ BuildBlocks
  PROVE  ProjOnItsWay' /\ ProjDone'
<1>1. CASE BuildStarts \/ BuildSucceeds \/ BuildFails
  BY <1>1 DEF BuildStarts, BuildSucceeds, BuildFails
<1>2. CASE BuildRuns
  BY <1>2, RetryPending DEF BuildRuns, Ends
<1>3. CASE BuildBlocks
  <2>1. /\ projPc = "build" /\ projPc' = "idle" /\ projApp' = {} /\ ~projDue
        /\ UNCHANGED <<projCache, own, deployed, jobs, redisUid, projBuild>>
    BY <1>3 DEF BuildBlocks, Ends, projStep, projObjs
  <2>2. \A p \in projApp : Concluded(p)
    BY <1>3 DEF BuildBlocks, Concluded
  <2> QED BY <2>1, <2>2, EndsServed DEF Cleaning
<1> QED BY <1>1, <1>2, <1>3

\* A claim that somebody else has ends the reconcile without a retry.
LEMMA RestClaims ==
  ASSUME ProjInv, ProjOnItsWay, ProjDone, ~projDue',
         EnsureAccount \/ ApplyProjIngress
  PROVE  ProjOnItsWay' /\ ProjDone'
<1>t. own \in [Kinds -> Owners]
  BY DEF ProjInv, ProjTypeOK
<1>1. /\ ~projDue /\ projCache' = projCache /\ redisUid' = redisUid
      /\ UNCHANGED <<deployed, jobs, projBuild>>
      /\ projPc \in {"account", "ingress"}
  BY DEF EnsureAccount, ApplyProjIngress, projStep
<1>2. PICK a \in Projects : projApp = {a}
  BY <1>1, TheApp
<1>3. PICK k, next :
        /\ TakeClaim(k, a, next) /\ projPc = k
        /\ \/ k = "account" /\ next = "guard"
           \/ k = "ingress" /\ next = "rest"
  BY <1>2 DEF EnsureAccount, ApplyProjIngress
<1>4. CASE k \in a.spec.claims /\ own[k] \notin {Absent, a.uid}
  <2>1. projPc' = "idle" /\ projApp' = {} /\ own' = own
    BY <1>3, <1>4 DEF TakeClaim, ErrorPolicy, Ends
  <2>2. \A p \in projApp : Concluded(p)
    BY <1>2, <1>4 DEF Concluded, Denied
  <2> QED BY <1>1, <2>1, <2>2, EndsServed DEF Cleaning
<1>5. CASE ~(k \in a.spec.claims /\ own[k] \notin {Absent, a.uid})
  <2>1. /\ own' = IF k \in a.spec.claims THEN [own EXCEPT ![k] = a.uid] ELSE own
        /\ projPc' = next /\ projApp' = projApp /\ projRedis' = projRedis
    BY <1>3, <1>5 DEF TakeClaim
  <2>2. /\ own'["deployment"] = own["deployment"]
        /\ own'["service"] = own["service"]
        /\ k = "ingress" /\ k \in a.spec.claims => own'["ingress"] = a.uid
    BY <1>t, <1>3, <2>1 DEF Kinds
  <2>3. projRedis = redisUid
    BY <1>1, <1>3 DEF ProjOnItsWay, AfterSetup
  <2>4. k = "ingress" => /\ own["deployment"] = a.uid
                         /\ deployed.image = a.spec.image /\ own["service"] = a.uid
    BY <1>1, <1>2, <1>3 DEF ProjOnItsWay
  <2> QED BY <1>1, <1>2, <1>3, <2>1, <2>2, <2>3, <2>4, GoesOn DEF Cleaning
<1> QED BY <1>4, <1>5

LEMMA RestStepInv == ProjInv /\ ProjRestInv /\ [ProjectNext]_projVars => ProjRestInv'
<1> SUFFICES ASSUME ProjInv, ProjRestInv, [ProjectNext]_projVars PROVE ProjRestInv'
  OBVIOUS
<1>r. ProjUnstamped /\ ProjOnItsWay /\ ProjDone
  BY DEF ProjRestInv
<1>u. ProjUnstamped'
  BY <1>r, UnstampedStep
<1> SUFFICES ProjOnItsWay' /\ ProjDone'
  BY <1>u DEF ProjRestInv
<1>0. CASE projDue'
  BY <1>0, RequestQueued
<1>1. CASE UNCHANGED projVars
  BY <1>1, <1>r, RestFramed DEF projVars, projObjs
<1>2. CASE ProjUser
  BY <1>2, <1>r, RestUser
<1>3. CASE ProjCluster
  BY <1>3, <1>r, RestCluster
<1>4. CASE ProjSync \/ TimerFires \/ OperatorRestarts
  BY <1>4, RequestQueued DEF ProjSync, TimerFires, OperatorRestarts
<1>5. CASE CallFails
  BY <1>5, RetryPending DEF CallFails, ErrorPolicy, Ends
<1>6. CASE CleanStateless
  BY <1>6, RequestQueued DEF CleanStateless
<1>7. CASE CleanPolicy
  BY <1>7, <1>r, RequestQueued DEF CleanPolicy, ProjOnItsWay
<1>8. CASE ReconcileGone \/ AddFinalizer \/ StartReconcile \/ RemoveFinalizer
  BY <1>8, <1>r, RestFinalizer
<1>9. CASE Setup \/ HeldByMigration \/ CheckOwnership \/ CheckService \/ FinishApply
  BY <1>0, <1>9, <1>r, RestEnds, RequestQueued
<1>10. CASE \/ CreateKeys \/ NoBuild \/ ApplyGuards \/ ApplyDatabase1
            \/ ApplyDatabase2 \/ ApplyDeployment \/ ApplyProjService \/ ApplyRest
  BY <1>0, <1>10, <1>r, RestApply, RequestQueued
<1>11. CASE MigrationGate
  BY <1>0, <1>11, <1>r, RestGate, RequestQueued
<1>12. CASE BuildStarts \/ BuildRuns \/ BuildSucceeds \/ BuildFails \/ BuildBlocks
  BY <1>0, <1>12, <1>r, RestBuild, RequestQueued
<1>13. CASE EnsureAccount \/ ApplyProjIngress
  BY <1>0, <1>13, <1>r, RestClaims, RequestQueued
<1> QED
  BY <1>1, <1>2, <1>3, <1>4, <1>5, <1>6, <1>7, <1>8, <1>9, <1>10, <1>11,
     <1>12, <1>13
     DEF ProjectNext, ProjReconcile, BuildGate, ProjFails

\* The inductive invariant of an operator that may have nothing left to do:
\* without a queued request its copy is the cached one, and what it found and
\* applied is still so.
THEOREM ProjRestInvariance == ProjectSpec => []ProjRestInv
<1>1. ProjInit => ProjRestInv
  BY DEF ProjInit, ProjRestInv, ProjUnstamped, ProjOnItsWay, ProjDone, AfterSetup,
         NoJob
<1>2. ProjInv /\ ProjRestInv /\ [ProjectNext]_projVars => ProjRestInv'
  BY RestStepInv
<1> QED BY <1>1, <1>2, ProjInvariance, PTL DEF ProjectSpec

\* No wake-up is missing (error_policy, reconcile_apply, cleanup): while the
\* operator waits and its cache is up to date, the Project has its finalizer, is
\* not being deleted, and serves the image of its spec unless a build or a
\* migration holds it, its tenant is invalid, or somebody else had the
\* ServiceAccount or the host it claims (ServiceAccountOwnership,
\* InvalidIngressHost: never tried again), for any specs, edits, failures and
\* restarts.
THEOREM ProjRestSettled == ProjectSpec => []ProjRestIsSettled
<1>1. ProjInv /\ ProjRestInv => ProjRestIsSettled
  <2> SUFFICES ASSUME ProjInv, ProjRestInv, ProjWaits, projCache = proj,
                      NEW p \in proj
               PROVE  p.fin /\ ~p.deleting /\ Concluded(p)
    BY DEF ProjRestIsSettled
  <2>1. \A q \in proj : q = p
    BY DEF ProjInv, ProjTypeOK, AtMostOne
  <2> QED BY <2>1 DEF ProjRestInv, ProjDone
<1> QED BY <1>1, ProjInvariance, ProjRestInvariance, PTL
=============================================================================
