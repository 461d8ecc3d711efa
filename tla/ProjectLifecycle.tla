-------------------------- MODULE ProjectLifecycle --------------------------
(***************************************************************************)
(* One Project name from creation to deletion, and possibly to a second    *)
(* Project of the same name: the finalizer, the order of the applies, the  *)
(* migration gate, the deletion policy, the retry policy and the gauge.    *)
(*                                                                         *)
(* What is kept and what is abstracted:                                    *)
(*  - A reconcile works on a cached copy of the Project; groups of calls   *)
(*    that write the same kind of object are one step, and a step fails    *)
(*    as a whole.  There is one operator, and it never reconciles one      *)
(*    Project twice at a time.  How long a retry waits is in RetryPolicy.  *)
(*  - An object is the UID of its controller owner; Kinds below says which *)
(*    objects share an entry.  Jobs are kept by the image they migrate.    *)
(*  - Redis credentials, source builds and preview environments have       *)
(*    modules of their own.  Here a regenerated credential only changes    *)
(*    the UID that pods and Jobs are stamped with, and projBuild says what *)
(*    the build gate would find; what an old copy of the Project does to a *)
(*    build is in SourcePipeline.                                          *)
(*  - A storage ServiceAccount is left out: no caller asks for one.        *)
(***************************************************************************)
EXTENDS Integers

CONSTANTS
  ProjSpecs,      \* the specs a user may write
  ProjImages,     \* the images in them
  ProjRedis,      \* the UIDs the Redis credentials may start with; 0: unused
  ProjMaxUid,     \* bound on Projects ever created at the name
  ProjMaxEvents   \* bound on what users and tenants do and on what fails

ProjPolicies == {"Retain", "Delete"}
ProjSpecRecords ==
  [image : ProjImages, db : {"none", "introspect", "explicit"},
   isolation : BOOLEAN, claims : SUBSET {"account", "ingress"},
   policy : ProjPolicies, tenantOk : BOOLEAN]

ASSUME ProjAssumption ==
  /\ ProjSpecs \subseteq ProjSpecRecords
  /\ ProjImages # {} /\ ProjRedis \subseteq Nat
  /\ ProjMaxUid \in Nat /\ ProjMaxEvents \in Nat

\* "deployment", "service": the workload's; "account": its ServiceAccount, if
\* the spec claims one; "ingress": the Ingress of the host the spec claims;
\* "build": Kaniko Jobs; "guards": NetworkPolicies and LimitRange;
\* "stateless": Redis, worker, gRPC, HPA, locales; "postgresql": StatefulSet
\* and Service of an introspected database; "credentials": its or an explicit
\* database's Secret; "explicit": the objects of an explicit
\* database; "corekey": the Secret with the signing key.
Kinds == {"deployment", "service", "account", "ingress", "build", "guards",
          "stateless", "postgresql", "credentials", "explicit", "corekey"}

\* Where the operator looks for somebody else's object: at the name or, for an
\* Ingress, at the host.
Contested == {"deployment", "service", "account", "ingress"}

ProjUids == 1 .. ProjMaxUid
Absent == 0          \* no such object
Ownerless == -1      \* an object without a controller reference
Foreign == -2        \* an object somebody else controls
Owners == ProjUids \cup {Absent, Ownerless, Foreign}
NoPhase == "none"
ProjPhases == {"Deploying", "Running", "Degraded"}
ProjPcs == {"idle", "setup", "keys", "build", "account", "guard", "db1", "db2",
            "gate", "held", "own", "deploy", "svcown", "svc", "ingress", "rest",
            "status", "clean1", "clean2", "unfinal"}

Projects ==
  [uid : ProjUids, spec : ProjSpecRecords, deleting : BOOLEAN, fin : BOOLEAN,
   phase : ProjPhases \cup {NoPhase, "Failed"}]
NoJob == [st |-> "none", owner |-> Absent, stamp |-> 0]
JobRecords == [st : {"none", "running", "ok", "failed"},
               owner : ProjUids \cup {Absent}, stamp : Nat]

VARIABLES
  proj,       \* the Project at the name, as a set of at most one
  projCache,  \* the operator's cached copy of it
  projDue,    \* a reconcile request is queued
  projTimer,  \* a requeue after an error is pending
  projPc,     \* next step of the running reconcile
  projApp,    \* the copy it works on
  projGate,   \* the migration state it found
  projRedis,  \* UID of the Redis credentials it approved
  own,        \* kind -> owner of the object
  deployed,   \* the Deployment's image, whether it had to be migrated, and
              \* the UID of the Redis credentials its pods are stamped with
  ready,      \* the Deployment has its replicas
  jobs,       \* image -> its migration Job
  redisUid,   \* UID of the Redis credentials Secret; 0: Redis is not used
  projBuild,  \* source build: "none", "asked" (annotations), "running",
              \* "failed" (status.build, until the next request)
  phaseState, \* phase_state: the phase last counted
  gauge,      \* managed_apps: phase -> count
  migrated,   \* history: <<uid, image>> whose migration succeeded
  gone,       \* history: what the last Project removed had, and the policy
              \* its cleanup followed
  ignored,    \* history: a delete failed and the error was ignored
  projNext, projEvents

projOp == <<projPc, projApp, projGate, projRedis>>
projObjs == <<own, deployed, ready, jobs, projBuild>>
projMetrics == <<phaseState, gauge>>
projHist == <<migrated, gone, ignored, projNext>>
projVars == <<proj, projCache, projDue, projTimer, projOp, projObjs, redisUid,
              projMetrics, projHist, projEvents>>

AtMostOne(ps) == ps \subseteq Projects /\ \A p, q \in ps : p = q

ProjTypeOK ==
  /\ AtMostOne(proj)
  /\ AtMostOne(projCache)
  /\ projDue \in BOOLEAN /\ projTimer \in BOOLEAN
  /\ projPc \in ProjPcs
  /\ AtMostOne(projApp)
  /\ projGate \in {"NotRequired", "Running", "Succeeded", "Failed"}
  /\ projRedis \in Nat
  /\ own \in [Kinds -> Owners]
  /\ deployed \in [image : ProjImages, gated : BOOLEAN, stamp : Nat]
  /\ ready \in BOOLEAN
  /\ jobs \in [ProjImages -> JobRecords]
  /\ redisUid \in Nat
  /\ projBuild \in {"none", "asked", "running", "failed"}
  /\ phaseState \in ProjPhases \cup {NoPhase}
  /\ gauge \in [ProjPhases -> Int]
  /\ migrated \subseteq ProjUids \X ProjImages
  /\ gone \in [policy : ProjPolicies \cup {"none"}, had : SUBSET Kinds]
  /\ ignored \in BOOLEAN
  /\ projNext \in Nat \ {0} /\ projEvents \in Nat

ProjInit ==
  /\ proj = {} /\ projCache = {}
  /\ projDue = FALSE /\ projTimer = FALSE
  /\ projPc = "idle" /\ projApp = {}
  /\ projGate = "NotRequired" /\ projRedis = 0
  /\ own = [k \in Kinds |-> Absent]
  /\ deployed = [image |-> CHOOSE i \in ProjImages : TRUE, gated |-> FALSE,
                 stamp |-> 0]
  /\ ready = FALSE
  /\ jobs = [i \in ProjImages |-> NoJob]
  /\ redisUid \in ProjRedis
  /\ projBuild = "none"
  /\ phaseState = NoPhase
  /\ gauge = [ph \in ProjPhases |-> 0]
  /\ migrated = {}
  /\ gone = [policy |-> "none", had |-> {}]
  /\ ignored = FALSE
  /\ projNext = 1 /\ projEvents = 0

-----------------------------------------------------------------------------
(* What the rest of the system does *)

ProjEvent == projEvents < ProjMaxEvents /\ projEvents' = projEvents + 1

ProjCreate(s) ==
  /\ ProjEvent
  /\ proj = {} /\ projNext <= ProjMaxUid
  /\ proj' = {[uid |-> projNext, spec |-> s, deleting |-> FALSE,
               fin |-> FALSE, phase |-> NoPhase]}
  /\ projNext' = projNext + 1
  /\ projBuild' = "none"
  /\ UNCHANGED <<projCache, projDue, projTimer, projOp, own, deployed, ready,
                 jobs, redisUid, projMetrics, migrated, gone, ignored>>

ProjEdit(s) ==
  /\ ProjEvent
  /\ \E p \in proj : s # p.spec /\ proj' = {[p EXCEPT !.spec = s]}
  /\ UNCHANGED <<projCache, projDue, projTimer, projOp, projObjs, redisUid,
                 projMetrics, projHist>>

\* A Project without the finalizer goes at once.
ProjDelete ==
  /\ ProjEvent
  /\ \E p \in proj :
       /\ ~p.deleting
       /\ proj' = IF p.fin THEN {[p EXCEPT !.deleting = TRUE]} ELSE {}
  /\ UNCHANGED <<projCache, projDue, projTimer, projOp, projObjs, redisUid,
                 projMetrics, projHist>>

\* Somebody else's object at a name of the Project comes and goes; it has no
\* owner reference to the Project, so its deletion triggers nothing.
ForeignObject(k) ==
  /\ ProjEvent
  /\ own[k] \in {Absent, Foreign}
  /\ own' = [own EXCEPT ![k] = IF @ = Absent THEN Foreign ELSE Absent]
  /\ UNCHANGED <<proj, projCache, projDue, projTimer, projOp, deployed, ready,
                 jobs, projBuild, redisUid, projMetrics, projHist>>

\* A push or a pull request asks for a build (module SourcePipeline).
BuildAsked ==
  /\ ProjEvent
  /\ proj # {}
  /\ projBuild' = "asked"
  /\ projDue' = TRUE
  /\ UNCHANGED <<proj, projCache, projTimer, projOp, own, deployed, ready, jobs,
                 redisUid, projMetrics, projHist>>

\* The credentials Secret is regenerated (module RedisCredentials).
RedisRegenerated ==
  /\ ProjEvent
  /\ redisUid > 0 /\ redisUid' = redisUid + 1
  /\ projDue' = TRUE
  /\ UNCHANGED <<proj, projCache, projTimer, projOp, projObjs, projMetrics,
                 projHist>>

\* Mutant of JobFinishes: the controller does not own its Jobs.
JobFinishesUnseen(i) ==
  /\ jobs[i].st = "running"
  /\ \E r \in {"ok", "failed"} :
       /\ jobs' = [jobs EXCEPT ![i].st = r]
       /\ migrated' = migrated \cup
            (IF r = "ok" THEN {<<jobs[i].owner, i>>} ELSE {})
  /\ UNCHANGED <<proj, projCache, projDue, projTimer, projOp, own, deployed, ready,
                 projBuild, redisUid, projMetrics, gone, ignored, projNext,
                 projEvents>>

JobFinishes(i) ==
  /\ jobs[i].st = "running"
  /\ \E r \in {"ok", "failed"} :
       /\ jobs' = [jobs EXCEPT ![i].st = r]
       /\ migrated' = migrated \cup
            (IF r = "ok" THEN {<<jobs[i].owner, i>>} ELSE {})
  /\ projDue' = TRUE
  /\ UNCHANGED <<proj, projCache, projTimer, projOp, own, deployed, ready,
                 projBuild, redisUid, projMetrics, gone, ignored, projNext,
                 projEvents>>

DeploymentReady ==
  /\ own["deployment"] \in ProjUids /\ ~ready
  /\ ready' = TRUE
  /\ projDue' = TRUE
  /\ UNCHANGED <<proj, projCache, projTimer, projOp, own, deployed, jobs,
                 projBuild, redisUid, projMetrics, projHist, projEvents>>

OwnerGone(u) == u \in ProjUids /\ \A p \in proj : p.uid # u

\* The controller watches the Deployments, Services, StatefulSets, Jobs,
\* NetworkPolicies and LimitRanges it owns, and neither the database Secret
\* nor ServiceAccounts.
Watched == {"deployment", "service", "build", "guards", "stateless", "postgresql"}

\* Kubernetes removes an object whose controller owner is gone.
CollectGarbage(k) ==
  /\ OwnerGone(own[k])
  /\ own' = [own EXCEPT ![k] = Absent]
  /\ ready' = IF k = "deployment" THEN FALSE ELSE ready
  /\ projDue' = (projDue \/ k \in Watched)
  /\ UNCHANGED <<proj, projCache, projTimer, projOp, deployed, jobs, projBuild,
                 redisUid, projMetrics, projHist, projEvents>>

\* The watch brings the cache up to date; a Project that is gone leaves the
\* store and is not reconciled.
ProjSync ==
  /\ projCache # proj
  /\ projCache' = proj
  /\ projDue' = TRUE
  /\ UNCHANGED <<proj, projTimer, projOp, projObjs, redisUid, projMetrics,
                 projHist, projEvents>>

TimerFires ==
  /\ projTimer
  /\ projTimer' = FALSE /\ projDue' = TRUE
  /\ UNCHANGED <<proj, projCache, projOp, projObjs, redisUid, projMetrics,
                 projHist, projEvents>>

-----------------------------------------------------------------------------
(* Reconcile: the finalizer *)

\* A request taken from the queue also consumes a pending requeue.
TakesRequest ==
  /\ projPc = "idle" /\ projDue
  /\ projDue' = FALSE

Ends(requeue) ==
  /\ projPc' = "idle" /\ projApp' = {} /\ projGate' = "NotRequired"
  /\ projRedis' = 0 /\ projTimer' = requeue

\* Mutant of ErrorPolicy: only an ownership conflict is tried again.
ErrorPolicyWaits(class) == Ends(class = "OwnershipConflict")

\* error_policy: a permanent error waits for a change of the Project, every
\* other error is retried.
ErrorPolicy(class) == Ends(class # "Permanent")

ReconcileGone ==
  /\ TakesRequest /\ projCache = {}
  /\ projTimer' = FALSE
  /\ UNCHANGED <<proj, projCache, projOp, projObjs, redisUid, projMetrics,
                 projHist, projEvents>>

\* The patch tests that the list of finalizers is as cached.
AddFinalizer ==
  /\ TakesRequest
  /\ \E p \in projCache :
       /\ ~p.fin /\ ~p.deleting
       /\ IF \E q \in proj : ~q.fin
            THEN /\ proj' = {[q EXCEPT !.fin = TRUE] : q \in proj}
                 /\ Ends(FALSE)
            ELSE /\ proj' = proj
                 /\ ErrorPolicy("Transient")
  /\ UNCHANGED <<projCache, projObjs, redisUid, projMetrics, projHist,
                 projEvents>>

\* Mutant of StartReconcile: a Project whose tenant has become invalid is
\* torn down.
StartReconcileTearsDown ==
  /\ TakesRequest
  /\ \E p \in projCache :
       /\ p.fin
       /\ projApp' = {p}
       /\ projPc' = IF p.deleting \/ ~p.spec.tenantOk THEN "clean1" ELSE "setup"
  /\ projTimer' = FALSE
  /\ UNCHANGED <<proj, projCache, projGate, projRedis, projObjs, redisUid,
                 projMetrics, projHist, projEvents>>

StartReconcile ==
  /\ TakesRequest
  /\ \E p \in projCache :
       /\ p.fin
       /\ projApp' = {p}
       /\ projPc' = IF p.deleting THEN "clean1" ELSE "setup"
  /\ projTimer' = FALSE
  /\ UNCHANGED <<proj, projCache, projGate, projRedis, projObjs, redisUid,
                 projMetrics, projHist, projEvents>>

\* The patch that removes the finalizer: Kubernetes then removes the Project.
RemoveFinalizer ==
  /\ projPc = "unfinal"
  /\ IF \E q \in proj : q.fin
       THEN \E q \in proj, p \in projApp :
              /\ proj' = IF q.deleting THEN {} ELSE {[q EXCEPT !.fin = FALSE]}
              /\ gone' = [policy |-> p.spec.policy,
                          had |-> {k \in Kinds : own[k] # Absent}]
              /\ Ends(FALSE)
       ELSE /\ UNCHANGED <<proj, gone>>
            /\ ErrorPolicy("Transient")
  /\ UNCHANGED <<projCache, projDue, projObjs, redisUid, projMetrics, migrated,
                 ignored, projNext, projEvents>>

-----------------------------------------------------------------------------
(* Reconcile: apply *)

projStep == <<projCache, projDue, redisUid, projHist, projEvents>>

\* Tenant validation; then the Redis credentials are approved, and a running
\* Deployment of this Project is rolled onto them.
Setup ==
  /\ projPc = "setup"
  /\ \E p \in projApp :
       IF p.spec.tenantOk
         THEN /\ projRedis' = redisUid
              /\ deployed' = IF redisUid # 0 /\ own["deployment"] = p.uid
                               THEN [deployed EXCEPT !.stamp = redisUid]
                               ELSE deployed
              /\ ready' = (ready /\ deployed' = deployed)
              /\ projPc' = "keys"
              /\ UNCHANGED <<proj, projTimer, projApp, projGate>>
         ELSE /\ proj' = {[q EXCEPT !.phase = "Failed"] : q \in proj}
              /\ ErrorPolicy("Permanent")
              /\ UNCHANGED <<deployed, ready>>
  /\ UNCHANGED <<projStep, own, jobs, projBuild, projMetrics>>

\* The signing key is created once and never changed.
CreateKeys ==
  /\ projPc = "keys"
  /\ own' = [own EXCEPT !["corekey"] = IF @ = Absent THEN Ownerless ELSE @]
  /\ projPc' = "build"
  /\ UNCHANGED <<projStep, proj, projTimer, projApp, projGate, projRedis,
                 deployed, ready, jobs, projBuild, projMetrics>>

\* reconcile_source_build has no build to wait for.
NoBuild ==
  /\ projPc = "build" /\ projBuild = "none"
  /\ projPc' = "account"
  /\ UNCHANGED <<projStep, proj, projTimer, projApp, projGate, projRedis,
                 projObjs, projMetrics>>

\* A new request: its Kaniko Job is created unless it is there already.
BuildStarts ==
  /\ projPc = "build" /\ projBuild = "asked"
  /\ \E p \in projApp :
       own' = [own EXCEPT !["build"] = IF @ = Absent THEN p.uid ELSE @]
  /\ projBuild' = "running"
  /\ projDue' = TRUE
  /\ Ends(TRUE)
  /\ UNCHANGED <<proj, projCache, redisUid, projHist, projEvents, deployed,
                 ready, jobs, projMetrics>>

\* The Job still runs: the reconcile ends here and looks again later.
BuildRuns ==
  /\ projPc = "build" /\ projBuild = "running"
  /\ ProjEvent
  /\ Ends(TRUE)
  /\ UNCHANGED <<proj, projCache, projDue, redisUid, projHist, projObjs,
                 projMetrics>>

\* A production build patches its image into the spec; a preview build is the
\* preview's.  Both write the status of the Project, which is an event of it.
BuildSucceeds ==
  /\ projPc = "build" /\ projBuild = "running"
  /\ proj' \in {proj} \cup
       {{[q EXCEPT !.spec.image = i] : q \in proj} : i \in ProjImages}
  /\ projBuild' = "none"
  /\ projDue' = TRUE
  /\ Ends(FALSE)
  /\ UNCHANGED <<projCache, redisUid, projHist, projEvents, own, deployed,
                 ready, jobs, projMetrics>>

\* The Job failed or is missing; this is written down too.
BuildFails ==
  /\ projPc = "build" /\ projBuild = "running"
  /\ projBuild' = "failed"
  /\ projDue' = TRUE
  /\ Ends(FALSE)
  /\ UNCHANGED <<proj, projCache, redisUid, projHist, projEvents, own, deployed,
                 ready, jobs, projMetrics>>

\* A failed build holds the Project up until another is asked for.
BuildBlocks ==
  /\ projPc = "build" /\ projBuild = "failed"
  /\ Ends(FALSE)
  /\ UNCHANGED <<projStep, proj, projObjs, projMetrics>>

BuildGate ==
  NoBuild \/ BuildStarts \/ BuildRuns \/ BuildSucceeds \/ BuildFails \/ BuildBlocks

\* What a reconcile claims and somebody else has is an error of the class
\* Permanent.
TakeClaim(k, p, next) ==
  IF k \in p.spec.claims /\ own[k] \notin {Absent, p.uid}
    THEN ErrorPolicy("Permanent") /\ own' = own
    ELSE /\ own' = IF k \in p.spec.claims THEN [own EXCEPT ![k] = p.uid] ELSE own
         /\ projPc' = next
         /\ UNCHANGED <<projTimer, projApp, projGate, projRedis>>

\* reconcile_app_service_account, with its ServiceAccountOwnership.
EnsureAccount ==
  /\ projPc = "account"
  /\ \E p \in projApp : TakeClaim("account", p, "guard")
  /\ UNCHANGED <<projStep, proj, deployed, ready, jobs, projBuild, projMetrics>>

\* Mutant of ApplyGuards: left to the end of the reconcile.
ApplyGuardsLater ==
  /\ projPc = "guard"
  /\ projPc' = IF \E p \in projApp : p.spec.db = "none" THEN "gate" ELSE "db1"
  /\ UNCHANGED <<projStep, proj, projTimer, projApp, projGate, projRedis,
                 projObjs, projMetrics>>

ApplyGuards ==
  /\ projPc = "guard"
  /\ \E p \in projApp :
       /\ own' = IF p.spec.isolation THEN [own EXCEPT !["guards"] = p.uid]
                   ELSE own
       /\ projPc' = IF p.spec.db = "none" THEN "gate" ELSE "db1"
  /\ UNCHANGED <<projStep, proj, projTimer, projApp, projGate, projRedis,
                 deployed, ready, jobs, projBuild,
                 projMetrics>>

\* An existing credentials Secret is kept, whoever made it.
CreateCredentials(owner) ==
  own' = [own EXCEPT !["credentials"] = IF @ = Absent THEN owner ELSE @]

\* The Secret comes first for an introspected database and last for an
\* explicit one, whose objects have no owner reference.
ApplyDatabase1 ==
  /\ projPc = "db1"
  /\ \E p \in projApp :
       IF p.spec.db = "introspect" THEN CreateCredentials(p.uid)
         ELSE own' = [own EXCEPT !["explicit"] = Ownerless]
  /\ projPc' = "db2"
  /\ UNCHANGED <<projStep, proj, projTimer, projApp, projGate, projRedis,
                 deployed, ready, jobs, projBuild,
                 projMetrics>>

ApplyDatabase2 ==
  /\ projPc = "db2"
  /\ \E p \in projApp :
       IF p.spec.db = "introspect"
         THEN own' = [own EXCEPT !["postgresql"] = p.uid]
         ELSE CreateCredentials(Ownerless)
  /\ projPc' = "gate"
  /\ UNCHANGED <<projStep, proj, projTimer, projApp, projGate, projRedis,
                 deployed, ready, jobs, projBuild,
                 projMetrics>>

StaleRedis(j) == projRedis # 0 /\ j.stamp # 0 /\ j.stamp # projRedis

\* Mutant of MigrationJob: a Job that has not failed counts as done.
MigrationJobOptimistic(p, j) ==
  [state |-> CASE j.st = "none" -> "Running"
               [] j.st = "failed" -> "Failed"
               [] j.st \in {"running", "ok"} -> "Succeeded",
   job |-> IF j.st = "none"
             THEN [st |-> "running", owner |-> p.uid, stamp |-> projRedis]
             ELSE j]

\* reconcile_migration_job_resource: the state of the revision's Job, and the
\* Job after the call.
MigrationJob(p, j) ==
  CASE j.st = "none" ->
         [state |-> "Running",
          job |-> [st |-> "running", owner |-> p.uid, stamp |-> projRedis]]
    [] j.st = "running" -> [state |-> "Running", job |-> j]
    [] j.st = "ok" -> [state |-> "Succeeded", job |-> j]
    [] j.st = "failed" /\ StaleRedis(j) -> [state |-> "Running", job |-> NoJob]
    [] j.st = "failed" /\ ~StaleRedis(j) -> [state |-> "Failed", job |-> j]

MigrationGate ==
  /\ projPc = "gate"
  /\ \E p \in projApp :
       LET i == p.spec.image
           m == MigrationJob(p, jobs[i])
       IN  IF p.spec.db = "none"
             THEN /\ projGate' = "NotRequired" /\ projPc' = "own"
                  /\ UNCHANGED <<jobs, projDue>>
             ELSE /\ projGate' = m.state
                  /\ jobs' = [jobs EXCEPT ![i] = m.job]
                  /\ projPc' = IF m.state = "Succeeded" THEN "own" ELSE "held"
                  /\ projDue' = (projDue \/ m.job # jobs[i])
  /\ UNCHANGED <<projCache, redisUid, projHist, projEvents, proj,
                 projTimer, projApp, projRedis, own, deployed, ready,
                 projBuild, projMetrics>>

\* build_status and update_status: the phase, then the gauge.
PhaseOf(isReady) ==
  IF projGate = "Failed" THEN "Degraded"
    ELSE IF isReady THEN "Running" ELSE "Deploying"

\* Mutant of CountPhase: the phase left is not uncounted.
CountPhaseOnlyUp(new) ==
  /\ phaseState' = new
  /\ gauge' = [ph \in ProjPhases |->
       gauge[ph] + (IF ph = new /\ phaseState # new THEN 1 ELSE 0)]

CountPhase(new) ==
  /\ phaseState' = new
  /\ gauge' = [ph \in ProjPhases |->
       gauge[ph]
         + (IF ph = new /\ phaseState # new THEN 1 ELSE 0)
         - (IF ph = phaseState /\ phaseState # new THEN 1 ELSE 0)]

WriteStatus(isReady) ==
  /\ proj' = {[q EXCEPT !.phase = PhaseOf(isReady)] : q \in proj}
  /\ CountPhase(PhaseOf(isReady))
  /\ Ends(FALSE)

\* The gate is closed: report and wait for the Job's events.
HeldByMigration ==
  /\ projPc = "held"
  /\ WriteStatus(FALSE)
  /\ UNCHANGED <<projStep, projObjs>>

CheckOwnership ==
  /\ projPc = "own"
  /\ \E p \in projApp :
       IF own["deployment"] \in {Absent, p.uid}
         THEN projPc' = "deploy" /\ UNCHANGED <<projTimer, projApp, projGate, projRedis>>
         ELSE ErrorPolicy("OwnershipConflict")
  /\ UNCHANGED <<projStep, proj, projObjs, projMetrics>>

\* Server-side apply by force: whatever is at the name now is taken over.
ApplyDeployment ==
  /\ projPc = "deploy"
  /\ \E p \in projApp :
       /\ own' = [own EXCEPT !["deployment"] = p.uid]
       /\ deployed' = [image |-> p.spec.image, gated |-> p.spec.db # "none",
                       stamp |-> projRedis]
       /\ ready' = (ready /\ own' = own /\ deployed' = deployed)
  /\ projPc' = "svcown"
  /\ UNCHANGED <<projStep, proj, projTimer, projApp, projGate, projRedis, jobs,
                 projBuild, projMetrics>>

CheckService ==
  /\ projPc = "svcown"
  /\ \E p \in projApp :
       IF own["service"] \in {Absent, p.uid}
         THEN projPc' = "svc" /\ UNCHANGED <<projTimer, projApp, projGate, projRedis>>
         ELSE ErrorPolicy("OwnershipConflict")
  /\ UNCHANGED <<projStep, proj, projObjs, projMetrics>>

ApplyProjService ==
  /\ projPc = "svc"
  /\ \E p \in projApp : own' = [own EXCEPT !["service"] = p.uid]
  /\ projPc' = "ingress"
  /\ UNCHANGED <<projStep, proj, projTimer, projApp, projGate, projRedis,
                 deployed, ready, jobs, projBuild, projMetrics>>

\* ensure_ingress_host_available, with its InvalidIngressHost.
ApplyProjIngress ==
  /\ projPc = "ingress"
  /\ \E p \in projApp : TakeClaim("ingress", p, "rest")
  /\ UNCHANGED <<projStep, proj, deployed, ready, jobs, projBuild, projMetrics>>

\* Autoscaler, cache, worker, gRPC, storage, mail, locales.
ApplyRest ==
  /\ projPc = "rest"
  /\ \E p \in projApp : own' = [own EXCEPT !["stateless"] = p.uid]
  /\ projPc' = "status"
  /\ UNCHANGED <<projStep, proj, projTimer, projApp, projGate, projRedis,
                 deployed, ready, jobs, projBuild, projMetrics>>

FinishApply ==
  /\ projPc = "status"
  /\ WriteStatus(ready)
  /\ UNCHANGED <<projStep, projObjs>>

-----------------------------------------------------------------------------
(* Reconcile: cleanup *)

\* By name; the ServiceAccount only when this Project owns it, and an Ingress
\* that has the host under another name is not met.  The error of deleting a
\* build Job is ignored.
CleanStateless ==
  /\ projPc = "clean1"
  /\ \E p \in projApp, b \in {Absent, own["build"]} :
       own' = [own EXCEPT !["stateless"] = Absent, !["guards"] = Absent,
                          !["account"] = IF @ = p.uid THEN Absent ELSE @,
                          !["ingress"] = IF @ = Foreign THEN @ ELSE Absent,
                          !["build"] = b]
  /\ jobs' = [i \in ProjImages |-> NoJob]
  /\ projPc' = "clean2"
  /\ projDue' = TRUE
  /\ UNCHANGED <<proj, projCache, redisUid, projHist, projEvents,
                 projTimer, projApp, projGate, projRedis, deployed, ready,
                 projBuild, projMetrics>>

\* Mutant of DeleteDatabase: the Secret is left to the garbage collector.
DeleteDatabaseKeepsSecret(failed) ==
  own' = [own EXCEPT !["postgresql"] = Absent]

\* The StatefulSet, the Service and the Secret, but for what fails.
DeleteDatabase(failed) ==
  own' = [k \in Kinds |->
            IF k \in {"postgresql", "credentials"} \ failed THEN Absent
              ELSE own[k]]

\* The deletion policy; the error of deleting the Secret is ignored.  The
\* last thing a cleanup does is to take the Project out of the gauge.
CleanPolicy ==
  /\ projPc = "clean2"
  /\ \E p \in projApp :
       IF p.spec.policy = "Retain" THEN UNCHANGED <<own, ignored, projEvents>>
         ELSE \/ DeleteDatabase({}) /\ UNCHANGED <<ignored, projEvents>>
              \/ /\ ProjEvent
                 /\ own["credentials"] # Absent
                 /\ DeleteDatabase({"credentials"})
                 /\ ignored' = TRUE
  /\ phaseState' = NoPhase
  /\ gauge' = [ph \in ProjPhases |->
                 gauge[ph] - (IF ph = phaseState THEN 1 ELSE 0)]
  /\ projPc' = "unfinal"
  /\ UNCHANGED <<proj, projCache, projDue, redisUid, migrated, gone, projNext,
                 projTimer, projApp, projGate, projRedis, deployed,
                 ready, jobs, projBuild>>

-----------------------------------------------------------------------------
(* Failures of the operator *)

CallFails ==
  /\ projPc # "idle"
  /\ ProjEvent
  /\ ErrorPolicy("Transient")
  /\ UNCHANGED <<proj, projCache, projDue, projObjs, redisUid, projMetrics,
                 projHist>>

\* A new process lists the Projects and knows nothing else.
OperatorRestarts ==
  /\ ProjEvent
  /\ Ends(FALSE)
  /\ projCache' = proj /\ projDue' = TRUE
  /\ phaseState' = NoPhase
  /\ gauge' = [ph \in ProjPhases |-> 0]
  /\ UNCHANGED <<proj, projObjs, redisUid, projHist>>

ProjUser ==
  \/ \E s \in ProjSpecs : ProjCreate(s) \/ ProjEdit(s)
  \/ \E k \in Contested : ForeignObject(k)
  \/ ProjDelete \/ BuildAsked \/ RedisRegenerated
ProjCluster ==
  \/ \E i \in ProjImages : JobFinishes(i)
  \/ DeploymentReady
  \/ \E k \in Kinds : CollectGarbage(k)
ProjReconcile ==
  \/ ReconcileGone \/ AddFinalizer \/ StartReconcile \/ RemoveFinalizer
  \/ Setup \/ CreateKeys \/ BuildGate \/ EnsureAccount
  \/ ApplyGuards \/ ApplyDatabase1 \/ ApplyDatabase2
  \/ MigrationGate \/ HeldByMigration \/ CheckOwnership \/ ApplyDeployment
  \/ CheckService \/ ApplyProjService \/ ApplyProjIngress \/ ApplyRest \/ FinishApply
  \/ CleanStateless \/ CleanPolicy
ProjFails == CallFails \/ OperatorRestarts
ProjectNext ==
  \/ ProjUser \/ ProjCluster \/ ProjSync \/ TimerFires
  \/ ProjReconcile \/ ProjFails

ProjectSpec == ProjInit /\ [][ProjectNext]_projVars

\* Tasks of the operator and controllers of the cluster run; a migration Job
\* ends, because it has a backoff limit.
ProjFairness ==
  /\ WF_projVars(ProjReconcile) /\ WF_projVars(ProjSync)
  /\ WF_projVars(TimerFires) /\ WF_projVars(ProjCluster)

-----------------------------------------------------------------------------
(* Properties *)

\* A Deployment whose Project has a database never runs an image before the
\* migration Job of that image succeeded for that same Project, although the
\* image changes while Jobs run and a Project of the same name may follow.
MigratedBeforeServed ==
  own["deployment"] \in ProjUids /\ deployed.gated =>
    <<own["deployment"], deployed.image>> \in migrated

\* No reconcile, not even one that works on an old copy, removes an object of
\* the Project that is there now and is not being deleted.
SparesLiveProject ==
  [][\A k \in Kinds :
       (\E p \in proj : ~p.deleting /\ own[k] = p.uid) => own'[k] # Absent]_projVars

\* An isolated Project's policies are in place when a migration Job of it
\* starts, a Deployment is made for it or its Deployment gets another image,
\* although the copy the reconcile works on may be of an older spec.  The code
\* does not keep that order for everything that runs tenant code: a build Job,
\* with the tenant's Dockerfile, and a roll of the pods onto other Redis
\* credentials come before the policies.
MigrationStarts == \E i \in ProjImages : jobs[i].st = "none" /\ jobs'[i].st = "running"
WorkloadChanges(u) ==
  own'["deployment"] = u /\ (own["deployment"] # u \/ deployed'.image # deployed.image)
GuardedBeforeRelease ==
  [][\A p \in projApp :
       /\ p.spec.isolation
       /\ MigrationStarts \/ WorkloadChanges(p.uid)
       => own["guards"] = p.uid]_projVars

\* managed_apps counts the name once, under the phase last written, and not
\* at all once the Project is gone, across restarts and failed cleanups.
GaugeCountsLive ==
  /\ \A ph \in ProjPhases : gauge[ph] = IF ph = phaseState THEN 1 ELSE 0
  /\ proj = {} => phaseState = NoPhase

\* After a Project whose cleanup found policy Delete is gone and garbage is
\* collected, only the objects of an explicit database and the signing key
\* are left, and the credentials when their deletion failed.  (An edit of the
\* policy that comes after the cleanup took its copy has no effect.)
DeleteSweeps ==
  /\ proj = {} /\ gone.policy = "Delete"
  /\ \A k \in Kinds : ~OwnerGone(own[k])
  => {k \in Kinds : own[k] \notin {Absent, Foreign}} \subseteq
       {"explicit", "corekey"}
         \cup (IF ignored THEN {"credentials"} ELSE {})

\* What the deletion policy promises: with Retain the database and its
\* credentials are still there when the Project is gone.
RetainKeepsDatabase ==
  proj = {} /\ gone.policy = "Retain" =>
    \A k \in gone.had \cap {"postgresql", "credentials"} : own[k] # Absent

Serves(p) ==
  /\ own["deployment"] = p.uid /\ deployed.image = p.spec.image
  /\ own["service"] = p.uid
  /\ "ingress" \in p.spec.claims => own["ingress"] = p.uid

\* The migration failed with the Redis credentials of now; a Job that carries
\* no credentials is never found stale.
MigrationFailed(p) ==
  LET j == jobs[p.spec.image] IN j.st = "failed" /\ j.stamp \in {0, redisUid}

\* What can end the work on a Project: it is served, or its tenant is invalid,
\* or its build or its migration failed.
ProjOutcome(p) ==
  Serves(p) \/ ~p.spec.tenantOk \/ projBuild = "failed" \/ MigrationFailed(p)

\* When users stop, a deleted Project is gone; any other has come to its
\* outcome, unless somebody else's Deployment or Service is in the way now, or
\* somebody else had what its spec claims when it was looked for and nothing
\* made the operator look again (ConflictsResolve).
Denied(p) == \E k \in p.spec.claims : own[k] # p.uid
ProjSettled ==
  \A p \in proj :
    /\ p.fin /\ ~p.deleting
    /\ \/ ProjOutcome(p)
       \/ Foreign \in {own["deployment"], own["service"]}
       \/ Denied(p)
ProjectSettles == <>[]ProjSettled

\* What BackoffClass::OwnershipConflict documents: a resource that another
\* owner holds is looked for again, so that the Project goes on once the other
\* owner's object is gone.
ConflictsResolve ==
  <>[](\A p \in proj :
         \/ ProjOutcome(p)
         \/ \E k \in Contested : own[k] = Foreign)

-----------------------------------------------------------------------------
(* The inductive invariant *)

Cleaning == {"clean1", "clean2", "unfinal"}

\* q is the Project of copy c at a later time, or a later Project.
Follows(q, c) ==
  c.uid < q.uid \/ (c.uid = q.uid /\ (c.fin => q.fin) /\ (c.deleting => q.deleting))

\* A reconcile has a copy with the finalizer, and cleans up exactly when the
\* copy is being deleted.
ProjOneCopy ==
  IF projPc = "idle" THEN projApp = {}
    ELSE \E p \in Projects : /\ projApp = {p} /\ p.fin
                             /\ p.deleting <=> projPc \in Cleaning

\* Copies are of the past: the reconcile's is no newer than the cache's, and
\* neither is newer than the Project.
ProjCopiesPast ==
  /\ \A a \in projApp, c \in projCache : Follows(c, a)
  /\ \A c \in projCache \cup projApp, p \in proj : Follows(p, c)
  /\ \A c \in proj \cup projCache \cup projApp :
       c.uid < projNext /\ (c.deleting => c.fin)

\* A Project gets the finalizer only when no copy of an earlier one with the
\* finalizer is about, and keeps it until it has been cleaned up.
ProjFinalized ==
  /\ \A c \in projCache \cup projApp, p \in proj :
       c.fin /\ p.fin => c.uid = p.uid
  /\ \A c \in projCache \cup projApp :
       c.fin /\ ~c.deleting => \E p \in proj : p.uid = c.uid /\ p.fin

\* Objects belong to Projects that were, or to one that has the finalizer.
ProjOwned ==
  \A k \in Kinds :
    /\ own[k] \in ProjUids => own[k] < projNext
    /\ \A p \in proj : own[k] = p.uid => p.fin
    /\ own[k] = Ownerless => k \in {"credentials", "explicit", "corekey"}
    /\ own[k] = Foreign => k \in Contested

\* Every Job is of the Project that is there, and a Job that succeeded is
\* known to have migrated for it.
ProjJobs ==
  /\ \A i \in ProjImages :
       /\ jobs[i].st = "none" => jobs[i] = NoJob
       /\ jobs[i].st # "none" => \E p \in proj : p.uid = jobs[i].owner /\ p.fin
       /\ jobs[i].st = "ok" => <<jobs[i].owner, i>> \in migrated
  /\ projPc \in {"clean2", "unfinal"} => \A i \in ProjImages : jobs[i].st = "none"

\* What the steps behind a reconcile have established.
ProjBehind ==
  \A p \in projApp :
    /\ projPc \in {"db1", "db2", "gate", "own", "deploy"} /\ p.spec.isolation
         => own["guards"] = p.uid
    /\ projPc \in {"own", "deploy"} /\ p.spec.db # "none"
         => <<p.uid, p.spec.image>> \in migrated
    /\ projPc = "unfinal" => phaseState = NoPhase
    /\ projPc = "unfinal" /\ p.spec.policy = "Delete" /\ ~ignored
         => own["credentials"] = Absent

ProjCounted ==
  /\ \A ph \in ProjPhases : gauge[ph] = IF ph = phaseState THEN 1 ELSE 0
  /\ phaseState # NoPhase => \E p \in proj : p.fin

\* Ownerless credentials appear only while a finalized Project is there.
ProjSwept ==
  (\A p \in proj : ~p.fin) /\ gone.policy = "Delete" /\ ~ignored
    => own["credentials"] # Ownerless

ProjInv ==
  /\ ProjTypeOK /\ ProjOneCopy /\ ProjCopiesPast /\ ProjFinalized
  /\ ProjOwned /\ ProjJobs /\ ProjBehind /\ MigratedBeforeServed
  /\ ProjCounted /\ ProjSwept

-----------------------------------------------------------------------------
(* What holds when the operator has nothing left to do *)

ProjWaits == projPc = "idle" /\ ~projDue /\ ~projTimer

MigrationHolds(p) == jobs[p.spec.image].st = "running" \/ MigrationFailed(p)

\* What a reconcile of copy p ends with.
Concluded(p) ==
  \/ ~p.spec.tenantOk \/ Serves(p) \/ MigrationHolds(p)
  \/ projBuild = "failed" \/ Denied(p)

\* The safety half of ProjectSettles: while the operator waits for an event and
\* its cache is up to date, there is no Project to add the finalizer to or to
\* clean up, and the one there is serves the image of its spec unless a build
\* or a migration holds it, its tenant is invalid, or somebody else had
\* what it claims.  No other error ends a reconcile without a retry that could help.
ProjRestIsSettled ==
  ProjWaits /\ projCache = proj =>
    \A p \in proj : p.fin /\ ~p.deleting /\ Concluded(p)

AfterSetup ==
  {"keys", "build", "account", "guard", "db1", "db2", "gate", "held", "own",
   "deploy", "svcown", "svc", "ingress", "rest", "status"}

\* Without Redis credentials no Job is stamped with any.
ProjUnstamped ==
  redisUid = 0 => projRedis = 0 /\ \A i \in ProjImages : jobs[i].stamp = 0

\* A reconcile with no request queued behind it works on what is in the cache,
\* with the credentials there are, and what it found or applied is still so.
ProjOnItsWay ==
  /\ projPc \in {"clean2", "unfinal"} => projDue
  /\ projPc # "idle" /\ ~projDue => projApp = projCache
  /\ projPc \in AfterSetup /\ ~projDue => projRedis = redisUid
  /\ ~projDue =>
       \A p \in projApp :
         /\ projPc = "held" => MigrationHolds(p)
         /\ projPc \in {"svcown", "svc", "ingress", "rest", "status"} =>
              own["deployment"] = p.uid /\ deployed.image = p.spec.image
         /\ projPc \in {"ingress", "rest", "status"} => own["service"] = p.uid
         /\ projPc \in {"rest", "status"} /\ "ingress" \in p.spec.claims
              => own["ingress"] = p.uid

\* A waiting operator has done what its cached copy asks for, or has just
\* given the Project its finalizer.
ProjDone ==
  ProjWaits =>
    \A c \in projCache :
      \/ c.fin /\ ~c.deleting /\ Concluded(c)
      \/ ~c.fin /\ \E q \in proj : q.fin

ProjRestInv == ProjUnstamped /\ ProjOnItsWay /\ ProjDone
=============================================================================
