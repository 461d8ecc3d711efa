------------------------------- MODULE Wiring -------------------------------
(***************************************************************************)
(* How the objects that the operator builds for one Project fit together:  *)
(* the Secrets, the ConfigMap and the ServiceAccount that Pods name, the   *)
(* databases and their credentials, the ports of the Service and of the    *)
(* Ingress.  Every builder derives names and ports from the spec by        *)
(* itself, and nothing but their agreement makes a Pod start and connect.  *)
(*                                                                         *)
(* What is kept and what is abstracted:                                    *)
(*  - One reconcile at a time works on the copy it began with; it makes    *)
(*    one group of calls per step and may fail at any of them.  The user   *)
(*    may edit the spec at any time.                                       *)
(*  - A name is the part after "<project>-".  A password is a number.      *)
(*  - Users' own variables (spec.env) are left out, and so are objects     *)
(*    that no manifest names: HPA, gRPC Service, storage account, SMTP     *)
(*    Secret, locales, the worker (which names one Secret, as optional).   *)
(*  - Deletion, its finalizer and garbage collection are one step here;    *)
(*    their interleavings are in ProjectLifecycle.                         *)
(***************************************************************************)
EXTENDS Integers

CONSTANTS
  WrSpecs,      \* the specs a user may write
  WrPlatforms,  \* where the operator may run: "onpremise", "cloud"
  WrMaxLives,   \* bound on Projects ever created at the name
  WrMaxEdits    \* bound on edits of their specs

DefaultPort == 80
DefaultTarget == 8000
StaticPort == 8080
WrUnset == 0

WrDatabases == {"postgresql", "db"}  \* StatefulSets, introspected and explicit
WrSpecRecords ==
  [image : Nat, db : {"none", "introspect", "explicit"}, sqlite : BOOLEAN,
   redis : BOOLEAN, jwt : BOOLEAN, plugins : BOOLEAN, sa : BOOLEAN,
   pages : BOOLEAN, routed : BOOLEAN, port : Nat, target : Nat,
   appPort : Nat, policy : {"Retain", "Delete"}]
WrImages == {s.image : s \in WrSpecs}

ASSUME WrAssumption ==
  /\ WrSpecs \subseteq WrSpecRecords /\ WrSpecs # {}
  /\ WrPlatforms \subseteq {"onpremise", "cloud"} /\ WrPlatforms # {}
  /\ WrMaxLives \in Nat /\ WrMaxEdits \in Nat

WrPcs == {"idle", "redis", "core", "jwt", "plugins", "account", "db1", "db2",
          "job", "deployment", "service", "ingress", "cache"}
Nameables == {"core-secret-key", "jwt-secret", "redis-credentials",
              "db-credentials", "plugins", "app", "svc-postgresql",
              "svc-db", "svc-redis"}
Manifests ==  \* what a Pod template names, and its database
  [names : SUBSET Nameables, host : WrDatabases \cup {"none"},
   dbName : {"none", "name", "name_db"}, sqlite : BOOLEAN]
NoManifest == [names |-> {}, host |-> "none", dbName |-> "none",
               sqlite |-> FALSE]
WrJobRecords == [st : {"none", "running", "ok", "failed"}, pod : Manifests]
WrNoJob == [st |-> "none", pod |-> NoManifest]
NoCred == [dbName |-> "none", pw |-> 0, owned |-> FALSE]
EmptyVolume == [dbName |-> "none", pw |-> 0]

VARIABLES
  wrPlatform,
  wrSpec,      \* the Project's spec, as a set of at most one
  wrApp,       \* the copy the running reconcile works on
  wrPc,        \* its next step
  wrObjs,      \* the objects that exist, of those a manifest may name
  wrCred,      \* data of the Secret db-credentials
  wrSts,       \* the StatefulSets that exist
  wrVolumes,   \* StatefulSet -> what its data directory was initialised with
  wrJobs,      \* image -> its migration Job
  wrWeb,       \* Pod template of the Deployment
  wrCache,     \* Pod template of the Redis Deployment
  wrService,   \* ports and target ports of the Service
  wrIngress,   \* the Service ports that the Ingress names
  wrDone,      \* the last reconcile finished, and with the current spec
  wrOrphans,   \* history: volumes that outlived the Secret they began with
  wrLives,     \* Projects ever created at the name
  wrEdits,     \* edits so far
  wrPw         \* passwords ever generated

wrOp == <<wrApp, wrPc>>
wrData == <<wrCred, wrSts, wrVolumes, wrOrphans, wrPw>>
wrWork == <<wrJobs, wrWeb, wrCache>>
wrNet == <<wrService, wrIngress>>
wrBounds == <<wrLives, wrEdits>>
wrVars == <<wrPlatform, wrSpec, wrOp, wrObjs, wrData, wrWork, wrNet, wrDone,
            wrBounds>>

WrTypeOK ==
  /\ wrPlatform \in WrPlatforms
  /\ wrSpec \subseteq WrSpecs /\ wrApp \subseteq WrSpecs
  /\ wrPc \in WrPcs
  /\ wrObjs \subseteq Nameables
  /\ wrCred \in [dbName : {"none", "name", "name_db"}, pw : Nat,
                 owned : BOOLEAN]
  /\ wrSts \subseteq WrDatabases
  /\ wrVolumes \in [WrDatabases -> [dbName : {"none", "name", "name_db"},
                                    pw : Nat]]
  /\ wrJobs \in [WrImages -> WrJobRecords]
  /\ wrWeb \in Manifests /\ wrCache \in Manifests
  /\ wrService \subseteq Nat /\ wrIngress \subseteq Nat
  /\ wrDone \in BOOLEAN
  /\ wrOrphans \subseteq WrDatabases
  /\ wrLives \in Nat /\ wrEdits \in Nat /\ wrPw \in Nat

WrInit ==
  /\ wrPlatform \in WrPlatforms
  /\ wrSpec = {} /\ wrApp = {} /\ wrPc = "idle"
  /\ wrObjs = {} /\ wrCred = NoCred /\ wrSts = {}
  /\ wrVolumes = [s \in WrDatabases |-> EmptyVolume]
  /\ wrJobs = [i \in WrImages |-> WrNoJob]
  /\ wrWeb = NoManifest /\ wrCache = NoManifest
  /\ wrService = {} /\ wrIngress = {}
  /\ wrDone = FALSE /\ wrOrphans = {} /\ wrLives = 0
  /\ wrEdits = 0 /\ wrPw = 0

-----------------------------------------------------------------------------
(* What the builders derive from a spec *)

\* build_application_env_vars and the rest of a Pod template: each reference
\* it makes is mandatory.
AppPod(s) ==
  [names |-> {"core-secret-key"}
               \cup (IF s.jwt THEN {"jwt-secret"} ELSE {})
               \cup (IF s.redis THEN {"redis-credentials"} ELSE {})
               \cup (IF s.db # "none" THEN {"db-credentials"} ELSE {})
               \cup (IF s.plugins THEN {"plugins"} ELSE {})
               \cup (IF s.sa THEN {"app"} ELSE {}),
   host |-> CASE s.db = "explicit" -> "db"
              [] s.db = "introspect" -> "postgresql"
              [] OTHER -> "none",
   dbName |-> IF s.db = "none" THEN "none" ELSE "name_db",
   sqlite |-> s.sqlite]

RedisPod == [NoManifest EXCEPT !.names = {"redis-credentials"}]

\* build_db_secret, for an introspected database.
IntrospectedCred == [dbName |-> "name", pw |-> wrPw + 1, owned |-> TRUE]

\* build_db_credentials_secret, for an explicit one.
ExplicitCred == [dbName |-> "name_db", pw |-> wrPw + 1, owned |-> FALSE]

WrOr(value, default) == IF value = WrUnset THEN default ELSE value

\* build_service: a port and its target are both listed, because the Ingress
\* controller the Ingress is built for accepts either.
ServicePorts(s) ==
  {WrOr(s.port, DefaultPort), WrOr(s.target, DefaultTarget)}
    \cup (IF s.pages THEN {StaticPort} ELSE {})

\* resolve_app_port: the target port, or else what introspection found.
AppPort(s) == WrOr(s.target, WrOr(s.appPort, DefaultTarget))

IngressPorts(s) == {AppPort(s)} \cup (IF s.pages THEN {StaticPort} ELSE {})

-----------------------------------------------------------------------------
(* The user and the cluster *)

WrCreateProject(s) ==
  /\ wrSpec = {} /\ wrLives < WrMaxLives
  /\ wrSpec' = {s} /\ wrLives' = wrLives + 1
  /\ wrDone' = FALSE
  /\ UNCHANGED <<wrPlatform, wrOp, wrObjs, wrData, wrWork, wrNet, wrEdits>>

EditSpec(s) ==
  /\ wrSpec # {} /\ wrSpec # {s} /\ wrEdits < WrMaxEdits
  /\ wrSpec' = {s} /\ wrDone' = FALSE /\ wrEdits' = wrEdits + 1
  /\ UNCHANGED <<wrPlatform, wrOp, wrObjs, wrData, wrWork, wrNet, wrLives>>

\* What cleanup deletes, and what goes with the Project because it is owned:
\* everything but the signing key, the objects of an explicit database, the
\* Secrets a policy keeps, and the volumes.
WrDeleteProject ==
  /\ wrPc = "idle"
  /\ \E s \in wrSpec :
       LET all == s.policy = "Delete"
           credGoes == all \/ wrCred.owned
       IN /\ wrObjs' = wrObjs \cap
               ({"core-secret-key", "svc-db"}
                  \cup (IF all THEN {} ELSE {"jwt-secret", "redis-credentials"})
                  \cup (IF credGoes THEN {} ELSE {"db-credentials"}))
          /\ wrCred' = IF credGoes THEN NoCred ELSE wrCred
          /\ wrOrphans' =
               IF credGoes /\ wrCred # NoCred
                 THEN wrOrphans \cup
                        {v \in WrDatabases : wrVolumes[v] # EmptyVolume}
                 ELSE wrOrphans
  /\ wrSts' = wrSts \ {"postgresql"}
  /\ wrJobs' = [i \in WrImages |-> WrNoJob]
  /\ wrWeb' = NoManifest /\ wrCache' = NoManifest
  /\ wrService' = {} /\ wrIngress' = {}
  /\ wrSpec' = {} /\ wrDone' = FALSE
  /\ UNCHANGED <<wrPlatform, wrOp, wrVolumes, wrPw, wrBounds>>

\* The first start of a database initialises its data directory from the
\* Secret; later starts leave the directory as it is.
DatabaseStarts(v) ==
  /\ v \in wrSts /\ "db-credentials" \in wrObjs
  /\ wrVolumes[v] = EmptyVolume
  /\ wrVolumes' = [wrVolumes EXCEPT ![v] = [dbName |-> wrCred.dbName,
                                            pw |-> wrCred.pw]]
  /\ UNCHANGED <<wrPlatform, wrSpec, wrOp, wrObjs, wrCred, wrSts, wrOrphans,
                 wrPw, wrWork, wrNet, wrDone, wrBounds>>

WrJobEnds(i) ==
  /\ wrJobs[i].st = "running"
  /\ \E st \in {"ok", "failed"} : wrJobs' = [wrJobs EXCEPT ![i].st = st]
  /\ UNCHANGED <<wrPlatform, wrSpec, wrOp, wrObjs, wrData, wrWeb, wrCache,
                 wrNet, wrDone, wrBounds>>

-----------------------------------------------------------------------------
(* The reconcile *)

WrBeginReconcile ==
  /\ wrPc = "idle" /\ wrSpec # {}
  /\ wrApp' = wrSpec /\ wrPc' = "redis"
  /\ UNCHANGED <<wrPlatform, wrSpec, wrObjs, wrData, wrWork, wrNet, wrDone,
                 wrBounds>>

\* A call fails, or a builder refuses the spec.
WrReconcileFails ==
  /\ wrPc # "idle"
  /\ wrPc' = "idle" /\ wrApp' = {}
  /\ UNCHANGED <<wrPlatform, wrSpec, wrObjs, wrData, wrWork, wrNet, wrDone,
                 wrBounds>>

WrAt(pc, s) == wrPc = pc /\ s \in wrApp
WrGoto(pc) == wrPc' = pc /\ UNCHANGED wrApp

\* A step that makes sure that an object exists if the spec wants it.
Provide(wanted, object) ==
  /\ wrObjs' = IF wanted THEN wrObjs \cup {object} ELSE wrObjs
  /\ UNCHANGED <<wrPlatform, wrSpec, wrData, wrWork, wrNet, wrDone, wrBounds>>

ProvideRedisSecret(s) ==
  WrAt("redis", s) /\ Provide(s.redis, "redis-credentials") /\ WrGoto("core")

ProvideCoreSecret(s) ==
  WrAt("core", s) /\ Provide(TRUE, "core-secret-key") /\ WrGoto("jwt")

ProvideJwtSecret(s) ==
  WrAt("jwt", s) /\ Provide(s.jwt, "jwt-secret") /\ WrGoto("plugins")

ProvidePluginConfig(s) ==
  WrAt("plugins", s) /\ Provide(s.plugins, "plugins") /\ WrGoto("account")

ProvideAccount(s) ==
  WrAt("account", s) /\ Provide(s.sa, "app") /\ WrGoto("db1")

\* Mutant: the Secret is applied on every reconcile, like the other objects.
SecretReapplied(cred) ==
  /\ wrObjs' = wrObjs \cup {"db-credentials"}
  /\ wrCred' = cred
  /\ wrPw' = IF wrPw < 5 THEN wrPw + 1 ELSE wrPw

\* get, then create if there is none.
SecretIfAbsent(cred) ==
  IF "db-credentials" \in wrObjs
    THEN UNCHANGED <<wrObjs, wrCred, wrPw>>
    ELSE /\ wrObjs' = wrObjs \cup {"db-credentials"}
         /\ wrCred' = cred
         /\ wrPw' = wrPw + 1

\* StatefulSet and Service of a database.
ServeDatabase(v, service) ==
  /\ wrSts' = wrSts \cup {v}
  /\ wrObjs' = wrObjs \cup {service}
  /\ UNCHANGED <<wrCred, wrPw>>

NoDatabaseObjects == UNCHANGED <<wrObjs, wrCred, wrSts, wrPw>>

\* An introspected database gets its Secret first, an explicit one last; a
\* managed one is the cloud's, and none is made for SQLite there.
Database1(s) ==
  /\ WrAt("db1", s)
  /\ \/ s.db = "none" /\ NoDatabaseObjects /\ WrGoto("job")
     \/ /\ s.db = "introspect"
        /\ SecretIfAbsent(IntrospectedCred) /\ UNCHANGED wrSts
        /\ WrGoto("db2")
     \/ /\ s.db = "explicit" /\ wrPlatform = "onpremise"
        /\ ServeDatabase("db", "svc-db")
        /\ WrGoto("db2")
     \/ /\ s.db = "explicit" /\ wrPlatform = "cloud"
        /\ NoDatabaseObjects
        /\ WrGoto(IF s.sqlite THEN "job" ELSE "db2")
  /\ UNCHANGED <<wrPlatform, wrSpec, wrVolumes, wrOrphans, wrWork, wrNet,
                 wrDone, wrBounds>>

Database2(s) ==
  /\ WrAt("db2", s)
  /\ \/ s.db = "introspect" /\ ServeDatabase("postgresql", "svc-postgresql")
     \/ s.db = "explicit" /\ SecretIfAbsent(ExplicitCred) /\ UNCHANGED wrSts
  /\ WrGoto("job")
  /\ UNCHANGED <<wrPlatform, wrSpec, wrVolumes, wrOrphans, wrWork, wrNet,
                 wrDone, wrBounds>>

\* The Job of an image is made once; only its success lets the reconcile go on.
WrMigrate(s) ==
  /\ WrAt("job", s)
  /\ LET st == wrJobs[s.image].st IN
       \/ /\ s.db = "none" \/ st = "ok"
          /\ WrGoto("deployment") /\ UNCHANGED wrJobs
       \/ /\ s.db # "none" /\ st \in {"running", "failed"}
          /\ wrPc' = "idle" /\ wrApp' = {} /\ UNCHANGED wrJobs
       \/ /\ s.db # "none" /\ st = "none"
          /\ wrJobs' = [wrJobs EXCEPT ![s.image] =
                          [st |-> "running", pod |-> AppPod(s)]]
          /\ wrPc' = "idle" /\ wrApp' = {}
  /\ UNCHANGED <<wrPlatform, wrSpec, wrObjs, wrData, wrWeb, wrCache, wrNet,
                 wrDone, wrBounds>>

WrApplyDeployment(s) ==
  /\ WrAt("deployment", s)
  /\ wrWeb' = AppPod(s)
  /\ WrGoto("service")
  /\ UNCHANGED <<wrPlatform, wrSpec, wrObjs, wrData, wrJobs, wrCache, wrNet,
                 wrDone, wrBounds>>

ApplyService(s) ==
  /\ WrAt("service", s)
  /\ wrService' = ServicePorts(s)
  /\ WrGoto("ingress")
  /\ UNCHANGED <<wrPlatform, wrSpec, wrObjs, wrData, wrWork, wrIngress,
                 wrDone, wrBounds>>

\* An Ingress that the spec no longer asks for stays.
ApplyIngress(s) ==
  /\ WrAt("ingress", s)
  /\ wrIngress' = IF s.routed THEN IngressPorts(s) ELSE wrIngress
  /\ WrGoto("cache")
  /\ UNCHANGED <<wrPlatform, wrSpec, wrObjs, wrData, wrWork, wrService,
                 wrDone, wrBounds>>

\* Redis is deployed last, and the reconcile ends.
ApplyCache(s) ==
  /\ WrAt("cache", s)
  /\ wrCache' = IF s.redis THEN RedisPod ELSE wrCache
  /\ wrObjs' = IF s.redis THEN wrObjs \cup {"svc-redis"} ELSE wrObjs
  /\ wrDone' = (wrApp = wrSpec)
  /\ wrPc' = "idle" /\ wrApp' = {}
  /\ UNCHANGED <<wrPlatform, wrSpec, wrData, wrJobs, wrWeb, wrNet, wrBounds>>

WrStep(s) ==
  \/ ProvideRedisSecret(s) \/ ProvideCoreSecret(s) \/ ProvideJwtSecret(s)
  \/ ProvidePluginConfig(s) \/ ProvideAccount(s)
  \/ Database1(s) \/ Database2(s) \/ WrMigrate(s)
  \/ WrApplyDeployment(s) \/ ApplyService(s) \/ ApplyIngress(s)
  \/ ApplyCache(s)

WiringNext ==
  \/ \E s \in WrSpecs : WrCreateProject(s) \/ EditSpec(s) \/ WrStep(s)
  \/ WrDeleteProject \/ WrBeginReconcile \/ WrReconcileFails
  \/ \E v \in WrDatabases : DatabaseStarts(v)
  \/ \E i \in WrImages : WrJobEnds(i)

WrSpec == WrInit /\ [][WiringNext]_wrVars

-----------------------------------------------------------------------------
(* Properties *)

WrPods == {wrWeb, wrCache} \cup {wrJobs[i].pod : i \in WrImages}

\* A managed database has no Service in the cluster, and one for SQLite no
\* Secret either: the operator warns that the user must give the endpoint.
CloudManaged(pod) == wrPlatform = "cloud" /\ pod.host = "db"

PodWired(pod) ==
  /\ pod.names \ (IF CloudManaged(pod) /\ pod.sqlite
                    THEN {"db-credentials"} ELSE {}) \subseteq wrObjs
  /\ pod.host = "none" \/ CloudManaged(pod)
       \/ (IF pod.host = "db" THEN "svc-db" ELSE "svc-postgresql") \in wrObjs

\* Whatever a Pod names is there when the Pod is made, and stays.
ReferencesResolve == \A pod \in WrPods : PodWired(pod)

\* The Secret opens every database that was initialised from it.
PasswordFits ==
  \A v \in WrDatabases \ wrOrphans :
    wrVolumes[v] # EmptyVolume => wrVolumes[v].pw = wrCred.pw

\* A finished reconcile leaves an Ingress that names ports of the Service,
\* unless introspection alone knows the port, and a Service for Redis.
ServicesReached ==
  wrDone => \A s \in wrSpec :
    /\ s.routed /\ (s.target # WrUnset \/ s.appPort = WrUnset)
         => wrIngress \subseteq wrService
    /\ s.redis => "svc-redis" \in wrObjs

\* The builders agree through edits, failed reconciles, a database that
\* changes its kind, and a deleted and recreated Project: a Pod finds every
\* Secret, ConfigMap, ServiceAccount and database Service its template names
\* (otherwise it hangs in CreateContainerConfigError); get-or-create never
\* replaces the password of a database that is already initialised, unless
\* the Secret went with a deleted Project; the Ingress of a finished
\* reconcile points to the Service that the same spec built.
WorkloadsWired == ReferencesResolve /\ PasswordFits /\ ServicesReached

\* build_onprem_postgres and build_database_env_vars_from_secret promise that
\* the database name in the environment is the one that the credentials
\* created.  It is not for an introspected database.
EnvNamesDatabase ==
  \A pod \in WrPods :
    pod.host # "none" /\ wrVolumes[pod.host] # EmptyVolume
      => pod.dbName = wrVolumes[pod.host].dbName

-----------------------------------------------------------------------------
(* The inductive invariant *)

\* At most one Project and one reconcile, which has a copy while it runs;
\* after a finished reconcile the next one works on the same spec.
WrOneCopy ==
  /\ wrSpec = {} \/ \E s \in WrSpecs : wrSpec = {s}
  /\ IF wrPc = "idle" THEN wrApp = {} ELSE \E s \in WrSpecs : wrApp = {s}
  /\ wrDone /\ wrPc # "idle" => wrApp = wrSpec

\* The steps up to a given one; the objects of the steps behind a reconcile
\* are there.
WrToCore == {"redis", "core"}
WrToJwt == {"redis", "core", "jwt"}
WrToPlugins == {"redis", "core", "jwt", "plugins"}
WrToAccount == {"redis", "core", "jwt", "plugins", "account"}
WrToDb1 == {"redis", "core", "jwt", "plugins", "account", "db1"}
WrToDb2 == {"redis", "core", "jwt", "plugins", "account", "db1", "db2"}
WrBehind ==
  \A s \in wrApp :
    /\ s.redis /\ wrPc # "redis" => "redis-credentials" \in wrObjs
    /\ wrPc \notin WrToCore => "core-secret-key" \in wrObjs
    /\ s.jwt /\ wrPc \notin WrToJwt => "jwt-secret" \in wrObjs
    /\ s.plugins /\ wrPc \notin WrToPlugins => "plugins" \in wrObjs
    /\ s.sa /\ wrPc \notin WrToAccount => "app" \in wrObjs
    /\ s.db = "introspect" /\ wrPc \notin WrToDb1
         => "db-credentials" \in wrObjs
    /\ s.db = "introspect" /\ wrPc \notin WrToDb2
         => "svc-postgresql" \in wrObjs
    /\ s.db = "explicit" /\ wrPlatform = "onpremise" /\ wrPc \notin WrToDb1
         => "svc-db" \in wrObjs
    /\ s.db = "explicit" /\ wrPc \notin WrToDb2
         => "db-credentials" \in wrObjs \/ (s.sqlite /\ wrPlatform = "cloud")

\* The Secret and what the databases were initialised with: without a Secret
\* every database that was ever started is an orphan.
WrSecretKept ==
  /\ "db-credentials" \in wrObjs <=> wrCred # NoCred
  /\ \A v \in wrOrphans : wrVolumes[v] # EmptyVolume
  /\ wrCred = NoCred =>
       \A v \in WrDatabases : wrVolumes[v] # EmptyVolume => v \in wrOrphans

\* The Service and the Ingress as a spec has them built.
WrBuilt(s) ==
  /\ wrService = ServicePorts(s)
  /\ s.routed => wrIngress = IngressPorts(s)
WrNetBuilt ==
  /\ \A s \in wrApp :
       /\ wrPc = "ingress" => wrService = ServicePorts(s)
       /\ wrPc = "cache" => WrBuilt(s)
  /\ wrDone => \A s \in wrSpec :
                 WrBuilt(s) /\ (s.redis => "svc-redis" \in wrObjs)

WrInv ==
  /\ WrTypeOK /\ WrOneCopy /\ WrBehind /\ ReferencesResolve
  /\ WrSecretKept /\ PasswordFits /\ WrNetBuilt

=============================================================================
