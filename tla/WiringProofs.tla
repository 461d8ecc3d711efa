---------------------------- MODULE WiringProofs ----------------------------
(***************************************************************************)
(* Proofs about Wiring, for any set of specs, on every platform, and for   *)
(* any number of edits and of Projects at the name.                        *)
(***************************************************************************)
EXTENDS Wiring, TLAPS

\* The fields of a spec.
LEMMA SpecFields ==
  ASSUME NEW s \in WrSpecs
  PROVE  /\ s \in WrSpecRecords /\ s.image \in WrImages
         /\ s.db \in {"none", "introspect", "explicit"}
         /\ s.sqlite \in BOOLEAN /\ s.redis \in BOOLEAN /\ s.jwt \in BOOLEAN
         /\ s.plugins \in BOOLEAN /\ s.sa \in BOOLEAN /\ s.pages \in BOOLEAN
         /\ s.routed \in BOOLEAN
         /\ s.port \in Nat /\ s.target \in Nat /\ s.appPort \in Nat
BY WrAssumption DEF WrSpecRecords, WrImages

\* What the builders make has its type.
LEMMA BuilderTypes ==
  ASSUME NEW s \in WrSpecs
  PROVE  /\ AppPod(s) \in Manifests /\ RedisPod \in Manifests
         /\ NoManifest \in Manifests
         /\ ServicePorts(s) \subseteq Nat /\ IngressPorts(s) \subseteq Nat
<1>1. AppPod(s) \in Manifests
  BY SpecFields DEF AppPod, Manifests, Nameables, WrDatabases
<1>2. RedisPod \in Manifests /\ NoManifest \in Manifests
  BY DEF RedisPod, NoManifest, Manifests, Nameables, WrDatabases
<1>3. ServicePorts(s) \subseteq Nat /\ IngressPorts(s) \subseteq Nat
  BY SpecFields DEF ServicePorts, IngressPorts, AppPort, WrOr, DefaultPort,
                    DefaultTarget, StaticPort
<1> QED BY <1>1, <1>2, <1>3

\* The Ingress names ports of the Service unless only introspection knows
\* the port.
LEMMA PortsAgree ==
  ASSUME NEW s \in WrSpecs, s.target # WrUnset \/ s.appPort = WrUnset
  PROVE  IngressPorts(s) \subseteq ServicePorts(s)
BY DEF ServicePorts, IngressPorts, AppPort, WrOr

\* Pods stay wired while objects are only added, and so does a new one if
\* what it names is there.
LEMMA PodsStayWired ==
  ASSUME ReferencesResolve, wrPlatform' = wrPlatform, wrObjs \subseteq wrObjs',
         NEW q, PodWired(q)', WrPods' \subseteq WrPods \cup {q}
  PROVE  ReferencesResolve'
<1> SUFFICES ASSUME NEW pod \in WrPods' PROVE PodWired(pod)'
  BY DEF ReferencesResolve
<1>1. CASE pod = q
  BY <1>1
<1>2. CASE pod # q
  BY <1>2 DEF ReferencesResolve, PodWired, CloudManaged
<1> QED BY <1>1, <1>2

LEMMA PodsUnchanged ==
  ASSUME ReferencesResolve, wrPlatform' = wrPlatform, wrObjs \subseteq wrObjs',
         UNCHANGED wrWork
  PROVE  ReferencesResolve'
<1>1. WrPods' = WrPods
  BY DEF WrPods, wrWork
<1>2. PICK q : q = wrWeb
  OBVIOUS
<1>3. q \in WrPods
  BY <1>2 DEF WrPods
<1>4. PodWired(q)'
  BY <1>3 DEF ReferencesResolve, PodWired, CloudManaged
<1> QED BY <1>1, <1>4, PodsStayWired

\* At the steps that make Pods, everything they name is there.
LEMMA CopyWired ==
  ASSUME WrTypeOK, WrBehind, NEW s \in wrApp, s \in WrSpecs,
         wrPc \in {"job", "deployment"}
  PROVE  PodWired(AppPod(s))
<1>1. wrPlatform \in {"onpremise", "cloud"}
  BY WrAssumption DEF WrTypeOK
<1>2. wrPc \notin WrToDb2 /\ wrPc \notin WrToDb1 /\ wrPc \notin WrToAccount
      /\ wrPc \notin WrToPlugins /\ wrPc \notin WrToJwt /\ wrPc \notin WrToCore
      /\ wrPc # "redis"
  BY DEF WrToDb2, WrToDb1, WrToAccount, WrToPlugins, WrToJwt, WrToCore
<1>3. CASE s.db = "none"
  BY <1>2, <1>3, SpecFields DEF WrBehind, PodWired, AppPod, CloudManaged
<1>4. CASE s.db = "introspect"
  BY <1>2, <1>4, SpecFields DEF WrBehind, PodWired, AppPod, CloudManaged
<1>5. CASE s.db = "explicit"
  BY <1>1, <1>2, <1>5, SpecFields DEF WrBehind, PodWired, AppPod, CloudManaged
<1> QED BY <1>3, <1>4, <1>5, SpecFields

LEMMA WrInitInv == WrInit => WrInv
<1> SUFFICES ASSUME WrInit PROVE WrInv
  OBVIOUS
<1>1. WrTypeOK
  BY DEF WrInit, WrTypeOK, WrPcs, NoCred, EmptyVolume, WrNoJob, WrJobRecords,
         NoManifest, Manifests
<1>2. \A pod \in WrPods : pod = NoManifest
  BY DEF WrInit, WrPods, WrNoJob
<1>3. ReferencesResolve
  BY <1>2 DEF ReferencesResolve, PodWired, NoManifest
<1>4. WrOneCopy /\ WrBehind /\ WrSecretKept /\ PasswordFits /\ WrNetBuilt
  BY DEF WrInit, WrOneCopy, WrBehind, WrSecretKept, PasswordFits, WrNetBuilt,
         EmptyVolume
<1> QED BY <1>1, <1>3, <1>4 DEF WrInv

\* A step of the reconcile is one of the copy it began with.
LEMMA TheCopy ==
  ASSUME WrInv, NEW s \in wrApp, wrPc # "idle"
  PROVE  wrApp = {s}
BY DEF WrInv, WrOneCopy

\* Steps that only provide an object.
LEMMA ProvideInv ==
  ASSUME WrInv, NEW s \in WrSpecs, NEW wanted \in BOOLEAN,
         NEW object \in Nameables \ {"db-credentials"}, Provide(wanted, object)
  PROVE  /\ wrObjs \subseteq wrObjs' /\ wrObjs' \subseteq Nameables
         /\ wanted => object \in wrObjs'
         /\ ReferencesResolve' /\ WrSecretKept' /\ PasswordFits'
<1>1. wrObjs \subseteq wrObjs' /\ wrObjs' \subseteq Nameables
      /\ (wanted => object \in wrObjs')
  BY DEF Provide, WrInv, WrTypeOK
<1>2. ReferencesResolve'
  BY <1>1, PodsUnchanged DEF Provide, WrInv
<1>3. WrSecretKept' /\ PasswordFits'
  BY DEF Provide, WrInv, WrSecretKept, PasswordFits, wrData
<1> QED BY <1>1, <1>2, <1>3

\* The rest of the invariant after such a step.
LEMMA ProvideStep ==
  ASSUME WrInv, NEW s \in WrSpecs, wrApp = {s}, wrPc # "idle",
         NEW wanted \in BOOLEAN,
         NEW object \in Nameables \ {"db-credentials"}, Provide(wanted, object),
         NEW pc \in WrPcs \ {"idle", "ingress", "cache"}, WrGoto(pc), WrBehind'
  PROVE  WrInv'
<1>1. /\ wrObjs \subseteq wrObjs' /\ wrObjs' \subseteq Nameables
      /\ ReferencesResolve' /\ WrSecretKept' /\ PasswordFits'
  BY ProvideInv
<1>2. WrTypeOK'
  BY <1>1 DEF Provide, WrGoto, WrInv, WrTypeOK, wrData, wrWork, wrNet, wrBounds
<1>3. WrOneCopy'
  BY DEF Provide, WrGoto, WrInv, WrOneCopy
<1>4. WrNetBuilt'
  BY <1>1 DEF Provide, WrGoto, WrInv, WrNetBuilt, WrBuilt, wrNet
<1> QED BY <1>1, <1>2, <1>3, <1>4 DEF WrInv

\* What the database steps keep: the Secret fits whatever was initialised.
LEMMA DatabaseObjects ==
  ASSUME WrInv, UNCHANGED <<wrPlatform, wrVolumes, wrOrphans, wrWork>>,
         \/ NoDatabaseObjects
         \/ ServeDatabase("db", "svc-db")
         \/ ServeDatabase("postgresql", "svc-postgresql")
         \/ SecretIfAbsent(IntrospectedCred) /\ UNCHANGED wrSts
         \/ SecretIfAbsent(ExplicitCred) /\ UNCHANGED wrSts
  PROVE  /\ wrObjs \subseteq wrObjs' /\ wrObjs' \subseteq Nameables
         /\ wrCred' \in [dbName : {"none", "name", "name_db"}, pw : Nat,
                          owned : BOOLEAN]
         /\ wrSts' \subseteq WrDatabases /\ wrPw' \in Nat
         /\ ReferencesResolve' /\ WrSecretKept' /\ PasswordFits'
<1>1. CASE NoDatabaseObjects
  <2>1. ReferencesResolve'
    BY <1>1, PodsUnchanged DEF NoDatabaseObjects, WrInv
  <2> QED BY <1>1, <2>1 DEF NoDatabaseObjects, WrInv, WrTypeOK, WrSecretKept,
                            PasswordFits
<1>2. CASE ServeDatabase("db", "svc-db")
           \/ ServeDatabase("postgresql", "svc-postgresql")
  <2>1. wrObjs \subseteq wrObjs' /\ wrObjs' \subseteq Nameables
        /\ wrSts' \subseteq WrDatabases
    BY <1>2 DEF ServeDatabase, WrInv, WrTypeOK, Nameables, WrDatabases
  <2>2. ReferencesResolve'
    BY <2>1, PodsUnchanged DEF WrInv
  <2>3. WrSecretKept' /\ PasswordFits'
    BY <1>2 DEF ServeDatabase, WrInv, WrSecretKept, PasswordFits
  <2> QED BY <1>2, <2>1, <2>2, <2>3 DEF ServeDatabase, WrInv, WrTypeOK
<1>3. CASE "db-credentials" \in wrObjs /\ UNCHANGED wrSts
           /\ UNCHANGED <<wrObjs, wrCred, wrPw>>
  <2>1. ReferencesResolve'
    BY <1>3, PodsUnchanged DEF WrInv
  <2> QED BY <1>3, <2>1 DEF WrInv, WrTypeOK, WrSecretKept, PasswordFits
<1>4. ASSUME "db-credentials" \notin wrObjs, UNCHANGED wrSts,
             NEW cred \in {IntrospectedCred, ExplicitCred},
             wrObjs' = wrObjs \cup {"db-credentials"}, wrCred' = cred,
             wrPw' = wrPw + 1
      PROVE  /\ wrObjs \subseteq wrObjs' /\ wrObjs' \subseteq Nameables
             /\ wrCred' \in [dbName : {"none", "name", "name_db"}, pw : Nat,
                              owned : BOOLEAN]
             /\ wrSts' \subseteq WrDatabases /\ wrPw' \in Nat
             /\ ReferencesResolve' /\ WrSecretKept' /\ PasswordFits'
  <2>1. wrPw \in Nat /\ wrObjs \subseteq Nameables /\ wrSts \subseteq WrDatabases
    BY DEF WrInv, WrTypeOK
  <2>2. cred \in [dbName : {"none", "name", "name_db"}, pw : Nat,
                  owned : BOOLEAN] /\ cred.pw # 0
    <3>1. wrPw + 1 \in Nat /\ wrPw + 1 # 0
      BY <2>1
    <3>2. CASE cred = IntrospectedCred
      BY <3>1, <3>2 DEF IntrospectedCred
    <3>3. CASE cred = ExplicitCred
      BY <3>1, <3>3 DEF ExplicitCred
    <3> QED BY <1>4, <3>2, <3>3
  <2>3. cred # NoCred
    BY <2>2 DEF NoCred
  <2>4. wrObjs \subseteq wrObjs' /\ wrObjs' \subseteq Nameables
    BY <1>4, <2>1 DEF Nameables
  <2>5. ReferencesResolve'
    BY <2>4, PodsUnchanged DEF WrInv
  <2>6. \A v \in WrDatabases : wrVolumes[v] # EmptyVolume => v \in wrOrphans
    BY <1>4 DEF WrInv, WrSecretKept
  <2>7. WrSecretKept' /\ PasswordFits'
    BY <1>4, <2>3, <2>6 DEF WrInv, WrSecretKept, PasswordFits
  <2> QED BY <1>4, <2>1, <2>2, <2>4, <2>5, <2>7
<1> QED BY <1>1, <1>2, <1>3, <1>4 DEF SecretIfAbsent

\* Steps of the reconcile that touch neither a Secret nor a database.
LEMMA SecretsUntouched ==
  ASSUME WrInv, UNCHANGED wrData,
         wrObjs' = wrObjs \/ wrObjs' = wrObjs \cup {"svc-redis"}
  PROVE  WrSecretKept' /\ PasswordFits'
BY DEF WrInv, wrData, WrSecretKept, PasswordFits

LEMMA WrStepInv == WrInv /\ [WiringNext]_wrVars => WrInv'
<1> SUFFICES ASSUME WrInv, [WiringNext]_wrVars PROVE WrInv'
  OBVIOUS
<1>t. WrTypeOK
  BY DEF WrInv
<1> USE DEF WrPods
<1>0. CASE UNCHANGED wrVars
  BY <1>0 DEF wrVars, wrOp, wrData, wrWork, wrNet, wrBounds, WrInv, WrTypeOK,
              WrOneCopy, WrBehind, ReferencesResolve, PodWired, CloudManaged,
              WrSecretKept, PasswordFits, WrNetBuilt, WrBuilt
<1>1. ASSUME NEW s \in WrSpecs, WrCreateProject(s) \/ EditSpec(s)
      PROVE  WrInv'
  <2>1. /\ wrSpec' = {s} /\ wrDone' = FALSE
        /\ UNCHANGED <<wrPlatform, wrOp, wrObjs, wrData, wrWork, wrNet>>
        /\ wrLives' \in Nat /\ wrEdits' \in Nat
    BY <1>1, <1>t DEF WrCreateProject, EditSpec, WrTypeOK
  <2>2. WrTypeOK'
    BY <1>t, <2>1 DEF WrTypeOK, wrOp, wrData, wrWork, wrNet
  <2>3. ReferencesResolve'
    BY <2>1, PodsUnchanged DEF WrInv
  <2>4. WrSecretKept' /\ PasswordFits'
    BY <2>1, SecretsUntouched
  <2>5. WrOneCopy' /\ WrBehind'
    BY <2>1 DEF WrInv, WrOneCopy, WrBehind, wrOp
  <2>6. WrNetBuilt'
    BY <2>1 DEF WrInv, WrNetBuilt, WrBuilt, wrOp, wrNet
  <2> QED BY <2>2, <2>3, <2>4, <2>5, <2>6 DEF WrInv
<1>2. ASSUME WrDeleteProject PROVE WrInv'
  <2>1. PICK s \in wrSpec :
          LET all == s.policy = "Delete"
              credGoes == all \/ wrCred.owned
          IN /\ wrObjs' = wrObjs \cap
                  ({"core-secret-key", "svc-db"}
                     \cup (IF all THEN {} ELSE {"jwt-secret", "redis-credentials"})
                     \cup (IF credGoes THEN {} ELSE {"db-credentials"}))
             /\ wrCred' = IF credGoes THEN NoCred ELSE wrCred
             /\ wrOrphans' =
                  IF credGoes /\ wrCred # NoCred
                    THEN wrOrphans \cup
                           {v \in WrDatabases : wrVolumes[v] # EmptyVolume}
                    ELSE wrOrphans
    BY <1>2 DEF WrDeleteProject
  <2>2. /\ wrPc = "idle" /\ wrSts' = wrSts \ {"postgresql"}
        /\ wrJobs' = [i \in WrImages |-> WrNoJob]
        /\ wrWeb' = NoManifest /\ wrCache' = NoManifest
        /\ wrService' = {} /\ wrIngress' = {}
        /\ wrSpec' = {} /\ wrDone' = FALSE
        /\ UNCHANGED <<wrPlatform, wrOp, wrVolumes, wrPw, wrBounds>>
    BY <1>2 DEF WrDeleteProject
  <2>3. wrApp = {} /\ wrApp' = {} /\ wrPc' = "idle"
    BY <2>2 DEF WrInv, WrOneCopy, wrOp
  <2>4. /\ wrObjs' \subseteq Nameables /\ wrOrphans' \subseteq WrDatabases
        /\ wrCred' \in {wrCred, NoCred}
    BY <2>1, <1>t DEF WrTypeOK
  <2>5. wrJobs' \in [WrImages -> WrJobRecords] /\ wrWeb' \in Manifests
    BY <2>2 DEF WrNoJob, WrJobRecords, NoManifest, Manifests
  <2>6. WrTypeOK'
    <3>1. wrCred' \in [dbName : {"none", "name", "name_db"}, pw : Nat,
                       owned : BOOLEAN]
      <4>1. NoCred \in [dbName : {"none", "name", "name_db"}, pw : Nat,
                        owned : BOOLEAN]
        BY DEF NoCred
      <4> QED BY <1>t, <2>4, <4>1 DEF WrTypeOK
    <3>2. wrSts' \subseteq WrDatabases /\ wrPc' \in WrPcs
      BY <1>t, <2>2, <2>3 DEF WrTypeOK, WrPcs
    <3> QED BY <1>t, <2>2, <2>3, <2>4, <2>5, <3>1, <3>2 DEF WrTypeOK, wrBounds
  <2>7. \A pod \in WrPods' : pod = NoManifest
    BY <2>2 DEF WrNoJob
  <2>8. ReferencesResolve'
    BY <2>7 DEF ReferencesResolve, PodWired, NoManifest
  <2>9. WrSecretKept' /\ PasswordFits'
    <3>1. CASE s.policy = "Delete" \/ wrCred.owned
      <4>1. wrCred' = NoCred /\ "db-credentials" \notin wrObjs'
        BY <2>1, <3>1
      <4>2. wrOrphans' = wrOrphans
              \cup {v \in WrDatabases : wrVolumes[v] # EmptyVolume}
        BY <2>1, <3>1 DEF WrInv, WrSecretKept
      <4> QED BY <2>2, <4>1, <4>2 DEF WrInv, WrSecretKept, PasswordFits
    <3>2. CASE ~(s.policy = "Delete" \/ wrCred.owned)
      <4>1. wrCred' = wrCred /\ wrOrphans' = wrOrphans
            /\ ("db-credentials" \in wrObjs <=> "db-credentials" \in wrObjs')
        BY <2>1, <3>2
      <4> QED BY <2>2, <4>1 DEF WrInv, WrSecretKept, PasswordFits
    <3> QED BY <3>1, <3>2
  <2>10. WrOneCopy' /\ WrBehind' /\ WrNetBuilt'
    BY <2>2, <2>3 DEF WrOneCopy, WrBehind, WrNetBuilt
  <2> QED BY <2>6, <2>8, <2>9, <2>10 DEF WrInv
<1>3. ASSUME NEW v \in WrDatabases, DatabaseStarts(v) PROVE WrInv'
  <2>1. /\ "db-credentials" \in wrObjs /\ wrVolumes[v] = EmptyVolume
        /\ wrVolumes' = [wrVolumes EXCEPT ![v] = [dbName |-> wrCred.dbName,
                                                  pw |-> wrCred.pw]]
        /\ UNCHANGED <<wrPlatform, wrSpec, wrOp, wrObjs, wrCred, wrSts,
                       wrOrphans, wrPw, wrWork, wrNet, wrDone, wrBounds>>
    BY <1>3 DEF DatabaseStarts
  <2>2. wrVolumes' \in [WrDatabases -> [dbName : {"none", "name", "name_db"},
                                        pw : Nat]]
    BY <2>1, <1>t DEF WrTypeOK
  <2>3. WrTypeOK'
    BY <1>t, <2>1, <2>2 DEF WrTypeOK, wrOp, wrWork, wrNet, wrBounds
  <2>4. ReferencesResolve'
    BY <2>1, PodsUnchanged DEF WrInv
  <2>5. v \notin wrOrphans /\ wrCred # NoCred
    BY <2>1 DEF WrInv, WrSecretKept
  <2>6. \A w \in WrDatabases :
           wrVolumes'[w] = IF w = v THEN [dbName |-> wrCred.dbName,
                                          pw |-> wrCred.pw]
                             ELSE wrVolumes[w]
    BY <2>1, <1>t DEF WrTypeOK
  <2>7. PasswordFits'
    BY <2>1, <2>6 DEF WrInv, PasswordFits
  <2>8. WrSecretKept'
    BY <2>1, <2>5, <2>6, <1>t DEF WrInv, WrSecretKept, WrTypeOK
  <2>9. WrOneCopy' /\ WrBehind' /\ WrNetBuilt'
    BY <2>1 DEF WrInv, WrOneCopy, WrBehind, WrNetBuilt, WrBuilt, wrOp, wrNet
  <2> QED BY <2>3, <2>4, <2>7, <2>8, <2>9 DEF WrInv
<1>4. ASSUME NEW i \in WrImages, WrJobEnds(i) PROVE WrInv'
  <2>1. PICK st \in {"ok", "failed"} : wrJobs' = [wrJobs EXCEPT ![i].st = st]
    BY <1>4 DEF WrJobEnds
  <2>2. UNCHANGED <<wrPlatform, wrSpec, wrOp, wrObjs, wrData, wrWeb, wrCache,
                    wrNet, wrDone, wrBounds>>
    BY <1>4 DEF WrJobEnds
  <2>3. /\ wrJobs' \in [WrImages -> WrJobRecords]
        /\ \A j \in WrImages : wrJobs'[j].pod = wrJobs[j].pod
    BY <2>1, <1>t DEF WrTypeOK, WrJobRecords
  <2>4. WrTypeOK'
    BY <1>t, <2>2, <2>3 DEF WrTypeOK, wrOp, wrData, wrNet, wrBounds
  <2>5. WrPods' = WrPods
    BY <2>2, <2>3
  <2>6. ReferencesResolve'
    BY <2>2, <2>5 DEF WrInv, ReferencesResolve, PodWired, CloudManaged
  <2>7. WrSecretKept' /\ PasswordFits'
    BY <2>2, SecretsUntouched
  <2>8. WrOneCopy' /\ WrBehind' /\ WrNetBuilt'
    BY <2>2 DEF WrInv, WrOneCopy, WrBehind, WrNetBuilt, WrBuilt, wrOp, wrNet
  <2> QED BY <2>4, <2>6, <2>7, <2>8 DEF WrInv
<1>5. ASSUME WrBeginReconcile \/ WrReconcileFails PROVE WrInv'
  <2>1. UNCHANGED <<wrPlatform, wrSpec, wrObjs, wrData, wrWork, wrNet, wrDone,
                    wrBounds>>
    BY <1>5 DEF WrBeginReconcile, WrReconcileFails
  <2>2. \/ wrPc' = "redis" /\ wrApp' = wrSpec /\ wrSpec # {}
        \/ wrPc' = "idle" /\ wrApp' = {}
    BY <1>5 DEF WrBeginReconcile, WrReconcileFails
  <2>3. WrTypeOK'
    BY <1>t, <2>1, <2>2 DEF WrTypeOK, wrData, wrWork, wrNet, wrBounds, WrPcs
  <2>4. ReferencesResolve'
    BY <2>1, PodsUnchanged DEF WrInv
  <2>5. WrSecretKept' /\ PasswordFits'
    BY <2>1, SecretsUntouched
  <2>6. WrOneCopy'
    BY <2>1, <2>2 DEF WrInv, WrOneCopy
  <2>7. WrBehind'
    BY <2>2 DEF WrBehind, WrToCore, WrToJwt, WrToPlugins, WrToAccount, WrToDb1,
                WrToDb2
  <2>8. WrNetBuilt'
    BY <2>1, <2>2 DEF WrInv, WrNetBuilt, WrBuilt, wrNet
  <2> QED BY <2>3, <2>4, <2>5, <2>6, <2>7, <2>8 DEF WrInv
<1>6. ASSUME NEW s \in WrSpecs, ProvideRedisSecret(s) PROVE WrInv'
  <2>1. /\ wrPc = "redis" /\ wrApp = {s} /\ Provide(s.redis, "redis-credentials")
        /\ WrGoto("core")
    BY <1>6, TheCopy DEF ProvideRedisSecret, WrAt
  <2>2. /\ wrObjs \subseteq wrObjs'
        /\ s.redis => "redis-credentials" \in wrObjs'
        /\ wrApp' = {s} /\ wrPc' = "core" /\ wrPlatform' = wrPlatform
    BY <2>1, SpecFields DEF Provide, WrGoto
  <2>3. WrBehind'
    BY <2>1, <2>2, SpecFields
       DEF WrInv, WrBehind, WrToCore, WrToJwt, WrToPlugins, WrToAccount,
           WrToDb1, WrToDb2
  <2> QED BY <2>1, <2>3, ProvideStep, SpecFields DEF Nameables, WrPcs
<1>7. ASSUME NEW s \in WrSpecs, ProvideCoreSecret(s) PROVE WrInv'
  <2>1. /\ wrPc = "core" /\ wrApp = {s} /\ Provide(TRUE, "core-secret-key")
        /\ WrGoto("jwt")
    BY <1>7, TheCopy DEF ProvideCoreSecret, WrAt
  <2>2. /\ wrObjs \subseteq wrObjs'
        /\ "core-secret-key" \in wrObjs'
        /\ wrApp' = {s} /\ wrPc' = "jwt" /\ wrPlatform' = wrPlatform
    BY <2>1, SpecFields DEF Provide, WrGoto
  <2>3. WrBehind'
    BY <2>1, <2>2, SpecFields
       DEF WrInv, WrBehind, WrToCore, WrToJwt, WrToPlugins, WrToAccount,
           WrToDb1, WrToDb2
  <2> QED BY <2>1, <2>3, ProvideStep, SpecFields DEF Nameables, WrPcs
<1>8. ASSUME NEW s \in WrSpecs, ProvideJwtSecret(s) PROVE WrInv'
  <2>1. /\ wrPc = "jwt" /\ wrApp = {s} /\ Provide(s.jwt, "jwt-secret")
        /\ WrGoto("plugins")
    BY <1>8, TheCopy DEF ProvideJwtSecret, WrAt
  <2>2. /\ wrObjs \subseteq wrObjs'
        /\ s.jwt => "jwt-secret" \in wrObjs'
        /\ wrApp' = {s} /\ wrPc' = "plugins" /\ wrPlatform' = wrPlatform
    BY <2>1, SpecFields DEF Provide, WrGoto
  <2>3. WrBehind'
    BY <2>1, <2>2, SpecFields
       DEF WrInv, WrBehind, WrToCore, WrToJwt, WrToPlugins, WrToAccount,
           WrToDb1, WrToDb2
  <2> QED BY <2>1, <2>3, ProvideStep, SpecFields DEF Nameables, WrPcs
<1>9. ASSUME NEW s \in WrSpecs, ProvidePluginConfig(s) PROVE WrInv'
  <2>1. /\ wrPc = "plugins" /\ wrApp = {s} /\ Provide(s.plugins, "plugins")
        /\ WrGoto("account")
    BY <1>9, TheCopy DEF ProvidePluginConfig, WrAt
  <2>2. /\ wrObjs \subseteq wrObjs'
        /\ s.plugins => "plugins" \in wrObjs'
        /\ wrApp' = {s} /\ wrPc' = "account" /\ wrPlatform' = wrPlatform
    BY <2>1, SpecFields DEF Provide, WrGoto
  <2>3. WrBehind'
    BY <2>1, <2>2, SpecFields
       DEF WrInv, WrBehind, WrToCore, WrToJwt, WrToPlugins, WrToAccount,
           WrToDb1, WrToDb2
  <2> QED BY <2>1, <2>3, ProvideStep, SpecFields DEF Nameables, WrPcs
<1>10. ASSUME NEW s \in WrSpecs, ProvideAccount(s) PROVE WrInv'
  <2>1. /\ wrPc = "account" /\ wrApp = {s} /\ Provide(s.sa, "app")
        /\ WrGoto("db1")
    BY <1>10, TheCopy DEF ProvideAccount, WrAt
  <2>2. /\ wrObjs \subseteq wrObjs'
        /\ s.sa => "app" \in wrObjs'
        /\ wrApp' = {s} /\ wrPc' = "db1" /\ wrPlatform' = wrPlatform
    BY <2>1, SpecFields DEF Provide, WrGoto
  <2>3. WrBehind'
    BY <2>1, <2>2, SpecFields
       DEF WrInv, WrBehind, WrToCore, WrToJwt, WrToPlugins, WrToAccount,
           WrToDb1, WrToDb2
  <2> QED BY <2>1, <2>3, ProvideStep, SpecFields DEF Nameables, WrPcs
<1>11. ASSUME NEW s \in WrSpecs, Database1(s) \/ Database2(s) PROVE WrInv'
  <2>1. /\ wrPc \in {"db1", "db2"} /\ wrApp = {s} /\ wrApp' = {s}
        /\ wrPc' \in {"db2", "job"}
    BY <1>11, TheCopy DEF Database1, Database2, WrAt, WrGoto
  <2>2. UNCHANGED <<wrPlatform, wrSpec, wrVolumes, wrOrphans, wrWork, wrNet,
                    wrDone, wrBounds>>
    BY <1>11 DEF Database1, Database2
  <2>3. \/ NoDatabaseObjects
        \/ ServeDatabase("db", "svc-db")
        \/ ServeDatabase("postgresql", "svc-postgresql")
        \/ SecretIfAbsent(IntrospectedCred) /\ UNCHANGED wrSts
        \/ SecretIfAbsent(ExplicitCred) /\ UNCHANGED wrSts
    BY <1>11 DEF Database1, Database2
  <2>4. /\ wrObjs \subseteq wrObjs' /\ wrObjs' \subseteq Nameables
        /\ wrCred' \in [dbName : {"none", "name", "name_db"}, pw : Nat,
                         owned : BOOLEAN]
        /\ wrSts' \subseteq WrDatabases /\ wrPw' \in Nat
        /\ ReferencesResolve' /\ WrSecretKept' /\ PasswordFits'
    BY <2>2, <2>3, DatabaseObjects
  <2>5. WrTypeOK'
    BY <1>t, <2>1, <2>2, <2>4 DEF WrTypeOK, wrWork, wrNet, wrBounds, WrPcs
  <2>6. WrOneCopy'
    BY <2>1, <2>2 DEF WrInv, WrOneCopy
  <2>7. WrNetBuilt'
    BY <2>1, <2>2, <2>4 DEF WrInv, WrNetBuilt, WrBuilt, wrNet
  <2>8. /\ s.redis => "redis-credentials" \in wrObjs'
        /\ "core-secret-key" \in wrObjs'
        /\ s.jwt => "jwt-secret" \in wrObjs'
        /\ s.plugins => "plugins" \in wrObjs'
        /\ s.sa => "app" \in wrObjs'
    BY <2>1, <2>4, SpecFields
       DEF WrInv, WrBehind, WrToCore, WrToJwt, WrToPlugins, WrToAccount
  <2>9. CASE Database1(s)
    <3>1. wrPc = "db1" /\ wrPlatform \in {"onpremise", "cloud"}
      BY <2>9, <1>t, WrAssumption DEF Database1, WrAt, WrTypeOK
    <3>2. s.db = "introspect" => "db-credentials" \in wrObjs' /\ wrPc' = "db2"
      BY <2>9 DEF Database1, SecretIfAbsent, WrGoto
    <3>3. s.db = "explicit" /\ wrPlatform = "onpremise"
            => "svc-db" \in wrObjs' /\ wrPc' = "db2"
      BY <2>9 DEF Database1, ServeDatabase, WrGoto
    <3>4. s.db = "explicit" /\ wrPlatform = "cloud"
            => wrPc' = "db2" \/ (s.sqlite /\ wrPc' = "job")
      BY <2>9 DEF Database1, WrGoto
    <3>5. WrBehind'
      BY <2>1, <2>2, <2>8, <3>1, <3>2, <3>3, <3>4
         DEF WrBehind, WrToDb1, WrToDb2
    <3> QED BY <2>4, <2>5, <2>6, <2>7, <3>5 DEF WrInv
  <2>10. CASE Database2(s)
    <3>1. wrPc = "db2" /\ wrPc' = "job"
      BY <2>10 DEF Database2, WrAt, WrGoto
    <3>2. /\ s.db = "introspect" => "svc-postgresql" \in wrObjs'
          /\ s.db = "explicit" => "db-credentials" \in wrObjs'
      BY <2>10 DEF Database2, SecretIfAbsent, ServeDatabase
    <3>3. /\ s.db = "introspect" => "db-credentials" \in wrObjs'
          /\ s.db = "explicit" /\ wrPlatform = "onpremise"
               => "svc-db" \in wrObjs'
      BY <2>1, <2>4, <3>1
         DEF WrInv, WrBehind, WrToDb1, WrToAccount, WrToPlugins, WrToJwt, WrToCore
    <3>4. WrBehind'
      BY <2>1, <2>2, <2>8, <3>2, <3>3 DEF WrBehind
    <3> QED BY <2>4, <2>5, <2>6, <2>7, <3>4 DEF WrInv
  <2> QED BY <1>11, <2>9, <2>10
<1>12. ASSUME NEW s \in WrSpecs, WrMigrate(s) PROVE WrInv'
  <2>1. wrPc = "job" /\ wrApp = {s}
    BY <1>12, TheCopy DEF WrMigrate, WrAt
  <2>2. UNCHANGED <<wrPlatform, wrSpec, wrObjs, wrData, wrWeb, wrCache, wrNet,
                    wrDone, wrBounds>>
    BY <1>12 DEF WrMigrate
  <2>3. \/ wrPc' = "deployment" /\ wrApp' = {s}
        \/ wrPc' = "idle" /\ wrApp' = {}
    BY <1>12, <2>1 DEF WrMigrate, WrGoto
  <2>4. PICK q : q = AppPod(s)
    OBVIOUS
  <2>5. \/ wrJobs' = wrJobs
        \/ wrJobs' = [wrJobs EXCEPT ![s.image] = [st |-> "running", pod |-> q]]
    BY <1>12, <2>4 DEF WrMigrate
  <2>6. /\ wrJobs' \in [WrImages -> WrJobRecords]
        /\ \A i \in WrImages : wrJobs'[i].pod \in {wrJobs[i].pod, q}
    BY <1>t, <2>4, <2>5, BuilderTypes, SpecFields DEF WrTypeOK, WrJobRecords
  <2>7. WrTypeOK'
    BY <1>t, <2>1, <2>2, <2>3, <2>6 DEF WrTypeOK, wrData, wrNet, wrBounds, WrPcs
  <2>8. PodWired(q)'
    <3>1. PodWired(q)
      BY <1>t, <2>1, <2>4, CopyWired DEF WrInv
    <3> QED BY <2>2, <3>1 DEF PodWired, CloudManaged
  <2>9. WrPods' \subseteq WrPods \cup {q}
    BY <2>2, <2>6
  <2>10. ReferencesResolve'
    BY <2>2, <2>8, <2>9, PodsStayWired DEF WrInv
  <2>11. WrSecretKept' /\ PasswordFits'
    BY <2>2, SecretsUntouched
  <2>12. WrOneCopy'
    BY <2>1, <2>2, <2>3 DEF WrInv, WrOneCopy
  <2>13. WrBehind' /\ WrNetBuilt'
    BY <2>1, <2>2, <2>3
       DEF WrInv, WrBehind, WrNetBuilt, WrBuilt, wrNet, WrToCore, WrToJwt,
           WrToPlugins, WrToAccount, WrToDb1, WrToDb2
  <2> QED BY <2>7, <2>10, <2>11, <2>12, <2>13 DEF WrInv
<1>13. ASSUME NEW s \in WrSpecs, WrApplyDeployment(s) PROVE WrInv'
  <2>1. wrPc = "deployment" /\ wrApp = {s} /\ wrApp' = {s} /\ wrPc' = "service"
    BY <1>13, TheCopy DEF WrApplyDeployment, WrAt, WrGoto
  <2>2. UNCHANGED <<wrPlatform, wrSpec, wrObjs, wrData, wrJobs, wrCache, wrNet,
                    wrDone, wrBounds>>
    BY <1>13 DEF WrApplyDeployment
  <2>3. PICK q : q = AppPod(s)
    OBVIOUS
  <2>4. wrWeb' = q /\ q \in Manifests
    BY <1>13, <2>3, BuilderTypes DEF WrApplyDeployment
  <2>5. WrTypeOK'
    BY <1>t, <2>1, <2>2, <2>4 DEF WrTypeOK, wrData, wrNet, wrBounds, WrPcs
  <2>6. PodWired(q)'
    <3>1. PodWired(q)
      BY <1>t, <2>1, <2>3, CopyWired DEF WrInv
    <3> QED BY <2>2, <3>1 DEF PodWired, CloudManaged
  <2>7. WrPods' \subseteq WrPods \cup {q}
    BY <2>2, <2>4
  <2>8. ReferencesResolve'
    BY <2>2, <2>6, <2>7, PodsStayWired DEF WrInv
  <2>9. WrSecretKept' /\ PasswordFits'
    BY <2>2, SecretsUntouched
  <2>10. WrOneCopy'
    BY <2>1, <2>2 DEF WrInv, WrOneCopy
  <2>11. WrBehind' /\ WrNetBuilt'
    BY <2>1, <2>2
       DEF WrInv, WrBehind, WrNetBuilt, WrBuilt, wrNet, WrToCore, WrToJwt,
           WrToPlugins, WrToAccount, WrToDb1, WrToDb2
  <2> QED BY <2>5, <2>8, <2>9, <2>10, <2>11 DEF WrInv
<1>14. ASSUME NEW s \in WrSpecs, ApplyService(s) \/ ApplyIngress(s) PROVE WrInv'
  <2>1. /\ wrApp = {s} /\ wrApp' = {s}
        /\ \/ /\ wrPc = "service" /\ wrPc' = "ingress"
              /\ wrService' = ServicePorts(s) /\ wrIngress' = wrIngress
           \/ /\ wrPc = "ingress" /\ wrPc' = "cache" /\ wrService' = wrService
              /\ wrIngress' = IF s.routed THEN IngressPorts(s) ELSE wrIngress
    BY <1>14, TheCopy DEF ApplyService, ApplyIngress, WrAt, WrGoto
  <2>2. UNCHANGED <<wrPlatform, wrSpec, wrObjs, wrData, wrWork, wrDone, wrBounds>>
    BY <1>14 DEF ApplyService, ApplyIngress
  <2>3. WrTypeOK'
    BY <1>t, <2>1, <2>2, BuilderTypes
       DEF WrTypeOK, wrData, wrWork, wrBounds, WrPcs
  <2>4. ReferencesResolve'
    BY <2>2, PodsUnchanged DEF WrInv
  <2>5. WrSecretKept' /\ PasswordFits'
    BY <2>2, SecretsUntouched
  <2>6. WrOneCopy'
    BY <2>1, <2>2 DEF WrInv, WrOneCopy
  <2>7. WrBehind'
    BY <2>1, <2>2
       DEF WrInv, WrBehind, WrToCore, WrToJwt, WrToPlugins, WrToAccount,
           WrToDb1, WrToDb2
  <2>8. WrNetBuilt'
    <3>1. wrDone => wrSpec = {s}
      BY <2>1 DEF WrInv, WrOneCopy
    <3>2. wrDone => (s.redis => "svc-redis" \in wrObjs)
      BY <3>1 DEF WrInv, WrNetBuilt
    <3>3. CASE wrPc = "service"
      BY <2>1, <2>2, <3>1, <3>2, <3>3 DEF WrInv, WrNetBuilt, WrBuilt
    <3>4. CASE wrPc = "ingress"
      BY <2>1, <2>2, <3>1, <3>2, <3>4 DEF WrInv, WrNetBuilt, WrBuilt
    <3> QED BY <2>1, <3>3, <3>4
  <2> QED BY <2>3, <2>4, <2>5, <2>6, <2>7, <2>8 DEF WrInv
<1>15. ASSUME NEW s \in WrSpecs, ApplyCache(s) PROVE WrInv'
  <2>1. wrPc = "cache" /\ wrApp = {s} /\ wrApp' = {} /\ wrPc' = "idle"
    BY <1>15, TheCopy DEF ApplyCache, WrAt
  <2>2. /\ wrCache' = IF s.redis THEN RedisPod ELSE wrCache
        /\ wrObjs' = IF s.redis THEN wrObjs \cup {"svc-redis"} ELSE wrObjs
        /\ wrDone' = (wrApp = wrSpec)
        /\ UNCHANGED <<wrPlatform, wrSpec, wrData, wrJobs, wrWeb, wrNet, wrBounds>>
    BY <1>15 DEF ApplyCache
  <2>3. wrObjs \subseteq wrObjs' /\ wrObjs' \subseteq Nameables
    BY <1>t, <2>2 DEF WrTypeOK, Nameables
  <2>4. WrTypeOK'
    BY <1>t, <2>1, <2>2, <2>3, BuilderTypes
       DEF WrTypeOK, wrData, wrNet, wrBounds, WrPcs
  <2>5. ReferencesResolve'
    <3>1. CASE s.redis
      <4>1. PICK q : q = RedisPod
        OBVIOUS
      <4>2. "redis-credentials" \in wrObjs'
        BY <2>1, <2>3, <3>1 DEF WrInv, WrBehind
      <4>3. PodWired(q)'
        BY <4>1, <4>2 DEF PodWired, RedisPod, NoManifest
      <4>4. WrPods' \subseteq WrPods \cup {q}
        BY <2>2, <3>1, <4>1
      <4> QED BY <2>2, <2>3, <4>3, <4>4, PodsStayWired DEF WrInv
    <3>2. CASE ~s.redis
      BY <2>2, <3>2, PodsUnchanged DEF WrInv, wrWork
    <3> QED BY <3>1, <3>2
  <2>6. WrSecretKept' /\ PasswordFits'
    BY <2>2, SecretsUntouched
  <2>7. WrOneCopy' /\ WrBehind'
    BY <2>1, <2>2 DEF WrInv, WrOneCopy, WrBehind
  <2>8. WrNetBuilt'
    <3>1. WrBuilt(s) /\ wrService' = wrService /\ wrIngress' = wrIngress
      BY <2>1, <2>2 DEF WrInv, WrNetBuilt, wrNet
    <3>2. wrDone' => wrSpec' = {s}
      BY <2>1, <2>2
    <3>3. s.redis => "svc-redis" \in wrObjs'
      BY <2>2
    <3> QED BY <2>1, <3>1, <3>2, <3>3 DEF WrNetBuilt, WrBuilt
  <2> QED BY <2>4, <2>5, <2>6, <2>7, <2>8 DEF WrInv
<1> QED
  BY <1>0, <1>1, <1>2, <1>3, <1>4, <1>5, <1>6, <1>7, <1>8, <1>9, <1>10, <1>11,
     <1>12, <1>13, <1>14, <1>15 DEF WiringNext, WrStep

\* The invariant of the builders and the reconcile: types, one copy at a time,
\* the objects of the steps behind it, every Pod's references, the Secret and
\* the volumes initialised from it, the ports last built.
THEOREM WrInvariance == WrSpec => []WrInv
<1>1. WrInit => WrInv
  BY WrInitInv
<1>2. WrInv /\ [WiringNext]_wrVars => WrInv'
  BY WrStepInv
<1> QED BY <1>1, <1>2, PTL DEF WrSpec

\* For any specs a user writes, in any order of edits, failed reconciles and
\* recreations: every object that a Pod template names exists, the Secret
\* opens every database initialised from it, and a finished reconcile leaves
\* an Ingress that names ports of the Service (build_application_env_vars,
\* apply_db_secret_if_absent, build_service, build_ingress).
THEOREM Wired == WrSpec => []WorkloadsWired
<1>1. WrInv => WorkloadsWired
  <2> SUFFICES ASSUME WrInv PROVE WorkloadsWired
    OBVIOUS
  <2>1. ServicesReached
    <3> SUFFICES ASSUME wrDone, NEW s \in wrSpec
                 PROVE  /\ s.routed
                             /\ (s.target # WrUnset \/ s.appPort = WrUnset)
                             => wrIngress \subseteq wrService
                        /\ s.redis => "svc-redis" \in wrObjs
      BY DEF ServicesReached
    <3>1. s \in WrSpecs
      BY DEF WrInv, WrTypeOK
    <3>2. WrBuilt(s) /\ (s.redis => "svc-redis" \in wrObjs)
      BY DEF WrInv, WrNetBuilt
    <3> QED BY <3>1, <3>2, PortsAgree DEF WrBuilt
  <2> QED BY <2>1 DEF WrInv, WorkloadsWired
<1> QED BY <1>1, WrInvariance, PTL
=============================================================================
