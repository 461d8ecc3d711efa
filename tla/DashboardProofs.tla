--------------------------- MODULE DashboardProofs ---------------------------
(***************************************************************************)
(* Proofs about the dashboard's accounts and clusters, for every set of    *)
(* clusters and requests and any number of tokens and sessions; the last   *)
(* section puts them together with those of the webhook pipeline for the   *)
(* specification MCDashboard composes.                                     *)
(***************************************************************************)
EXTENDS MCDashboard, SourcePipelineProofs, FiniteSetTheorems, SequenceTheorems,
        TLAPS

-----------------------------------------------------------------------------
(* ClusterTokens *)

LEMMA ClInitInv == ClInit => ClInv
BY DEF ClInit, ClInv, ClTypeOK, HashIsCurrent, LoadedLive, NoRow, NoReq,
       ClRows, ClTokens, NoToken, Live

\* What writing a loaded row does to the rows.
LEMMA WriteRowInv ==
  ASSUME ClInv, NEW r \in ClRequests, NEW new \in ClRows,
         clReq[r].kind # "none", new.state = "live", WriteRow(r, new),
         clCurrent' \in [ClPks -> ClTokens \cup {NoToken}],
         \A k \in ClPks \ {clReq[r].pk} : clCurrent'[k] = clCurrent[k],
         \/ new.hash = clCurrent'[clReq[r].pk]
         \/ /\ new.hash = clReq[r].row.hash
            /\ clCurrent'[clReq[r].pk] = clCurrent[clReq[r].pk]
  PROVE  /\ clRow' \in [ClPks -> ClRows]
         /\ clLost' \subseteq ClPks
         /\ HashIsCurrent'
<1> DEFINE p == clReq[r].pk
<1>1. p \in ClPks /\ Live(p)
  BY DEF ClInv, LoadedLive, WriteRow
<1>2. clRow' = [clRow EXCEPT ![p] = new] /\ clRow \in [ClPks -> ClRows]
  BY DEF WriteRow, ClInv, ClTypeOK
<1>3. clRow' \in [ClPks -> ClRows] /\ clLost' \subseteq ClPks
  BY <1>1, <1>2 DEF WriteRow, ClInv, ClTypeOK
<1>4. ASSUME NEW k \in ClPks, Live(k)', k \notin clLost'
      PROVE  clRow'[k].hash = clCurrent'[k]
  <2>1. k \notin clLost
    BY <1>4 DEF WriteRow
  <2>2. CASE k # p
    BY <2>1, <2>2, <1>2, <1>4 DEF ClInv, HashIsCurrent, Live
  <2>3. CASE k = p
    <3>1. clRow[p].hash = clReq[r].row.hash
      BY <2>3, <1>4, <1>1 DEF WriteRow
    <3>2. clRow'[p].hash = new.hash
      BY <1>1, <1>2
    <3>3. clRow[p].hash = clCurrent[p]
      BY <1>1, <2>1, <2>3 DEF ClInv, HashIsCurrent
    <3> QED BY <2>3, <3>1, <3>2, <3>3
  <2> QED BY <2>2, <2>3
<1> QED BY <1>3, <1>4 DEF HashIsCurrent

\* The new token is recorded for its cluster.
LEMMA IssueTypes ==
  ASSUME ClTypeOK, NEW t \in ClTokens, NEW k \in ClPks, Issue(t, k)
  PROVE  /\ clCurrent' \in [ClPks -> ClTokens \cup {NoToken}]
         /\ DOMAIN clIssued' \subseteq ClTokens
         /\ \A s \in DOMAIN clIssued' : clIssued'[s] \in ClPks
         /\ clCurrent'[k] = t
         /\ \A j \in ClPks \ {k} : clCurrent'[j] = clCurrent[j]
BY DEF ClTypeOK, Issue

LEMMA ClStepInv == ClInv /\ [ClustersNext]_clVars => ClInv'
<1> SUFFICES ASSUME ClInv, [ClustersNext]_clVars PROVE ClInv'
  OBVIOUS
<1>t. ClTypeOK
  BY DEF ClInv
<1>0. CASE UNCHANGED clVars
  BY <1>0 DEF clVars, ClInv, ClTypeOK, HashIsCurrent, LoadedLive, Live
<1>1. ASSUME NEW r \in ClRequests, NEW k \in ClPks, CreateCluster(r, k)
      PROVE  ClInv'
  <2>1. PICK t \in ClTokens :
          /\ Issue(t, k)
          /\ clRow' = [clRow EXCEPT ![k] = [state |-> "live", active |-> TRUE,
                                            hash |-> t]]
    BY <1>1 DEF CreateCluster
  <2>2. clRow' \in [ClPks -> ClRows]
    BY <2>1, <1>t DEF ClTypeOK, ClRows
  <2>7. PICK q : q = [kind |-> "reply", pk |-> k, row |-> clRow'[k]]
    OBVIOUS
  <2>8. clReq' = [clReq EXCEPT ![r] = q]
    BY <1>1, <2>7 DEF CreateCluster
  <2>9. /\ q.kind = "reply" /\ q.pk = k /\ q.row = clRow'[k]
        /\ q \in [kind : {"none", "update", "rotate", "reply"},
                  pk : ClPks \cup {0}, row : ClRows]
    BY <2>2, <2>7
  <2>10. clRow'[k].state = "live" /\ clRow'[k].hash # NoToken
    BY <1>t, <2>1, ClAssumption DEF ClTypeOK, ClTokens, NoToken
  <2>3. ClTypeOK'
    BY <1>1, <1>t, <2>1, <2>2, <2>8, <2>9, IssueTypes DEF CreateCluster, ClTypeOK
  <2>4. clCurrent'[k] = t /\ \A j \in ClPks \ {k} : clCurrent'[j] = clCurrent[j]
    BY <1>t, <2>1, IssueTypes
  <2>5. ASSUME NEW j \in ClPks, Live(j)', j \notin clLost'
        PROVE  clRow'[j].hash = clCurrent'[j]
    BY <1>1, <1>t, <2>1, <2>4, <2>5
       DEF CreateCluster, ClInv, HashIsCurrent, Live, ClTypeOK
  <2>6. LoadedLive'
    BY <1>t, <2>8, <2>9, <2>10 DEF ClInv, ClTypeOK, LoadedLive
  <2> QED BY <2>3, <2>5, <2>6 DEF ClInv, HashIsCurrent
<1>2. ASSUME NEW k \in ClPks, DeleteCluster(k) PROVE ClInv'
  BY <1>2 DEF DeleteCluster, ClInv, ClTypeOK, HashIsCurrent, LoadedLive, Live,
              NoRow, ClRows, NoToken
<1>3. ASSUME NEW k \in ClPks, SubmitDeployment(k) \/ DeleteDeployment(k)
      PROVE  ClInv'
  BY <1>3 DEF SubmitDeployment, DeleteDeployment, ClInv, ClTypeOK,
              HashIsCurrent, LoadedLive, Live
<1>4. ASSUME NEW r \in ClRequests, NEW kind \in {"update", "rotate"},
             NEW k \in ClPks, LoadCluster(r, kind, k)
      PROVE  ClInv'
  BY <1>4 DEF LoadCluster, ClInv, ClTypeOK, HashIsCurrent, LoadedLive, Live
<1>5. ASSUME NEW r \in ClRequests, NEW active \in BOOLEAN,
             UpdateCluster(r, active)
      PROVE  ClInv'
  <2>1. PICK new : new = [clReq[r].row EXCEPT !.active = active]
    OBVIOUS
  <2>2. new \in ClRows /\ new.hash = clReq[r].row.hash /\ new.state = "live"
    BY <1>5, <2>1 DEF ClInv, ClTypeOK, ClRows, LoadedLive, UpdateCluster
  <2>3. WriteRow(r, new) /\ clReq[r].kind # "none" /\ clCurrent' = clCurrent
    BY <1>5, <2>1 DEF UpdateCluster
  <2>4. /\ clRow' \in [ClPks -> ClRows] /\ clLost' \subseteq ClPks
        /\ HashIsCurrent'
    BY <1>t, <2>2, <2>3, WriteRowInv DEF ClTypeOK
  <2>5. ClTypeOK'
    BY <1>5, <1>t, <2>3, <2>4
       DEF UpdateCluster, WriteRow, ClTypeOK, NoReq, NoRow, ClRows, NoToken
  <2>6. LoadedLive'
    BY <1>5, <1>t DEF UpdateCluster, ClInv, LoadedLive, ClTypeOK, NoReq
  <2> QED BY <2>4, <2>5, <2>6 DEF ClInv
<1>6. ASSUME NEW r \in ClRequests, RotateToken(r) PROVE ClInv'
  <2>1. PICK t \in ClTokens :
          /\ Issue(t, clReq[r].pk)
          /\ WriteRow(r, [clReq[r].row EXCEPT !.hash = t])
          /\ clReq' = [clReq EXCEPT ![r].kind = "reply", ![r].row.hash = t]
    BY <1>6 DEF RotateToken
  <2>2. PICK new : new = [clReq[r].row EXCEPT !.hash = t]
    OBVIOUS
  <2>3. /\ new \in ClRows /\ new.hash = t /\ new.state = "live"
        /\ clReq[r].pk \in ClPks /\ clReq[r].kind # "none"
    BY <1>6, <2>2 DEF ClInv, ClTypeOK, ClRows, LoadedLive, RotateToken
  <2>4. /\ clCurrent' \in [ClPks -> ClTokens \cup {NoToken}]
        /\ DOMAIN clIssued' \subseteq ClTokens
        /\ \A s \in DOMAIN clIssued' : clIssued'[s] \in ClPks
        /\ clCurrent'[clReq[r].pk] = t
        /\ \A j \in ClPks \ {clReq[r].pk} : clCurrent'[j] = clCurrent[j]
    BY <1>t, <2>1, <2>3, IssueTypes
  <2>5. /\ clRow' \in [ClPks -> ClRows] /\ clLost' \subseteq ClPks
        /\ HashIsCurrent'
    BY <2>1, <2>2, <2>3, <2>4, WriteRowInv
  <2>7. PICK q : q = [clReq[r] EXCEPT !.kind = "reply", !.row = new]
    OBVIOUS
  <2>8. clReq' = [clReq EXCEPT ![r] = q]
    BY <1>t, <2>1, <2>2, <2>7 DEF ClTypeOK
  <2>9. /\ q.kind = "reply" /\ q.pk = clReq[r].pk /\ q.row = new
        /\ q \in [kind : {"none", "update", "rotate", "reply"},
                  pk : ClPks \cup {0}, row : ClRows]
    BY <1>t, <2>3, <2>7 DEF ClTypeOK
  <2>6. ClTypeOK'
    BY <1>6, <1>t, <2>4, <2>5, <2>8, <2>9 DEF RotateToken, ClTypeOK
  <2>10. t # NoToken
    BY ClAssumption DEF ClTokens, NoToken
  <2>11. LoadedLive'
    BY <1>t, <2>3, <2>8, <2>9, <2>10 DEF ClInv, ClTypeOK, LoadedLive
  <2> QED BY <2>5, <2>6, <2>11 DEF ClInv
<1>9. ASSUME NEW r \in ClRequests, HandOut(r) PROVE ClInv'
  <2>1. clReq[r].row.hash \in ClTokens
    BY <1>9, <1>t DEF HandOut, ClInv, LoadedLive, ClTypeOK, ClRows
  <2> QED
    BY <1>9, <2>1 DEF HandOut, ClInv, ClTypeOK, HashIsCurrent, LoadedLive, Live,
                      NoReq, NoRow, ClRows, NoToken
<1>7. ASSUME NEW r \in ClRequests, DropEdit(r) PROVE ClInv'
  BY <1>7 DEF DropEdit, ClInv, ClTypeOK, HashIsCurrent, LoadedLive, Live,
              NoReq, NoRow, ClRows, NoToken
<1>8. ASSUME NEW t \in ClTokens, AgentConnects(t) \/ AgentDisconnects(t)
      PROVE  ClInv'
  BY <1>8 DEF AgentConnects, AgentDisconnects, ClInv, ClTypeOK, HashIsCurrent,
              LoadedLive, Live
<1> QED
  BY <1>0, <1>1, <1>2, <1>3, <1>4, <1>5, <1>6, <1>7, <1>8, <1>9
     DEF ClustersNext

\* Every variable of the clusters keeps its type, a row has the hash of its
\* newest token unless an edit was lost, and edits hold live rows.
THEOREM ClInvariance == ClustersSpec => []ClInv
<1>1. ClInit => ClInv
  BY ClInitInv
<1>2. ClInv /\ [ClustersNext]_clVars => ClInv'
  BY ClStepInv
<1> QED BY <1>1, <1>2, PTL DEF ClustersSpec

\* Whatever sequence of rotations, edits and deletions ran, a cluster accepts
\* the newest of its tokens and no other, unless overlapping edits put an
\* earlier hash back (verify_persisted_agent_token).
THEOREM TokensSafe == ClustersSpec => []LastTokenCounts
<1>1. ClInv => LastTokenCounts
  <2> SUFFICES ASSUME ClInv, NEW t \in DOMAIN clIssued, clIssued[t] \notin clLost
               PROVE  Verified(t) <=> /\ t = clCurrent[clIssued[t]]
                                      /\ Live(clIssued[t])
                                      /\ clRow[clIssued[t]].active
    BY DEF LastTokenCounts
  <2>1. clIssued[t] \in ClPks
    BY DEF ClInv, ClTypeOK
  <2>2. Live(clIssued[t]) => clRow[clIssued[t]].hash = clCurrent[clIssued[t]]
    BY <2>1 DEF ClInv, HashIsCurrent
  <2> QED BY <2>2 DEF Verified, Live
<1> QED BY <1>1, ClInvariance, PTL

-----------------------------------------------------------------------------
(* Accounts *)

\* What no step does to the user rows: an id is used once, its email stays,
\* a row that has gone stays away, and an organization lasts as long as its
\* user.
UserStays(u) ==
  acUsers[u].state # "none" =>
    /\ acUsers'[u].state # "none" /\ acUsers'[u].email = acUsers[u].email
    /\ acUsers'[u].state \in {"inactive", "active"} =>
         /\ acUsers[u].state \in {"inactive", "active"}
         /\ acUsers[u].org => acUsers'[u].org

UsersStay == \A u \in AcUids : UserStays(u)

\* What no step does to the flows: a flow keeps the intent it was begun with.
FlowStays(f) ==
  /\ f \in DOMAIN acFlows' /\ acFlows'[f].link = acFlows[f].link
  /\ acFlows'[f].sid = acFlows[f].sid /\ acFlows'[f].user = acFlows[f].user

FlowsStay == \A f \in DOMAIN acFlows : FlowStays(f)

LEMMA SameUsersStay ==
  ASSUME acUsers' = acUsers PROVE UsersStay
BY DEF UsersStay, UserStays

LEMMA SameFlowsStay ==
  ASSUME acFlows' = acFlows PROVE FlowsStay
BY DEF FlowsStay, FlowStays

LEMMA ProvisionedStays ==
  ASSUME AcTypeOK, UsersStay, NEW u \in AcUids \cup {NoAccount}, Provisioned(u)
  PROVE  Provisioned(u)'
<1>1. u # NoAccount /\ u \in AcUids
  BY DEF Provisioned
<1>2. UserStays(u)
  BY <1>1 DEF UsersStay
<1> QED BY <1>1, <1>2 DEF UserStays, Provisioned, HasRow

\* A request that does not move stays sound while users and flows stay.
LEMMA ReqFrame ==
  ASSUME AcTypeOK, UsersStay, FlowsStay, NEW q \in AcRequests, ReqSound(q),
         acReq'[q] = acReq[q]
  PROVE  ReqSound(q)'
<1>1. PICK req : req = acReq[q]
  OBVIOUS
<1>2. req \in Requests /\ acReq'[q] = req
  BY <1>1 DEF AcTypeOK
<1>3. req.user \in AcUids \cup {NoAccount}
  BY <1>2 DEF Requests
<1>4. ReqShape(q)'
  BY <1>1, <1>2 DEF ReqSound, ReqShape, FlowsStay, FlowStays
<1>5. ReqReady(q)'
  <2>1. CASE req.pc \in {"link", "token", "session"}
    <3>1. Provisioned(req.user)
      BY <1>1, <2>1 DEF ReqSound, ReqReady
    <3> QED BY <3>1, <1>2, <1>3, ProvisionedStays DEF ReqReady
  <2> QED BY <2>1, <1>2 DEF ReqReady
<1>6. ReqIntent(q)'
  <2> SUFFICES ASSUME req.kind = "oauth", req.pc # "consume"
               PROVE  ReqIntent(q)'
    BY <1>2 DEF ReqIntent
  <2>1. PICK f : f = acFlows[req.flow]
    OBVIOUS
  <2>2. req.flow \in DOMAIN acFlows
    BY <1>1 DEF ReqSound, ReqShape
  <2>3. /\ acFlows'[req.flow].link = f.link /\ acFlows'[req.flow].sid = f.sid
        /\ acFlows'[req.flow].user = f.user
    BY <2>1, <2>2 DEF FlowsStay, FlowStays
  <2>4. CASE f.link
    <3>1. req.sid = f.sid /\ req.user = f.user /\ req.pc # "create"
      BY <1>1, <2>1, <2>4 DEF ReqSound, ReqIntent
    <3> QED BY <3>1, <2>3, <2>4, <1>2 DEF ReqIntent
  <2>5. CASE ~f.link
    <3>1. CASE req.pc = "link" \/ (req.pc = "ensure" /\ ~req.linked)
      <4>1. ReqMatched(q)
        BY <1>1, <2>1, <2>5, <3>1 DEF ReqSound, ReqIntent
      <4>2. /\ req.user \in AcUids /\ acUsers[req.user].state # "none"
            /\ acUsers[req.user].email = req.claims.email
        BY <4>1, <1>1, <1>3 DEF ReqMatched
      <4>3. UserStays(req.user)
        BY <4>2 DEF UsersStay
      <4>4. ReqMatched(q)'
        BY <4>1, <4>2, <4>3, <1>1, <1>2 DEF UserStays, ReqMatched
      <4> QED BY <4>4, <2>3, <2>5, <1>2 DEF ReqIntent
    <3>2. CASE ~(req.pc = "link" \/ (req.pc = "ensure" /\ ~req.linked))
      BY <3>2, <2>3, <2>5, <1>2 DEF ReqIntent
    <3> QED BY <3>1, <3>2
  <2> QED BY <2>4, <2>5
<1> QED BY <1>4, <1>5, <1>6 DEF ReqSound

LEMMA ReqDone ==
  ASSUME NEW r, acReq'[r] = NoRequest PROVE ReqSound(r)'
<1>1. acReq'[r].pc = "idle" /\ acReq'[r].kind = "none"
  BY DEF NoRequest
<1> QED BY <1>1 DEF ReqSound, ReqShape, ReqReady, ReqIntent

LEMMA NoRequestTyped == NoRequest \in Requests
<1>1. NoClaims \in AcClaims \cup {NoClaims}
  OBVIOUS
<1>2. /\ "idle" \in AcPcs /\ "none" \in AcKinds /\ 0 \in 0 .. AcMaxSessions
      /\ 0 \in 0 .. AcMaxFlows /\ NoAccount \in AcUids \cup {NoAccount}
  BY AcAssumption DEF AcPcs, AcKinds
<1> QED BY <1>1, <1>2 DEF NoRequest, Requests

LEMMA GoesToReq ==
  ASSUME acReq \in [AcRequests -> Requests], NEW r \in AcRequests,
         NEW req \in Requests, acReq' = [acReq EXCEPT ![r] = req]
  PROVE  /\ acReq' \in [AcRequests -> Requests] /\ acReq'[r] = req
         /\ \A q \in AcRequests \ {r} : acReq'[q] = acReq[q]
OBVIOUS

LEMMA GoesToPc ==
  ASSUME acReq \in [AcRequests -> Requests], NEW r \in AcRequests,
         NEW step \in AcPcs, GoesTo(r, step)
  PROVE  /\ acReq' \in [AcRequests -> Requests]
         /\ acReq'[r] = [acReq[r] EXCEPT !.pc = step]
         /\ \A q \in AcRequests \ {r} : acReq'[q] = acReq[q]
<1>1. acReq[r] \in Requests
  OBVIOUS
<1>2. [acReq[r] EXCEPT !.pc = step] \in Requests
  BY <1>1 DEF Requests
<1>3. acReq' = [acReq EXCEPT ![r] = [acReq[r] EXCEPT !.pc = step]]
  BY DEF GoesTo
<1> QED BY <1>2, <1>3, GoesToReq

LEMMA FinishReq ==
  ASSUME acReq \in [AcRequests -> Requests], NEW r \in AcRequests, Finish(r)
  PROVE  /\ acReq' \in [AcRequests -> Requests] /\ acReq'[r] = NoRequest
         /\ \A q \in AcRequests \ {r} : acReq'[q] = acReq[q]
BY NoRequestTyped, GoesToReq DEF Finish

LEMMA SessionsReadyFrame ==
  ASSUME AcTypeOK, AcSessionsReady, UsersStay, acSessions' = acSessions
  PROVE  AcSessionsReady'
<1> SUFFICES ASSUME NEW s \in DOMAIN acSessions, acSessions[s] # NoAccount
             PROVE  Provisioned(acSessions[s])'
  BY DEF AcSessionsReady
<1>1. PICK u : u = acSessions[s]
  OBVIOUS
<1>2. u \in AcUids \cup {NoAccount} /\ Provisioned(u)
  BY <1>1 DEF AcTypeOK, AcSessionsReady
<1> QED BY <1>1, <1>2, ProvisionedStays

\* The step of one request that leaves the session store alone.
LEMMA ReqStep ==
  ASSUME AcInv, AcTypeOK', UsersStay, FlowsStay, acSessions' = acSessions,
         NEW r \in AcRequests, ReqSound(r)',
         \A q \in AcRequests \ {r} : acReq'[q] = acReq[q]
  PROVE  AcInv'
<1>1. AcSessionsReady'
  BY SessionsReadyFrame DEF AcInv
<1>2. ASSUME NEW q \in AcRequests PROVE ReqSound(q)'
  BY ReqFrame DEF AcInv
<1> QED BY <1>1, <1>2 DEF AcInv

LEMMA BeginsReq ==
  ASSUME AcTypeOK, NEW r \in AcRequests, NEW req \in Requests, Begins(r, req)
  PROVE  /\ acReq' \in [AcRequests -> Requests] /\ acReq'[r] = req
         /\ \A q \in AcRequests \ {r} : acReq'[q] = acReq[q]
         /\ acBegun' \in 0 .. AcMaxBegun /\ acFaults' = acFaults
<1>1. acReq' = [acReq EXCEPT ![r] = req] /\ acFaults' = acFaults
  BY DEF Begins
<1>2. acBegun' \in 0 .. AcMaxBegun
  BY AcAssumption DEF Begins, AcTypeOK
<1> QED BY <1>1, <1>2, GoesToReq DEF AcTypeOK

LEMMA FaultCounted ==
  ASSUME AcTypeOK, AcFault PROVE acFaults' \in 0 .. AcMaxFaults
BY AcAssumption DEF AcTypeOK, AcFault

\* An inserted row takes an id no one has had.
LEMMA InsertedUser ==
  ASSUME AcTypeOK, NEW u \in AcUids, NEW s \in {"inactive", "active"},
         NEW p \in BOOLEAN, NEW e \in AcEmails \cup {NoEmail},
         InsertUser(u, s, p, e)
  PROVE  /\ acUsers' \in [AcUids -> AcUsers] /\ UsersStay
         /\ acUsers'[u].state = s /\ acUsers'[u].email = e
<1>1. acUsers[u].state = "none" /\ acUsers \in [AcUids -> AcUsers]
  BY DEF InsertUser, UnusedUids, AcTypeOK
<1>2. PICK user : user = [state |-> s, email |-> e, password |-> p, org |-> FALSE]
  OBVIOUS
<1>3. user \in AcUsers
  BY <1>2 DEF AcUsers
<1>4. acUsers' = [acUsers EXCEPT ![u] = user]
  BY <1>2 DEF InsertUser
<1>5. acUsers'[u] = user /\ \A v \in AcUids \ {u} : acUsers'[v] = acUsers[v]
  BY <1>1, <1>4
<1>6. acUsers' \in [AcUids -> AcUsers]
  BY <1>1, <1>3, <1>4
<1>7. ASSUME NEW v \in AcUids PROVE UserStays(v)
  BY <1>1, <1>5 DEF UserStays
<1> QED BY <1>2, <1>5, <1>6, <1>7 DEF UsersStay

LEMMA AcStart == ASSUME AcInit PROVE AcInv
<1>1. acReq \in [AcRequests -> Requests]
  BY NoRequestTyped DEF AcInit
<1>2. acUsers \in [AcUids -> AcUsers]
  BY DEF AcInit, AcUsers
<1>3. AcTypeOK
  <2>1. acLinks \in [AcIds -> AcUids \cup {NoAccount}] /\ acMailed \subseteq AcUids
    BY DEF AcInit
  <2>2. acSessions \in Seq(AcUids \cup {NoAccount}) /\ acFlows \in Seq(Flows)
    BY DEF AcInit
  <2>3. Len(acSessions) = 0 /\ Len(acFlows) = 0
    BY DEF AcInit
  <2>4. /\ acJar \in 0 .. Len(acSessions) /\ acNonce \in 0 .. Len(acFlows)
        /\ Len(acSessions) <= AcMaxSessions /\ Len(acFlows) <= AcMaxFlows
        /\ acBegun \in 0 .. AcMaxBegun /\ acFaults \in 0 .. AcMaxFaults
    BY <2>3, AcAssumption DEF AcInit
  <2> QED BY <1>1, <1>2, <2>1, <2>2, <2>4 DEF AcTypeOK
<1>4. AcSessionsReady
  BY DEF AcInit, AcSessionsReady
<1>5. ASSUME NEW r \in AcRequests PROVE ReqSound(r)
  <2>1. acReq[r].pc = "idle" /\ acReq[r].kind = "none"
    BY DEF AcInit, NoRequest
  <2> QED BY <2>1 DEF ReqSound, ReqShape, ReqReady, ReqIntent
<1> QED BY <1>3, <1>4, <1>5 DEF AcInv

LEMMA AcDrop ==
  ASSUME AcInv, NEW r \in AcRequests, Drop(r) PROVE AcInv'
<1>0. AcTypeOK BY DEF AcInv
<1>1. Finish(r) /\ UNCHANGED <<acRows, acMailed, acStores, acCookies, acBegun>>
  BY DEF Drop
<1>2. acFaults' \in 0 .. AcMaxFaults
  BY <1>0, FaultCounted DEF Drop
<1>3. AcTypeOK'
  BY <1>0, <1>1, <1>2, FinishReq DEF AcTypeOK, acRows, acStores, acCookies
<1> QED BY <1>0, <1>1, <1>3, FinishReq, ReqDone, ReqStep, SameUsersStay,
           SameFlowsStay DEF AcTypeOK, acRows, acStores

LEMMA AcRegister ==
  ASSUME AcInv, NEW r \in AcRequests, RegisterInactiveUser(r) PROVE AcInv'
<1>0. AcTypeOK BY DEF AcInv
<1>1. PICK u \in AcUids, e \in AcEmails :
        /\ InsertUser(u, "inactive", TRUE, e)
        /\ Begins(r, [NoRequest EXCEPT !.pc = "mail", !.kind = "register",
                                       !.user = u])
  BY DEF RegisterInactiveUser
<1>2. UNCHANGED <<acLinks, acMailed, acStores, acCookies>>
  BY DEF RegisterInactiveUser
<1>3. PICK req : req = [NoRequest EXCEPT !.pc = "mail", !.kind = "register",
                                         !.user = u]
  OBVIOUS
<1>a. u # NoAccount
  BY AcAssumption DEF AcUids, NoAccount
<1>4. /\ req \in Requests /\ req.pc = "mail" /\ req.kind = "register"
      /\ req.user # NoAccount
  BY <1>3, <1>a, NoRequestTyped DEF Requests, AcPcs, AcKinds
<1>5. /\ acReq' \in [AcRequests -> Requests] /\ acReq'[r] = req
      /\ \A q \in AcRequests \ {r} : acReq'[q] = acReq[q]
      /\ acBegun' \in 0 .. AcMaxBegun /\ acFaults' = acFaults
  BY <1>0, <1>1, <1>3, <1>4, BeginsReq
<1>6. acUsers' \in [AcUids -> AcUsers] /\ UsersStay
  BY <1>0, <1>1, InsertedUser
<1>7. AcTypeOK'
  BY <1>0, <1>2, <1>5, <1>6 DEF AcTypeOK, acStores, acCookies
<1>8. ReqSound(r)'
  BY <1>4, <1>5 DEF ReqSound, ReqShape, ReqReady, ReqIntent
<1> QED BY <1>2, <1>5, <1>6, <1>7, <1>8, ReqStep, SameFlowsStay DEF acStores

LEMMA AcMailSent ==
  ASSUME AcInv, NEW r \in AcRequests, SendVerificationEmail(r) PROVE AcInv'
<1>0. AcTypeOK /\ ReqSound(r) BY DEF AcInv
<1>1. Finish(r) /\ UNCHANGED <<acRows, acStores, acCookies, acCounts>>
  BY DEF SendVerificationEmail
<1>2. acMailed' = acMailed \cup {acReq[r].user}
  BY DEF SendVerificationEmail
<1>3. acReq[r].user \in AcUids
  BY <1>0 DEF SendVerificationEmail, At, ReqSound, ReqShape, AcTypeOK, Requests
<1>4. AcTypeOK'
  BY <1>0, <1>1, <1>2, <1>3, FinishReq
  DEF AcTypeOK, acRows, acStores, acCookies, acCounts
<1> QED BY <1>0, <1>1, <1>4, FinishReq, ReqDone, ReqStep, SameUsersStay,
           SameFlowsStay DEF AcTypeOK, acRows, acStores

LEMMA AcMailFails ==
  ASSUME AcInv, NEW r \in AcRequests, SendVerificationEmailFails(r) PROVE AcInv'
<1>0. AcTypeOK /\ ReqSound(r) BY DEF AcInv
<1>1. /\ At(r, "mail") /\ AcFault /\ GoesTo(r, "rollback")
      /\ acMailed' \in {acMailed, acMailed \cup {acReq[r].user}}
      /\ UNCHANGED <<acRows, acStores, acCookies, acBegun>>
  BY DEF SendVerificationEmailFails
<1>2. acFaults' \in 0 .. AcMaxFaults
  BY <1>0, <1>1, FaultCounted
<1>3. acReq[r].user \in AcUids
  BY <1>0, <1>1 DEF At, ReqSound, ReqShape, AcTypeOK, Requests
<1>4. /\ acReq' \in [AcRequests -> Requests]
      /\ acReq'[r] = [acReq[r] EXCEPT !.pc = "rollback"]
      /\ \A q \in AcRequests \ {r} : acReq'[q] = acReq[q]
  BY <1>0, <1>1, GoesToPc DEF AcTypeOK, AcPcs
<1>5. AcTypeOK'
  BY <1>0, <1>1, <1>2, <1>3, <1>4 DEF AcTypeOK, acRows, acStores, acCookies
<1>6. /\ acReq'[r].pc = "rollback" /\ acReq'[r].kind = "register"
      /\ acReq'[r].user # NoAccount
  BY <1>0, <1>1, <1>4 DEF At, ReqSound, ReqShape, AcTypeOK, Requests
<1>7. ReqSound(r)'
  BY <1>6 DEF ReqSound, ReqShape, ReqReady, ReqIntent
<1> QED BY <1>1, <1>4, <1>5, <1>7, ReqStep, SameUsersStay, SameFlowsStay
        DEF acRows, acStores

LEMMA AcRollBack ==
  ASSUME AcInv, NEW r \in AcRequests, RollBackUser(r) PROVE AcInv'
<1>0. AcTypeOK /\ ReqSound(r) BY DEF AcInv
<1>1. PICK u : u = acReq[r].user
  OBVIOUS
<1>2. u \in AcUids
  BY <1>0, <1>1
  DEF RollBackUser, At, ReqSound, ReqShape, AcTypeOK, Requests
<1>3. /\ acUsers' = [acUsers EXCEPT ![u].state = "gone", ![u].org = FALSE]
      /\ acLinks' = [i \in AcIds |->
                       IF acLinks[i] = u THEN NoAccount ELSE acLinks[i]]
      /\ Finish(r) /\ UNCHANGED <<acMailed, acStores, acCookies, acCounts>>
  BY <1>1 DEF RollBackUser
<1>4. acUsers \in [AcUids -> AcUsers] /\ acUsers[u] \in AcUsers
  BY <1>0, <1>2 DEF AcTypeOK
<1>5. PICK user : user = [acUsers[u] EXCEPT !.state = "gone", !.org = FALSE]
  OBVIOUS
<1>6. user \in AcUsers /\ user.state = "gone" /\ user.email = acUsers[u].email
  BY <1>4, <1>5 DEF AcUsers
<1>7. acUsers' = [acUsers EXCEPT ![u] = user]
  BY <1>3, <1>4, <1>5 DEF AcUsers
<1>8. /\ acUsers' \in [AcUids -> AcUsers] /\ acUsers'[u] = user
      /\ \A v \in AcUids \ {u} : acUsers'[v] = acUsers[v]
  BY <1>2, <1>4, <1>6, <1>7
<1>9. ASSUME NEW v \in AcUids PROVE UserStays(v)
  BY <1>6, <1>8 DEF UserStays
<1>10. UsersStay
  BY <1>9 DEF UsersStay
<1>11. acLinks' \in [AcIds -> AcUids \cup {NoAccount}]
  BY <1>0, <1>3 DEF AcTypeOK
<1>12. AcTypeOK'
  BY <1>0, <1>3, <1>8, <1>11, FinishReq
  DEF AcTypeOK, acStores, acCookies, acCounts
<1> QED BY <1>0, <1>3, <1>10, <1>12, FinishReq, ReqDone, ReqStep,
           SameFlowsStay DEF AcTypeOK, acStores

LEMMA AcVerify ==
  ASSUME AcInv, NEW r \in AcRequests, VerifyEmail(r) PROVE AcInv'
<1>0. AcTypeOK BY DEF AcInv
<1>1. UNCHANGED <<acRows, acMailed, acStores, acCookies>>
  BY DEF VerifyEmail
<1>2. PICK u \in acMailed :
        Begins(r, [NoRequest EXCEPT !.kind = "verify", !.user = u,
                     !.pc = IF IsActive(u) THEN "ensure" ELSE "activate"])
  BY DEF VerifyEmail
<1>3. PICK req : req = [NoRequest EXCEPT !.kind = "verify", !.user = u,
                     !.pc = IF IsActive(u) THEN "ensure" ELSE "activate"]
  OBVIOUS
<1>4. u \in AcUids
  BY <1>0 DEF AcTypeOK
<1>5. req \in Requests /\ req.kind = "verify" /\ req.pc \in {"ensure", "activate"}
  BY <1>3, <1>4, NoRequestTyped DEF Requests, AcPcs, AcKinds
<1>6. /\ acReq' \in [AcRequests -> Requests] /\ acReq'[r] = req
      /\ \A q \in AcRequests \ {r} : acReq'[q] = acReq[q]
      /\ acBegun' \in 0 .. AcMaxBegun /\ acFaults' = acFaults
  BY <1>0, <1>2, <1>3, <1>5, BeginsReq
<1>7. AcTypeOK'
  BY <1>0, <1>1, <1>6 DEF AcTypeOK, acRows, acStores, acCookies
<1>8. ReqSound(r)'
  BY <1>5, <1>6 DEF ReqSound, ReqShape, ReqReady, ReqIntent
<1> QED BY <1>1, <1>6, <1>7, <1>8, ReqStep, SameUsersStay, SameFlowsStay
        DEF acRows, acStores

\* A row changes its state between inactive and active: nothing else moves.
LEMMA StateSet ==
  ASSUME AcTypeOK, NEW u \in AcUids, HasRow(u),
         NEW s \in {"inactive", "active"},
         acUsers' = [acUsers EXCEPT ![u].state = s]
  PROVE  acUsers' \in [AcUids -> AcUsers] /\ UsersStay
<1>1. /\ acUsers \in [AcUids -> AcUsers] /\ acUsers[u] \in AcUsers
      /\ acUsers[u].state \in {"inactive", "active"}
  BY DEF AcTypeOK, HasRow
<1>2. PICK user : user = [acUsers[u] EXCEPT !.state = s]
  OBVIOUS
<1>3. user \in AcUsers /\ user.state = s /\ user.email = acUsers[u].email
  BY <1>1, <1>2 DEF AcUsers
<1>4. user.org = acUsers[u].org
  BY <1>1, <1>2 DEF AcUsers
<1>5. acUsers' = [acUsers EXCEPT ![u] = user]
  BY <1>2
<1>6. /\ acUsers' \in [AcUids -> AcUsers] /\ acUsers'[u] = user
      /\ \A v \in AcUids \ {u} : acUsers'[v] = acUsers[v]
  BY <1>1, <1>3, <1>5
<1>7. ASSUME NEW v \in AcUids PROVE UserStays(v)
  <2>1. CASE v = u
    BY <2>1, <1>1, <1>3, <1>4, <1>6 DEF UserStays
  <2>2. CASE v # u
    BY <2>2, <1>6 DEF UserStays
  <2> QED BY <2>1, <2>2
<1> QED BY <1>6, <1>7 DEF UsersStay

LEMMA AcActivate ==
  ASSUME AcInv, NEW r \in AcRequests, ActivateUser(r) PROVE AcInv'
<1>0. AcTypeOK /\ ReqSound(r) BY DEF AcInv
<1>1. UNCHANGED <<acLinks, acMailed, acStores, acCookies, acCounts>>
  BY DEF ActivateUser
<1>2. PICK u : u = acReq[r].user
  OBVIOUS
<1>3. u \in AcUids \cup {NoAccount}
  BY <1>0, <1>2 DEF AcTypeOK, Requests
<1>4. CASE HasRow(u)
  <2>1. acUsers' = [acUsers EXCEPT ![u].state = "active"] /\ GoesTo(r, "ensure")
    BY <1>2, <1>4 DEF ActivateUser
  <2>2. acUsers' \in [AcUids -> AcUsers] /\ UsersStay
    BY <1>0, <1>3, <1>4, <2>1, StateSet DEF HasRow
  <2>3. /\ acReq' \in [AcRequests -> Requests]
        /\ acReq'[r] = [acReq[r] EXCEPT !.pc = "ensure"]
        /\ \A q \in AcRequests \ {r} : acReq'[q] = acReq[q]
    BY <1>0, <2>1, GoesToPc DEF AcTypeOK, AcPcs
  <2>4. AcTypeOK'
    BY <1>0, <1>1, <2>2, <2>3 DEF AcTypeOK, acStores, acCookies, acCounts
  <2>5. acReq'[r].pc = "ensure" /\ acReq'[r].kind = "verify"
    BY <1>0, <2>3 DEF ActivateUser, At, ReqSound, ReqShape, AcTypeOK, Requests
  <2>6. ReqSound(r)'
    BY <2>5 DEF ReqSound, ReqShape, ReqReady, ReqIntent
  <2> QED BY <1>1, <2>2, <2>3, <2>4, <2>6, ReqStep, SameFlowsStay DEF acStores
<1>5. CASE ~HasRow(u)
  <2>1. Finish(r) /\ acUsers' = acUsers
    BY <1>2, <1>5 DEF ActivateUser
  <2>2. AcTypeOK'
    BY <1>0, <1>1, <2>1, FinishReq DEF AcTypeOK, acStores, acCookies, acCounts
  <2> QED BY <1>0, <1>1, <2>1, <2>2, FinishReq, ReqDone, ReqStep,
             SameUsersStay, SameFlowsStay DEF AcTypeOK, acStores
<1> QED BY <1>4, <1>5

LEMMA AcDeactivate ==
  ASSUME AcInv, NEW u \in AcUids, AdminDeactivates(u) PROVE AcInv'
<1>0. AcTypeOK BY DEF AcInv
<1>1. /\ acUsers' = [acUsers EXCEPT ![u].state = "inactive"]
      /\ HasRow(u)
      /\ UNCHANGED <<acLinks, acMailed, acStores, acCookies, acReq, acBegun>>
  BY DEF AdminDeactivates, IsActive, HasRow
<1>2. acFaults' \in 0 .. AcMaxFaults
  BY <1>0, FaultCounted DEF AdminDeactivates
<1>3. acUsers' \in [AcUids -> AcUsers] /\ UsersStay
  BY <1>0, <1>1, StateSet
<1>4. AcTypeOK'
  BY <1>0, <1>1, <1>2, <1>3 DEF AcTypeOK, acStores, acCookies
<1>5. AcSessionsReady'
  BY <1>0, <1>1, <1>3, SessionsReadyFrame DEF AcInv, acStores
<1>6. ASSUME NEW q \in AcRequests PROVE ReqSound(q)'
  BY <1>0, <1>1, <1>3, ReqFrame, SameFlowsStay DEF AcInv, acStores
<1> QED BY <1>4, <1>5, <1>6 DEF AcInv

\* A request past its state moves on with the user and the flow it has.
LEMMA ReqMove ==
  ASSUME AcTypeOK, UsersStay, FlowsStay, NEW r \in AcRequests, ReqSound(r),
         NEW step \in {"find", "link", "token", "session"},
         acReq'[r] = [acReq[r] EXCEPT !.pc = step], acReq[r].pc # "consume",
         step # "session" => acReq[r].kind = "oauth",
         NEW u \in AcUids \cup {NoAccount}, u = acReq[r].user,
         step # "find" => Provisioned(u)',
         step = "link" => (acReq[r].pc = "ensure" /\ ~acReq[r].linked)
  PROVE  ReqSound(r)'
<1>1. PICK req : req = acReq[r]
  OBVIOUS
<1>2. req \in Requests
  BY <1>1 DEF AcTypeOK
<1>3. PICK new : new = [req EXCEPT !.pc = step]
  OBVIOUS
<1>4. /\ new.pc = step /\ new.kind = req.kind /\ new.user = u /\ new.sid = req.sid
      /\ new.flow = req.flow /\ new.claims = req.claims
      /\ acReq'[r] = new
  BY <1>1, <1>2, <1>3 DEF Requests
<1>5. ReqShape(r)'
  BY <1>1, <1>4 DEF ReqSound, ReqShape, FlowsStay, FlowStays
<1>6. ReqReady(r)'
  BY <1>4 DEF ReqReady
<1>7. ReqIntent(r)'
  <2> SUFFICES ASSUME req.kind = "oauth"
               PROVE  ReqIntent(r)'
    BY <1>4 DEF ReqIntent
  <2>1. PICK f : f = acFlows[req.flow]
    OBVIOUS
  <2>2. req.flow \in DOMAIN acFlows
    BY <1>1 DEF ReqSound, ReqShape
  <2>3. /\ acFlows'[req.flow].link = f.link /\ acFlows'[req.flow].sid = f.sid
        /\ acFlows'[req.flow].user = f.user
    BY <2>1, <2>2 DEF FlowsStay, FlowStays
  <2>4. CASE f.link
    <3>1. req.sid = f.sid /\ req.user = f.user
      BY <1>1, <2>1, <2>4 DEF ReqSound, ReqIntent
    <3>2. /\ acReq'[r].flow = req.flow /\ acReq'[r].pc # "create"
          /\ acReq'[r].sid = f.sid /\ acReq'[r].user = f.user
      BY <3>1, <1>1, <1>4
    <3> QED BY <3>2, <2>3, <2>4 DEF ReqIntent
  <2>5. CASE ~f.link
    <3>1. CASE step = "link"
      <4>1. ReqMatched(r)
        BY <1>1, <2>1, <2>5, <3>1 DEF ReqSound, ReqIntent
      <4>2. /\ u \in AcUids /\ acUsers[u].state # "none"
            /\ acUsers[u].email = req.claims.email
        BY <4>1, <1>1 DEF ReqMatched
      <4>3. UserStays(u)
        BY <4>2 DEF UsersStay
      <4>4. ReqMatched(r)'
        BY <4>1, <4>2, <4>3, <1>1, <1>4 DEF UserStays, ReqMatched
      <4> QED BY <4>4, <2>3, <2>5, <1>4 DEF ReqIntent
    <3>2. CASE step # "link"
      BY <3>2, <2>3, <2>5, <1>4 DEF ReqIntent
    <3> QED BY <3>1, <3>2
  <2> QED BY <2>4, <2>5
<1> QED BY <1>5, <1>6, <1>7 DEF ReqSound

LEMMA AcCredentials ==
  ASSUME AcInv, NEW r \in AcRequests, VerifyCredentials(r) PROVE AcInv'
<1>0. AcTypeOK BY DEF AcInv
<1>1. UNCHANGED <<acRows, acMailed, acStores, acCookies>>
  BY DEF VerifyCredentials
<1>2. PICK u \in AcUids :
        Begins(r, [NoRequest EXCEPT !.kind = "login", !.user = u,
                                    !.pc = "ensure"])
  BY DEF VerifyCredentials, LoginStep
<1>3. PICK req : req = [NoRequest EXCEPT !.kind = "login", !.user = u,
                                         !.pc = "ensure"]
  OBVIOUS
<1>4. req \in Requests /\ req.kind = "login" /\ req.pc = "ensure"
  BY <1>3, NoRequestTyped DEF Requests, AcPcs, AcKinds
<1>5. /\ acReq' \in [AcRequests -> Requests] /\ acReq'[r] = req
      /\ \A q \in AcRequests \ {r} : acReq'[q] = acReq[q]
      /\ acBegun' \in 0 .. AcMaxBegun /\ acFaults' = acFaults
  BY <1>0, <1>2, <1>3, <1>4, BeginsReq
<1>6. AcTypeOK'
  BY <1>0, <1>1, <1>5 DEF AcTypeOK, acRows, acStores, acCookies
<1>7. ReqSound(r)'
  BY <1>4, <1>5 DEF ReqSound, ReqShape, ReqReady, ReqIntent
<1> QED BY <1>1, <1>5, <1>6, <1>7, ReqStep, SameUsersStay, SameFlowsStay
        DEF acRows, acStores

LEMMA AcEnsure ==
  ASSUME AcInv, NEW r \in AcRequests, EnsurePersonalOrganization(r)
  PROVE  AcInv'
<1>0. AcTypeOK /\ ReqSound(r) BY DEF AcInv
<1>1. UNCHANGED <<acLinks, acMailed, acStores, acCookies, acCounts>>
  BY DEF EnsurePersonalOrganization
<1>2. PICK req : req = acReq[r]
  OBVIOUS
<1>3. PICK u : u = req.user
  OBVIOUS
<1>4. /\ u \in AcUids \cup {NoAccount} /\ req.pc = "ensure"
      /\ req.kind \in {"verify", "login", "oauth"}
  BY <1>0, <1>2, <1>3
  DEF AcTypeOK, Requests, EnsurePersonalOrganization, At, ReqSound, ReqShape
<1>5. FlowsStay
  BY <1>1, SameFlowsStay DEF acStores
<1>6. CASE HasRow(u)
  <2>1. u \in AcUids /\ acUsers' = [acUsers EXCEPT ![u].org = TRUE]
    BY <1>2, <1>3, <1>4, <1>6 DEF EnsurePersonalOrganization, HasRow
  <2>2. acUsers \in [AcUids -> AcUsers] /\ acUsers[u] \in AcUsers
    BY <1>0, <2>1 DEF AcTypeOK
  <2>3. PICK user : user = [acUsers[u] EXCEPT !.org = TRUE]
    OBVIOUS
  <2>4. /\ user \in AcUsers /\ user.state = acUsers[u].state
        /\ user.email = acUsers[u].email /\ user.org
    BY <2>2, <2>3 DEF AcUsers
  <2>5. acUsers' = [acUsers EXCEPT ![u] = user]
    BY <2>1, <2>3
  <2>6. /\ acUsers' \in [AcUids -> AcUsers] /\ acUsers'[u] = user
        /\ \A v \in AcUids \ {u} : acUsers'[v] = acUsers[v]
    BY <2>1, <2>2, <2>4, <2>5
  <2>7. ASSUME NEW v \in AcUids PROVE UserStays(v)
    BY <2>4, <2>6 DEF UserStays
  <2>8. UsersStay
    BY <2>7 DEF UsersStay
  <2>9. Provisioned(u)'
    BY <1>6, <2>4, <2>6 DEF Provisioned, HasRow
  <2>10. CASE req.kind = "verify"
    <3>1. Finish(r)
      BY <1>2, <1>3, <1>6, <2>10 DEF EnsurePersonalOrganization, AfterEnsure
    <3>2. AcTypeOK'
      BY <1>0, <1>1, <2>6, <3>1, FinishReq
      DEF AcTypeOK, acStores, acCookies, acCounts
    <3> QED BY <1>0, <1>1, <1>5, <2>8, <3>1, <3>2, FinishReq, ReqDone, ReqStep
            DEF AcTypeOK, acStores
  <2>11. CASE req.kind # "verify"
    <3>1. PICK step : step = AfterEnsure(req)
      OBVIOUS
    <3>2. /\ step \in {"link", "token", "session"}
          /\ step # "session" => req.kind = "oauth"
          /\ step = "link" => ~req.linked
      BY <1>4, <2>11, <3>1 DEF AfterEnsure
    <3>3. GoesTo(r, step)
      BY <1>2, <1>3, <1>6, <3>1, <3>2 DEF EnsurePersonalOrganization
    <3>4. /\ acReq' \in [AcRequests -> Requests]
          /\ acReq'[r] = [acReq[r] EXCEPT !.pc = step]
          /\ \A q \in AcRequests \ {r} : acReq'[q] = acReq[q]
      <4>1. step \in AcPcs
        BY <3>2 DEF AcPcs
      <4> QED BY <4>1, <1>0, <3>3, GoesToPc DEF AcTypeOK
    <3>5. AcTypeOK'
      BY <1>0, <1>1, <2>6, <3>4 DEF AcTypeOK, acStores, acCookies, acCounts
    <3>6. ReqSound(r)'
      BY <1>0, <1>2, <1>3, <1>4, <1>5, <2>8, <2>9, <3>2, <3>4, ReqMove
    <3> QED BY <1>1, <1>5, <2>8, <3>4, <3>5, <3>6, ReqStep DEF acStores
  <2> QED BY <2>10, <2>11
<1>7. CASE ~HasRow(u)
  <2>1. Finish(r) /\ acUsers' = acUsers
    BY <1>2, <1>3, <1>7 DEF EnsurePersonalOrganization
  <2>2. AcTypeOK'
    BY <1>0, <1>1, <2>1, FinishReq DEF AcTypeOK, acStores, acCookies, acCounts
  <2> QED BY <1>0, <1>1, <1>5, <2>1, <2>2, FinishReq, ReqDone, ReqStep,
             SameUsersStay DEF AcTypeOK, acStores
<1> QED BY <1>6, <1>7

LEMMA AcCreateSession ==
  ASSUME AcInv, NEW r \in AcRequests, CreateSession(r) PROVE AcInv'
<1>0. AcTypeOK /\ AcSessionsReady /\ ReqSound(r) BY DEF AcInv
<1>1. /\ Len(acSessions) < AcMaxSessions /\ Finish(r)
      /\ UNCHANGED <<acRows, acMailed, acFlows, acCounts>>
  BY DEF CreateSession
<1>2. PICK u : u = acReq[r].user
  OBVIOUS
<1>3. u \in AcUids \cup {NoAccount} /\ Provisioned(u)
  BY <1>0, <1>2
  DEF AcTypeOK, Requests, CreateSession, At, ReqSound, ReqReady
<1>4. /\ acSessions' = Append(acSessions, u) /\ acJar' = Len(acSessions) + 1
      /\ acNonce' \in {0, acNonce}
  BY <1>2 DEF CreateSession
<1>5. acSessions \in Seq(AcUids \cup {NoAccount}) /\ Len(acSessions) \in Nat
  BY <1>0 DEF AcTypeOK
<1>6. /\ acSessions' \in Seq(AcUids \cup {NoAccount})
      /\ Len(acSessions') = Len(acSessions) + 1
      /\ DOMAIN acSessions' = 1 .. Len(acSessions) + 1
      /\ acSessions'[Len(acSessions) + 1] = u
      /\ \A s \in 1 .. Len(acSessions) : acSessions'[s] = acSessions[s]
  BY <1>3, <1>4, <1>5
<1>7. /\ acJar' \in 0 .. Len(acSessions') /\ Len(acSessions') <= AcMaxSessions
  BY <1>1, <1>4, <1>5, <1>6, AcAssumption
<1>8. acNonce' \in 0 .. Len(acFlows)
  BY <1>0, <1>4 DEF AcTypeOK
<1>9. AcTypeOK'
  BY <1>0, <1>1, <1>6, <1>7, <1>8, FinishReq DEF AcTypeOK, acRows, acCounts
<1>10. UsersStay /\ FlowsStay
  BY <1>1, SameUsersStay, SameFlowsStay DEF acRows
<1>11. AcSessionsReady'
  <2> SUFFICES ASSUME NEW s \in 1 .. Len(acSessions) + 1,
                      acSessions'[s] # NoAccount
               PROVE  Provisioned(acSessions[s])'
    BY <1>6 DEF AcSessionsReady
  <2>1. PICK v : v = acSessions'[s]
    OBVIOUS
  <2>2. v \in AcUids \cup {NoAccount} /\ Provisioned(v)
    <3>1. CASE s = Len(acSessions) + 1
      BY <3>1, <1>3, <1>6, <2>1
    <3>2. CASE s \in 1 .. Len(acSessions)
      BY <3>2, <1>0, <1>5, <1>6, <2>1 DEF AcSessionsReady
    <3> QED BY <1>5, <3>1, <3>2
  <2> QED BY <1>0, <1>10, <2>1, <2>2, ProvisionedStays
<1>12. ASSUME NEW q \in AcRequests PROVE ReqSound(q)'
  <2>1. acReq'[r] = NoRequest /\ \A p \in AcRequests \ {r} : acReq'[p] = acReq[p]
    BY <1>0, <1>1, FinishReq DEF AcTypeOK
  <2> QED BY <1>0, <1>10, <2>1, ReqFrame, ReqDone DEF AcInv
<1> QED BY <1>9, <1>11, <1>12 DEF AcInv

\* A session that ends takes nothing from the others.
LEMMA SessionEnds ==
  ASSUME AcTypeOK, AcSessionsReady, NEW s \in DOMAIN acSessions,
         acSessions' = [acSessions EXCEPT ![s] = NoAccount], acUsers' = acUsers
  PROVE  /\ acSessions' \in Seq(AcUids \cup {NoAccount})
         /\ Len(acSessions') = Len(acSessions) /\ AcSessionsReady'
<1>1. acSessions \in Seq(AcUids \cup {NoAccount})
  BY DEF AcTypeOK
<1>2. /\ acSessions' \in Seq(AcUids \cup {NoAccount})
      /\ Len(acSessions') = Len(acSessions)
      /\ DOMAIN acSessions' = DOMAIN acSessions
      /\ \A x \in DOMAIN acSessions : acSessions'[x] \in {acSessions[x], NoAccount}
  BY <1>1
<1>3. ASSUME NEW x \in DOMAIN acSessions, acSessions'[x] # NoAccount
      PROVE  Provisioned(acSessions[x])'
  <2>1. PICK v : v = acSessions'[x]
    OBVIOUS
  <2>2. v \in AcUids \cup {NoAccount} /\ Provisioned(v)
    BY <1>1, <1>2, <1>3, <2>1 DEF AcSessionsReady
  <2> QED BY <2>1, <2>2, SameUsersStay, ProvisionedStays
<1> QED BY <1>2, <1>3 DEF AcSessionsReady

LEMMA AcLogOut == ASSUME AcInv, LogOut PROVE AcInv'
<1>0. AcTypeOK /\ AcSessionsReady BY DEF AcInv
<1>1. /\ acJar # 0 /\ acJar' = 0
      /\ UNCHANGED <<acRows, acMailed, acFlows, acNonce, acReq, acBegun>>
  BY DEF LogOut
<1>2. acJar \in DOMAIN acSessions
  BY <1>0, <1>1 DEF AcTypeOK
<1>3. /\ acSessions' \in Seq(AcUids \cup {NoAccount})
      /\ Len(acSessions') = Len(acSessions) /\ AcSessionsReady'
      /\ acFaults' \in 0 .. AcMaxFaults
  <2>1. CASE /\ acSessions' = [acSessions EXCEPT ![acJar] = NoAccount]
             /\ UNCHANGED acFaults
    <3>1. PICK s : s = acJar
      OBVIOUS
    <3> QED BY <1>0, <1>1, <1>2, <2>1, <3>1, SessionEnds DEF AcTypeOK, acRows
  <2>2. CASE AcFault /\ UNCHANGED acSessions
    BY <1>0, <1>1, <2>2, FaultCounted, SessionsReadyFrame, SameUsersStay
    DEF AcTypeOK, acRows
  <2> QED BY <2>1, <2>2 DEF LogOut
<1>4. 0 \in 0 .. Len(acSessions')
  BY <1>3
<1>5. AcTypeOK'
  BY <1>0, <1>1, <1>3, <1>4 DEF AcTypeOK, acRows
<1>6. ASSUME NEW q \in AcRequests PROVE ReqSound(q)'
  BY <1>0, <1>1, ReqFrame, SameUsersStay, SameFlowsStay DEF AcInv, acRows
<1> QED BY <1>3, <1>5, <1>6 DEF AcInv

LEMMA AcExpire ==
  ASSUME AcInv, NEW s \in DOMAIN acSessions, SessionExpires(s) PROVE AcInv'
<1>0. AcTypeOK /\ AcSessionsReady BY DEF AcInv
<1>1. /\ acSessions' = [acSessions EXCEPT ![s] = NoAccount]
      /\ UNCHANGED <<acRows, acMailed, acFlows, acCookies, acReq, acCounts>>
  BY DEF SessionExpires
<1>2. /\ acSessions' \in Seq(AcUids \cup {NoAccount})
      /\ Len(acSessions') = Len(acSessions) /\ AcSessionsReady'
  BY <1>0, <1>1, SessionEnds DEF acRows
<1>3. AcTypeOK'
  BY <1>0, <1>1, <1>2 DEF AcTypeOK, acRows, acCookies, acCounts
<1>4. ASSUME NEW q \in AcRequests PROVE ReqSound(q)'
  BY <1>0, <1>1, ReqFrame, SameUsersStay, SameFlowsStay DEF AcInv, acRows
<1> QED BY <1>2, <1>3, <1>4 DEF AcInv

LEMMA AcOAuthStart ==
  ASSUME AcInv, NEW link \in BOOLEAN, OAuthStart(link) PROVE AcInv'
<1>0. AcTypeOK /\ AcSessionsReady BY DEF AcInv
<1>1. /\ Len(acFlows) < AcMaxFlows /\ acBegun < AcMaxBegun
      /\ acBegun' = acBegun + 1 /\ acNonce' = Len(acFlows) + 1
      /\ UNCHANGED <<acRows, acMailed, acSessions, acJar, acReq, acFaults>>
  BY DEF OAuthStart
<1>2. PICK f : f = [open |-> TRUE, link |-> link, sid |-> IF link THEN acJar ELSE 0,
                    user |-> IF link THEN SessionUser(acJar) ELSE NoAccount]
  OBVIOUS
<1>3. f \in Flows
  <2>1. acJar \in 0 .. AcMaxSessions /\ 0 \in 0 .. AcMaxSessions
    BY <1>0, AcAssumption DEF AcTypeOK
  <2>2. SessionUser(acJar) \in AcUids \cup {NoAccount}
    BY <1>0 DEF AcTypeOK, SessionUser
  <2> QED BY <1>2, <2>1, <2>2 DEF Flows
<1>4. acFlows' = Append(acFlows, f)
  BY <1>2 DEF OAuthStart
<1>5. acFlows \in Seq(Flows) /\ Len(acFlows) \in Nat
  BY <1>0 DEF AcTypeOK
<1>6. /\ acFlows' \in Seq(Flows) /\ Len(acFlows') = Len(acFlows) + 1
      /\ DOMAIN acFlows = 1 .. Len(acFlows)
      /\ DOMAIN acFlows' = 1 .. Len(acFlows) + 1
      /\ \A g \in 1 .. Len(acFlows) : acFlows'[g] = acFlows[g]
  BY <1>3, <1>4, <1>5
<1>7. /\ acNonce' \in 0 .. Len(acFlows') /\ Len(acFlows') <= AcMaxFlows
  BY <1>1, <1>5, <1>6, AcAssumption
<1>8. acBegun' \in 0 .. AcMaxBegun
  BY <1>0, <1>1, AcAssumption DEF AcTypeOK
<1>9. AcTypeOK'
  BY <1>0, <1>1, <1>6, <1>7, <1>8 DEF AcTypeOK, acRows
<1>10. ASSUME NEW g \in DOMAIN acFlows PROVE FlowStays(g)
  <2>1. g \in 1 .. Len(acFlows) /\ g \in 1 .. Len(acFlows) + 1
    BY <1>5, <1>6
  <2> QED BY <2>1, <1>6 DEF FlowStays
<1>11. UsersStay /\ FlowsStay
  BY <1>1, <1>10, SameUsersStay DEF acRows, FlowsStay
<1>12. AcSessionsReady'
  BY <1>0, <1>1, <1>11, SessionsReadyFrame
<1>13. ASSUME NEW q \in AcRequests PROVE ReqSound(q)'
  BY <1>0, <1>1, <1>11, ReqFrame DEF AcInv
<1> QED BY <1>9, <1>12, <1>13 DEF AcInv

LEMMA AcOAuthCallback ==
  ASSUME AcInv, NEW r \in AcRequests, OAuthCallback(r) PROVE AcInv'
<1>0. AcTypeOK BY DEF AcInv
<1>1. UNCHANGED <<acRows, acMailed, acStores, acCookies>> /\ acNonce # 0
  BY DEF OAuthCallback
<1>2. PICK link : link = acFlows[acNonce].link
  OBVIOUS
<1>3. PICK sid, u : /\ sid = (IF link THEN acJar ELSE 0)
                    /\ u = (IF link THEN SessionUser(acJar) ELSE NoAccount)
  OBVIOUS
<1>4. PICK f \in DOMAIN acFlows, c \in AcClaims :
        Begins(r, [NoRequest EXCEPT
                 !.pc = "consume", !.kind = "oauth", !.claims = c,
                 !.nonce = acNonce, !.flow = f, !.sid = sid, !.user = u])
  BY <1>2, <1>3 DEF OAuthCallback
<1>5. PICK req : req = [NoRequest EXCEPT
                 !.pc = "consume", !.kind = "oauth", !.claims = c,
                 !.nonce = acNonce, !.flow = f, !.sid = sid, !.user = u]
  OBVIOUS
<1>6. sid \in 0 .. AcMaxSessions /\ u \in AcUids \cup {NoAccount}
  <2>1. acJar \in 0 .. AcMaxSessions /\ 0 \in 0 .. AcMaxSessions
    BY <1>0, AcAssumption DEF AcTypeOK
  <2>2. SessionUser(acJar) \in AcUids \cup {NoAccount}
    BY <1>0 DEF AcTypeOK, SessionUser
  <2> QED BY <1>3, <2>1, <2>2
<1>7. f \in 0 .. AcMaxFlows /\ acNonce \in 0 .. AcMaxFlows
  BY <1>0, AcAssumption DEF AcTypeOK
<1>8. /\ req \in Requests /\ req.kind = "oauth" /\ req.pc = "consume"
      /\ req.claims = c /\ req.flow = f
  BY <1>5, <1>6, <1>7, NoRequestTyped DEF Requests, AcPcs, AcKinds
<1>9. /\ acReq' \in [AcRequests -> Requests] /\ acReq'[r] = req
      /\ \A q \in AcRequests \ {r} : acReq'[q] = acReq[q]
      /\ acBegun' \in 0 .. AcMaxBegun /\ acFaults' = acFaults
  BY <1>0, <1>4, <1>5, <1>8, BeginsReq
<1>10. AcTypeOK'
  BY <1>0, <1>1, <1>9 DEF AcTypeOK, acRows, acStores, acCookies
<1>11. ReqSound(r)'
  BY <1>1, <1>8, <1>9 DEF ReqSound, ReqShape, ReqReady, ReqIntent, acStores
<1> QED BY <1>1, <1>9, <1>10, <1>11, ReqStep, SameUsersStay, SameFlowsStay
        DEF acRows, acStores

LEMMA AcConsume ==
  ASSUME AcInv, NEW r \in AcRequests, ConsumeState(r) PROVE AcInv'
<1>0. AcTypeOK /\ ReqSound(r) BY DEF AcInv
<1>1. UNCHANGED <<acRows, acMailed, acSessions, acCookies, acCounts>>
  BY DEF ConsumeState
<1>2. PICK req : req = acReq[r]
  OBVIOUS
<1>3. PICK x : x = req.flow
  OBVIOUS
<1>4. /\ req \in Requests /\ req.pc = "consume" /\ req.kind = "oauth"
      /\ x \in DOMAIN acFlows /\ req.claims \in AcClaims
  BY <1>0, <1>2, <1>3 DEF ConsumeState, At, AcTypeOK, ReqSound, ReqShape
<1>5. PICK f : f = acFlows[x]
  OBVIOUS
<1>6. acFlows \in Seq(Flows) /\ f \in Flows
  BY <1>0, <1>4, <1>5 DEF AcTypeOK
<1>7. PICK shut : shut = [f EXCEPT !.open = FALSE]
  OBVIOUS
<1>8. shut \in Flows /\ shut.link = f.link /\ shut.sid = f.sid /\ shut.user = f.user
  BY <1>6, <1>7 DEF Flows
<1>9. acFlows' \in {acFlows, [acFlows EXCEPT ![x] = shut]}
  BY <1>2, <1>3, <1>5, <1>7 DEF ConsumeState
<1>10. /\ acFlows' \in Seq(Flows) /\ Len(acFlows') = Len(acFlows)
       /\ DOMAIN acFlows' = DOMAIN acFlows
       /\ \A g \in DOMAIN acFlows : g # x => acFlows'[g] = acFlows[g]
       /\ acFlows'[x] \in {f, shut}
  BY <1>4, <1>5, <1>6, <1>8, <1>9
<1>11. ASSUME NEW g \in DOMAIN acFlows PROVE FlowStays(g)
  BY <1>5, <1>8, <1>10 DEF FlowStays
<1>12. UsersStay /\ FlowsStay
  BY <1>1, <1>11, SameUsersStay DEF acRows, FlowsStay
<1>13. CASE Finish(r)
  <2>1. AcTypeOK'
    BY <1>0, <1>1, <1>10, <1>13, FinishReq
    DEF AcTypeOK, acRows, acCookies, acCounts
  <2> QED BY <1>0, <1>1, <1>12, <1>13, <2>1, FinishReq, ReqDone, ReqStep
          DEF AcTypeOK
<1>14. CASE ~Finish(r)
  <2>1. PICK step : step = IF f.link THEN "reload" ELSE "find"
    OBVIOUS
  <2>2. /\ StateBinding(req.nonce, req.sid) = StateBinding(x, f.sid)
        /\ f.user = req.user /\ GoesTo(r, step)
    BY <1>2, <1>3, <1>5, <1>14, <2>1 DEF ConsumeState
  <2>3. req.sid = f.sid
    BY <2>2 DEF StateBinding
  <2>4. step \in AcPcs /\ step \in {"reload", "find"}
    BY <2>1 DEF AcPcs
  <2>5. /\ acReq' \in [AcRequests -> Requests]
        /\ acReq'[r] = [acReq[r] EXCEPT !.pc = step]
        /\ \A q \in AcRequests \ {r} : acReq'[q] = acReq[q]
    BY <1>0, <2>2, <2>4, GoesToPc DEF AcTypeOK
  <2>6. /\ acReq'[r].pc = step /\ acReq'[r].kind = "oauth"
        /\ acReq'[r].sid = req.sid /\ acReq'[r].user = req.user
        /\ acReq'[r].flow = x /\ acReq'[r].claims = req.claims
    BY <1>2, <1>3, <1>4, <2>5 DEF Requests
  <2>7. AcTypeOK'
    BY <1>0, <1>1, <1>10, <2>5 DEF AcTypeOK, acRows, acCookies, acCounts
  <2>8. /\ acFlows'[x].link = f.link /\ acFlows'[x].sid = f.sid
        /\ acFlows'[x].user = f.user
    BY <1>8, <1>10
  <2>9. ReqShape(r)' /\ ReqReady(r)'
    BY <1>4, <1>10, <2>4, <2>6 DEF ReqShape, ReqReady
  <2>10. ReqIntent(r)'
    BY <2>2, <2>3, <2>4, <2>6, <2>8 DEF ReqIntent
  <2> QED BY <1>1, <1>12, <2>5, <2>7, <2>9, <2>10, ReqStep DEF ReqSound
<1> QED BY <1>13, <1>14

LEMMA AcReload ==
  ASSUME AcInv, NEW r \in AcRequests, ReloadLinkUser(r) PROVE AcInv'
<1>0. AcTypeOK /\ ReqSound(r) BY DEF AcInv
<1>1. /\ UNCHANGED <<acRows, acMailed, acStores, acCookies, acCounts>>
      /\ acReq[r].pc = "reload"
  BY DEF ReloadLinkUser, At
<1>2. UsersStay /\ FlowsStay /\ acSessions' = acSessions
  BY <1>1, SameUsersStay, SameFlowsStay DEF acRows, acStores
<1>3. CASE Finish(r)
  <2>1. AcTypeOK'
    BY <1>0, <1>1, <1>3, FinishReq
    DEF AcTypeOK, acRows, acStores, acCookies, acCounts
  <2> QED BY <1>0, <1>2, <1>3, <2>1, FinishReq, ReqDone, ReqStep DEF AcTypeOK
<1>4. CASE GoesTo(r, "find")
  <2>1. /\ acReq' \in [AcRequests -> Requests]
        /\ acReq'[r] = [acReq[r] EXCEPT !.pc = "find"]
        /\ \A q \in AcRequests \ {r} : acReq'[q] = acReq[q]
    BY <1>0, <1>4, GoesToPc DEF AcTypeOK, AcPcs
  <2>2. AcTypeOK'
    BY <1>0, <1>1, <2>1 DEF AcTypeOK, acRows, acStores, acCookies, acCounts
  <2>3. PICK u : u = acReq[r].user
    OBVIOUS
  <2>4. u \in AcUids \cup {NoAccount} /\ acReq[r].kind = "oauth"
    BY <1>0, <1>1, <2>3 DEF AcTypeOK, Requests, ReqSound, ReqShape
  <2>5. ReqSound(r)'
    BY <1>0, <1>1, <1>2, <2>1, <2>3, <2>4, ReqMove
  <2> QED BY <1>2, <2>1, <2>2, <2>5, ReqStep
<1> QED BY <1>3, <1>4 DEF ReloadLinkUser

LEMMA AcFindForLink ==
  ASSUME AcInv, NEW r \in AcRequests, FindForLink(r) PROVE AcInv'
<1>0. AcTypeOK /\ ReqSound(r) BY DEF AcInv
<1>1. UNCHANGED <<acRows, acMailed, acStores, acCookies, acCounts>>
  BY DEF FindForLink
<1>2. UsersStay /\ FlowsStay /\ acSessions' = acSessions
  BY <1>1, SameUsersStay, SameFlowsStay DEF acRows, acStores
<1>3. CASE Finish(r)
  <2>1. AcTypeOK'
    BY <1>0, <1>1, <1>3, FinishReq
    DEF AcTypeOK, acRows, acStores, acCookies, acCounts
  <2> QED BY <1>0, <1>2, <1>3, <2>1, FinishReq, ReqDone, ReqStep DEF AcTypeOK
<1>4. CASE ~Finish(r)
  <2>1. PICK req : req = acReq[r]
    OBVIOUS
  <2>2. /\ req \in Requests /\ req.pc = "find" /\ req.kind = "oauth"
        /\ req.claims \in AcClaims /\ req.flow \in DOMAIN acFlows
        /\ acFlows[req.flow].link
    BY <1>0, <2>1
    DEF FindForLink, At, IsLink, AcTypeOK, ReqSound, ReqShape
  <2>3. PICK owned \in BOOLEAN :
          acReq' = [acReq EXCEPT ![r].pc = "ensure", ![r].linked = owned]
    BY <1>4 DEF FindForLink
  <2>4. PICK new : new = [req EXCEPT !.pc = "ensure", !.linked = owned]
    OBVIOUS
  <2>5. acReq' = [acReq EXCEPT ![r] = new]
    BY <1>0, <2>1, <2>3, <2>4 DEF AcTypeOK, Requests
  <2>6. /\ new \in Requests /\ new.pc = "ensure" /\ new.kind = "oauth"
        /\ new.claims = req.claims /\ new.flow = req.flow
        /\ new.sid = req.sid /\ new.user = req.user
    BY <2>2, <2>4 DEF Requests, AcPcs
  <2>7. /\ acReq' \in [AcRequests -> Requests] /\ acReq'[r] = new
        /\ \A q \in AcRequests \ {r} : acReq'[q] = acReq[q]
    BY <1>0, <2>5, <2>6, GoesToReq DEF AcTypeOK
  <2>8. AcTypeOK'
    BY <1>0, <1>1, <2>7 DEF AcTypeOK, acRows, acStores, acCookies, acCounts
  <2>9. req.sid = acFlows[req.flow].sid /\ req.user = acFlows[req.flow].user
    BY <1>0, <2>1, <2>2 DEF ReqSound, ReqIntent
  <2>10. acFlows' = acFlows
    BY <1>1 DEF acStores
  <2>11. ReqSound(r)'
    BY <2>2, <2>6, <2>7, <2>9, <2>10 DEF ReqSound, ReqShape, ReqReady, ReqIntent
  <2> QED BY <1>2, <2>7, <2>8, <2>11, ReqStep
<1> QED BY <1>3, <1>4

\* A login picks its account, which has the claimed email unless the identity
\* is linked already.
LEMMA LoginPicks ==
  ASSUME AcTypeOK, NEW r \in AcRequests, ReqSound(r),
         acReq[r].pc \in {"find", "create"}, ~IsLink(r),
         NEW u \in AcUids \cup {NoAccount}, NEW owned \in BOOLEAN,
         acReq' = [acReq EXCEPT ![r] = [acReq[r] EXCEPT
                     !.pc = "ensure", !.user = u, !.linked = owned]],
         ~owned => /\ u # NoAccount /\ acUsers'[u].state # "none"
                   /\ acUsers'[u].email = acReq[r].claims.email,
         acFlows' = acFlows
  PROVE  /\ acReq' \in [AcRequests -> Requests] /\ ReqSound(r)'
         /\ \A q \in AcRequests \ {r} : acReq'[q] = acReq[q]
<1>1. PICK req : req = acReq[r]
  OBVIOUS
<1>2. /\ req \in Requests /\ req.kind = "oauth" /\ req.claims \in AcClaims
      /\ req.flow \in DOMAIN acFlows /\ ~acFlows[req.flow].link
  BY <1>1 DEF AcTypeOK, ReqSound, ReqShape, IsLink
<1>3. PICK new : new = [req EXCEPT !.pc = "ensure", !.user = u, !.linked = owned]
  OBVIOUS
<1>4. /\ new \in Requests /\ new.pc = "ensure" /\ new.kind = "oauth"
      /\ new.claims = req.claims /\ new.flow = req.flow /\ new.user = u
  BY <1>2, <1>3 DEF Requests, AcPcs
<1>5. new.linked = owned
  BY <1>2, <1>3 DEF Requests
<1>6. /\ acReq' \in [AcRequests -> Requests] /\ acReq'[r] = new
      /\ \A q \in AcRequests \ {r} : acReq'[q] = acReq[q]
  BY <1>1, <1>3, <1>4, GoesToReq DEF AcTypeOK
<1>7. ReqShape(r)' /\ ReqReady(r)'
  BY <1>2, <1>4, <1>6 DEF ReqShape, ReqReady
<1>8. ReqIntent(r)'
  <2>1. CASE owned
    BY <2>1, <1>2, <1>4, <1>5, <1>6 DEF ReqIntent
  <2>2. CASE ~owned
    <3>1. ReqMatched(r)'
      BY <2>2, <1>1, <1>4, <1>6 DEF ReqMatched
    <3> QED BY <3>1, <1>2, <1>4, <1>6 DEF ReqIntent
  <2> QED BY <2>1, <2>2
<1> QED BY <1>6, <1>7, <1>8 DEF ReqSound

LEMMA AcFindForLogin ==
  ASSUME AcInv, NEW r \in AcRequests, FindForLogin(r) PROVE AcInv'
<1>0. AcTypeOK /\ ReqSound(r) BY DEF AcInv
<1>1. UNCHANGED <<acRows, acMailed, acStores, acCookies, acCounts>>
  BY DEF FindForLogin
<1>2. UsersStay /\ FlowsStay /\ acSessions' = acSessions /\ acFlows' = acFlows
  BY <1>1, SameUsersStay, SameFlowsStay DEF acRows, acStores
<1>3. PICK req : req = acReq[r]
  OBVIOUS
<1>4. /\ req \in Requests /\ req.pc = "find" /\ req.kind = "oauth"
      /\ req.claims \in AcClaims /\ req.flow \in DOMAIN acFlows
      /\ ~IsLink(r) /\ ~acFlows[req.flow].link
  BY <1>0, <1>3 DEF FindForLogin, At, IsLink, AcTypeOK, ReqSound, ReqShape
<1>5. PICK owner : owner = acLinks[req.claims.id]
  OBVIOUS
<1>6. owner \in AcUids \cup {NoAccount}
  BY <1>0, <1>4, <1>5, AcAssumption DEF AcTypeOK
<1>7. CASE GoesTo(r, "create")
  <2>1. /\ acReq' \in [AcRequests -> Requests]
        /\ acReq'[r] = [acReq[r] EXCEPT !.pc = "create"]
        /\ \A q \in AcRequests \ {r} : acReq'[q] = acReq[q]
    BY <1>0, <1>7, GoesToPc DEF AcTypeOK, AcPcs
  <2>2. AcTypeOK'
    BY <1>0, <1>1, <2>1 DEF AcTypeOK, acRows, acStores, acCookies, acCounts
  <2>3. /\ acReq'[r].pc = "create" /\ acReq'[r].kind = "oauth"
        /\ acReq'[r].flow = req.flow /\ acReq'[r].claims = req.claims
    BY <1>3, <1>4, <2>1 DEF Requests
  <2>4. ReqSound(r)'
    BY <1>2, <1>4, <2>3 DEF ReqSound, ReqShape, ReqReady, ReqIntent
  <2> QED BY <1>2, <2>1, <2>2, <2>4, ReqStep
<1>8. CASE ~GoesTo(r, "create")
  <2>1. PICK u \in IF owner # NoAccount THEN {owner}
                     ELSE VerifiedMatches(req.claims) :
          acReq' = [acReq EXCEPT ![r].pc = "ensure", ![r].user = u,
                                 ![r].linked = owner # NoAccount]
    BY <1>3, <1>5, <1>8 DEF FindForLogin
  <2>2. PICK owned \in BOOLEAN : owned <=> owner # NoAccount
    OBVIOUS
  <2>3. /\ u \in AcUids \cup {NoAccount}
        /\ ~owned => /\ u # NoAccount /\ acUsers[u].state # "none"
                     /\ acUsers[u].email = acReq[r].claims.email
    BY <1>3, <1>6, <2>1, <2>2 DEF VerifiedMatches, HasRow
  <2>4. acReq' = [acReq EXCEPT ![r] = [acReq[r] EXCEPT
                     !.pc = "ensure", !.user = u, !.linked = owned]]
    BY <1>0, <2>1, <2>2 DEF AcTypeOK, Requests
  <2>5. acUsers' = acUsers
    BY <1>1 DEF acRows
  <2>6. /\ acReq' \in [AcRequests -> Requests] /\ ReqSound(r)'
        /\ \A q \in AcRequests \ {r} : acReq'[q] = acReq[q]
    BY <1>0, <1>2, <1>3, <1>4, <2>3, <2>4, <2>5, LoginPicks
  <2>7. AcTypeOK'
    BY <1>0, <1>1, <2>6 DEF AcTypeOK, acRows, acStores, acCookies, acCounts
  <2> QED BY <1>2, <2>6, <2>7, ReqStep
<1> QED BY <1>7, <1>8

LEMMA AcCreateUser ==
  ASSUME AcInv, NEW r \in AcRequests, CreateOAuthUser(r) PROVE AcInv'
<1>0. AcTypeOK /\ ReqSound(r) BY DEF AcInv
<1>1. UNCHANGED <<acLinks, acMailed, acStores, acCookies, acCounts>>
  BY DEF CreateOAuthUser
<1>2. FlowsStay /\ acSessions' = acSessions /\ acFlows' = acFlows
  BY <1>1, SameFlowsStay DEF acStores
<1>3. PICK req : req = acReq[r]
  OBVIOUS
<1>4. /\ req \in Requests /\ req.pc = "create" /\ req.kind = "oauth"
      /\ req.claims \in AcClaims
  BY <1>0, <1>3 DEF CreateOAuthUser, At, AcTypeOK, ReqSound, ReqShape
<1>5. ~IsLink(r)
  BY <1>0, <1>3, <1>4 DEF ReqSound, ReqIntent, IsLink
<1>6. CASE Finish(r) /\ acUsers' = acUsers
  <2>1. AcTypeOK'
    BY <1>0, <1>1, <1>6, FinishReq DEF AcTypeOK, acStores, acCookies, acCounts
  <2> QED BY <1>0, <1>2, <1>6, <2>1, FinishReq, ReqDone, ReqStep,
             SameUsersStay DEF AcTypeOK
<1>7. CASE ~(Finish(r) /\ acUsers' = acUsers)
  <2>1. PICK u \in AcUids :
          /\ InsertUser(u, "active", FALSE, req.claims.email)
          /\ acReq' = [acReq EXCEPT ![r].pc = "ensure", ![r].user = u]
    BY <1>3, <1>7 DEF CreateOAuthUser
  <2>2. req.claims.email \in AcEmails \cup {NoEmail}
    BY <1>4, AcAssumption
  <2>3. /\ acUsers' \in [AcUids -> AcUsers] /\ UsersStay
        /\ acUsers'[u].state = "active"
        /\ acUsers'[u].email = req.claims.email
    BY <1>0, <2>1, <2>2, InsertedUser
  <2>4. u # NoAccount
    BY AcAssumption DEF AcUids, NoAccount
  <2>5. PICK owned \in BOOLEAN : owned = req.linked
    BY <1>4 DEF Requests
  <2>6. acReq' = [acReq EXCEPT ![r] = [acReq[r] EXCEPT
                     !.pc = "ensure", !.user = u, !.linked = owned]]
    BY <1>0, <1>3, <2>1, <2>5 DEF AcTypeOK, Requests
  <2>7. /\ acReq' \in [AcRequests -> Requests] /\ ReqSound(r)'
        /\ \A q \in AcRequests \ {r} : acReq'[q] = acReq[q]
    BY <1>0, <1>2, <1>3, <1>4, <1>5, <2>3, <2>4, <2>6, LoginPicks
  <2>8. AcTypeOK'
    BY <1>0, <1>1, <2>3, <2>7 DEF AcTypeOK, acStores, acCookies, acCounts
  <2> QED BY <1>2, <2>3, <2>7, <2>8, ReqStep
<1> QED BY <1>6, <1>7

LEMMA AcCreateLink ==
  ASSUME AcInv, NEW r \in AcRequests, CreateLink(r) PROVE AcInv'
<1>0. AcTypeOK /\ ReqSound(r) BY DEF AcInv
<1>1. /\ UNCHANGED <<acUsers, acMailed, acStores, acCookies, acCounts>>
      /\ acReq[r].pc = "link"
  BY DEF CreateLink, At
<1>2. UsersStay /\ FlowsStay /\ acSessions' = acSessions
  BY <1>1, SameUsersStay, SameFlowsStay DEF acStores
<1>3. PICK u : u = acReq[r].user
  OBVIOUS
<1>4. /\ u \in AcUids \cup {NoAccount} /\ acReq[r].kind = "oauth"
      /\ Provisioned(u)
  BY <1>0, <1>1, <1>3 DEF AcTypeOK, Requests, ReqSound, ReqShape, ReqReady
<1>5. CASE Finish(r) /\ acLinks' = acLinks
  <2>1. AcTypeOK'
    BY <1>0, <1>1, <1>5, FinishReq DEF AcTypeOK, acStores, acCookies, acCounts
  <2> QED BY <1>0, <1>2, <1>5, <2>1, FinishReq, ReqDone, ReqStep DEF AcTypeOK
<1>6. CASE ~(Finish(r) /\ acLinks' = acLinks)
  <2>1. /\ acLinks' = [acLinks EXCEPT ![acReq[r].claims.id] = u]
        /\ GoesTo(r, "token")
    BY <1>3, <1>6 DEF CreateLink
  <2>2. acLinks' \in [AcIds -> AcUids \cup {NoAccount}]
    BY <1>0, <1>4, <2>1 DEF AcTypeOK
  <2>3. /\ acReq' \in [AcRequests -> Requests]
        /\ acReq'[r] = [acReq[r] EXCEPT !.pc = "token"]
        /\ \A q \in AcRequests \ {r} : acReq'[q] = acReq[q]
    BY <1>0, <2>1, GoesToPc DEF AcTypeOK, AcPcs
  <2>4. AcTypeOK'
    BY <1>0, <1>1, <2>2, <2>3 DEF AcTypeOK, acStores, acCookies, acCounts
  <2>5. Provisioned(u)'
    BY <1>0, <1>2, <1>4, ProvisionedStays
  <2>6. ReqSound(r)'
    BY <1>0, <1>1, <1>2, <1>3, <1>4, <2>3, <2>5, ReqMove
  <2> QED BY <1>2, <2>3, <2>4, <2>6, ReqStep
<1> QED BY <1>5, <1>6

LEMMA AcStoreToken ==
  ASSUME AcInv, NEW r \in AcRequests, StoreToken(r) PROVE AcInv'
<1>0. AcTypeOK /\ ReqSound(r) BY DEF AcInv
<1>1. /\ UNCHANGED <<acRows, acMailed, acStores, acJar, acCounts>>
      /\ acReq[r].pc = "token" /\ acNonce' \in {0, acNonce}
  BY DEF StoreToken, At
<1>2. UsersStay /\ FlowsStay /\ acSessions' = acSessions
  BY <1>1, SameUsersStay, SameFlowsStay DEF acRows, acStores
<1>3. acNonce' \in 0 .. Len(acFlows)
  BY <1>0, <1>1 DEF AcTypeOK
<1>4. CASE Finish(r)
  <2>1. AcTypeOK'
    BY <1>0, <1>1, <1>3, <1>4, FinishReq DEF AcTypeOK, acRows, acStores, acCounts
  <2> QED BY <1>0, <1>2, <1>4, <2>1, FinishReq, ReqDone, ReqStep DEF AcTypeOK
<1>5. CASE GoesTo(r, "session")
  <2>1. /\ acReq' \in [AcRequests -> Requests]
        /\ acReq'[r] = [acReq[r] EXCEPT !.pc = "session"]
        /\ \A q \in AcRequests \ {r} : acReq'[q] = acReq[q]
    BY <1>0, <1>5, GoesToPc DEF AcTypeOK, AcPcs
  <2>2. AcTypeOK'
    BY <1>0, <1>1, <1>3, <2>1 DEF AcTypeOK, acRows, acStores, acCounts
  <2>3. PICK u : u = acReq[r].user
    OBVIOUS
  <2>4. u \in AcUids \cup {NoAccount} /\ Provisioned(u)
    BY <1>0, <1>1, <2>3 DEF AcTypeOK, Requests, ReqSound, ReqReady
  <2>5. Provisioned(u)'
    BY <1>0, <1>2, <2>4, ProvisionedStays
  <2>6. ReqSound(r)'
    BY <1>0, <1>1, <1>2, <2>1, <2>3, <2>4, <2>5, ReqMove
  <2> QED BY <1>2, <2>1, <2>2, <2>6, ReqStep
<1> QED BY <1>4, <1>5 DEF StoreToken

LEMMA AcStutter == ASSUME AcInv, UNCHANGED acVars PROVE AcInv'
<1>1. UNCHANGED <<acUsers, acLinks, acMailed, acSessions, acFlows, acJar,
                  acNonce, acReq, acBegun, acFaults>>
  BY DEF acVars, acRows, acStores, acCookies, acCounts
<1>2. AcTypeOK'
  BY <1>1 DEF AcInv, AcTypeOK
<1>3. AcSessionsReady'
  BY <1>1, SessionsReadyFrame, SameUsersStay DEF AcInv
<1>4. ASSUME NEW q \in AcRequests PROVE ReqSound(q)'
  BY <1>1, ReqFrame, SameUsersStay, SameFlowsStay DEF AcInv
<1> QED BY <1>2, <1>3, <1>4 DEF AcInv

\* The invariant of the accounts: sessions and requests hold only users whose
\* organization was provisioned, and a consumed OAuth state is served with
\* the intent its flow was begun with.
THEOREM AcInvariance == AccountsSpec => []AcInv
<1>1. AcInit => AcInv
  BY AcStart
<1>2. AcInv /\ [AccountsNext]_acVars => AcInv'
  <2> SUFFICES ASSUME AcInv, [AccountsNext]_acVars PROVE AcInv'
    OBVIOUS
  <2>1. CASE UNCHANGED acVars
    BY <2>1, AcStutter
  <2>2. ASSUME NEW r \in AcRequests,
               \/ RegisterInactiveUser(r) \/ SendVerificationEmail(r)
               \/ SendVerificationEmailFails(r) \/ RollBackUser(r)
               \/ VerifyEmail(r) \/ ActivateUser(r) \/ VerifyCredentials(r)
               \/ EnsurePersonalOrganization(r) \/ CreateSession(r)
               \/ OAuthCallback(r) \/ ConsumeState(r) \/ ReloadLinkUser(r)
               \/ FindForLink(r) \/ FindForLogin(r) \/ CreateOAuthUser(r)
               \/ CreateLink(r) \/ StoreToken(r) \/ Drop(r)
        PROVE  AcInv'
    BY <2>2, AcRegister, AcMailSent, AcMailFails, AcRollBack, AcVerify,
       AcActivate, AcCredentials, AcEnsure, AcCreateSession, AcOAuthCallback,
       AcConsume, AcReload, AcFindForLink, AcFindForLogin, AcCreateUser,
       AcCreateLink, AcStoreToken, AcDrop
  <2>3. ASSUME NEW link \in BOOLEAN, OAuthStart(link) PROVE AcInv'
    BY <2>3, AcOAuthStart
  <2>4. ASSUME NEW s \in DOMAIN acSessions, SessionExpires(s) PROVE AcInv'
    BY <2>4, AcExpire
  <2>5. ASSUME NEW u \in AcUids, AdminDeactivates(u) PROVE AcInv'
    BY <2>5, AcDeactivate
  <2>6. CASE LogOut
    BY <2>6, AcLogOut
  <2> QED BY <2>1, <2>2, <2>3, <2>4, <2>5, <2>6 DEF AccountsNext
<1> QED BY <1>1, <1>2, PTL DEF AccountsSpec

\* A request with a session of an active user always finds the user's
\* organization, for any number of users, sessions and concurrent requests,
\* and wherever requests are dropped.
THEOREM Provisions == AccountsSpec => []SessionsAreProvisioned
<1>1. AcInv => SessionsAreProvisioned
  <2> SUFFICES ASSUME AcInv, NEW s \in DOMAIN acSessions,
                      IsActive(SessionUser(s))
               PROVE  acUsers[SessionUser(s)].org
    BY DEF SessionsAreProvisioned
  <2>1. s # 0
    BY DEF AcInv, AcTypeOK
  <2>2. SessionUser(s) = acSessions[s]
    BY <2>1 DEF SessionUser
  <2>3. Provisioned(acSessions[s])
    BY <2>2 DEF IsActive, AcInv, AcSessionsReady
  <2> QED BY <2>2, <2>3 DEF IsActive, Provisioned, HasRow
<1> QED BY <1>1, AcInvariance, PTL

\* No step of another action gives an identity an owner.
LEMMA LinksKept ==
  ASSUME [AccountsNext]_acVars, \A r \in AcRequests : ~CreateLink(r)
  PROVE  \A i \in AcIds : acLinks'[i] \in {acLinks[i], NoAccount}
<1>1. CASE \E r \in AcRequests : RollBackUser(r)
  BY <1>1 DEF RollBackUser
<1>2. CASE ~\E r \in AcRequests : RollBackUser(r)
  <2>1. acLinks' = acLinks
    BY <1>2
    DEF AccountsNext, acVars, acRows, RegisterInactiveUser,
        SendVerificationEmail, SendVerificationEmailFails, VerifyEmail,
        ActivateUser, VerifyCredentials, EnsurePersonalOrganization,
        CreateSession, OAuthCallback, ConsumeState, ReloadLinkUser,
        FindForLink, FindForLogin, CreateOAuthUser, StoreToken, Drop,
        OAuthStart, LogOut, SessionExpires, AdminDeactivates
  <2> QED BY <2>1
<1> QED BY <1>1, <1>2

\* A provider identity is attached only to the account whose session began
\* the link, through that session, or to the one with the claimed email.
THEOREM LinksIntended == AccountsSpec => LinksFollowIntent
<1>1. ASSUME AcInv, NEW r \in AcRequests, CreateLink(r), NEW i \in AcIds,
             acLinks'[i] \notin {acLinks[i], NoAccount}
      PROVE  LET req == acReq[r]
                 f == acFlows[req.flow]
             IN  /\ At(r, "link") /\ req.claims.id = i
                 /\ IF f.link THEN req.sid = f.sid /\ acLinks'[i] = f.user
                      ELSE acUsers[acLinks'[i]].email = req.claims.email
  <2>1. PICK req : req = acReq[r]
    OBVIOUS
  <2>2. /\ req.pc = "link" /\ req.kind = "oauth" /\ acLinks' # acLinks
        /\ acLinks \in [AcIds -> AcUids \cup {NoAccount}]
    BY <1>1, <2>1 DEF CreateLink, At, AcInv, AcTypeOK, ReqSound, ReqShape
  <2>3. acLinks' = [acLinks EXCEPT ![req.claims.id] = req.user]
    BY <1>1, <2>1, <2>2 DEF CreateLink
  <2>4. req.claims.id = i /\ acLinks'[i] = req.user
    BY <1>1, <2>2, <2>3
  <2>5. PICK f : f = acFlows[req.flow]
    OBVIOUS
  <2>6. ReqIntent(r)
    BY <1>1 DEF AcInv, ReqSound
  <2>7. CASE f.link
    <3>1. req.sid = f.sid /\ req.user = f.user
      BY <2>1, <2>2, <2>5, <2>6, <2>7 DEF ReqIntent
    <3> QED BY <3>1, <2>1, <2>2, <2>4, <2>5, <2>7 DEF At
  <2>8. CASE ~f.link
    <3>1. ReqMatched(r)
      BY <2>1, <2>2, <2>5, <2>6, <2>8 DEF ReqIntent
    <3>2. acUsers[req.user].email = req.claims.email
      BY <3>1, <2>1 DEF ReqMatched
    <3> QED BY <3>2, <2>1, <2>2, <2>4, <2>5, <2>8 DEF At
  <2> QED BY <2>7, <2>8
<1>2. AcInv /\ [AccountsNext]_acVars =>
        [\A i \in AcIds : acLinks'[i] \in {acLinks[i], NoAccount}
           \/ \E r \in AcRequests :
                LET req == acReq[r]
                    f == acFlows[req.flow]
                IN  /\ At(r, "link") /\ req.claims.id = i
                    /\ IF f.link THEN req.sid = f.sid /\ acLinks'[i] = f.user
                         ELSE acUsers[acLinks'[i]].email = req.claims.email]_acVars
  BY <1>1, LinksKept
<1> QED BY <1>2, AcInvariance, PTL DEF AccountsSpec, LinksFollowIntent

-----------------------------------------------------------------------------
(* The components together *)

\* The behaviours of the composed run are behaviours of the pipeline, of the
\* accounts and of the clusters, each as specified on its own.
THEOREM DashComposes == DashSpec => Spec /\ AccountsSpec /\ ClustersSpec
<1>1. DashInit => Init /\ AcInit /\ ClInit
  BY DEF DashInit
<1>2. [DashNext]_dashVars => [Next]_vars
  BY DEF DashNext, dashVars
<1>3. [DashNext]_dashVars => [AccountsNext]_acVars
  BY DEF DashNext, dashVars
<1>4. [DashNext]_dashVars => [ClustersNext]_clVars
  BY DEF DashNext, dashVars
<1> QED
  BY <1>1, <1>2, <1>3, <1>4, PTL DEF DashSpec, Spec, AccountsSpec, ClustersSpec

\* Everything the composed run checks, for every value of the constants.
THEOREM DashSafe ==
  DashSpec => /\ []( /\ OnlyBuiltImages /\ SucceededIsPublished
                    /\ RestIsConverged /\ DisabledPreviewsIgnored
                    /\ SessionsAreProvisioned /\ LastTokenCounts )
              /\ LinksFollowIntent
BY DashComposes, BuiltOnly, PublishedFirst, RestConverged, DisabledIgnored,
   Provisions, LinksIntended, TokensSafe, PTL
=============================================================================
