--------------------------- MODULE ClusterTokens ---------------------------
(***************************************************************************)
(* The clusters of an organization: creating, editing, deleting a cluster, *)
(* rotating its agent token, submitting a deployment to it, and the check  *)
(* a token passes before its agent may open a stream.                      *)
(*                                                                         *)
(*  - A token is its serial number; a row keeps the hash of one token.     *)
(*  - A cluster that is created again is a new row: the primary key in the *)
(*    claims of a token never names another cluster.                       *)
(*  - Edits and rotations load the row, change it and write all of it.     *)
(*    A new token reaches its caller after the row has been written, and   *)
(*    may not reach him at all.                                            *)
(***************************************************************************)
EXTENDS Naturals

CONSTANTS
  ClRequests,   \* concurrent edits and rotations
  ClPks,        \* primary keys, numbers, given out in order
  ClMaxToken    \* bound on tokens ever issued

ASSUME ClAssumption == ClPks \subseteq Nat /\ ClMaxToken \in Nat

NoToken == 0
ClTokens == 1 .. ClMaxToken

VARIABLES
  clRow,      \* by primary key: the row of the cluster
  clIssued,   \* by token: the cluster in its claims, for tokens issued
  clCurrent,  \* by cluster: the newest of its tokens
  clGiven,    \* tokens that reached their caller
  clDeps,     \* clusters a Deployment row references
  clOpen,     \* tokens whose agent has a stream
  clReq,      \* requests under way, with the row they loaded or wrote
  clLost      \* clusters whose token hash a write replaced unread

clVars == <<clRow, clIssued, clCurrent, clGiven, clDeps, clOpen, clReq, clLost>>

ClRows == [state : {"none", "live", "gone"}, active : BOOLEAN,
           hash : ClTokens \cup {NoToken}]
NoRow == [state |-> "none", active |-> FALSE, hash |-> NoToken]
NoReq == [kind |-> "none", pk |-> 0, row |-> NoRow]

ClTypeOK ==
  /\ clRow \in [ClPks -> ClRows]
  /\ DOMAIN clIssued \subseteq ClTokens
  /\ \A t \in DOMAIN clIssued : clIssued[t] \in ClPks
  /\ clCurrent \in [ClPks -> ClTokens \cup {NoToken}]
  /\ clDeps \subseteq ClPks /\ clLost \subseteq ClPks
  /\ clOpen \subseteq ClTokens /\ clGiven \subseteq ClTokens
  /\ clReq \in [ClRequests -> [kind : {"none", "update", "rotate", "reply"},
                               pk : ClPks \cup {0}, row : ClRows]]

ClInit ==
  /\ clRow = [k \in ClPks |-> NoRow]
  /\ clIssued = [t \in {} |-> 0]
  /\ clCurrent = [k \in ClPks |-> NoToken]
  /\ clGiven = {} /\ clDeps = {} /\ clOpen = {} /\ clLost = {}
  /\ clReq = [r \in ClRequests |-> NoReq]

Live(k) == clRow[k].state = "live"

\* AgentTokenService.issue: a token with the cluster in its claims.
Issue(t, k) ==
  /\ t \notin DOMAIN clIssued
  /\ \A s \in ClTokens : s < t => s \in DOMAIN clIssued
  /\ clIssued' = [s \in DOMAIN clIssued \cup {t} |->
                    IF s = t THEN k ELSE clIssued[s]]
  /\ clCurrent' = [clCurrent EXCEPT ![k] = t]

\* One transaction creates the row and stores its first token.
CreateCluster(r, k) ==
  /\ clReq[r] = NoReq /\ clRow[k].state = "none"
  /\ \A j \in ClPks : j < k => clRow[j].state = "gone"
  /\ \E t \in ClTokens :
       /\ Issue(t, k)
       /\ clRow' = [clRow EXCEPT ![k] = [state |-> "live", active |-> TRUE,
                                         hash |-> t]]
  /\ clReq' = [clReq EXCEPT ![r] = [kind |-> "reply", pk |-> k,
                                    row |-> clRow'[k]]]
  /\ UNCHANGED <<clGiven, clDeps, clOpen, clLost>>

\* The row is loaded for an edit or a rotation.
LoadCluster(r, kind, k) ==
  /\ clReq[r] = NoReq /\ Live(k)
  /\ clReq' = [clReq EXCEPT ![r] = [kind |-> kind, pk |-> k,
                                    row |-> clRow[k]]]
  /\ UNCHANGED <<clRow, clIssued, clCurrent, clGiven, clDeps, clOpen, clLost>>

\* Writes every column of the row, which must still be there.
WriteRow(r, new) ==
  LET k == clReq[r].pk
  IN  /\ Live(k)
      /\ clRow' = [clRow EXCEPT ![k] = new]
      /\ clLost' = IF clRow[k].hash # clReq[r].row.hash
                     THEN clLost \cup {k} ELSE clLost

UpdateCluster(r, active) ==
  /\ clReq[r].kind = "update"
  /\ WriteRow(r, [clReq[r].row EXCEPT !.active = active])
  /\ clReq' = [clReq EXCEPT ![r] = NoReq]
  /\ UNCHANGED <<clIssued, clCurrent, clGiven, clDeps, clOpen>>

\* Mutant of RotateToken: the answer has the new token, the row is not written.
RotateTokenUnsaved(r) ==
  /\ clReq[r].kind = "rotate"
  /\ \E t \in ClTokens :
       /\ Issue(t, clReq[r].pk)
       /\ clReq' = [clReq EXCEPT ![r].kind = "reply", ![r].row.hash = t]
  /\ UNCHANGED <<clRow, clGiven, clDeps, clOpen, clLost>>

RotateToken(r) ==
  /\ clReq[r].kind = "rotate"
  /\ \E t \in ClTokens :
       /\ Issue(t, clReq[r].pk)
       /\ WriteRow(r, [clReq[r].row EXCEPT !.hash = t])
       /\ clReq' = [clReq EXCEPT ![r].kind = "reply", ![r].row.hash = t]
  /\ UNCHANGED <<clGiven, clDeps, clOpen>>

\* The answer to a creation or a rotation, with the token in the clear.
HandOut(r) ==
  /\ clReq[r].kind = "reply"
  /\ clGiven' = clGiven \cup {clReq[r].row.hash}
  /\ clReq' = [clReq EXCEPT ![r] = NoReq]
  /\ UNCHANGED <<clRow, clIssued, clCurrent, clDeps, clOpen, clLost>>

\* The client goes away or a statement fails, as a write does whose row has
\* gone.  What has been written stays.
DropEdit(r) ==
  /\ clReq[r] # NoReq
  /\ clReq' = [clReq EXCEPT ![r] = NoReq]
  /\ UNCHANGED <<clRow, clIssued, clCurrent, clGiven, clDeps, clOpen, clLost>>

\* A Deployment row restricts the delete.
DeleteCluster(k) ==
  /\ Live(k) /\ k \notin clDeps
  /\ clRow' = [clRow EXCEPT ![k] = [NoRow EXCEPT !.state = "gone"]]
  /\ UNCHANGED <<clIssued, clCurrent, clGiven, clDeps, clOpen, clReq, clLost>>

\* submit_project_deployment: the insert needs the cluster's row.  is_active
\* is checked on a copy of the row that may be as old as the cluster, so it
\* restricts nothing here.  The Deployment stays when no agent is there.
SubmitDeployment(k) ==
  /\ Live(k) /\ k \notin clDeps
  /\ clDeps' = clDeps \cup {k}
  /\ UNCHANGED <<clRow, clIssued, clCurrent, clGiven, clOpen, clReq, clLost>>

DeleteDeployment(k) ==
  /\ k \in clDeps
  /\ clDeps' = clDeps \ {k}
  /\ UNCHANGED <<clRow, clIssued, clCurrent, clGiven, clOpen, clReq, clLost>>

\* verify_persisted_agent_token
Verified(t) ==
  LET row == clRow[clIssued[t]]
  IN  row.state = "live" /\ row.active /\ row.hash = t

AgentConnects(t) ==
  /\ t \in clGiven \ clOpen /\ Verified(t)
  /\ clOpen' = clOpen \cup {t}
  /\ UNCHANGED <<clRow, clIssued, clCurrent, clGiven, clDeps, clReq, clLost>>

AgentDisconnects(t) ==
  /\ t \in clOpen
  /\ clOpen' = clOpen \ {t}
  /\ UNCHANGED <<clRow, clIssued, clCurrent, clGiven, clDeps, clReq, clLost>>

ClustersNext ==
  \/ \E k \in ClPks :
       \/ DeleteCluster(k)
       \/ SubmitDeployment(k) \/ DeleteDeployment(k)
  \/ \E r \in ClRequests :
       \/ \E kind \in {"update", "rotate"}, k \in ClPks :
            LoadCluster(r, kind, k)
       \/ \E k \in ClPks : CreateCluster(r, k)
       \/ \E active \in BOOLEAN : UpdateCluster(r, active)
       \/ RotateToken(r) \/ HandOut(r) \/ DropEdit(r)
  \/ \E t \in ClTokens : AgentConnects(t) \/ AgentDisconnects(t)

ClustersSpec == ClInit /\ [][ClustersNext]_clVars

-----------------------------------------------------------------------------
\* Of the tokens of a cluster, handed out or not, exactly the newest passes
\* the check: rotations, edits, deletions and re-creations in any order leave
\* the row with its hash, so that a token that reached its caller is good
\* until a later one is written.  (When the answer with the newest token is
\* lost, no agent has a token that passes.)  Overlapping edits are the
\* exception, where the later write puts back a hash it had read.
LastTokenCounts ==
  \A t \in DOMAIN clIssued :
    clIssued[t] \notin clLost =>
      (Verified(t) <=> /\ t = clCurrent[clIssued[t]]
                       /\ Live(clIssued[t]) /\ clRow[clIssued[t]].active)

-----------------------------------------------------------------------------
(* The inductive invariant behind LastTokenCounts *)

\* Unless an edit was lost, a row has the hash of its newest token.
HashIsCurrent ==
  \A k \in ClPks : Live(k) /\ k \notin clLost => clRow[k].hash = clCurrent[k]

\* A request holds a row that was there when it was loaded or written, and an
\* answer a token.
LoadedLive ==
  \A r \in ClRequests :
    /\ clReq[r].kind # "none" => clReq[r].pk \in ClPks /\ clReq[r].row.state = "live"
    /\ clReq[r].kind = "reply" => clReq[r].row.hash # NoToken

ClInv == ClTypeOK /\ HashIsCurrent /\ LoadedLive
=============================================================================
