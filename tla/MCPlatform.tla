----------------------------- MODULE MCPlatform -----------------------------
(***************************************************************************)
(* One instance of every component that stands on its own.  The first      *)
(* state chooses the component; the others then stay as they begin, so     *)
(* the states of the run are the sum of the components' states and not     *)
(* their product.  Fairness is each component's, while it is chosen.       *)
(***************************************************************************)
EXTENDS ProjectLifecycle, PreviewNamespaces, GitHubImport, RetryPolicy,
        LocalBuilds, LogStore, Realtime, Wiring

CONSTANT Parts

VARIABLE part

platVars == <<part, projVars, pvVars, ghVars, rpVars, lbVars, lgVars, rtVars,
              wrVars>>

PlatInit ==
  /\ part \in Parts
  /\ ProjInit /\ PvInit /\ GhInit /\ RpInit /\ LbInit /\ LogInit /\ RtInit
  /\ WrInit
  /\ part = "preview" \/ pvManage = TRUE
  /\ part = "github" \/ ghRow = FreeRow
  /\ part = "wiring" \/ wrPlatform = "onpremise"

InProject == part = "project"
InPreview == part = "preview"
InGitHub == part = "github"
InRetry == part = "retry"
InBuilds == part = "builds"
InLogs == part = "logs"
InRealtime == part = "realtime"
InWiring == part = "wiring"

PlatNext ==
  \/ /\ InProject /\ ProjectNext
     /\ UNCHANGED <<part, pvVars, ghVars, rpVars, lbVars, lgVars,
                    rtVars, wrVars>>
  \/ /\ InPreview /\ PreviewNext
     /\ UNCHANGED <<part, projVars, ghVars, rpVars, lbVars, lgVars,
                    rtVars, wrVars>>
  \/ /\ InGitHub /\ GitHubNext
     /\ UNCHANGED <<part, projVars, pvVars, rpVars, lbVars, lgVars,
                    rtVars, wrVars>>
  \/ /\ InRetry /\ RetryNext
     /\ UNCHANGED <<part, projVars, pvVars, ghVars, lbVars, lgVars,
                    rtVars, wrVars>>
  \/ /\ InBuilds /\ BuildsNext
     /\ UNCHANGED <<part, projVars, pvVars, ghVars, rpVars, lgVars,
                    rtVars, wrVars>>
  \/ /\ InLogs /\ LogNext
     /\ UNCHANGED <<part, projVars, pvVars, ghVars, rpVars, lbVars,
                    rtVars, wrVars>>
  \/ /\ InRealtime /\ RealtimeNext
     /\ UNCHANGED <<part, projVars, pvVars, ghVars, rpVars, lbVars,
                    lgVars, wrVars>>
  \/ /\ InWiring /\ WiringNext
     /\ UNCHANGED <<part, projVars, pvVars, ghVars, rpVars, lbVars,
                    lgVars, rtVars>>

PlatSpec == PlatInit /\ [][PlatNext]_platVars

PlatFairness ==
  /\ WF_projVars(InProject /\ ProjReconcile)
  /\ WF_projVars(InProject /\ ProjSync)
  /\ WF_projVars(InProject /\ TimerFires)
  /\ WF_projVars(InProject /\ ProjCluster)
  /\ WF_pvVars(InPreview /\ PvReconcile)
  /\ WF_pvVars(InPreview /\ PvCluster)
  /\ WF_ghVars(InGitHub /\ GhTick)
  /\ \A i \in Importers : /\ WF_ghVars(InGitHub /\ GhHandler(i))
                          /\ WF_ghVars(InGitHub /\ ImportWork(i))
  /\ \A b \in BuildIds : WF_lbVars(InBuilds /\ RunPipeline(b))

FairPlatSpec == PlatSpec /\ PlatFairness

\* Every variable of every component keeps its type.
PlatTypeOK ==
  /\ part \in Parts
  /\ ProjTypeOK /\ PvTypeOK /\ GhTypeOK /\ RpTypeOK /\ LbTypeOK /\ LogTypeOK
  /\ RtTypeOK /\ WrTypeOK

-----------------------------------------------------------------------------
(* Values of the constants *)

SpecOf(image, db, isolation, claims, policy, tenantOk) ==
  [image |-> image, db |-> db, isolation |-> isolation, claims |-> claims,
   policy |-> policy, tenantOk |-> tenantOk]

SmallSpecs ==
  {SpecOf(1, "introspect", TRUE, {"account"}, "Retain", TRUE),
   SpecOf(2, "explicit", FALSE, {"ingress"}, "Delete", TRUE),
   SpecOf(1, "none", TRUE, {}, "Delete", TRUE),
   SpecOf(2, "none", TRUE, {}, "Delete", FALSE)}

\* A spec that asks for little; the others differ in the fields named.
Plain ==
  [image |-> 1, db |-> "none", sqlite |-> FALSE, redis |-> FALSE,
   jwt |-> FALSE, plugins |-> FALSE, sa |-> FALSE, pages |-> FALSE,
   routed |-> FALSE, port |-> 0, target |-> 0, appPort |-> 0,
   policy |-> "Retain"]

SmallWrSpecs ==
  {[Plain EXCEPT !.port = 8000],
   [Plain EXCEPT !.db = "introspect", !.redis = TRUE, !.routed = TRUE,
                 !.appPort = 9000],
   [Plain EXCEPT !.image = 2, !.db = "explicit", !.jwt = TRUE, !.sa = TRUE,
                 !.pages = TRUE, !.routed = TRUE, !.target = 9000],
   [Plain EXCEPT !.db = "explicit", !.sqlite = TRUE, !.plugins = TRUE,
                 !.policy = "Delete"]}
=============================================================================
