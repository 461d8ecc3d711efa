----------------------------- MODULE MCOperator -----------------------------
(***************************************************************************)
(* The webhook pipeline and the Redis credentials, with the fairness that  *)
(* makes them come to rest.  They share no state here, so the first state  *)
(* chooses one and the other stays as it begins.                           *)
(***************************************************************************)
EXTENDS SourcePipeline, RedisCredentials

CONSTANTS OpParts, p1, s2, web, worker

VARIABLE op

opsVars == <<op, vars, rcVars>>

InPipeline == op = "pipeline"
InCredentials == op = "credentials"

OpInit ==
  /\ op \in OpParts
  /\ Init /\ RcInit
  /\ InPipeline \/ ~ proj.previews

OpNext ==
  \/ InPipeline /\ Next /\ UNCHANGED <<op, rcVars>>
  \/ InCredentials /\ RcNext /\ UNCHANGED <<op, vars>>

OpSpec == OpInit /\ [][OpNext]_opsVars

\* Fairness of SourcePipeline and RcFairness, each while it is chosen.
OpFairness ==
  /\ \A h \in Hooks : WF_vars(InPipeline /\ (HookWrite(h) \/ HookSend(h)))
  /\ WF_vars(InPipeline /\ AgentApply)
  /\ WF_vars(InPipeline /\ Deliver)
  /\ \A b \in Builds :
       WF_vars(InPipeline /\ (JobEnds(b, "succeeded") \/ JobEnds(b, "failed")))
  /\ WF_vars(InPipeline /\ Reconcile)
  /\ WF_rcVars(InCredentials /\ RcDeliver)
  /\ WF_rcVars(InCredentials /\ RcReconcile)

FairOpSpec == OpSpec /\ OpFairness

\* The pipeline, when it is the one that runs, ends with every request consumed
\* and production on the image its Project names.
PipelineConverges == InPipeline => Converges

\* The credentials, when they are what runs, end with every consumer on the
\* current password.
CredentialsCatchUp == InCredentials => ConsumersCatchUp

-----------------------------------------------------------------------------
(* Values of the constants *)

\* One push and the life of one pull request.
OnePr == {<<p1, s2>>}
=============================================================================
