---------------------------- MODULE MCDashboard ----------------------------
(***************************************************************************)
(* The dashboard's own state, for safety: the webhook pipeline, accounts   *)
(* and clusters.  They share no state, so the first state chooses one and  *)
(* the others stay as they begin.                                          *)
(***************************************************************************)
EXTENDS SourcePipeline, Accounts, ClusterTokens

CONSTANTS DashParts, p1, s1, s2

VARIABLE dash

dashVars == <<dash, vars, acVars, clVars>>

DashInit ==
  /\ dash \in DashParts
  /\ Init /\ AcInit /\ ClInit
  /\ dash = "pipeline" \/ ~proj.previews

DashNext ==
  \/ /\ dash = "pipeline" /\ Next
     /\ UNCHANGED <<dash, acVars, clVars>>
  \/ /\ dash = "accounts" /\ AccountsNext
     /\ UNCHANGED <<dash, vars, clVars>>
  \/ /\ dash = "clusters" /\ ClustersNext
     /\ UNCHANGED <<dash, vars, acVars>>

DashSpec == DashInit /\ [][DashNext]_dashVars

-----------------------------------------------------------------------------
(* Values of the constants *)

\* One push and the life of one pull request.
OnePr == {<<p1, s2>>}

\* One identity with an email the provider may or may not have verified, one
\* without an email.
SmallClaims ==
  {[id |-> 1, email |-> 1, verified |-> TRUE],
   [id |-> 1, email |-> 1, verified |-> FALSE],
   [id |-> 2, email |-> NoEmail, verified |-> FALSE]}
=============================================================================
