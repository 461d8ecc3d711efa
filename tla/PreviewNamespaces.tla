-------------------------- MODULE PreviewNamespaces --------------------------
(***************************************************************************)
(* The preview namespace of a Project and the preview Projects in it,      *)
(* against the deletion of the parent, administrators who replace the      *)
(* namespace and objects that only look like previews.                     *)
(*                                                                         *)
(* What is kept and what is abstracted:                                    *)
(*  - The parent has its finalizer (module ProjectLifecycle) and which     *)
(*    builds ask for a preview is SourcePipeline's; here any may.          *)
(*  - The guardrails (quota, limits, two policies, issuer) are one object. *)
(*  - A preview Project is genuine when its labels, name and namespace are *)
(*    what the operator derives for the parent.                            *)
(*  - An error that is retried leaves the request queued: how long it      *)
(*    waits is in RetryPolicy.                                             *)
(***************************************************************************)
EXTENDS Naturals

CONSTANTS
  PvRequests,   \* pull requests
  PvMaxUid,     \* bound on parents created at the name
  PvMaxNs,      \* bound on namespaces created at the name
  PvMaxKid,     \* bound on preview Projects created
  PvMaxEdits    \* bound on what users and administrators do

ASSUME PvAssumption ==
  /\ PvMaxUid \in Nat /\ PvMaxNs \in Nat /\ PvMaxKid \in Nat
  /\ PvMaxEdits \in Nat

PvParents == [uid : 1 .. PvMaxUid, on : BOOLEAN, deleting : BOOLEAN]
PvNamespaces ==
  [uid : 1 .. PvMaxNs, owner : 0 .. PvMaxUid, terminating : BOOLEAN]
PvKids == [pr : PvRequests, uid : 1 .. PvMaxKid, genuine : BOOLEAN,
           deleting : BOOLEAN]

VARIABLES
  pvManage,    \* the operator manages the lifecycle of namespaces
  pvParent,    \* the parent Project, as a set of at most one
  pvNs,        \* the namespace at the derived name, as a set of at most one
  pvKids,      \* the Projects in it
  pvRails,     \* "none", "ours", or "theirs" by its labels
  pvDue,       \* a reconcile of the parent is queued
  pvPc, pvApp, \* next step of the running reconcile, and its copy
  pvSeen,      \* the namespace it read
  pvList,      \* the preview Projects it has listed and not handled
  pvLeft,      \* it found a genuine preview Project
  pvLabelled,  \* history: <<namespace UID, parent UID>> ever labelled
  pvGoneOn,    \* history: the last parent was removed with previews on
  pvNextUid, pvNextNs, pvNextKid, pvEdits

pvOp == <<pvPc, pvApp, pvSeen, pvList, pvLeft>>
pvEnv == <<pvParent, pvNs, pvKids, pvRails>>
pvHist == <<pvLabelled, pvGoneOn, pvNextUid, pvNextNs, pvNextKid>>
pvVars == <<pvManage, pvEnv, pvDue, pvOp, pvHist, pvEdits>>

PvTypeOK ==
  /\ pvManage \in BOOLEAN
  /\ pvParent \subseteq PvParents /\ \A x, y \in pvParent : x = y
  /\ pvNs \subseteq PvNamespaces /\ \A x, y \in pvNs : x = y
  /\ pvKids \subseteq PvKids
  /\ pvRails \in {"none", "ours", "theirs"}
  /\ pvDue \in BOOLEAN
  /\ pvPc \in {"idle", "ns", "rails", "kids", "look", "drop", "list", "kill",
               "unrail", "unfinal"}
  /\ pvApp \subseteq PvParents /\ \A x, y \in pvApp : x = y
  /\ pvSeen \subseteq PvNamespaces /\ \A x, y \in pvSeen : x = y
  /\ pvList \subseteq PvKids
  /\ pvLeft \in BOOLEAN
  /\ pvLabelled \subseteq (1 .. PvMaxNs) \X (1 .. PvMaxUid)
  /\ pvGoneOn \in BOOLEAN
  /\ pvNextUid \in 1 .. PvMaxUid + 1 /\ pvNextNs \in 1 .. PvMaxNs + 1
  /\ pvNextKid \in 1 .. PvMaxKid + 1 /\ pvEdits \in 0 .. PvMaxEdits

PvInit ==
  /\ pvManage \in BOOLEAN
  /\ pvParent = {} /\ pvNs = {} /\ pvKids = {} /\ pvRails = "none"
  /\ pvDue = FALSE /\ pvPc = "idle" /\ pvApp = {} /\ pvSeen = {}
  /\ pvList = {} /\ pvLeft = FALSE
  /\ pvLabelled = {} /\ pvGoneOn = FALSE
  /\ pvNextUid = 1 /\ pvNextNs = 1 /\ pvNextKid = 1 /\ pvEdits = 0

-----------------------------------------------------------------------------
(* Users, administrators and the cluster *)

PvEdits == pvEdits < PvMaxEdits /\ pvEdits' = pvEdits + 1

PvCreateParent ==
  /\ PvEdits
  /\ pvParent = {} /\ pvNextUid <= PvMaxUid
  /\ \E on \in BOOLEAN :
       pvParent' = {[uid |-> pvNextUid, on |-> on, deleting |-> FALSE]}
  /\ pvNextUid' = pvNextUid + 1
  /\ pvDue' = TRUE
  /\ UNCHANGED <<pvManage, pvNs, pvKids, pvRails, pvOp, pvLabelled, pvGoneOn,
                 pvNextNs, pvNextKid>>

PvEditParent ==
  /\ PvEdits
  /\ \E p \in pvParent :
       \/ pvParent' = {[p EXCEPT !.on = ~@]}
       \/ ~p.deleting /\ pvParent' = {[p EXCEPT !.deleting = TRUE]}
  /\ pvDue' = TRUE
  /\ UNCHANGED <<pvManage, pvNs, pvKids, pvRails, pvOp, pvHist>>

PvAdminNamespace ==
  /\ PvEdits
  /\ \/ /\ pvNs = {} /\ pvNextNs <= PvMaxNs
        /\ pvNs' = {[uid |-> pvNextNs, owner |-> 0, terminating |-> FALSE]}
        /\ pvNextNs' = pvNextNs + 1
        /\ pvRails' \in {"none", "theirs"}
        /\ UNCHANGED pvKids
     \/ /\ \E n \in pvNs : ~n.terminating
        /\ pvNs' = {[n EXCEPT !.terminating = TRUE] : n \in pvNs}
        /\ pvKids' = {[k EXCEPT !.deleting = TRUE] : k \in pvKids}
        /\ UNCHANGED <<pvRails, pvNextNs>>
  /\ UNCHANGED <<pvManage, pvParent, pvDue, pvOp, pvLabelled,
                 pvGoneOn, pvNextUid, pvNextKid>>

Usable == \E n \in pvNs : ~n.terminating
NameFree(r) == \A k \in pvKids : k.pr # r

\* Somebody creates a Project whose labels were copied from a preview.
PvLookalike(r) ==
  /\ PvEdits
  /\ Usable /\ NameFree(r) /\ pvNextKid <= PvMaxKid
  /\ pvKids' = pvKids \cup {[pr |-> r, uid |-> pvNextKid, genuine |-> FALSE,
                             deleting |-> FALSE]}
  /\ pvNextKid' = pvNextKid + 1
  /\ UNCHANGED <<pvManage, pvParent, pvNs, pvRails, pvDue, pvOp, pvLabelled,
                 pvGoneOn, pvNextUid, pvNextNs>>

\* The finalizer of a preview Project ends.  Nothing tells its parent.
PvKidGone ==
  /\ \E k \in pvKids : k.deleting /\ pvKids' = pvKids \ {k}
  /\ UNCHANGED <<pvManage, pvParent, pvNs, pvRails, pvDue, pvOp, pvHist,
                 pvEdits>>

PvNamespaceGone ==
  /\ \E n \in pvNs : n.terminating
  /\ pvKids = {}
  /\ pvNs' = {} /\ pvRails' = "none"
  /\ UNCHANGED <<pvManage, pvParent, pvKids, pvDue, pvOp, pvHist, pvEdits>>

-----------------------------------------------------------------------------
(* Reconcile: apply *)

PvEnd(requeue) ==
  /\ pvPc' = "idle" /\ pvApp' = {} /\ pvSeen' = {} /\ pvList' = {}
  /\ pvLeft' = FALSE /\ pvDue' = (pvDue \/ requeue)

PvStart ==
  /\ pvPc = "idle" /\ pvDue
  /\ pvDue' = FALSE
  /\ pvApp' = pvParent
  /\ pvPc' = CASE pvParent = {} -> "idle"
               [] \E p \in pvParent : p.deleting /\ p.on ->
                    IF pvManage THEN "look" ELSE "list"
               [] \E p \in pvParent : p.deleting /\ ~p.on -> "unfinal"
               [] \E p \in pvParent : ~p.deleting /\ p.on -> "ns"
               [] \E p \in pvParent : ~p.deleting /\ ~p.on -> "idle"
  /\ UNCHANGED <<pvManage, pvEnv, pvSeen, pvList, pvLeft, pvHist, pvEdits>>

LabelNamespace(u) ==
  /\ pvNs' = {[n EXCEPT !.owner = u] : n \in pvNs}
  /\ pvLabelled' = pvLabelled \cup {<<n.uid, u>> : n \in pvNs}
  /\ pvNextNs' = pvNextNs

\* A namespace that exists gets the owner labels; a missing one is created,
\* or reported when the operator does not manage namespaces.
PvReconcileNamespace ==
  /\ pvPc = "ns"
  /\ \E p \in pvApp :
       IF pvNs # {}
         THEN LabelNamespace(p.uid) /\ pvPc' = "rails"
              /\ UNCHANGED <<pvApp, pvSeen, pvList, pvLeft, pvDue>>
         ELSE IF pvManage /\ pvNextNs <= PvMaxNs
           THEN /\ pvNs' = {[uid |-> pvNextNs, owner |-> p.uid,
                             terminating |-> FALSE]}
                /\ pvLabelled' = pvLabelled \cup {<<pvNextNs, p.uid>>}
                /\ pvNextNs' = pvNextNs + 1
                /\ pvPc' = "rails"
                /\ UNCHANGED <<pvApp, pvSeen, pvList, pvLeft, pvDue>>
           ELSE PvEnd(TRUE) /\ UNCHANGED <<pvNs, pvLabelled, pvNextNs>>
  /\ UNCHANGED <<pvManage, pvParent, pvKids, pvRails, pvGoneOn, pvNextUid,
                 pvNextKid, pvEdits>>

\* Mutant of PvApplyRails: guardrails somebody else left are kept.
PvApplyRailsIfNone ==
  /\ pvPc = "rails"
  /\ IF Usable
       THEN pvRails' = (IF pvRails = "none" THEN "ours" ELSE pvRails)
            /\ pvPc' = "kids"
            /\ UNCHANGED <<pvApp, pvSeen, pvList, pvLeft, pvDue>>
       ELSE PvEnd(TRUE) /\ UNCHANGED pvRails
  /\ UNCHANGED <<pvManage, pvParent, pvNs, pvKids, pvHist, pvEdits>>

\* Forced server-side apply; nothing can be created in a namespace that is
\* gone or terminating.
PvApplyRails ==
  /\ pvPc = "rails"
  /\ IF Usable
       THEN pvRails' = "ours" /\ pvPc' = "kids"
            /\ UNCHANGED <<pvApp, pvSeen, pvList, pvLeft, pvDue>>
       ELSE PvEnd(TRUE) /\ UNCHANGED pvRails
  /\ UNCHANGED <<pvManage, pvParent, pvNs, pvKids, pvHist, pvEdits>>

\* Previews that have expired are deleted, and a finished build makes or
\* takes over the preview of its pull request.
PvApplyKids ==
  /\ pvPc = "kids"
  /\ \E expired \in SUBSET pvKids :
       LET left == {IF k \in expired THEN [k EXCEPT !.deleting = TRUE] ELSE k :
                      k \in pvKids}
       IN  \/ pvKids' = left /\ pvNextKid' = pvNextKid
           \/ \E r \in PvRequests :
                /\ Usable /\ NameFree(r) /\ pvNextKid <= PvMaxKid
                /\ pvKids' = left \cup {[pr |-> r, uid |-> pvNextKid,
                                         genuine |-> TRUE, deleting |-> FALSE]}
                /\ pvNextKid' = pvNextKid + 1
           \/ \E k \in left :
                /\ Usable
                /\ pvKids' = (left \ {k}) \cup {[k EXCEPT !.genuine = TRUE]}
                /\ pvNextKid' = pvNextKid
  /\ PvEnd(FALSE)
  /\ UNCHANGED <<pvManage, pvParent, pvNs, pvRails, pvLabelled, pvGoneOn,
                 pvNextUid, pvNextNs, pvEdits>>

-----------------------------------------------------------------------------
(* Reconcile: cleanup *)

pvStep == <<pvManage, pvParent, pvDue, pvApp, pvHist, pvEdits>>

LookAtNamespace ==
  /\ pvPc = "look"
  /\ \E p \in pvApp :
       IF \E n \in pvNs : n.owner = p.uid
         THEN pvSeen' = pvNs /\ pvPc' = "drop"
         ELSE pvSeen' = {} /\ pvPc' = "list"
  /\ UNCHANGED <<pvStep, pvNs, pvKids, pvRails, pvList, pvLeft>>

\* Mutant of SameNamespace: the delete goes by name.
SameNamespaceByName == pvNs # {}

\* The delete carries the UID that was read.
SameNamespace == \E n \in pvNs, m \in pvSeen : n.uid = m.uid

DropNamespace ==
  /\ pvPc = "drop"
  /\ IF SameNamespace
       THEN /\ pvNs' = {[n EXCEPT !.terminating = TRUE] : n \in pvNs}
            /\ pvKids' = {[k EXCEPT !.deleting = TRUE] : k \in pvKids}
            /\ pvPc' = "unfinal"
       ELSE pvPc' = "list" /\ UNCHANGED <<pvNs, pvKids>>
  /\ UNCHANGED <<pvStep, pvRails, pvSeen, pvList, pvLeft>>

\* Mutant of ListPreviews: a preview that is terminating counts as gone.
ListPreviewsAlive ==
  /\ pvPc = "list"
  /\ pvList' = pvKids
  /\ pvLeft' = (\E k \in pvKids : k.genuine /\ ~k.deleting)
  /\ pvPc' = "kill"
  /\ UNCHANGED <<pvStep, pvNs, pvKids, pvRails, pvSeen>>

ListPreviews ==
  /\ pvPc = "list"
  /\ pvList' = pvKids
  /\ pvLeft' = (\E k \in pvKids : k.genuine)
  /\ pvPc' = "kill"
  /\ UNCHANGED <<pvStep, pvNs, pvKids, pvRails, pvSeen>>

\* Each listed preview that is genuine is deleted if it still has the UID it
\* was listed with.
KillPreview ==
  /\ pvPc = "kill"
  /\ \E k \in pvList :
       /\ pvList' = pvList \ {k}
       /\ pvKids' = {IF x.uid = k.uid /\ k.genuine
                       THEN [x EXCEPT !.deleting = TRUE] ELSE x : x \in pvKids}
  /\ UNCHANGED <<pvStep, pvNs, pvRails, pvPc, pvSeen, pvLeft>>

\* Mutant of PreviewsTerminating: waits for an event of the previews.
PreviewsTerminatingAwaits ==
  /\ pvPc = "kill" /\ pvList = {} /\ pvLeft
  /\ PvEnd(FALSE)
  /\ UNCHANGED <<pvManage, pvEnv, pvHist, pvEdits>>

\* Previews were found: the finalizer stays and a later pass looks again.
PreviewsTerminating ==
  /\ pvPc = "kill" /\ pvList = {} /\ pvLeft
  /\ PvEnd(TRUE)
  /\ UNCHANGED <<pvManage, pvEnv, pvHist, pvEdits>>

NoPreviewsLeft ==
  /\ pvPc = "kill" /\ pvList = {} /\ ~pvLeft
  /\ pvPc' = "unrail"
  /\ UNCHANGED <<pvStep, pvNs, pvKids, pvRails, pvSeen, pvList, pvLeft>>

RemoveRails ==
  /\ pvPc = "unrail"
  /\ pvRails' = IF pvRails = "ours" THEN "none" ELSE pvRails
  /\ pvPc' = "unfinal"
  /\ UNCHANGED <<pvStep, pvNs, pvKids, pvSeen, pvList, pvLeft>>

PvRemoveParent ==
  /\ pvPc = "unfinal"
  /\ pvParent' = {}
  /\ pvGoneOn' = (\E p \in pvApp : p.on)
  /\ PvEnd(FALSE)
  /\ UNCHANGED <<pvManage, pvNs, pvKids, pvRails, pvLabelled, pvNextUid,
                 pvNextNs, pvNextKid, pvEdits>>

PvReconcile ==
  \/ PvStart \/ PvReconcileNamespace \/ PvApplyRails \/ PvApplyKids
  \/ LookAtNamespace \/ DropNamespace \/ ListPreviews \/ KillPreview
  \/ PreviewsTerminating \/ NoPreviewsLeft \/ RemoveRails \/ PvRemoveParent
PvCluster == PvKidGone \/ PvNamespaceGone
PvUser ==
  \/ PvCreateParent \/ PvEditParent \/ PvAdminNamespace
  \/ \E r \in PvRequests : PvLookalike(r)
PreviewNext == PvReconcile \/ PvCluster \/ PvUser

PreviewSpec == PvInit /\ [][PreviewNext]_pvVars

\* The operator's tasks run, and preview Projects finish their own cleanup.
PvFairness == WF_pvVars(PvReconcile) /\ WF_pvVars(PvCluster)

-----------------------------------------------------------------------------
(* Properties *)

\* A cleanup only deletes a namespace that was labelled as this Project's own
\* by this Project, whatever administrators put at its name meanwhile.
OnlyOwnNamespaceDropped ==
  [][pvPc = "drop" /\ pvPc' # "drop" =>
       \A n \in pvNs : (\E m \in pvNs' : m.terminating /\ ~n.terminating) =>
         \E p \in pvApp : <<n.uid, p.uid>> \in pvLabelled]_pvVars

\* A Project that is removed with previews on leaves no genuine preview
\* behind, except in a namespace that is itself being deleted.
NoPreviewOutlivesParent ==
  pvParent = {} /\ pvGoneOn =>
    \A k \in pvKids : k.genuine => \E n \in pvNs : n.terminating

\* A genuine preview runs behind the guardrails of its namespace for as long
\* as nobody replaces the namespace.
RailsOutlivePreviews ==
  pvNextNs <= 2 =>
    \A k \in pvKids : k.genuine =>
      pvRails = "ours" \/ \E n \in pvNs : n.terminating

\* The deletion of a parent ends although nothing watches its previews.
ParentDeletionEnds ==
  (\E p \in pvParent : p.deleting) ~> (\A p \in pvParent : ~p.deleting)

-----------------------------------------------------------------------------
(* The inductive invariant *)

PvTerminating == \E n \in pvNs : n.terminating
NoGenuine == \A k \in pvKids : ~k.genuine

\* Projects are in a namespace, and a reconcile has a parent.
PvPlaced ==
  /\ pvNs = {} => pvKids = {}
  /\ pvPc # "idle" => pvParent # {}
  /\ pvNs # {} \/ pvPc = "kids" => pvNextNs > 1

\* Previews are made behind guardrails, in the first namespace at the name.
PvRailed ==
  pvPc = "kids" /\ pvNextNs <= 2 => pvRails = "ours" \/ ~Usable

\* What a cleanup has established before it takes the finalizer away.
PvCleaned ==
  /\ pvPc = "kill" /\ ~pvLeft => NoGenuine
  /\ pvPc = "unrail" => NoGenuine
  /\ pvPc = "unfinal" /\ (\E p \in pvApp : p.on) => NoGenuine \/ PvTerminating

\* The owner label of a namespace, live or read, was written by its owner.
PvLabels ==
  /\ \A n \in pvNs \cup pvSeen : n.owner # 0 => <<n.uid, n.owner>> \in pvLabelled
  /\ pvPc = "drop" => \A m \in pvSeen : \E p \in pvApp : m.owner = p.uid

PvInv ==
  /\ PvTypeOK /\ PvPlaced /\ PvRailed /\ PvCleaned /\ PvLabels
  /\ NoPreviewOutlivesParent /\ RailsOutlivePreviews

\* The safety half of ParentDeletionEnds: while a parent is being deleted, a
\* cleanup that will look at its previews runs or is queued, although nothing
\* watches them; a reconcile begun before the deletion does not use it up.
CleanupSteps == {"look", "drop", "list", "kill", "unrail", "unfinal"}
DeletionPending ==
  (\E p \in pvParent : p.deleting) => pvDue \/ pvPc \in CleanupSteps
=============================================================================
