----------------------- MODULE PreviewNamespacesProofs -----------------------
(***************************************************************************)
(* Proofs about PreviewNamespaces, for any pull requests and any number of *)
(* parents, namespaces, previews and edits.                                *)
(***************************************************************************)
EXTENDS PreviewNamespaces, TLAPS

LEMMA PvInitInv == PvInit => PvInv
<1> SUFFICES ASSUME PvInit PROVE PvInv
  OBVIOUS
<1>1. PvTypeOK
  <2>1. /\ pvManage \in BOOLEAN /\ pvDue \in BOOLEAN /\ pvLeft \in BOOLEAN
        /\ pvGoneOn \in BOOLEAN
    BY Zenon DEF PvInit
  <2>2. /\ pvNextUid \in 1 .. PvMaxUid + 1 /\ pvNextNs \in 1 .. PvMaxNs + 1
        /\ pvNextKid \in 1 .. PvMaxKid + 1 /\ pvEdits \in 0 .. PvMaxEdits
    BY PvAssumption DEF PvInit
  <2>3. pvLabelled \subseteq (1 .. PvMaxNs) \X (1 .. PvMaxUid)
    BY DEF PvInit
  <2> QED BY <2>1, <2>2, <2>3 DEF PvInit, PvTypeOK
<1>2. PvPlaced /\ PvRailed /\ PvCleaned /\ PvLabels
  BY DEF PvInit, PvPlaced, PvRailed, PvCleaned, PvLabels
<1>3. NoPreviewOutlivesParent /\ RailsOutlivePreviews
  BY DEF PvInit, NoPreviewOutlivesParent, RailsOutlivePreviews
<1> QED BY <1>1, <1>2, <1>3 DEF PvInv

\* What the types of the records say of their fields.
LEMMA ParentTypes ==
  ASSUME PvTypeOK, NEW p \in pvParent \cup pvApp
  PROVE  p.uid \in 1 .. PvMaxUid /\ p.on \in BOOLEAN /\ p.deleting \in BOOLEAN
BY DEF PvTypeOK, PvParents

LEMMA NamespaceTypes ==
  ASSUME PvTypeOK, NEW n \in pvNs \cup pvSeen
  PROVE  /\ n.uid \in 1 .. PvMaxNs /\ n.owner \in 0 .. PvMaxUid
         /\ n.terminating \in BOOLEAN
         /\ \A u \in 0 .. PvMaxUid : [n EXCEPT !.owner = u] \in PvNamespaces
         /\ [n EXCEPT !.terminating = TRUE] \in PvNamespaces
BY DEF PvTypeOK, PvNamespaces

LEMMA KidTypes ==
  ASSUME PvTypeOK, NEW k \in pvKids
  PROVE  /\ k \in PvKids
         /\ [k EXCEPT !.deleting = TRUE] \in PvKids
         /\ [k EXCEPT !.genuine = TRUE] \in PvKids
         /\ [k EXCEPT !.deleting = TRUE].genuine = k.genuine
         /\ [k EXCEPT !.deleting = TRUE, !.genuine = TRUE] \in PvKids
BY DEF PvTypeOK, PvKids

\* Most steps write no label and move no namespace.
LEMMA LabelsKept ==
  ASSUME PvInv, pvLabelled' = pvLabelled, pvPc' # "drop",
         \A n \in pvNs' : n.owner = 0
           \/ \E m \in pvNs : n.uid = m.uid /\ n.owner = m.owner,
         pvSeen' \subseteq pvSeen \cup pvNs
  PROVE  PvLabels'
BY DEF PvInv, PvLabels

\* A step that makes no preview genuine, undeletes no namespace and takes no
\* guardrails away keeps what is said of previews.
LEMMA PreviewsKept ==
  ASSUME PvInv,
         (\E k \in pvKids' : k.genuine) => (\E k \in pvKids : k.genuine),
         PvTerminating => PvTerminating' \/ pvKids' = {},
         pvRails' = pvRails \/ pvKids' = {} \/ pvRails' = "ours",
         pvNextNs' = pvNextNs \/ pvKids' = {},
         pvParent' = {} => pvParent = {} /\ pvGoneOn' = pvGoneOn
  PROVE  NoPreviewOutlivesParent' /\ RailsOutlivePreviews'
BY DEF PvInv, PvTerminating, NoPreviewOutlivesParent, RailsOutlivePreviews

(* Users, administrators and the cluster *)

LEMMA CreateParentKeeps == PvInv /\ PvCreateParent => PvInv'
<1> SUFFICES ASSUME PvInv, PvCreateParent PROVE PvInv'
  OBVIOUS
<1> USE DEF PvCreateParent, PvEdits, pvOp
<1>1. PvTypeOK'
  <2>1. PICK on \in BOOLEAN :
          pvParent' = {[uid |-> pvNextUid, on |-> on, deleting |-> FALSE]}
    OBVIOUS
  <2>2. pvParent' \subseteq PvParents /\ \A x, y \in pvParent' : x = y
    BY <2>1, PvAssumption DEF PvInv, PvTypeOK, PvParents
  <2>3. pvNextUid' \in 1 .. PvMaxUid + 1 /\ pvEdits' \in 0 .. PvMaxEdits
    BY PvAssumption DEF PvInv, PvTypeOK
  <2>4. pvDue' \in BOOLEAN
    BY Zenon
  <2> QED BY <2>2, <2>3, <2>4 DEF PvInv, PvTypeOK
<1>2. PvPlaced' /\ PvRailed' /\ PvCleaned' /\ PvLabels'
  BY DEF PvInv, PvPlaced, PvRailed, PvCleaned, PvLabels, Usable, NoGenuine,
         PvTerminating
<1>3. NoPreviewOutlivesParent' /\ RailsOutlivePreviews'
  BY PreviewsKept DEF PvTerminating
<1> QED BY <1>1, <1>2, <1>3 DEF PvInv

LEMMA EditParentKeeps == PvInv /\ PvEditParent => PvInv'
<1> SUFFICES ASSUME PvInv, PvEditParent PROVE PvInv'
  OBVIOUS
<1> USE DEF PvEditParent, PvEdits, pvOp, pvHist
<1>1. PICK p \in pvParent : \/ pvParent' = {[p EXCEPT !.on = ~@]}
                            \/ pvParent' = {[p EXCEPT !.deleting = TRUE]}
  OBVIOUS
<1>2. PvTypeOK'
  <2>1. pvParent' \subseteq PvParents /\ \A x, y \in pvParent' : x = y
    BY <1>1 DEF PvInv, PvTypeOK, PvParents
  <2>2. pvEdits' \in 0 .. PvMaxEdits
    BY PvAssumption DEF PvInv, PvTypeOK
  <2>3. pvDue' \in BOOLEAN
    BY Zenon
  <2> QED BY <2>1, <2>2, <2>3 DEF PvInv, PvTypeOK
<1>3. PvPlaced' /\ PvRailed' /\ PvCleaned' /\ PvLabels'
  BY <1>1 DEF PvInv, PvPlaced, PvRailed, PvCleaned, PvLabels, Usable,
              NoGenuine, PvTerminating
<1>4. NoPreviewOutlivesParent' /\ RailsOutlivePreviews'
  BY <1>1, PreviewsKept DEF PvTerminating
<1> QED BY <1>2, <1>3, <1>4 DEF PvInv

\* The namespace and the Projects in it are being deleted.
Terminated ==
  /\ pvNs' = {[n EXCEPT !.terminating = TRUE] : n \in pvNs}
  /\ pvKids' = {[k EXCEPT !.deleting = TRUE] : k \in pvKids}

LEMMA TerminatedKeeps ==
  ASSUME PvInv, Terminated
  PROVE  /\ pvNs' \subseteq PvNamespaces /\ \A x, y \in pvNs' : x = y
         /\ pvKids' \subseteq PvKids
         /\ \A n \in pvNs' : n.terminating
         /\ \A n \in pvNs' : \E m \in pvNs : n.uid = m.uid /\ n.owner = m.owner
         /\ pvNs' = {} <=> pvNs = {}
         /\ pvKids' = {} <=> pvKids = {}
         /\ \A k \in pvKids' : \E j \in pvKids : k.genuine = j.genuine
<1>1. \A x \in pvNs' : \E n \in pvNs : x = [n EXCEPT !.terminating = TRUE]
  BY DEF Terminated
<1>2. \A x \in pvKids' : \E k \in pvKids : x = [k EXCEPT !.deleting = TRUE]
  BY DEF Terminated
<1>3. pvNs' \subseteq PvNamespaces /\ pvKids' \subseteq PvKids
  BY <1>1, <1>2, NamespaceTypes, KidTypes DEF PvInv
<1>4. \A n \in pvNs : LET m == [n EXCEPT !.terminating = TRUE]
                      IN  m.terminating /\ m.uid = n.uid /\ m.owner = n.owner
  BY DEF PvInv, PvTypeOK, PvNamespaces
<1>5. \A x, y \in pvNs' : x = y
  <2> SUFFICES ASSUME NEW x \in pvNs', NEW y \in pvNs' PROVE x = y
    OBVIOUS
  <2>1. PICK n \in pvNs : x = [n EXCEPT !.terminating = TRUE]
    BY <1>1
  <2>2. PICK m \in pvNs : y = [m EXCEPT !.terminating = TRUE]
    BY <1>1
  <2>3. n = m
    BY DEF PvInv, PvTypeOK
  <2> QED BY <2>1, <2>2, <2>3
<1>6. pvNs' = {} <=> pvNs = {}
  BY DEF Terminated
<1>7. pvKids' = {} <=> pvKids = {}
  BY DEF Terminated
<1> QED BY <1>1, <1>2, <1>3, <1>4, <1>5, <1>6, <1>7, KidTypes DEF PvInv

LEMMA AdminNamespaceKeeps == PvInv /\ PvAdminNamespace => PvInv'
<1> SUFFICES ASSUME PvInv, PvAdminNamespace PROVE PvInv'
  OBVIOUS
<1>0. /\ pvEdits' \in 0 .. PvMaxEdits
      /\ UNCHANGED <<pvManage, pvParent, pvDue, pvPc, pvApp, pvSeen, pvList,
                     pvLeft, pvLabelled, pvGoneOn, pvNextUid, pvNextKid>>
  BY PvAssumption DEF PvInv, PvTypeOK, PvAdminNamespace, PvEdits, pvOp
<1>1. CASE /\ pvNs = {} /\ pvNextNs <= PvMaxNs
           /\ pvNs' = {[uid |-> pvNextNs, owner |-> 0, terminating |-> FALSE]}
           /\ pvNextNs' = pvNextNs + 1
           /\ pvRails' \in {"none", "theirs"}
           /\ UNCHANGED pvKids
  <2>1. PvTypeOK'
    <3>1. pvNs' \subseteq PvNamespaces /\ \A x, y \in pvNs' : x = y
      BY <1>1, PvAssumption DEF PvInv, PvTypeOK, PvNamespaces
    <3>2. pvNextNs' \in 1 .. PvMaxNs + 1
      BY <1>1, PvAssumption DEF PvInv, PvTypeOK
    <3> QED BY <1>0, <1>1, <3>1, <3>2 DEF PvInv, PvTypeOK
  <2>2. pvKids' = {}
    BY <1>1 DEF PvInv, PvPlaced
  <2>3. pvNextNs' > 1 /\ (pvPc = "kids" => pvNextNs' > 2)
    BY <1>1 DEF PvInv, PvTypeOK, PvPlaced
  <2>4. PvPlaced' /\ PvRailed' /\ PvCleaned'
    BY <1>0, <1>1, <2>2, <2>3 DEF PvInv, PvPlaced, PvRailed, PvCleaned, PvTypeOK, NoGenuine
  <2>5. PvLabels'
    BY <1>0, <1>1 DEF PvInv, PvLabels
  <2>6. NoPreviewOutlivesParent' /\ RailsOutlivePreviews'
    BY <2>2 DEF NoPreviewOutlivesParent, RailsOutlivePreviews
  <2> QED BY <2>1, <2>4, <2>5, <2>6 DEF PvInv
<1>2. CASE /\ \E n \in pvNs : ~n.terminating
           /\ Terminated /\ UNCHANGED <<pvRails, pvNextNs>>
  <2>1. PvTypeOK'
    BY <1>0, <1>2, TerminatedKeeps DEF PvInv, PvTypeOK
  <2>2. PvPlaced' /\ PvRailed'
    BY <1>0, <1>2, TerminatedKeeps DEF PvInv, PvPlaced, PvRailed, Usable
  <2>3. PvCleaned'
    BY <1>0, <1>2, TerminatedKeeps DEF PvInv, PvCleaned, NoGenuine, PvTerminating
  <2>4. PvLabels'
    BY <1>0, <1>2, TerminatedKeeps DEF PvInv, PvLabels
  <2>5. NoPreviewOutlivesParent' /\ RailsOutlivePreviews'
    BY <1>0, <1>2, TerminatedKeeps
    DEF PvInv, NoPreviewOutlivesParent, RailsOutlivePreviews
  <2> QED BY <2>1, <2>2, <2>3, <2>4, <2>5 DEF PvInv
<1> QED BY <1>1, <1>2 DEF PvAdminNamespace, Terminated

LEMMA LookalikeKeeps ==
  ASSUME PvInv, NEW r \in PvRequests, PvLookalike(r) PROVE PvInv'
<1> DEFINE new == [pr |-> r, uid |-> pvNextKid, genuine |-> FALSE,
                   deleting |-> FALSE]
<1> USE DEF PvLookalike, PvEdits, pvOp
<1>1. PvTypeOK'
  <2>1. new \in PvKids
    BY PvAssumption DEF PvInv, PvTypeOK, PvKids
  <2>3. pvKids' \subseteq PvKids
    BY <2>1 DEF PvInv, PvTypeOK
  <2>2. pvEdits' \in 0 .. PvMaxEdits /\ pvNextKid' \in 1 .. PvMaxKid + 1
    BY PvAssumption DEF PvInv, PvTypeOK
  <2> QED BY <2>2, <2>3 DEF PvInv, PvTypeOK
<1>2. \A k \in pvKids' : k.genuine => k \in pvKids
  OBVIOUS
<1>3. PvPlaced' /\ PvRailed' /\ PvCleaned' /\ PvLabels'
  BY <1>2 DEF PvInv, PvPlaced, PvRailed, PvCleaned, PvLabels, Usable,
              NoGenuine, PvTerminating
<1>4. NoPreviewOutlivesParent' /\ RailsOutlivePreviews'
  BY <1>2, PreviewsKept DEF PvTerminating
<1> QED BY <1>1, <1>3, <1>4 DEF PvInv

LEMMA KidGoneKeeps == PvInv /\ PvKidGone => PvInv'
<1> SUFFICES ASSUME PvInv, PvKidGone PROVE PvInv'
  OBVIOUS
<1> USE DEF PvKidGone, pvOp, pvHist
<1>1. PvTypeOK'
  BY DEF PvInv, PvTypeOK
<1>2. PvPlaced' /\ PvRailed' /\ PvCleaned' /\ PvLabels'
  BY DEF PvInv, PvPlaced, PvRailed, PvCleaned, PvLabels, Usable, NoGenuine,
         PvTerminating
<1>3. NoPreviewOutlivesParent' /\ RailsOutlivePreviews'
  BY PreviewsKept DEF PvTerminating
<1> QED BY <1>1, <1>2, <1>3 DEF PvInv

LEMMA NamespaceGoneKeeps == PvInv /\ PvNamespaceGone => PvInv'
<1> SUFFICES ASSUME PvInv, PvNamespaceGone PROVE PvInv'
  OBVIOUS
<1> USE DEF PvNamespaceGone, pvOp, pvHist
<1>1. PvTypeOK'
  BY DEF PvInv, PvTypeOK
<1>2. PvPlaced' /\ PvRailed' /\ PvCleaned' /\ PvLabels'
  BY DEF PvInv, PvPlaced, PvRailed, PvCleaned, PvLabels, Usable, NoGenuine
<1>3. NoPreviewOutlivesParent' /\ RailsOutlivePreviews'
  BY PreviewsKept
<1> QED BY <1>1, <1>2, <1>3 DEF PvInv

-----------------------------------------------------------------------------
(* Reconcile *)

\* The end of a reconcile.
LEMMA EndKeeps ==
  ASSUME PvInv, NEW requeue \in BOOLEAN, PvEnd(requeue),
         UNCHANGED <<pvManage, pvEnv, pvHist, pvEdits>>
  PROVE  PvInv'
<1> USE DEF PvEnd, pvEnv, pvHist
<1>1. PvTypeOK'
  <2>1. pvLeft' \in BOOLEAN
    BY Zenon
  <2>2. pvDue' \in BOOLEAN
    OBVIOUS
  <2> QED BY <2>1, <2>2 DEF PvInv, PvTypeOK
<1>2. PvPlaced' /\ PvRailed' /\ PvCleaned'
  BY DEF PvInv, PvPlaced, PvRailed, PvCleaned
<1>3. PvLabels'
  BY DEF PvInv, PvLabels
<1>4. NoPreviewOutlivesParent' /\ RailsOutlivePreviews'
  BY DEF PvInv, NoPreviewOutlivesParent, RailsOutlivePreviews
<1> QED BY <1>1, <1>2, <1>3, <1>4 DEF PvInv

LEMMA StartKeeps == PvInv /\ PvStart => PvInv'
<1> SUFFICES ASSUME PvInv, PvStart PROVE PvInv'
  OBVIOUS
<1> USE DEF PvStart, pvEnv, pvHist
<1>0. /\ pvPc' \in {"idle", "look", "list", "unfinal", "ns"}
      /\ pvParent = {} => pvPc' = "idle"
      /\ pvPc' = "unfinal" => \A p \in pvParent : ~p.on
  <2>1. CASE pvParent = {}
    BY <2>1
  <2>2. CASE pvParent # {}
    <3>1. PICK p \in PvParents : pvParent = {p}
      BY <2>2 DEF PvInv, PvTypeOK
    <3>2. p.on \in BOOLEAN /\ p.deleting \in BOOLEAN
      BY DEF PvParents
    <3>3. CASE p.deleting /\ p.on
      BY <3>1, <3>3
    <3>4. CASE p.deleting /\ ~p.on
      BY <3>1, <3>4
    <3>5. CASE ~p.deleting /\ p.on
      BY <3>1, <3>5
    <3>6. CASE ~p.deleting /\ ~p.on
      BY <3>1, <3>6
    <3> QED BY <3>2, <3>3, <3>4, <3>5, <3>6
  <2> QED BY <2>1, <2>2
<1>1. PvTypeOK'
  <2>1. pvDue' \in BOOLEAN
    BY Zenon
  <2>2. pvApp' \subseteq PvParents /\ \A x, y \in pvApp' : x = y
    BY DEF PvInv, PvTypeOK
  <2> QED BY <1>0, <2>1, <2>2 DEF PvInv, PvTypeOK
<1>2. PvPlaced' /\ PvRailed' /\ PvCleaned'
  BY <1>0 DEF PvInv, PvPlaced, PvRailed, PvCleaned
<1>3. PvLabels'
  BY <1>0 DEF PvInv, PvLabels
<1>4. NoPreviewOutlivesParent' /\ RailsOutlivePreviews'
  BY DEF PvInv, NoPreviewOutlivesParent, RailsOutlivePreviews
<1> QED BY <1>1, <1>2, <1>3, <1>4 DEF PvInv

LEMMA ReconcileNamespaceKeeps == PvInv /\ PvReconcileNamespace => PvInv'
<1> SUFFICES ASSUME PvInv, PvReconcileNamespace PROVE PvInv'
  OBVIOUS
<1>0. /\ UNCHANGED <<pvManage, pvParent, pvKids, pvRails, pvGoneOn, pvNextUid,
                     pvNextKid, pvEdits>>
      /\ pvPc = "ns"
  BY DEF PvReconcileNamespace
<1>1. PICK p \in pvApp :
        \/ /\ pvNs # {} /\ LabelNamespace(p.uid) /\ pvPc' = "rails"
           /\ UNCHANGED <<pvApp, pvSeen, pvList, pvLeft, pvDue>>
        \/ /\ pvNs = {} /\ pvNextNs <= PvMaxNs
           /\ pvNs' = {[uid |-> pvNextNs, owner |-> p.uid,
                        terminating |-> FALSE]}
           /\ pvLabelled' = pvLabelled \cup {<<pvNextNs, p.uid>>}
           /\ pvNextNs' = pvNextNs + 1
           /\ pvPc' = "rails"
           /\ UNCHANGED <<pvApp, pvSeen, pvList, pvLeft, pvDue>>
        \/ PvEnd(TRUE) /\ UNCHANGED <<pvNs, pvLabelled, pvNextNs>>
  BY DEF PvReconcileNamespace
<1>2. p.uid \in 1 .. PvMaxUid
  BY ParentTypes DEF PvInv
<1>3. CASE /\ pvNs # {} /\ LabelNamespace(p.uid) /\ pvPc' = "rails"
           /\ UNCHANGED <<pvApp, pvSeen, pvList, pvLeft, pvDue>>
  <2>1. PICK n \in PvNamespaces : pvNs = {n}
    BY <1>3 DEF PvInv, PvTypeOK
  <2>2. pvNs' = {[n EXCEPT !.owner = p.uid]}
        /\ pvLabelled' = pvLabelled \cup {<<n.uid, p.uid>>}
        /\ pvNextNs' = pvNextNs
    BY <1>3, <2>1 DEF LabelNamespace
  <2>3. /\ [n EXCEPT !.owner = p.uid] \in PvNamespaces
        /\ [n EXCEPT !.owner = p.uid].uid = n.uid
        /\ [n EXCEPT !.owner = p.uid].owner = p.uid
        /\ [n EXCEPT !.owner = p.uid].terminating = n.terminating
        /\ n.uid \in 1 .. PvMaxNs
    BY <1>2, PvAssumption DEF PvNamespaces
  <2>4. PvTypeOK'
    <3>1. pvNs' \subseteq PvNamespaces /\ \A x, y \in pvNs' : x = y
      BY <2>2, <2>3
    <3>2. pvLabelled' \subseteq (1 .. PvMaxNs) \X (1 .. PvMaxUid)
      BY <1>2, <2>2, <2>3 DEF PvInv, PvTypeOK
    <3> QED BY <1>0, <1>3, <2>2, <3>1, <3>2 DEF PvInv, PvTypeOK
  <2>5. PvPlaced' /\ PvRailed' /\ PvCleaned'
    BY <1>0, <1>3, <2>1, <2>2 DEF PvInv, PvPlaced, PvRailed, PvCleaned
  <2>6. PvLabels'
    BY <1>3, <2>2, <2>3 DEF PvInv, PvLabels
  <2>7. NoPreviewOutlivesParent' /\ RailsOutlivePreviews'
    BY <1>0, <2>1, <2>2, <2>3, PreviewsKept DEF PvTerminating
  <2> QED BY <2>4, <2>5, <2>6, <2>7 DEF PvInv
<1>4. CASE /\ pvNs = {} /\ pvNextNs <= PvMaxNs
           /\ pvNs' = {[uid |-> pvNextNs, owner |-> p.uid,
                        terminating |-> FALSE]}
           /\ pvLabelled' = pvLabelled \cup {<<pvNextNs, p.uid>>}
           /\ pvNextNs' = pvNextNs + 1
           /\ pvPc' = "rails"
           /\ UNCHANGED <<pvApp, pvSeen, pvList, pvLeft, pvDue>>
  <2>1. pvKids' = {}
    BY <1>0, <1>4 DEF PvInv, PvPlaced
  <2>2. /\ pvNextNs \in 1 .. PvMaxNs /\ pvNextNs' \in 1 .. PvMaxNs + 1
        /\ pvNextNs' > 1
    BY <1>4, PvAssumption DEF PvInv, PvTypeOK
  <2>3. PvTypeOK'
    <3>1. pvNs' \subseteq PvNamespaces /\ \A x, y \in pvNs' : x = y
      BY <1>2, <1>4, <2>2, PvAssumption DEF PvNamespaces
    <3>2. pvLabelled' \subseteq (1 .. PvMaxNs) \X (1 .. PvMaxUid)
      BY <1>2, <1>4, <2>2 DEF PvInv, PvTypeOK
    <3> QED BY <1>0, <1>4, <2>2, <3>1, <3>2 DEF PvInv, PvTypeOK
  <2>4. PvPlaced' /\ PvRailed' /\ PvCleaned'
    BY <1>0, <1>4, <2>1, <2>2 DEF PvInv, PvPlaced, PvRailed, PvCleaned
  <2>5. PvLabels'
    BY <1>4 DEF PvInv, PvLabels
  <2>6. NoPreviewOutlivesParent' /\ RailsOutlivePreviews'
    BY <2>1 DEF NoPreviewOutlivesParent, RailsOutlivePreviews
  <2> QED BY <2>3, <2>4, <2>5, <2>6 DEF PvInv
<1>5. CASE PvEnd(TRUE) /\ UNCHANGED <<pvNs, pvLabelled, pvNextNs>>
  BY <1>0, <1>5, EndKeeps DEF pvEnv, pvHist
<1> QED BY <1>1, <1>3, <1>4, <1>5

LEMMA ApplyRailsKeeps == PvInv /\ PvApplyRails => PvInv'
<1> SUFFICES ASSUME PvInv, PvApplyRails PROVE PvInv'
  OBVIOUS
<1>1. CASE PvEnd(TRUE) /\ UNCHANGED pvRails
  BY <1>1, EndKeeps DEF PvApplyRails, pvEnv, pvHist
<1>2. CASE /\ Usable /\ pvRails' = "ours" /\ pvPc' = "kids"
           /\ UNCHANGED <<pvApp, pvSeen, pvList, pvLeft, pvDue>>
  <2>1. /\ UNCHANGED <<pvManage, pvParent, pvNs, pvKids, pvHist, pvEdits>>
        /\ pvPc = "rails"
    BY DEF PvApplyRails
  <2>2. PvTypeOK'
    BY <1>2, <2>1 DEF PvInv, PvTypeOK, pvHist
  <2>3. PvPlaced' /\ PvRailed' /\ PvCleaned' /\ PvLabels'
    BY <1>2, <2>1 DEF PvInv, PvPlaced, PvRailed, PvCleaned, PvLabels, Usable,
                      pvHist
  <2>4. NoPreviewOutlivesParent' /\ RailsOutlivePreviews'
    BY <1>2, <2>1, PreviewsKept DEF PvTerminating, pvHist
  <2> QED BY <2>2, <2>3, <2>4 DEF PvInv
<1> QED BY <1>1, <1>2 DEF PvApplyRails

\* Previews that have expired stay what they are; only a Usable namespace
\* gets one that is genuine.
LEMMA ApplyKidsMakes ==
  ASSUME PvInv, PvApplyKids
  PROVE  /\ pvKids' \subseteq PvKids /\ pvNextKid' \in 1 .. PvMaxKid + 1
         /\ \/ (\E k \in pvKids' : k.genuine) => (\E k \in pvKids : k.genuine)
            \/ Usable
         /\ pvNs = {} => pvKids' = {}
<1>1. PICK expired \in SUBSET pvKids :
        LET left == {IF k \in expired THEN [k EXCEPT !.deleting = TRUE] ELSE k :
                       k \in pvKids}
        IN  \/ pvKids' = left /\ pvNextKid' = pvNextKid
            \/ \E r \in PvRequests :
                 /\ Usable /\ pvNextKid <= PvMaxKid
                 /\ pvKids' = left \cup {[pr |-> r, uid |-> pvNextKid,
                                          genuine |-> TRUE, deleting |-> FALSE]}
                 /\ pvNextKid' = pvNextKid + 1
            \/ \E k \in left :
                 /\ Usable
                 /\ pvKids' = (left \ {k}) \cup {[k EXCEPT !.genuine = TRUE]}
                 /\ pvNextKid' = pvNextKid
  BY DEF PvApplyKids
<1> DEFINE left == {IF k \in expired THEN [k EXCEPT !.deleting = TRUE] ELSE k :
                      k \in pvKids}
<1>2. \A x \in left : /\ x \in PvKids
                      /\ \E k \in pvKids : x.genuine = k.genuine
  BY KidTypes DEF PvInv
<1>3. pvKids = {} => left = {}
  OBVIOUS
<1>4. pvNextKid \in 1 .. PvMaxKid + 1
  BY DEF PvInv, PvTypeOK
<1>5. pvNs = {} => pvKids = {} /\ ~Usable
  BY DEF PvInv, PvPlaced, Usable
<1> HIDE DEF left
<1>6. CASE pvKids' = left /\ pvNextKid' = pvNextKid
  BY <1>2, <1>3, <1>4, <1>5, <1>6
<1>7. ASSUME NEW r \in PvRequests, Usable, pvNextKid <= PvMaxKid,
             pvKids' = left \cup {[pr |-> r, uid |-> pvNextKid,
                                   genuine |-> TRUE, deleting |-> FALSE]},
             pvNextKid' = pvNextKid + 1
      PROVE  /\ pvKids' \subseteq PvKids /\ pvNextKid' \in 1 .. PvMaxKid + 1
             /\ pvNs # {}
  <2>1. [pr |-> r, uid |-> pvNextKid, genuine |-> TRUE, deleting |-> FALSE]
          \in PvKids
    BY <1>4, <1>7, PvAssumption DEF PvKids
  <2>2. pvNextKid' \in 1 .. PvMaxKid + 1
    BY <1>4, <1>7, PvAssumption
  <2> QED BY <1>2, <1>5, <1>7, <2>1, <2>2
<1>8. ASSUME NEW k \in left, Usable, pvNextKid' = pvNextKid,
             pvKids' = (left \ {k}) \cup {[k EXCEPT !.genuine = TRUE]}
      PROVE  /\ pvKids' \subseteq PvKids /\ pvNextKid' \in 1 .. PvMaxKid + 1
             /\ pvNs # {}
  <2>1. [k EXCEPT !.genuine = TRUE] \in PvKids
    BY <1>2 DEF PvKids
  <2> QED BY <1>2, <1>4, <1>5, <1>8, <2>1
<1> QED BY <1>1, <1>6, <1>7, <1>8 DEF left

LEMMA ApplyKidsKeeps == PvInv /\ PvApplyKids => PvInv'
<1> SUFFICES ASSUME PvInv, PvApplyKids PROVE PvInv'
  OBVIOUS
<1>0. /\ UNCHANGED <<pvManage, pvParent, pvNs, pvRails, pvLabelled, pvGoneOn,
                     pvNextUid, pvNextNs, pvEdits>>
      /\ pvPc = "kids" /\ PvEnd(FALSE)
  BY DEF PvApplyKids
<1>1. PvTypeOK'
  <2>1. pvLeft' \in BOOLEAN
    BY <1>0, Zenon DEF PvEnd
  <2>2. pvDue' \in BOOLEAN
    BY <1>0 DEF PvEnd, PvInv, PvTypeOK
  <2> QED BY <1>0, <2>1, <2>2, ApplyKidsMakes DEF PvInv, PvTypeOK, PvEnd
<1>2. PvPlaced' /\ PvRailed' /\ PvCleaned' /\ PvLabels'
  BY <1>0, ApplyKidsMakes
  DEF PvInv, PvPlaced, PvRailed, PvCleaned, PvLabels, PvEnd
<1>3. CASE (\E k \in pvKids' : k.genuine) => (\E k \in pvKids : k.genuine)
  <2>1. NoPreviewOutlivesParent' /\ RailsOutlivePreviews'
    BY <1>0, <1>3, PreviewsKept DEF PvTerminating
  <2> QED BY <1>1, <1>2, <2>1 DEF PvInv
<1>4. CASE Usable
  <2>1. pvParent # {}
    BY <1>0 DEF PvInv, PvPlaced
  <2>2. pvNextNs <= 2 => pvRails = "ours"
    BY <1>0, <1>4 DEF PvInv, PvRailed
  <2>3. NoPreviewOutlivesParent' /\ RailsOutlivePreviews'
    BY <1>0, <2>1, <2>2 DEF NoPreviewOutlivesParent, RailsOutlivePreviews
  <2> QED BY <1>1, <1>2, <2>3 DEF PvInv
<1> QED BY <1>3, <1>4, ApplyKidsMakes

LEMMA LookAtNamespaceKeeps == PvInv /\ LookAtNamespace => PvInv'
<1> SUFFICES ASSUME PvInv, LookAtNamespace PROVE PvInv'
  OBVIOUS
<1>0. /\ UNCHANGED <<pvStep, pvNs, pvKids, pvRails, pvList, pvLeft>>
      /\ pvPc = "look"
  BY DEF LookAtNamespace
<1> USE DEF pvStep, pvHist
<1>1. PICK p \in pvApp :
        \/ /\ \E n \in pvNs : n.owner = p.uid
           /\ pvSeen' = pvNs /\ pvPc' = "drop"
        \/ pvSeen' = {} /\ pvPc' = "list"
  BY DEF LookAtNamespace
<1>2. PvTypeOK'
  BY <1>0, <1>1 DEF PvInv, PvTypeOK
<1>3. PvPlaced' /\ PvRailed' /\ PvCleaned'
  BY <1>0, <1>1 DEF PvInv, PvPlaced, PvRailed, PvCleaned
<1>4. PvLabels'
  BY <1>0, <1>1 DEF PvInv, PvLabels, PvTypeOK
<1>5. NoPreviewOutlivesParent' /\ RailsOutlivePreviews'
  BY <1>0, PreviewsKept DEF PvTerminating
<1> QED BY <1>2, <1>3, <1>4, <1>5 DEF PvInv

LEMMA DropNamespaceKeeps == PvInv /\ DropNamespace => PvInv'
<1> SUFFICES ASSUME PvInv, DropNamespace PROVE PvInv'
  OBVIOUS
<1>0. UNCHANGED <<pvStep, pvRails, pvSeen, pvList, pvLeft>> /\ pvPc = "drop"
  BY DEF DropNamespace
<1> USE DEF pvStep, pvHist
<1>1. CASE SameNamespace /\ Terminated /\ pvPc' = "unfinal"
  <2>0. PvTerminating'
    BY <1>1, TerminatedKeeps DEF PvTerminating, SameNamespace
  <2>1. PvTypeOK'
    BY <1>0, <1>1, TerminatedKeeps DEF PvInv, PvTypeOK
  <2>2. PvPlaced' /\ PvRailed'
    BY <1>0, <1>1, TerminatedKeeps DEF PvInv, PvPlaced, PvRailed
  <2>3. PvCleaned'
    BY <1>1, <2>0 DEF PvCleaned
  <2>4. PvLabels'
    BY <1>0, <1>1, TerminatedKeeps DEF PvInv, PvLabels
  <2>5. NoPreviewOutlivesParent' /\ RailsOutlivePreviews'
    BY <2>0 DEF NoPreviewOutlivesParent, RailsOutlivePreviews, PvTerminating
  <2> QED BY <2>1, <2>2, <2>3, <2>4, <2>5 DEF PvInv
<1>2. CASE pvPc' = "list" /\ UNCHANGED <<pvNs, pvKids>>
  <2>1. PvTypeOK'
    BY <1>0, <1>2 DEF PvInv, PvTypeOK
  <2>2. PvPlaced' /\ PvRailed' /\ PvCleaned' /\ PvLabels'
    BY <1>0, <1>2 DEF PvInv, PvPlaced, PvRailed, PvCleaned, PvLabels
  <2>3. NoPreviewOutlivesParent' /\ RailsOutlivePreviews'
    BY <1>0, <1>2, PreviewsKept DEF PvTerminating
  <2> QED BY <2>1, <2>2, <2>3 DEF PvInv
<1> QED BY <1>1, <1>2 DEF DropNamespace, Terminated

LEMMA ListPreviewsKeeps == PvInv /\ ListPreviews => PvInv'
<1> SUFFICES ASSUME PvInv, ListPreviews PROVE PvInv'
  OBVIOUS
<1> USE DEF ListPreviews, pvStep, pvHist
<1>1. PvTypeOK'
  <2>1. pvLeft' \in BOOLEAN
    OBVIOUS
  <2> QED BY <2>1 DEF PvInv, PvTypeOK
<1>2. PvPlaced' /\ PvRailed' /\ PvCleaned' /\ PvLabels'
  BY DEF PvInv, PvPlaced, PvRailed, PvCleaned, PvLabels, NoGenuine
<1>3. NoPreviewOutlivesParent' /\ RailsOutlivePreviews'
  BY PreviewsKept DEF PvTerminating
<1> QED BY <1>1, <1>2, <1>3 DEF PvInv

LEMMA KillPreviewKeeps == PvInv /\ KillPreview => PvInv'
<1> SUFFICES ASSUME PvInv, KillPreview PROVE PvInv'
  OBVIOUS
<1>0. UNCHANGED <<pvStep, pvNs, pvRails, pvPc, pvSeen, pvLeft>>
  BY DEF KillPreview
<1> USE DEF pvStep, pvHist
<1>1. PICK k \in pvList :
        /\ pvList' = pvList \ {k}
        /\ pvKids' = {IF x.uid = k.uid /\ k.genuine
                        THEN [x EXCEPT !.deleting = TRUE] ELSE x : x \in pvKids}
  BY DEF KillPreview
<1>2. /\ \A y \in pvKids' : y \in PvKids /\ \E x \in pvKids : y.genuine = x.genuine
      /\ pvKids = {} => pvKids' = {}
  BY <1>1, KidTypes DEF PvInv
<1>3. PvTypeOK'
  BY <1>0, <1>1, <1>2 DEF PvInv, PvTypeOK
<1>4. PvPlaced' /\ PvRailed' /\ PvLabels'
  BY <1>0, <1>2 DEF PvInv, PvPlaced, PvRailed, PvLabels, Usable
<1>5. PvCleaned'
  BY <1>0, <1>2 DEF PvInv, PvCleaned, NoGenuine, PvTerminating
<1>6. NoPreviewOutlivesParent' /\ RailsOutlivePreviews'
  BY <1>0, <1>2, PreviewsKept DEF PvTerminating
<1> QED BY <1>3, <1>4, <1>5, <1>6 DEF PvInv

LEMMA PreviewsTerminatingKeeps == PvInv /\ PreviewsTerminating => PvInv'
BY EndKeeps DEF PreviewsTerminating

LEMMA NoPreviewsLeftKeeps == PvInv /\ NoPreviewsLeft => PvInv'
<1> SUFFICES ASSUME PvInv, NoPreviewsLeft PROVE PvInv'
  OBVIOUS
<1> USE DEF NoPreviewsLeft, pvStep, pvHist
<1>1. PvTypeOK'
  BY DEF PvInv, PvTypeOK
<1>2. PvPlaced' /\ PvRailed' /\ PvCleaned' /\ PvLabels'
  BY DEF PvInv, PvPlaced, PvRailed, PvCleaned, PvLabels, NoGenuine
<1>3. NoPreviewOutlivesParent' /\ RailsOutlivePreviews'
  BY PreviewsKept DEF PvTerminating
<1> QED BY <1>1, <1>2, <1>3 DEF PvInv

LEMMA RemoveRailsKeeps == PvInv /\ RemoveRails => PvInv'
<1> SUFFICES ASSUME PvInv, RemoveRails PROVE PvInv'
  OBVIOUS
<1> USE DEF RemoveRails, pvStep, pvHist
<1>0. NoGenuine
  BY DEF PvInv, PvCleaned
<1>1. PvTypeOK'
  BY DEF PvInv, PvTypeOK
<1>2. PvPlaced' /\ PvRailed' /\ PvCleaned' /\ PvLabels'
  BY <1>0 DEF PvInv, PvPlaced, PvRailed, PvCleaned, PvLabels, NoGenuine
<1>3. NoPreviewOutlivesParent' /\ RailsOutlivePreviews'
  BY <1>0 DEF NoGenuine, NoPreviewOutlivesParent, RailsOutlivePreviews
<1> QED BY <1>1, <1>2, <1>3 DEF PvInv

LEMMA RemoveParentKeeps == PvInv /\ PvRemoveParent => PvInv'
<1> SUFFICES ASSUME PvInv, PvRemoveParent PROVE PvInv'
  OBVIOUS
<1> USE DEF PvRemoveParent, PvEnd
<1>1. PvTypeOK'
  <2>1. pvLeft' \in BOOLEAN
    BY Zenon
  <2>2. pvDue' \in BOOLEAN /\ pvGoneOn' \in BOOLEAN
    BY DEF PvInv, PvTypeOK
  <2> QED BY <2>1, <2>2 DEF PvInv, PvTypeOK
<1>2. PvPlaced' /\ PvRailed' /\ PvCleaned' /\ PvLabels'
  BY DEF PvInv, PvPlaced, PvRailed, PvCleaned, PvLabels
<1>3. NoPreviewOutlivesParent'
  BY DEF PvInv, PvCleaned, NoGenuine, PvTerminating, NoPreviewOutlivesParent
<1>4. RailsOutlivePreviews'
  BY DEF PvInv, RailsOutlivePreviews
<1> QED BY <1>1, <1>2, <1>3, <1>4 DEF PvInv

-----------------------------------------------------------------------------
(* The results *)

\* The inductive invariant: a preview is made genuine only behind the
\* guardrails and by a reconcile of a parent that is there, and what a
\* cleanup has seen before it takes the finalizer away is still so.
THEOREM PvInvariance == PreviewSpec => []PvInv
<1>1. PvInit => PvInv
  BY PvInitInv
<1>2. PvInv /\ [PreviewNext]_pvVars => PvInv'
  <2> SUFFICES ASSUME PvInv, [PreviewNext]_pvVars PROVE PvInv'
    OBVIOUS
  <2>1. CASE PvReconcile
    BY <2>1, StartKeeps, ReconcileNamespaceKeeps, ApplyRailsKeeps,
       ApplyKidsKeeps, LookAtNamespaceKeeps, DropNamespaceKeeps,
       ListPreviewsKeeps, KillPreviewKeeps, PreviewsTerminatingKeeps,
       NoPreviewsLeftKeeps, RemoveRailsKeeps, RemoveParentKeeps
    DEF PvReconcile
  <2>2. CASE PvCluster
    BY <2>2, KidGoneKeeps, NamespaceGoneKeeps DEF PvCluster
  <2>3. CASE PvUser
    BY <2>3, CreateParentKeeps, EditParentKeeps, AdminNamespaceKeeps,
       LookalikeKeeps
    DEF PvUser
  <2>4. CASE UNCHANGED pvVars
    <3> USE DEF pvVars, pvEnv, pvOp, pvHist
    <3>1. PvTypeOK'
      BY <2>4 DEF PvInv, PvTypeOK
    <3>2. PvPlaced' /\ PvRailed' /\ PvCleaned' /\ PvLabels'
      BY <2>4 DEF PvInv, PvPlaced, PvRailed, PvCleaned, PvLabels, Usable,
                  NoGenuine, PvTerminating
    <3>3. NoPreviewOutlivesParent' /\ RailsOutlivePreviews'
      BY <2>4 DEF PvInv, NoPreviewOutlivesParent, RailsOutlivePreviews
    <3> QED BY <3>1, <3>2, <3>3 DEF PvInv
  <2> QED BY <2>1, <2>2, <2>3, <2>4 DEF PreviewNext
<1> QED BY <1>1, <1>2, PTL DEF PreviewSpec

\* A parent removed with previews on leaves no genuine preview behind, except
\* in a namespace that is being deleted.
THEOREM NoOrphanPreview == PreviewSpec => []NoPreviewOutlivesParent
<1>1. PvInv => NoPreviewOutlivesParent
  BY DEF PvInv
<1> QED BY <1>1, PvInvariance, PTL

\* A genuine preview runs behind the guardrails until its namespace is
\* replaced or deleted, also while its parent is cleaned up.
THEOREM RailsStay == PreviewSpec => []RailsOutlivePreviews
<1>1. PvInv => RailsOutlivePreviews
  BY DEF PvInv
<1> QED BY <1>1, PvInvariance, PTL

\* A cleanup deletes only a namespace that this Project labelled as its own:
\* one that took its name after it was read has another UID.
THEOREM DropsOwn == PreviewSpec => OnlyOwnNamespaceDropped
<1>1. PvInv /\ [PreviewNext]_pvVars =>
        [pvPc = "drop" /\ pvPc' # "drop" =>
           \A n \in pvNs : (\E m \in pvNs' : m.terminating /\ ~n.terminating) =>
             \E p \in pvApp : <<n.uid, p.uid>> \in pvLabelled]_pvVars
  <2> SUFFICES ASSUME PvInv, PreviewNext, pvPc = "drop", pvPc' # "drop",
                      NEW n \in pvNs, NEW m \in pvNs', m.terminating,
                      ~n.terminating
               PROVE  \E p \in pvApp : <<n.uid, p.uid>> \in pvLabelled
    OBVIOUS
  <2>1. DropNamespace
    BY DEF PreviewNext, PvReconcile, PvCluster, PvUser, PvStart,
           PvReconcileNamespace, PvApplyRails, PvApplyKids, LookAtNamespace,
           ListPreviews, KillPreview, PreviewsTerminating, NoPreviewsLeft,
           RemoveRails, PvRemoveParent, PvKidGone, PvNamespaceGone,
           PvCreateParent, PvEditParent, PvAdminNamespace, PvLookalike, pvOp
  <2>2. SameNamespace
    BY <2>1 DEF DropNamespace, PvInv, PvTypeOK
  <2>3. PICK s \in pvSeen : s.uid = n.uid
    BY <2>2 DEF SameNamespace, PvInv, PvTypeOK
  <2>4. PICK p \in pvApp : s.owner = p.uid
    BY DEF PvInv, PvLabels
  <2>5. p.uid # 0
    BY ParentTypes DEF PvInv
  <2> QED BY <2>3, <2>4, <2>5 DEF PvInv, PvLabels
<1> QED BY <1>1, PvInvariance, PTL DEF PreviewSpec, OnlyOwnNamespaceDropped

\* A reconcile that starts on a parent that is being deleted is a cleanup.
LEMMA StartCleansUp ==
  ASSUME PvTypeOK, PvStart, \E p \in pvParent : p.deleting
  PROVE  pvPc' \in CleanupSteps
<1>1. PICK p \in pvParent : p.deleting
  OBVIOUS
<1>2. pvParent = {p} /\ p.on \in BOOLEAN /\ p.deleting = TRUE
  BY <1>1, ParentTypes DEF PvTypeOK
<1>3. CASE p.on
  BY <1>2, <1>3 DEF PvStart, CleanupSteps
<1>4. CASE ~p.on
  BY <1>2, <1>4 DEF PvStart, CleanupSteps
<1> QED BY <1>2, <1>3, <1>4

\* The deletion of a parent is never forgotten: until the parent is gone a
\* cleanup runs or is queued, although the previews it waits for send no event
\* (cleanup fails with PreviewsTerminating and the error policy requeues it).
THEOREM DeletionIsPending == PreviewSpec => []DeletionPending
<1>1. PvInit => DeletionPending
  BY DEF PvInit, DeletionPending
<1>2. PvInv /\ DeletionPending /\ [PreviewNext]_pvVars => DeletionPending'
  <2> SUFFICES ASSUME PvInv, DeletionPending, [PreviewNext]_pvVars
               PROVE  DeletionPending'
    OBVIOUS
  <2> USE DEF DeletionPending
  <2>1. CASE PvStart
    BY <2>1, StartCleansUp DEF PvInv, PvStart, pvHist, pvEnv
  <2>2. CASE PvReconcileNamespace \/ PvApplyRails \/ PvApplyKids
    BY <2>2 DEF PvReconcileNamespace, PvApplyRails, PvApplyKids, PvEnd,
                CleanupSteps, pvEnv, pvHist
  <2>3. CASE LookAtNamespace \/ DropNamespace \/ ListPreviews \/ KillPreview
    BY <2>3 DEF LookAtNamespace, DropNamespace, ListPreviews, KillPreview,
                pvStep, CleanupSteps
  <2>4. CASE PreviewsTerminating \/ NoPreviewsLeft \/ RemoveRails
    BY <2>4 DEF PreviewsTerminating, NoPreviewsLeft, RemoveRails, PvEnd,
                pvStep, CleanupSteps
  <2>5. CASE PvRemoveParent
    BY <2>5 DEF PvRemoveParent
  <2>6. CASE PvCluster
    BY <2>6 DEF PvCluster, PvKidGone, PvNamespaceGone, pvOp
  <2>7. CASE PvUser
    BY <2>7 DEF PvUser, PvCreateParent, PvEditParent, PvAdminNamespace,
                PvLookalike, pvOp
  <2>8. CASE UNCHANGED pvVars
    BY <2>8 DEF pvVars, pvEnv, pvOp
  <2> QED BY <2>1, <2>2, <2>3, <2>4, <2>5, <2>6, <2>7, <2>8
          DEF PreviewNext, PvReconcile
<1> QED BY <1>1, <1>2, PvInvariance, PTL DEF PreviewSpec
==============================================================================
