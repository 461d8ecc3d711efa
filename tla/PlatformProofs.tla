--------------------------- MODULE PlatformProofs ---------------------------
(***************************************************************************)
(* Proofs about the components that MCPlatform puts side by side: here the *)
(* retry policy of the operator, GitHub imports, live updates, local       *)
(* builds and the log; the Project, its previews and its wiring have       *)
(* modules of their own.  The components share no state; each has its own  *)
(* inductive invariant in its module, and the last section puts the        *)
(* results together for the composed specification.                        *)
(***************************************************************************)
EXTENDS MCPlatform, ProjectLifecycleProofs, PreviewNamespacesProofs,
        WiringProofs, FiniteSetTheorems, SequenceTheorems, TLAPS

(* RetryPolicy *)

\* The factors the code can compute, one by one: a shift by at most 20 places.
LEMMA Shifts ==
  /\ 2 ^ 0 = 1 /\ 2 ^ 1 = 2 /\ 2 ^ 2 = 4 /\ 2 ^ 3 = 8 /\ 2 ^ 4 = 16
  /\ 2 ^ 5 = 32 /\ 2 ^ 6 = 64 /\ 2 ^ 7 = 128 /\ 2 ^ 8 = 256 /\ 2 ^ 9 = 512
  /\ 2 ^ 10 = 1024 /\ 2 ^ 11 = 2048 /\ 2 ^ 12 = 4096 /\ 2 ^ 13 = 8192
  /\ 2 ^ 14 = 16384 /\ 2 ^ 15 = 32768 /\ 2 ^ 16 = 65536 /\ 2 ^ 17 = 131072
  /\ 2 ^ 18 = 262144 /\ 2 ^ 19 = 524288 /\ 2 ^ 20 = 1048576
OBVIOUS

LEMMA ShiftFactorGrows ==
  ASSUME NEW n \in Nat
  PROVE  /\ ShiftFactor(n) \in Nat /\ 1 <= ShiftFactor(n)
         /\ ShiftFactor(n) <= ShiftFactor(n + 1)
         /\ ShiftFactor(0) = 1
<1>1. ShiftFactor(0) = 1
  BY DEF ShiftFactor
<1>2. CASE n >= 20
  BY <1>1, <1>2, Shifts DEF ShiftFactor
<1>3. CASE n < 20
  <2>1. n \in 0 .. 19
    BY <1>3
  <2>2. \A k \in 0 .. 19 : /\ 2 ^ k \in Nat /\ 1 <= 2 ^ k
                           /\ 2 ^ k <= 2 ^ (k + 1)
    <3> SUFFICES ASSUME NEW k \in 0 .. 19
                 PROVE  2 ^ k \in Nat /\ 1 <= 2 ^ k /\ 2 ^ k <= 2 ^ (k + 1)
      OBVIOUS
    <3>1. CASE k = 0 BY <3>1, Shifts
    <3>2. CASE k = 1 BY <3>2, Shifts
    <3>3. CASE k = 2 BY <3>3, Shifts
    <3>4. CASE k = 3 BY <3>4, Shifts
    <3>5. CASE k = 4 BY <3>5, Shifts
    <3>6. CASE k = 5 BY <3>6, Shifts
    <3>7. CASE k = 6 BY <3>7, Shifts
    <3>8. CASE k = 7 BY <3>8, Shifts
    <3>9. CASE k = 8 BY <3>9, Shifts
    <3>10. CASE k = 9 BY <3>10, Shifts
    <3>11. CASE k = 10 BY <3>11, Shifts
    <3>12. CASE k = 11 BY <3>12, Shifts
    <3>13. CASE k = 12 BY <3>13, Shifts
    <3>14. CASE k = 13 BY <3>14, Shifts
    <3>15. CASE k = 14 BY <3>15, Shifts
    <3>16. CASE k = 15 BY <3>16, Shifts
    <3>17. CASE k = 16 BY <3>17, Shifts
    <3>18. CASE k = 17 BY <3>18, Shifts
    <3>19. CASE k = 18 BY <3>19, Shifts
    <3>20. CASE k = 19 BY <3>20, Shifts
    <3> QED BY <3>1, <3>2, <3>3, <3>4, <3>5, <3>6, <3>7, <3>8, <3>9, <3>10,
               <3>11, <3>12, <3>13, <3>14, <3>15, <3>16, <3>17, <3>18, <3>19, <3>20
  <2>3. ShiftFactor(n) = 2 ^ n /\ ShiftFactor(n + 1) = 2 ^ (n + 1)
    <3>1. CASE n < 19
      BY <2>1, <3>1 DEF ShiftFactor
    <3>2. CASE n = 19
      BY <3>2 DEF ShiftFactor
    <3> QED BY <2>1, <3>1, <3>2
  <2> QED BY <1>1, <2>1, <2>2, <2>3
<1> QED BY <1>2, <1>3

LEMMA ComputeBackoffGrows ==
  ASSUME NEW class \in {"Transient", "DependencyNotReady"}, NEW n \in Nat
  PROVE  LET base == BaseOf(class)
         IN  /\ ComputeBackoff(base, n) \in Nat
             /\ base <= ComputeBackoff(base, n)
             /\ ComputeBackoff(base, n) <= BackoffMax
             /\ ComputeBackoff(base, n) <= ComputeBackoff(base, n + 1)
<1>1. BaseOf(class) = 30 \/ BaseOf(class) = 60
  BY DEF BaseOf, BackoffBaseTransient, BackoffBaseDependency
<1>2. ShiftFactor(n) \in Nat /\ ShiftFactor(n + 1) \in Nat
      /\ 1 <= ShiftFactor(n) /\ ShiftFactor(n) <= ShiftFactor(n + 1)
  <2>1. n + 1 \in Nat
    OBVIOUS
  <2> QED BY <2>1, ShiftFactorGrows
<1>3. CASE BaseOf(class) = 30
  BY <1>2, <1>3 DEF ComputeBackoff, BackoffMax
<1>4. CASE BaseOf(class) = 60
  BY <1>2, <1>4 DEF ComputeBackoff, BackoffMax
<1> QED BY <1>1, <1>3, <1>4

\* What a failed reconcile leaves behind, by the class of its error.
LEMMA FailureOutcomes ==
  ASSUME RpInv, NEW class \in RetryClasses, ReconcileFails(class)
  PROVE  /\ RpInv'
         /\ class \in {"Transient", "DependencyNotReady"} =>
              /\ BaseOf(class) <= rpWait' /\ rpWait' <= BackoffMax
              /\ rpClass = class => rpWait <= rpWait'
<1>0. rpClass' = class
  BY DEF ReconcileFails
<1>1. CASE class \in {"Permanent", "OwnershipConflict"}
  BY <1>0, <1>1, RetryAssumption
  DEF RpInv, RpTypeOK, RpWaits, ReconcileFails, RetryClasses,
      OwnershipConflictRequeue
<1>2. CASE class \in {"Transient", "DependencyNotReady"}
  <2>1. BumpAttempts /\ rpWait' = ComputeBackoff(BaseOf(class), rpAttempts' - 1)
    BY <1>2 DEF ReconcileFails
  <2>2. /\ rpAttempts' \in 0 .. RetryTop /\ rpAttempts' > 0
        /\ rpAttempts' \in {rpAttempts, rpAttempts + 1}
    <3>1. rpAttempts \in 0 .. RetryTop /\ RetryTop \in Nat /\ RetryTop > 64
      BY RetryAssumption DEF RpInv, RpTypeOK
    <3>2. rpAttempts' = IF rpAttempts < RetryTop THEN rpAttempts + 1
                          ELSE rpAttempts
      BY <2>1 DEF BumpAttempts
    <3> QED BY <3>1, <3>2
  <2>3. rpAttempts' - 1 \in Nat
    <3>1. rpAttempts' \in Nat /\ rpAttempts' > 0
      BY <2>2, RetryAssumption
    <3>2. \A n \in Nat : n > 0 => n - 1 \in Nat
      OBVIOUS
    <3> QED BY <3>1, <3>2
  <2>4. /\ rpWait' \in Nat /\ BaseOf(class) <= rpWait' /\ rpWait' <= BackoffMax
    BY <1>2, <2>1, <2>3, ComputeBackoffGrows
  <2>5. RpInv'
    BY <1>0, <1>2, <2>1, <2>2, <2>4, RetryAssumption
    DEF RpInv, RpTypeOK, RpWaits, RetryClasses
  <2>6. ASSUME rpClass = class PROVE rpWait <= rpWait'
    <3>1. /\ rpAttempts > 0 /\ rpAttempts \in Nat
          /\ rpWait = ComputeBackoff(BaseOf(class), rpAttempts - 1)
      BY <1>2, <2>6, RetryAssumption DEF RpInv, RpTypeOK, RpWaits
    <3>2. rpAttempts - 1 \in Nat /\ (rpAttempts - 1) + 1 = rpAttempts
      BY <3>1
    <3>3. rpWait \in Nat /\ rpWait <= ComputeBackoff(BaseOf(class), rpAttempts)
      BY <1>2, <3>1, <3>2, ComputeBackoffGrows
    <3>4. CASE rpAttempts' = rpAttempts + 1
      BY <2>1, <3>1, <3>3, <3>4
    <3>5. CASE rpAttempts' = rpAttempts
      BY <2>1, <3>1, <3>3, <3>5
    <3> QED BY <2>2, <3>4, <3>5
  <2> QED BY <2>4, <2>5, <2>6
<1> QED BY <1>1, <1>2 DEF RetryClasses

LEMMA ErrorClassTypes ==
  ASSUME NEW error \in RetryErrors, NEW wrapped \in BOOLEAN,
         NEW ofFinalizer \in BOOLEAN
  PROVE  ErrorClass(error, wrapped, ofFinalizer) \in RetryClasses
<1>1. RetryClass(error) \in RetryClasses
  BY DEF RetryErrors, RetryClass, RetryClasses
<1> QED BY <1>1 DEF ErrorClass, RetryClasses

\* The wait that is scheduled is always the one of the last outcome.
THEOREM RetryInvariance == RetrySpec => []RpInv
<1>1. RpInit => RpInv
  BY RetryAssumption DEF RpInit, RpInv, RpTypeOK, RpWaits
<1>2. RpInv /\ [RetryNext]_rpVars => RpInv'
  <2> SUFFICES ASSUME RpInv, [RetryNext]_rpVars PROVE RpInv'
    OBVIOUS
  <2>1. CASE ReconcileSucceeds
    BY <2>1, RetryAssumption
    DEF ReconcileSucceeds, RpInv, RpTypeOK, RpWaits
  <2>2. ASSUME NEW error \in RetryErrors, NEW wrapped \in BOOLEAN,
               NEW ofFinalizer \in BOOLEAN,
               ReconcileFails(ErrorClass(error, wrapped, ofFinalizer))
        PROVE  RpInv'
    BY <2>2, ErrorClassTypes, FailureOutcomes
  <2>3. CASE UNCHANGED rpVars
    BY <2>3 DEF rpVars, RpInv, RpTypeOK, RpWaits
  <2> QED BY <2>1, <2>2, <2>3 DEF RetryNext
<1> QED BY <1>1, <1>2, PTL DEF RetrySpec

\* However many failures in a row, and wherever the counter saturates, the
\* wait after a retryable error is between its base delay and ten minutes,
\* and a failure of the same class never shortens it.
THEOREM BackoffIsSane == RetrySpec => BackoffSane
<1>1. RpInv /\ [RetryNext]_rpVars =>
        [/\ rpClass' \in {"Transient", "DependencyNotReady"} =>
              BaseOf(rpClass') <= rpWait' /\ rpWait' <= BackoffMax
         /\ rpClass' = rpClass => rpWait <= rpWait']_rpVars
  <2> SUFFICES ASSUME RpInv, RetryNext
               PROVE  /\ rpClass' \in {"Transient", "DependencyNotReady"} =>
                           BaseOf(rpClass') <= rpWait' /\ rpWait' <= BackoffMax
                      /\ rpClass' = rpClass => rpWait <= rpWait'
    OBVIOUS
  <2>1. CASE ReconcileSucceeds
    BY <2>1 DEF ReconcileSucceeds, RpInv, RpTypeOK, RpWaits
  <2>2. ASSUME NEW class \in RetryClasses, ReconcileFails(class)
        PROVE  /\ rpClass' \in {"Transient", "DependencyNotReady"} =>
                    BaseOf(rpClass') <= rpWait' /\ rpWait' <= BackoffMax
               /\ rpClass' = rpClass => rpWait <= rpWait'
    <3>1. rpClass' = class
      BY <2>2 DEF ReconcileFails
    <3>2. CASE class \in {"Transient", "DependencyNotReady"}
      BY <2>2, <3>1, <3>2, FailureOutcomes
    <3>3. CASE class = "Permanent"
      BY <2>2, <3>1, <3>3 DEF ReconcileFails, RpInv, RpWaits
    <3>4. CASE class = "OwnershipConflict"
      BY <2>2, <3>1, <3>4
      DEF ReconcileFails, RpInv, RpWaits, OwnershipConflictRequeue
    <3> QED BY <3>2, <3>3, <3>4 DEF RetryClasses
  <2> QED BY <2>1, <2>2, ErrorClassTypes DEF RetryNext
<1> QED BY <1>1, RetryInvariance, PTL DEF RetrySpec, BackoffSane

-----------------------------------------------------------------------------
(* GitHubImport *)

\* There is always a timestamp nobody holds: the row, the importers and their
\* copies have too few to use them all up.
LEMMA FreshIsFresh ==
  ASSUME GhTypeOK
  PROVE  /\ FreshClaim \in GhClaims
         /\ FreshClaim # NoClaim /\ FreshClaim # ghRow.claim
         /\ \A i \in Importers : /\ FreshClaim # ghHeld[i]
                                 /\ FreshClaim # ghSeen[i].claim
<1> DEFINE held == {ghHeld[i] : i \in Importers}
           copies == [i \in Importers |-> ghSeen[i].claim]
           seen == {ghSeen[i].claim : i \in Importers}
           n == Cardinality(Importers)
<1>1. IsFiniteSet(Importers) /\ n \in Nat
  BY GhAssumption, FS_CardinalityType
<1>2. ghHeld \in Surjection(Importers, held)
  BY DEF GhTypeOK, Surjection
<1>3. IsFiniteSet(held) /\ Cardinality(held) <= n /\ Cardinality(held) \in Nat
  BY <1>1, <1>2, FS_Surjection, FS_CardinalityType
<1>4. copies \in Surjection(Importers, seen)
  BY DEF Surjection
<1>5. IsFiniteSet(seen) /\ Cardinality(seen) <= n /\ Cardinality(seen) \in Nat
  BY <1>1, <1>4, FS_Surjection, FS_CardinalityType
<1>6. IsFiniteSet(held \cup seen) /\ Cardinality(held \cup seen) <= 2 * n
      /\ Cardinality(held \cup seen) \in Nat
  <2>1. IsFiniteSet(held \cap seen) /\ Cardinality(held \cap seen) \in Nat
    BY <1>3, FS_Intersection, FS_CardinalityType
  <2>2. IsFiniteSet(held \cup seen)
        /\ Cardinality(held \cup seen)
             = Cardinality(held) + Cardinality(seen) - Cardinality(held \cap seen)
    BY <1>3, <1>5, FS_Union
  <2> QED BY <1>1, <1>3, <1>5, <2>1, <2>2, FS_CardinalityType
<1>7. IsFiniteSet(UsedClaims) /\ Cardinality(UsedClaims) <= 2 * n + 2
      /\ Cardinality(UsedClaims) \in Nat
  <2> DEFINE one == (held \cup seen) \cup {NoClaim}
  <2>1. IsFiniteSet(one) /\ Cardinality(one) <= 2 * n + 1
        /\ Cardinality(one) \in Nat
    BY <1>1, <1>6, FS_AddElement
  <2>2. IsFiniteSet(one \cup {ghRow.claim})
        /\ Cardinality(one \cup {ghRow.claim}) <= 2 * n + 2
        /\ Cardinality(one \cup {ghRow.claim}) \in Nat
    <3> HIDE DEF one
    <3>1. IsFiniteSet(one \cup {ghRow.claim})
          /\ Cardinality(one \cup {ghRow.claim})
               \in {Cardinality(one), Cardinality(one) + 1}
      BY <2>1, FS_AddElement
    <3> QED BY <1>1, <2>1, <3>1
  <2>3. UsedClaims = one \cup {ghRow.claim}
    BY DEF UsedClaims
  <2> QED BY <2>2, <2>3
<1>8. IsFiniteSet(GhClaims) /\ Cardinality(GhClaims) = 2 * n + 3
  <2>1. 0 \in Int /\ 2 * n + 2 \in Int /\ ~(0 > 2 * n + 2)
    BY <1>1
  <2>2. /\ IsFiniteSet(0 .. 2 * n + 2)
        /\ Cardinality(0 .. 2 * n + 2) = (2 * n + 2) - 0 + 1
    BY <2>1, FS_Interval
  <2>3. (2 * n + 2) - 0 + 1 = 2 * n + 3
    BY <1>1
  <2> QED BY <1>1, <2>2, <2>3 DEF GhClaims
<1>9. ~(GhClaims \subseteq UsedClaims)
  <2> SUFFICES ASSUME GhClaims \subseteq UsedClaims PROVE FALSE
    OBVIOUS
  <2>1. Cardinality(GhClaims) <= Cardinality(UsedClaims)
    BY <1>7, FS_Subset
  <2> QED BY <1>1, <1>7, <1>8, <2>1
<1>10. FreshClaim \in GhClaims /\ FreshClaim \notin UsedClaims
  BY <1>9 DEF FreshClaim
<1> QED BY <1>10 DEF UsedClaims

LEMMA GhInitInv == GhInit => GhInv
<1> SUFFICES ASSUME GhInit PROVE GhInv
  OBVIOUS
<1>1. GhTypeOK
  <2>1. 0 \in GhClaims /\ 0 \in GhAges
    BY GhAssumption, FS_CardinalityType DEF GhClaims, GhAges
  <2>2. /\ FreeRow \in Rows
        /\ [selected |-> TRUE, claim |-> NoClaim, age |-> 0] \in Rows
        /\ NoClaim \in GhClaims
    BY <2>1 DEF FreeRow, Rows, NoClaim
  <2>3. ghLost \in BOOLEAN /\ ghStalled \in BOOLEAN /\ ghCut \in BOOLEAN
    BY Zenon DEF GhInit
  <2>4. ghBeat \in [Importers -> BOOLEAN] /\ ghFaults \in 0 .. GhMaxFaults
    BY GhAssumption DEF GhInit
  <2> QED BY <2>2, <2>3, <2>4 DEF GhInit, GhTypeOK, GhPcs
<1>2. GhHolds /\ GhCopies /\ GhLeased /\ GhTaken /\ NoStrayDeployment
  BY DEF GhInit, GhHolds, GhCopies, GhLeased, GhTaken, NoStrayDeployment,
         Importing, FreeRow
<1> QED BY <1>1, <1>2 DEF GhInv

LEMMA GhFaultCounts ==
  ASSUME GhTypeOK, GhFault PROVE ghFaults' \in 0 .. GhMaxFaults
BY GhAssumption DEF GhTypeOK, GhFault

LEMMA RowTypes ==
  /\ FreeRow \in Rows /\ NoClaim \in GhClaims
  /\ ~FreeRow.selected /\ FreeRow.claim = NoClaim /\ FreeRow.age = 0
  /\ \A c \in GhClaims : [selected |-> TRUE, claim |-> c, age |-> 0] \in Rows
  /\ \A row \in Rows : /\ row.selected \in BOOLEAN /\ row.claim \in GhClaims
                       /\ row.age \in 0 .. GhTtl /\ row.age \in Nat
<1>1. 0 \in GhClaims /\ 0 \in GhAges
  BY GhAssumption, FS_CardinalityType DEF GhClaims, GhAges
<1> QED BY <1>1, GhAssumption DEF FreeRow, Rows, NoClaim, GhAges

\* Where an import is matters to the lease only by whether it runs.
LEMMA ImportMovesOn ==
  ASSUME GhInv, NEW i \in Importers, NEW pc \in GhPcs, Goes(i, pc),
         UNCHANGED <<ghRow, ghImported, ghSeen, ghHeld, ghBeat, ghLost,
                     ghStalled>>,
         pc \in Importing => ghPc[i] \in Importing,
         pc = "release" => ghPc[i] \in Importing,
         ghPc[i] \in Importing => pc \in Importing \cup {"release"},
         ghPc[i] = "release" => pc = "release",
         pc # "recover"
  PROVE  /\ GhHolds' /\ GhCopies' /\ GhLeased' /\ GhTaken'
         /\ ghPc' \in [Importers -> GhPcs]
<1>1. /\ ghPc' \in [Importers -> GhPcs] /\ ghPc'[i] = pc
      /\ \A j \in Importers : j # i => ghPc'[j] = ghPc[j]
  BY DEF Goes, GhInv, GhTypeOK
<1>2. GhHolds'
  BY <1>1 DEF GhInv, GhHolds
<1>3. GhCopies'
  BY <1>1 DEF GhInv, GhCopies
<1>4. GhLeased'
  BY <1>1 DEF GhInv, GhLeased
<1>5. GhTaken'
  BY <1>1 DEF GhInv, GhTaken
<1> QED BY <1>1, <1>2, <1>3, <1>4, <1>5

LEMMA LoadRowKeeps ==
  ASSUME GhInv, NEW i \in Importers, LoadRow(i) PROVE GhInv'
<1>1. /\ ghPc[i] = "idle" /\ ghPc' = [ghPc EXCEPT ![i] = "check"]
      /\ ghSeen' = [ghSeen EXCEPT ![i] = ghRow]
      /\ UNCHANGED <<ghRow, ghImported, ghDeployed, ghHeld, ghBeat, ghSync,
                     ghLost, ghStalled, ghCut, ghFaults>>
  BY DEF LoadRow, Goes, ghRows, ghHist
<1>2. GhTypeOK'
  BY <1>1 DEF GhInv, GhTypeOK, GhPcs
<1>3. GhHolds' /\ GhLeased'
  BY <1>1 DEF GhInv, GhTypeOK, GhHolds, GhLeased, Importing
<1>4. GhCopies' /\ GhTaken'
  BY <1>1 DEF GhInv, GhTypeOK, GhCopies, GhTaken
<1>5. NoStrayDeployment'
  BY <1>1 DEF GhInv, GhTypeOK, NoStrayDeployment
<1> QED BY <1>2, <1>3, <1>4, <1>5 DEF GhInv

LEMMA CheckProjectKeeps ==
  ASSUME GhInv, NEW i \in Importers, CheckProject(i) PROVE GhInv'
<1> DEFINE pc == IF ghImported # {} THEN "idle"
                   ELSE IF Stale(ghSeen[i]) THEN "recover" ELSE "claim"
<1>1. /\ ghPc[i] = "check" /\ ghPc' = [ghPc EXCEPT ![i] = pc]
      /\ UNCHANGED <<ghRow, ghImported, ghDeployed, ghHeld, ghBeat, ghSync,
                     ghLost, ghStalled, ghCut, ghFaults>>
  BY DEF CheckProject, Goes, ghRows, ghHist
<1>2. /\ pc \in {"idle", "recover", "claim"}
      /\ pc = "recover" => ghImported = {} /\ Stale(ghSeen[i])
  OBVIOUS
<1> HIDE DEF pc
<1>3. /\ ghPc' \in [Importers -> GhPcs] /\ ghPc'[i] = pc
      /\ \A j \in Importers : j # i => ghPc'[j] = ghPc[j]
  BY <1>1, <1>2 DEF GhInv, GhTypeOK, GhPcs
<1>4. ghSeen' = IF pc = "recover" THEN ghSeen
                  ELSE [ghSeen EXCEPT ![i] = FreeRow]
  BY <1>3 DEF CheckProject
<1>5. /\ ghSeen' \in [Importers -> Rows]
      /\ \A j \in Importers : ghSeen'[j] = ghSeen[j] \/ ghSeen'[j] = FreeRow
      /\ \A j \in Importers :
           j # i \/ pc = "recover" => ghSeen'[j] = ghSeen[j]
  BY <1>4, RowTypes DEF GhInv, GhTypeOK
<1>6. GhTypeOK'
  BY <1>1, <1>3, <1>5 DEF GhInv, GhTypeOK
<1>7. GhHolds' /\ GhLeased'
  BY <1>1, <1>2, <1>3 DEF GhInv, GhHolds, GhLeased, Importing
<1>8. GhCopies'
  BY <1>1, <1>2, <1>3, <1>5, RowTypes DEF GhInv, GhCopies
<1>9. GhTaken'
  BY <1>1, <1>2, <1>3, <1>5 DEF GhInv, GhTaken
<1>10. NoStrayDeployment'
  BY <1>1, <1>2, <1>3 DEF GhInv, NoStrayDeployment
<1> QED BY <1>6, <1>7, <1>8, <1>9, <1>10 DEF GhInv

\* A claim that has expired is nobody's who renews in time.
LEMMA RecoveredIsNobodys ==
  ASSUME GhInv, NEW j \in Importers, ghPc[j] = "recover",
         ghRow.selected, ghRow.claim = ghSeen[j].claim, ~ghLost, ~ghStalled
  PROVE  \A i \in Importers : ghPc[i] \notin Importing
<1>1. ghRow.age >= GhTtl /\ ghRow.age \in Nat
  BY RowTypes DEF GhInv, GhTypeOK, GhCopies, Stale
<1>2. SUFFICES ASSUME NEW i \in Importers, ghPc[i] \in Importing PROVE FALSE
  OBVIOUS
<1>3. ghRow.age <= 1
  BY <1>1, <1>2 DEF GhInv, GhLeased
<1> QED BY <1>1, <1>3, GhAssumption

LEMMA RecoverClaimKeeps ==
  ASSUME GhInv, NEW i \in Importers, RecoverClaim(i) PROVE GhInv'
<1>1. /\ ghPc[i] = "recover" /\ ghPc' = [ghPc EXCEPT ![i] = "claim"]
      /\ ghSeen' = [ghSeen EXCEPT ![i] = FreeRow]
      /\ UNCHANGED <<ghImported, ghDeployed, ghHeld, ghBeat, ghSync,
                     ghLost, ghStalled, ghCut, ghFaults>>
      /\ \/ ghRow' = ghRow
         \/ /\ ghRow' = FreeRow
            /\ ghRow.selected /\ ghRow.claim = ghSeen[i].claim
  BY DEF RecoverClaim, Goes, ghHist
<1>2. /\ ghPc' \in [Importers -> GhPcs] /\ ghPc'[i] = "claim"
      /\ \A j \in Importers : j # i => ghPc'[j] = ghPc[j]
      /\ ghSeen' \in [Importers -> Rows] /\ ghSeen'[i] = FreeRow
      /\ \A j \in Importers : j # i => ghSeen'[j] = ghSeen[j]
  BY <1>1, RowTypes DEF GhInv, GhTypeOK, GhPcs
<1>3. GhTypeOK'
  BY <1>1, <1>2, RowTypes DEF GhInv, GhTypeOK
<1>4. GhHolds' /\ NoStrayDeployment'
  BY <1>1, <1>2 DEF GhInv, GhHolds, NoStrayDeployment, Importing
<1>5. GhCopies'
  BY <1>1, <1>2, RowTypes DEF GhInv, GhCopies
<1>6. GhLeased'
  <2>1. CASE ghRow' = ghRow
    BY <1>1, <1>2, <2>1 DEF GhInv, GhLeased, Importing
  <2>2. CASE ghRow.selected /\ ghRow.claim = ghSeen[i].claim
    BY <1>1, <1>2, <2>2, RecoveredIsNobodys DEF GhLeased, Importing
  <2> QED BY <1>1, <2>1, <2>2
<1>7. GhTaken'
  BY <1>1, <1>2 DEF GhInv, GhTaken
<1> QED BY <1>3, <1>4, <1>5, <1>6, <1>7 DEF GhInv

LEMMA ClaimKeeps ==
  ASSUME GhInv, NEW i \in Importers, Claim(i) PROVE GhInv'
<1>0. /\ ghPc[i] = "claim"
      /\ UNCHANGED <<ghImported, ghDeployed, ghSeen, ghSync, ghLost, ghStalled,
                     ghCut, ghFaults>>
  BY DEF Claim, ghHist
<1>1. CASE Goes(i, "idle") /\ UNCHANGED <<ghRow, ghHeld, ghBeat>>
  <2>1. /\ GhHolds' /\ GhCopies' /\ GhLeased' /\ GhTaken'
        /\ ghPc' \in [Importers -> GhPcs]
    BY <1>0, <1>1, ImportMovesOn DEF GhPcs, Importing
  <2>2. GhTypeOK'
    BY <1>0, <1>1, <2>1 DEF GhInv, GhTypeOK
  <2>3. NoStrayDeployment'
    BY <1>0, <1>1 DEF Goes, GhInv, GhTypeOK, NoStrayDeployment
  <2> QED BY <2>1, <2>2, <2>3 DEF GhInv
<1>2. CASE /\ ~ghRow.selected
           /\ ghRow' = [selected |-> TRUE, claim |-> FreshClaim, age |-> 0]
           /\ ghHeld' = [ghHeld EXCEPT ![i] = FreshClaim]
           /\ ghBeat' = [ghBeat EXCEPT ![i] = FALSE]
           /\ Goes(i, "send")
  <2> DEFINE c == FreshClaim
  <2>0. /\ c \in GhClaims /\ c # NoClaim
        /\ \A j \in Importers : c # ghHeld[j] /\ c # ghSeen[j].claim
    BY FreshIsFresh DEF GhInv
  <2>1. /\ ghRow' = [selected |-> TRUE, claim |-> c, age |-> 0]
        /\ ghHeld' = [ghHeld EXCEPT ![i] = c]
        /\ ghPc' = [ghPc EXCEPT ![i] = "send"]
    BY <1>2 DEF Goes
  <2> HIDE DEF c
  <2>2. /\ ghPc' \in [Importers -> GhPcs] /\ ghPc'[i] = "send"
        /\ \A j \in Importers : j # i => ghPc'[j] = ghPc[j]
        /\ ghHeld' \in [Importers -> GhClaims] /\ ghHeld'[i] = c
        /\ \A j \in Importers : j # i => ghHeld'[j] = ghHeld[j]
    BY <2>0, <2>1 DEF GhInv, GhTypeOK, GhPcs
  <2>3. ghBeat' \in [Importers -> BOOLEAN]
    BY <1>2 DEF GhInv, GhTypeOK
  <2>4. GhTypeOK'
    BY <1>0, <2>0, <2>1, <2>2, <2>3, RowTypes DEF GhInv, GhTypeOK
  <2>5. GhHolds'
    BY <1>0, <2>0, <2>2 DEF GhInv, GhHolds, Importing
  <2>6. GhCopies'
    BY <1>0, <2>0, <2>1, <2>2 DEF GhInv, GhCopies
  <2>7. GhLeased'
    BY <1>0, <1>2, <2>1, <2>2 DEF GhInv, GhLeased
  <2>8. GhTaken'
    BY <1>0, <1>2 DEF GhInv, GhTaken
  <2>9. NoStrayDeployment'
    BY <1>0, <2>2 DEF GhInv, GhTypeOK, NoStrayDeployment
  <2> QED BY <2>4, <2>5, <2>6, <2>7, <2>8, <2>9 DEF GhInv
<1> QED BY <1>1, <1>2 DEF Claim

\* An import that ends where it is leaves its Deployment row only by being
\* cut off.
LEMMA StopsImport ==
  ASSUME GhInv, NEW i \in Importers, ghPc[i] \in Importing, Goes(i, "release"),
         UNCHANGED <<ghRow, ghImported, ghDeployed, ghSeen, ghHeld, ghBeat,
                     ghSync, ghLost, ghStalled>>,
         ghFaults' \in 0 .. GhMaxFaults,
         CutOff(i) \/ (ghPc[i] \in {"send", "deployment"} /\ ghCut' = ghCut)
  PROVE  GhInv'
<1>1. /\ GhHolds' /\ GhCopies' /\ GhLeased' /\ GhTaken'
      /\ ghPc' \in [Importers -> GhPcs]
  BY ImportMovesOn DEF GhPcs, Importing
<1>2. ghCut' \in BOOLEAN
  BY DEF CutOff, GhInv, GhTypeOK
<1>3. GhTypeOK'
  BY <1>1, <1>2 DEF GhInv, GhTypeOK
<1>4. NoStrayDeployment'
  BY DEF CutOff, Goes, GhInv, GhTypeOK, NoStrayDeployment
<1> QED BY <1>1, <1>3, <1>4 DEF GhInv

LEMMA RenewClaimKeeps ==
  ASSUME GhInv, NEW i \in Importers, RenewClaim(i) PROVE GhInv'
<1>0. /\ ghPc[i] \in Importing
      /\ UNCHANGED <<ghImported, ghDeployed, ghSeen, ghSync, ghLost, ghStalled,
                     ghFaults>>
  BY DEF RenewClaim
<1>1. CASE Goes(i, "release") /\ CutOff(i) /\ UNCHANGED <<ghRow, ghHeld, ghBeat>>
  BY <1>0, <1>1, StopsImport DEF GhInv, GhTypeOK
<1>2. CASE /\ ghRow.selected /\ ghRow.claim = ghHeld[i]
           /\ ghRow' = [ghRow EXCEPT !.claim = FreshClaim, !.age = 0]
           /\ ghHeld' = [ghHeld EXCEPT ![i] = FreshClaim]
           /\ ghBeat' = [ghBeat EXCEPT ![i] = FALSE]
           /\ UNCHANGED <<ghPc, ghCut>>
  <2> DEFINE c == FreshClaim
  <2>0. /\ c \in GhClaims /\ c # NoClaim
        /\ \A j \in Importers : c # ghHeld[j] /\ c # ghSeen[j].claim
    BY FreshIsFresh DEF GhInv
  <2>1. /\ ghRow' = [ghRow EXCEPT !.claim = c, !.age = 0]
        /\ ghHeld' = [ghHeld EXCEPT ![i] = c]
    BY <1>2
  <2> HIDE DEF c
  <2>2. /\ ghRow' \in Rows /\ ghRow'.selected /\ ghRow'.claim = c
        /\ ghRow'.age = 0
    <3>1. ghRow \in Rows /\ 0 \in GhAges
      BY GhAssumption DEF GhInv, GhTypeOK, GhAges
    <3>2. \A row \in Rows : /\ [row EXCEPT !.claim = c, !.age = 0] \in Rows
                            /\ [row EXCEPT !.claim = c, !.age = 0].claim = c
                            /\ [row EXCEPT !.claim = c, !.age = 0].age = 0
                            /\ [row EXCEPT !.claim = c, !.age = 0].selected
                                 = row.selected
      BY <2>0, <3>1 DEF Rows
    <3> QED BY <1>2, <2>1, <3>1, <3>2
  <2>3. /\ ghHeld' \in [Importers -> GhClaims] /\ ghHeld'[i] = c
        /\ \A j \in Importers : j # i => ghHeld'[j] = ghHeld[j]
    BY <2>0, <2>1 DEF GhInv, GhTypeOK
  <2>4. ghBeat' \in [Importers -> BOOLEAN]
    BY <1>2 DEF GhInv, GhTypeOK
  <2>5. GhTypeOK'
    BY <1>0, <1>2, <2>2, <2>3, <2>4 DEF GhInv, GhTypeOK
  <2>6. GhHolds'
    BY <1>0, <1>2, <2>0, <2>3 DEF GhInv, GhHolds
  <2>7. GhCopies'
    BY <1>0, <1>2, <2>0, <2>2 DEF GhInv, GhCopies
  <2>8. ~ghLost /\ ~ghStalled =>
          \A j \in Importers : ghPc[j] \in Importing => j = i
    BY <1>0 DEF GhInv, GhLeased, GhHolds
  <2>9. GhLeased'
    BY <1>0, <1>2, <2>2, <2>3, <2>8 DEF GhLeased
  <2>10. GhTaken'
    BY <1>0, <1>2 DEF GhInv, GhTaken
  <2>11. NoStrayDeployment'
    BY <1>0, <1>2 DEF GhInv, NoStrayDeployment
  <2> QED BY <2>5, <2>6, <2>7, <2>9, <2>10, <2>11 DEF GhInv
<1> QED BY <1>1, <1>2 DEF RenewClaim

LEMMA ImportWorkKeeps ==
  ASSUME GhInv, NEW i \in Importers, ImportWork(i) \/ RenewFails(i)
  PROVE  GhInv'
<1>1. CASE RenewFails(i)
  BY <1>1, StopsImport, GhFaultCounts DEF RenewFails, ghRows, GhInv
<1>2. CASE ImportFails(i)
  BY <1>2, StopsImport
  DEF ImportFails, ghRows, ghHist, Importing, GhInv, GhTypeOK
<1>3. CASE SendProject(i)
  <2>1. /\ GhHolds' /\ GhCopies' /\ GhLeased' /\ GhTaken'
        /\ ghPc' \in [Importers -> GhPcs]
    BY <1>3, ImportMovesOn DEF SendProject, GhPcs, Importing, ghRows, ghHist
  <2>2. GhTypeOK'
    BY <1>3, <2>1 DEF SendProject, GhInv, GhTypeOK, ghRows, ghHist
  <2>3. NoStrayDeployment'
    BY <1>3 DEF SendProject, Goes, GhInv, GhTypeOK, NoStrayDeployment, ghRows,
                ghHist
  <2> QED BY <2>1, <2>2, <2>3 DEF GhInv
<1>4. CASE CreateDeployment(i)
  <2>1. /\ GhHolds' /\ GhCopies' /\ GhLeased' /\ GhTaken'
        /\ ghPc' \in [Importers -> GhPcs]
    BY <1>4, ImportMovesOn DEF CreateDeployment, GhPcs, Importing, ghHist
  <2>2. GhTypeOK'
    BY <1>4, <2>1 DEF CreateDeployment, GhInv, GhTypeOK, ghHist
  <2>3. NoStrayDeployment'
    BY <1>4 DEF CreateDeployment, Goes, GhInv, GhTypeOK, NoStrayDeployment,
                ghHist
  <2> QED BY <2>1, <2>2, <2>3 DEF GhInv
<1>5. CASE /\ ghPc[i] = "project" /\ Goes(i, "rollback")
           /\ UNCHANGED <<ghImported, ghHeld, ghBeat, ghRow, ghDeployed, ghSeen,
                          ghSync, ghHist>>
  <2>1. /\ GhHolds' /\ GhCopies' /\ GhLeased' /\ GhTaken'
        /\ ghPc' \in [Importers -> GhPcs]
    BY <1>5, ImportMovesOn DEF GhPcs, Importing, ghHist
  <2>2. GhTypeOK'
    BY <1>5, <2>1 DEF GhInv, GhTypeOK, ghHist
  <2>3. NoStrayDeployment'
    BY <1>5 DEF Goes, GhInv, GhTypeOK, NoStrayDeployment, ghHist
  <2> QED BY <2>1, <2>2, <2>3 DEF GhInv
<1>6. CASE /\ ghPc[i] = "project" /\ ghImported = {}
           /\ ghImported' = {i} /\ Returns(i)
           /\ UNCHANGED <<ghRow, ghDeployed, ghSeen, ghSync, ghHist>>
  <2>1. /\ ghPc' = [ghPc EXCEPT ![i] = "idle"]
        /\ ghHeld' = [ghHeld EXCEPT ![i] = NoClaim]
        /\ ghBeat' = [ghBeat EXCEPT ![i] = FALSE]
    BY <1>6 DEF Returns
  <2>2. /\ ghPc' \in [Importers -> GhPcs] /\ ghPc'[i] = "idle"
        /\ \A j \in Importers : j # i => ghPc'[j] = ghPc[j]
        /\ ghHeld' \in [Importers -> GhClaims] /\ ghHeld'[i] = NoClaim
        /\ \A j \in Importers : j # i => ghHeld'[j] = ghHeld[j]
    BY <2>1, RowTypes DEF GhInv, GhTypeOK, GhPcs
  <2>3. /\ ghBeat' \in [Importers -> BOOLEAN]
        /\ \A j \in Importers : j # i => ghBeat'[j] = ghBeat[j]
    BY <2>1 DEF GhInv, GhTypeOK
  <2>4. GhTypeOK'
    BY <1>6, <2>2, <2>3 DEF GhInv, GhTypeOK, ghHist
  <2>5. GhHolds' /\ GhCopies'
    BY <1>6, <2>2 DEF GhInv, GhHolds, GhCopies, Importing, ghHist
  <2>9. NoStrayDeployment'
    BY <1>6, <2>2 DEF GhInv, GhTypeOK, NoStrayDeployment, ghHist
  <2>6. GhLeased'
    BY <1>6, <2>2, <2>3 DEF GhInv, GhLeased, Importing, ghHist
  <2>7. ASSUME ~ghLost, ~ghStalled
        PROVE  /\ ghRow.selected /\ ghRow.claim = ghHeld[i]
               /\ ghHeld[i] # NoClaim
               /\ \A j \in Importers : j # i => ghHeld[j] # ghHeld[i]
               /\ \A j \in Importers :
                    ghPc[j] = "recover" => ghSeen[j].claim # ghRow.claim
    <3>1. ghPc[i] \in Importing
      BY <1>6 DEF Importing
    <3>2. ghRow.selected /\ ghRow.claim = ghHeld[i]
      BY <2>7, <3>1 DEF GhInv, GhLeased
    <3>3. ghHeld[i] # NoClaim /\ \A j \in Importers : j # i => ghHeld[j] # ghHeld[i]
      BY <3>1 DEF GhInv, GhHolds
    <3> QED BY <2>7, <3>1, <3>2, <3>3, RecoveredIsNobodys
  <2>8. GhTaken'
    BY <1>6, <2>2, <2>7 DEF GhTaken, ghHist
  <2> QED BY <2>4, <2>5, <2>6, <2>8, <2>9 DEF GhInv
<1>7. CASE RollBackDeployment(i)
  <2>1. /\ GhHolds' /\ GhCopies' /\ GhLeased' /\ GhTaken'
        /\ ghPc' \in [Importers -> GhPcs]
    BY <1>7, ImportMovesOn DEF RollBackDeployment, GhPcs, Importing
  <2>2. ghCut' \in BOOLEAN /\ ghFaults' \in 0 .. GhMaxFaults
    BY <1>7, GhFaultCounts DEF RollBackDeployment, CutOff, GhInv, GhTypeOK
  <2>3. GhTypeOK'
    BY <1>7, <2>1, <2>2 DEF RollBackDeployment, GhInv, GhTypeOK
  <2>4. NoStrayDeployment'
    BY <1>7 DEF RollBackDeployment, CutOff, Goes, GhInv, GhTypeOK,
                NoStrayDeployment
  <2> QED BY <2>1, <2>3, <2>4 DEF GhInv
<1> QED BY <1>1, <1>2, <1>3, <1>4, <1>5, <1>6, <1>7
        DEF ImportWork, CreateProject

LEMMA ReleaseClaimKeeps ==
  ASSUME GhInv, NEW i \in Importers, ReleaseClaim(i) \/ ImporterDies(i)
  PROVE  GhInv'
<1>1. /\ ghPc' = [ghPc EXCEPT ![i] = "idle"]
      /\ ghHeld' = [ghHeld EXCEPT ![i] = NoClaim]
      /\ ghBeat' = [ghBeat EXCEPT ![i] = FALSE]
      /\ UNCHANGED <<ghImported, ghDeployed, ghSync, ghLost, ghStalled>>
      /\ CutOff(i) \/ (ghPc[i] = "release" /\ ghCut' = ghCut)
      /\ ghSeen' = ghSeen \/ ghSeen' = [ghSeen EXCEPT ![i] = FreeRow]
      /\ \/ ghRow' = ghRow
         \/ /\ ghRow' = FreeRow /\ ghPc[i] = "release"
            /\ ghRow.selected /\ ghRow.claim = ghHeld[i]
  BY DEF ReleaseClaim, ImporterDies, Returns, ghRows
<1>2. ghFaults' \in 0 .. GhMaxFaults
  BY GhFaultCounts DEF ReleaseClaim, ImporterDies, GhInv, GhTypeOK
<1>3. ghCut' \in BOOLEAN
  BY <1>1 DEF CutOff, GhInv, GhTypeOK
<1>4. /\ ghPc' \in [Importers -> GhPcs] /\ ghPc'[i] = "idle"
      /\ \A j \in Importers : j # i => ghPc'[j] = ghPc[j]
      /\ ghHeld' \in [Importers -> GhClaims] /\ ghHeld'[i] = NoClaim
      /\ \A j \in Importers : j # i => ghHeld'[j] = ghHeld[j]
  BY <1>1, RowTypes DEF GhInv, GhTypeOK, GhPcs
<1>5. /\ ghBeat' \in [Importers -> BOOLEAN]
      /\ \A j \in Importers : j # i => ghBeat'[j] = ghBeat[j]
  BY <1>1 DEF GhInv, GhTypeOK
<1>6. /\ ghSeen' \in [Importers -> Rows]
      /\ \A j \in Importers : ghSeen'[j] = ghSeen[j] \/ ghSeen'[j] = FreeRow
      /\ \A j \in Importers : j # i => ghSeen'[j] = ghSeen[j]
  BY <1>1, RowTypes DEF GhInv, GhTypeOK
<1>7. GhTypeOK'
  BY <1>1, <1>2, <1>3, <1>4, <1>5, <1>6, RowTypes DEF GhInv, GhTypeOK
<1>8. GhHolds'
  BY <1>4 DEF GhInv, GhHolds, Importing
<1>9. GhCopies'
  BY <1>1, <1>4, <1>6, RowTypes DEF GhInv, GhCopies
<1>10. GhLeased'
  <2>1. CASE ghRow' = ghRow
    BY <1>1, <1>4, <1>5, <2>1 DEF GhInv, GhLeased, Importing
  <2>2. CASE ghPc[i] = "release" /\ ghRow.claim = ghHeld[i]
    <3>1. ~ghLost /\ ~ghStalled =>
            \A j \in Importers : ghPc[j] \notin Importing
      BY <2>2 DEF GhInv, GhLeased, GhHolds, Importing
    <3> QED BY <1>1, <1>4, <3>1 DEF GhLeased, Importing
  <2> QED BY <1>1, <2>1, <2>2
<1>11. GhTaken'
  BY <1>1, <1>4, <1>6 DEF GhInv, GhTaken
<1>12. NoStrayDeployment'
  <2>1. ~ghCut' => ~ghCut /\ ghPc[i] \notin {"project", "rollback"}
    BY <1>1 DEF CutOff, GhInv, GhTypeOK
  <2>2. \A j \in ghDeployed : j \in Importers
    BY DEF GhInv, GhTypeOK
  <2> QED BY <1>1, <1>4, <2>1, <2>2 DEF GhInv, NoStrayDeployment
<1> QED BY <1>7, <1>8, <1>9, <1>10, <1>11, <1>12 DEF GhInv

LEMMA OlderRows ==
  ASSUME NEW row \in Rows
  PROVE  /\ Older(row) \in Rows
         /\ Older(row).selected = row.selected
         /\ Older(row).claim = row.claim
         /\ Older(row).age = IF row.selected /\ row.age < GhTtl
                               THEN row.age + 1 ELSE row.age
<1>1. row.age + 1 \in Nat /\ (row.age < GhTtl => row.age + 1 \in GhAges)
  BY GhAssumption DEF Rows, GhAges
<1>2. CASE row.selected /\ row.age < GhTtl
  BY <1>1, <1>2 DEF Older, Rows
<1>3. CASE ~(row.selected /\ row.age < GhTtl)
  BY <1>3 DEF Older
<1> QED BY <1>2, <1>3

LEMMA GhTickKeeps == GhInv /\ GhTick => GhInv'
<1> SUFFICES ASSUME GhInv, GhTick PROVE GhInv'
  OBVIOUS
<1> DEFINE late == {i \in Importers : ghPc[i] \in Importing /\ ghBeat[i]}
<1>1. /\ \/ late = {} /\ UNCHANGED <<ghFaults, ghStalled>>
         \/ GhFault /\ ghStalled' = TRUE
      /\ ghRow' = Older(ghRow)
      /\ ghBeat' = [i \in Importers |-> ghPc[i] \in Importing]
      /\ ghSeen' = [i \in Importers |-> Older(ghSeen[i])]
      /\ UNCHANGED <<ghImported, ghDeployed, ghPc, ghHeld, ghSync, ghLost, ghCut>>
  BY DEF GhTick
<1>2. ghStalled' \in BOOLEAN /\ ghFaults' \in 0 .. GhMaxFaults
  <2>1. CASE UNCHANGED <<ghFaults, ghStalled>>
    BY <2>1 DEF GhInv, GhTypeOK
  <2>2. CASE GhFault /\ ghStalled' = TRUE
    <3>1. ghStalled' \in BOOLEAN
      BY <2>2, Zenon
    <3> QED BY <2>2, <3>1, GhFaultCounts DEF GhInv
  <2> QED BY <1>1, <2>1, <2>2
<1>3. GhTypeOK'
  <2>1. ghRow' \in Rows /\ ghSeen' \in [Importers -> Rows]
    BY <1>1, OlderRows DEF GhInv, GhTypeOK
  <2>2. ghBeat' \in [Importers -> BOOLEAN]
    BY <1>1
  <2> QED BY <1>1, <1>2, <2>1, <2>2 DEF GhInv, GhTypeOK
<1>4. GhHolds' /\ NoStrayDeployment'
  BY <1>1 DEF GhInv, GhHolds, NoStrayDeployment
<1>5. ghRow \in Rows /\ \A j \in Importers : ghSeen[j] \in Rows
  BY DEF GhInv, GhTypeOK
<1>6. GhCopies'
  <2>1. \A j \in Importers :
          /\ ghSeen'[j].selected /\ ghRow'.selected
          /\ ghSeen'[j].claim = ghRow'.claim
          => ghSeen'[j].age = ghRow'.age
    BY <1>1, <1>5, OlderRows DEF GhInv, GhCopies
  <2>2. \A j \in Importers : ghPc'[j] = "recover" => Stale(ghSeen'[j])
    <3> SUFFICES ASSUME NEW j \in Importers, ghPc[j] = "recover"
                 PROVE  Stale(ghSeen'[j])
      BY <1>1
    <3>1. Stale(ghSeen[j]) /\ ghSeen'[j] = Older(ghSeen[j])
      BY <1>1 DEF GhInv, GhCopies
    <3>2. ghSeen[j].age \in Nat
      BY <1>5, RowTypes
    <3> QED BY <1>5, <3>1, <3>2, OlderRows, GhAssumption DEF Stale
  <2> QED BY <2>1, <2>2 DEF GhCopies, Stale
<1>7. GhLeased'
  <2> SUFFICES ASSUME ~ghLost', ~ghStalled', NEW i \in Importers,
                      ghPc'[i] \in Importing
               PROVE  /\ ghRow'.selected /\ ghRow'.claim = ghHeld'[i]
                      /\ ghRow'.age <= (IF ghBeat'[i] THEN 1 ELSE 0)
    BY DEF GhLeased
  <2>1. ~ghLost /\ ~ghStalled /\ late = {} /\ ghPc[i] \in Importing
    BY <1>1
  <2>2. ~ghBeat[i]
    BY <2>1
  <2>3. ghRow.selected /\ ghRow.claim = ghHeld[i] /\ ghRow.age <= 0
    BY <2>1, <2>2 DEF GhInv, GhLeased
  <2>4. ghRow'.selected /\ ghRow'.claim = ghHeld'[i] /\ ghRow'.age <= 1
    BY <1>1, <1>5, <2>3, OlderRows, RowTypes
  <2>5. ghBeat'[i]
    BY <1>1, <2>1
  <2> QED BY <2>4, <2>5
<1>8. GhTaken'
  BY <1>1, <1>5, OlderRows DEF GhInv, GhTaken
<1> QED BY <1>3, <1>4, <1>6, <1>7, <1>8 DEF GhInv

LEMMA SyncKeeps == GhInv /\ (SyncReads \/ SyncWrites) => GhInv'
<1>1. ASSUME GhInv, SyncReads PROVE GhInv'
  <2>1. ghFaults' \in 0 .. GhMaxFaults /\ ghSync' \in {"none", "free", "selected"}
    BY <1>1, GhFaultCounts DEF SyncReads, GhInv
  <2>2. GhTypeOK'
    BY <1>1, <2>1 DEF SyncReads, ghRows, ghImp, GhInv, GhTypeOK
  <2>3. GhHolds' /\ GhCopies' /\ GhLeased' /\ GhTaken' /\ NoStrayDeployment'
    BY <1>1 DEF SyncReads, ghRows, ghImp, GhInv, GhHolds, GhCopies, GhLeased,
                GhTaken, NoStrayDeployment
  <2> QED BY <2>2, <2>3 DEF GhInv
<1>2. ASSUME GhInv, SyncWrites PROVE GhInv'
  <2>1. /\ \/ UNCHANGED <<ghRow, ghLost>>
           \/ ghRow' = FreeRow /\ ghLost' = (ghLost \/ ghRow.selected)
        /\ ghSync' = "none"
        /\ UNCHANGED <<ghImported, ghDeployed, ghPc, ghSeen, ghHeld, ghBeat,
                       ghStalled, ghCut, ghFaults>>
    BY <1>2 DEF SyncWrites, ghImp
  <2>2. ghLost' \in BOOLEAN
    BY <1>2, <2>1, RowTypes DEF GhInv, GhTypeOK
  <2>3. GhTypeOK'
    BY <1>2, <2>1, <2>2, RowTypes DEF GhInv, GhTypeOK
  <2>4. GhHolds' /\ NoStrayDeployment'
    BY <1>2, <2>1 DEF GhInv, GhHolds, NoStrayDeployment
  <2>5. GhCopies'
    BY <1>2, <2>1, RowTypes DEF GhInv, GhCopies
  <2>6. GhLeased'
    BY <1>2, <2>1 DEF GhInv, GhLeased
  <2>7. GhTaken'
    BY <1>2, <2>1 DEF GhInv, GhTaken
  <2> QED BY <2>3, <2>4, <2>5, <2>6, <2>7 DEF GhInv
<1> QED BY <1>1, <1>2

LEMMA DeleteDeploymentKeeps ==
  ASSUME GhInv, NEW i \in Importers, DeleteDeployment(i) PROVE GhInv'
<1>1. /\ ghDeployed' = ghDeployed \ {i} /\ ghImported' = ghImported \ {i}
      /\ ghRow' = IF i \in ghImported THEN FreeRow ELSE ghRow
      /\ UNCHANGED <<ghPc, ghSeen, ghHeld, ghBeat, ghSync, ghLost, ghStalled,
                     ghCut>>
  BY DEF DeleteDeployment, ghImp
<1>2. ghFaults' \in 0 .. GhMaxFaults
  BY GhFaultCounts DEF DeleteDeployment, GhInv
<1>3. i \in ghImported => ghImported' = {}
  BY <1>1 DEF GhInv, GhTypeOK
<1>4. i \notin ghImported => ghImported' = ghImported
  BY <1>1
<1>5. GhTypeOK'
  BY <1>1, <1>2, <1>3, <1>4, RowTypes DEF GhInv, GhTypeOK
<1>6. GhHolds' /\ NoStrayDeployment'
  BY <1>1 DEF GhInv, GhHolds, NoStrayDeployment
<1>7. GhCopies'
  BY <1>1, RowTypes DEF GhInv, GhCopies
<1>8. GhLeased'
  <2>1. CASE i \in ghImported
    <3>1. ~ghLost /\ ~ghStalled =>
            \A j \in Importers : ghPc[j] \notin Importing
      BY <2>1 DEF GhInv, GhTaken, GhLeased
    <3> QED BY <1>1, <3>1 DEF GhLeased
  <2>2. CASE i \notin ghImported
    BY <1>1, <2>2 DEF GhInv, GhLeased
  <2> QED BY <2>1, <2>2
<1>9. GhTaken'
  BY <1>1, <1>3, <1>4 DEF GhInv, GhTaken
<1> QED BY <1>5, <1>6, <1>7, <1>8, <1>9 DEF GhInv

\* The inductive invariant of the lease: a running import has the row under a
\* claim that is its own and has not expired, and the row of an imported
\* repository cannot be claimed.
THEOREM GhInvariance == GitHubSpec => []GhInv
<1>1. GhInit => GhInv
  BY GhInitInv
<1>2. GhInv /\ [GitHubNext]_ghVars => GhInv'
  <2> SUFFICES ASSUME GhInv, [GitHubNext]_ghVars PROVE GhInv'
    OBVIOUS
  <2>1. CASE GhTick \/ SyncReads \/ SyncWrites
    BY <2>1, GhTickKeeps, SyncKeeps
  <2>2. ASSUME NEW i \in Importers,
               \/ GhHandler(i) \/ ImportWork(i)
               \/ RenewFails(i) \/ ImporterDies(i) \/ DeleteDeployment(i)
        PROVE  GhInv'
    BY <2>2, LoadRowKeeps, CheckProjectKeeps, RecoverClaimKeeps, ClaimKeeps,
       RenewClaimKeeps, ReleaseClaimKeeps, ImportWorkKeeps,
       DeleteDeploymentKeeps
    DEF GhHandler
  <2>3. CASE UNCHANGED ghVars
    <3> USE DEF ghVars, ghRows, ghImp, ghHist
    <3>1. GhTypeOK'
      BY <2>3 DEF GhInv, GhTypeOK
    <3>2. GhHolds' /\ GhCopies' /\ GhLeased' /\ GhTaken' /\ NoStrayDeployment'
      BY <2>3 DEF GhInv, GhHolds, GhCopies, GhLeased, GhTaken,
                  NoStrayDeployment
    <3> QED BY <3>1, <3>2 DEF GhInv
  <2> QED BY <2>1, <2>2, <2>3 DEF GitHubNext
<1> QED BY <1>1, <1>2, PTL DEF GitHubSpec

\* Two imports of one repository never run at the same time unless a
\* heartbeat came too late or a synchronisation erased a claim, whatever the
\* number of importers and the length of the lease.
THEOREM OneImport == GitHubSpec => []ImportsExclusive
<1>1. GhInv => ImportsExclusive
  BY DEF GhInv, GhLeased, GhHolds, ImportsExclusive
<1> QED BY <1>1, GhInvariance, PTL

\* A Deployment row that belongs to no project and no running import is left
\* only by an import that was cut off or could not undo it.
THEOREM NoStray == GitHubSpec => []NoStrayDeployment
<1>1. GhInv => NoStrayDeployment
  BY DEF GhInv
<1> QED BY <1>1, GhInvariance, PTL

-----------------------------------------------------------------------------
(* Realtime *)

LEMMA RtInitInv == RtInit => RtInv
<1> SUFFICES ASSUME RtInit PROVE RtInv
  OBVIOUS
<1> USE DEF NoUser, NoSock
<1>1. RtTypeOK
  <2>1. rtEnabled \in BOOLEAN /\ rtTimer \in BOOLEAN
    BY Zenon DEF RtInit
  <2>2. /\ rtAttempts \in 0 .. RtMaxAttempts + 1 /\ rtEdits \in 0 .. RtMaxEdits
        /\ rtNext \in 1 .. RtMaxConns + 1
    BY RtAssumption DEF RtInit
  <2>3. rtInbox \in [RtConns -> Seq(RtDeps)]
    BY DEF RtInit
  <2> QED BY <2>1, <2>2, <2>3 DEF RtInit, RtTypeOK, RtSteps
<1>2. RtSession /\ RtUnmade /\ RtServed /\ RtJoined
  BY DEF RtInit, RtSession, RtUnmade, RtServed, RtJoined
<1>3. SessionsDoNotMix /\ CountedIsDelivered
  BY DEF RtInit, SessionsDoNotMix, CountedIsDelivered
<1> QED BY <1>1, <1>2, <1>3 DEF RtInv

\* What the browser does reaches the server only through new connections and
\* the inboxes of idle consumers.
LEMMA ServerKept ==
  ASSUME RtInv, UNCHANGED rtServer,
         \A c \in RtConns : rtStep[c] # "none" => rtOwner'[c] = rtOwner[c],
         \A c \in RtConns : rtStep[c] \in {"join", "track"} =>
           rtInbox'[c] = rtInbox[c]
  PROVE  RtServed' /\ RtJoined' /\ CountedIsDelivered'
<1> USE DEF rtServer
<1>1. \A c \in RtConns : rtStep[c] \in {"idle", "join", "track", "forget", "clear"}
        => rtStep[c] # "none"
  OBVIOUS
<1>2. RtServed'
  BY <1>1 DEF RtInv, RtServed
<1>3. RtJoined'
  BY DEF RtInv, RtJoined, Wanted
<1>4. \A d \in RtDeps : rtRooms[d] \subseteq RtConns
  BY DEF RtInv, RtTypeOK
<1>5. CountedIsDelivered'
  BY <1>1, <1>4 DEF RtInv, RtJoined, CountedIsDelivered
<1> QED BY <1>2, <1>3, <1>5

\* What a consumer does leaves the browser alone.
LEMMA PageKept ==
  ASSUME RtInv, UNCHANGED <<rtPage, rtWire, rtNext>>, rtSent' \subseteq rtSent,
         NEW k \in RtConns, rtWire[k] # "none" \/ rtStep[k] # "none",
         \A c \in RtConns : c # k => rtStep'[c] = rtStep[c]
  PROVE  RtSession' /\ RtUnmade' /\ SessionsDoNotMix'
<1> USE DEF rtPage
<1>1. RtSession'
  BY DEF RtInv, RtSession
<1>2. RtUnmade'
  BY DEF RtInv, RtUnmade
<1>3. SessionsDoNotMix'
  BY DEF RtInv, SessionsDoNotMix
<1> QED BY <1>1, <1>2, <1>3

LEMMA LoginKeeps ==
  ASSUME RtInv, NEW u \in RtUsers, Login(u) PROVE RtInv'
<1> USE DEF Login, rtNet
<1>0. rtSock = NoSock /\ rtWant = {} /\ u # NoUser
  BY RtAssumption DEF RtInv, RtSession, NoUser
<1>1. RtTypeOK'
  BY DEF RtInv, RtTypeOK, rtServer
<1>2. RtSession' /\ RtUnmade'
  BY <1>0 DEF RtInv, RtSession, RtUnmade, rtServer
<1>3. SessionsDoNotMix'
  BY <1>0 DEF SessionsDoNotMix, RtConns, NoSock
<1>4. RtServed' /\ RtJoined' /\ CountedIsDelivered'
  BY ServerKept
<1> QED BY <1>1, <1>2, <1>3, <1>4 DEF RtInv

\* A new connection has a number that no other has had.
LEMMA ConnectsFresh ==
  ASSUME RtInv, Connects
  PROVE  /\ rtNext \in RtConns /\ rtSock' = rtNext /\ rtNext' = rtNext + 1
         /\ rtNext' \in 1 .. RtMaxConns + 1 /\ rtTimer' \in BOOLEAN
         /\ rtWire' \in [RtConns -> {"none", "opening", "open", "cut"}]
         /\ rtOwner' \in [RtConns -> RtUsers \cup {NoUser}]
         /\ \A c \in RtConns : rtStep[c] # "none" => rtOwner'[c] = rtOwner[c]
         /\ \A c \in RtConns : rtNext' <= c => rtNext <= c /\ rtWire'[c] = "none"
<1>1. rtNext \in RtConns /\ rtNext' = rtNext + 1 /\ rtNext' \in 1 .. RtMaxConns + 1
  BY RtAssumption DEF RtInv, RtTypeOK, Connects, RtConns
<1>2. rtTimer' \in BOOLEAN
  BY Zenon DEF Connects
<1>3. CutOld \in [RtConns -> {"none", "opening", "open", "cut"}]
  BY DEF CutOld, RtInv, RtTypeOK
<1>4. /\ rtWire' \in [RtConns -> {"none", "opening", "open", "cut"}]
      /\ rtOwner' \in [RtConns -> RtUsers \cup {NoUser}]
      /\ \A c \in RtConns : c # rtNext => rtOwner'[c] = rtOwner[c]
      /\ \A c \in RtConns : c # rtNext => rtWire'[c] = CutOld[c]
  BY <1>3 DEF Connects, RtInv, RtTypeOK
<1>5. rtStep[rtNext] = "none"
  BY <1>1 DEF RtInv, RtUnmade, RtConns
<1>6. \A c \in RtConns : rtNext' <= c => rtNext <= c /\ c # rtNext /\ c # rtSock
  <2>1. rtSock \in Nat /\ rtNext \in Nat
    BY RtAssumption DEF RtInv, RtTypeOK, RtConns, NoSock
  <2> QED BY <1>1, <2>1 DEF RtInv, RtUnmade, RtConns
<1>7. \A c \in RtConns : rtNext' <= c => rtWire'[c] = "none"
  BY <1>4, <1>6 DEF CutOld, RtInv, RtUnmade
<1> QED BY <1>1, <1>2, <1>4, <1>5, <1>6, <1>7 DEF Connects

LEMMA ConnectsKeeps ==
  ASSUME RtInv, Connects, UNCHANGED <<rtSent, rtServer>>,
         rtUser' = rtUser, rtShown \subseteq rtShown'
  PROVE  RtUnmade' /\ SessionsDoNotMix'
<1>1. /\ rtNext \in RtConns /\ rtSock' = rtNext /\ rtNext' = rtNext + 1
      /\ \A c \in RtConns : rtNext' <= c => rtNext <= c /\ rtWire'[c] = "none"
  BY ConnectsFresh
<1>2. RtUnmade'
  BY <1>1 DEF RtInv, RtUnmade, rtServer, RtConns
<1>3. SessionsDoNotMix'
  BY <1>1 DEF RtInv, RtUnmade, SessionsDoNotMix, RtConns
<1> QED BY <1>2, <1>3

LEMMA ShowDeploymentsKeeps == RtInv /\ ShowDeployments => RtInv'
<1> SUFFICES ASSUME RtInv, ShowDeployments PROVE RtInv'
  OBVIOUS
<1>0. /\ rtUser # NoUser /\ rtUser' = rtUser /\ rtEnabled' = TRUE
      /\ UNCHANGED <<rtAttempts, rtInbox, rtSent, rtServer>>
  BY DEF ShowDeployments
<1>1. PICK ds \in SUBSET RtDeps : /\ rtWant' = rtWant \cup ds
                                  /\ rtShown' = rtShown \cup ({rtUser} \X ds)
  BY DEF ShowDeployments
<1>2. /\ rtEnabled' \in BOOLEAN
  BY <1>0, Zenon
<1>3. rtEdits' \in 0 .. RtMaxEdits
  BY RtAssumption DEF ShowDeployments, RtEdit, RtInv, RtTypeOK
<1>4. /\ rtWant' \subseteq RtDeps /\ rtShown' \subseteq RtUsers \X RtDeps
      /\ rtUser' \in RtUsers \cup {NoUser}
  BY <1>0, <1>1 DEF RtInv, RtTypeOK
<1>5. RtSession'
  <2>1. \A d \in rtWant' : <<rtUser', d>> \in rtShown'
    BY <1>0, <1>1 DEF RtInv, RtSession
  <2> QED BY <1>0, <2>1 DEF RtSession
<1>6. CASE Connects
  <2>1. RtTypeOK'
    BY <1>0, <1>2, <1>3, <1>4, <1>6, ConnectsFresh
    DEF RtInv, RtTypeOK, rtServer
  <2>2. RtUnmade' /\ SessionsDoNotMix'
    BY <1>0, <1>1, <1>6, ConnectsKeeps
  <2>3. RtServed' /\ RtJoined' /\ CountedIsDelivered'
    BY <1>0, <1>6, ConnectsFresh, ServerKept
  <2> QED BY <1>5, <2>1, <2>2, <2>3 DEF RtInv
<1>7. CASE UNCHANGED <<rtSock, rtTimer, rtWire, rtOwner, rtNext>>
  <2>1. RtTypeOK'
    BY <1>0, <1>2, <1>3, <1>4, <1>7 DEF RtInv, RtTypeOK, rtServer
  <2>2. RtUnmade'
    BY <1>0, <1>7 DEF RtInv, RtUnmade, rtServer
  <2>3. SessionsDoNotMix'
    BY <1>0, <1>1, <1>7 DEF RtInv, SessionsDoNotMix
  <2>4. RtServed' /\ RtJoined' /\ CountedIsDelivered'
    BY <1>0, <1>7, ServerKept
  <2> QED BY <1>5, <2>1, <2>2, <2>3, <2>4 DEF RtInv
<1> QED BY <1>6, <1>7 DEF ShowDeployments

LEMMA LogoutKeeps == RtInv /\ Logout => RtInv'
<1> SUFFICES ASSUME RtInv, Logout PROVE RtInv'
  OBVIOUS
<1>0. /\ rtUser' = NoUser /\ rtShown' = {} /\ rtSock' = NoSock /\ rtWant' = {}
      /\ rtEnabled' = FALSE /\ rtTimer' = FALSE /\ rtAttempts' = 0
      /\ rtWire' = CutOld
      /\ UNCHANGED <<rtOwner, rtInbox, rtSent, rtNext, rtServer>>
  BY DEF Logout
<1>1. rtEnabled' \in BOOLEAN /\ rtTimer' \in BOOLEAN
  BY <1>0, Zenon
<1>2. rtEdits' \in 0 .. RtMaxEdits /\ rtAttempts' \in 0 .. RtMaxAttempts + 1
  BY <1>0, RtAssumption DEF Logout, RtEdit, RtInv, RtTypeOK
<1>3. rtWire' \in [RtConns -> {"none", "opening", "open", "cut"}]
  BY <1>0 DEF CutOld, RtInv, RtTypeOK
<1>4. RtTypeOK'
  BY <1>0, <1>1, <1>2, <1>3 DEF RtInv, RtTypeOK, rtServer
<1>5. RtSession'
  BY <1>0 DEF RtSession
<1>6. RtUnmade'
  <2>1. rtSock \in Nat /\ rtNext \in Nat /\ rtNext > 0
    BY RtAssumption DEF RtInv, RtTypeOK, RtConns, NoSock
  <2>2. \A c \in RtConns : rtNext <= c => c # rtSock
    BY <2>1 DEF RtInv, RtUnmade, RtConns
  <2>3. \A c \in RtConns : rtNext <= c => rtWire'[c] = "none"
    BY <1>0, <2>2 DEF CutOld, RtInv, RtUnmade
  <2> QED BY <1>0, <2>1, <2>3 DEF RtInv, RtUnmade, rtServer, NoSock
<1>7. SessionsDoNotMix'
  BY <1>0 DEF SessionsDoNotMix, RtConns, NoSock
<1>8. RtServed' /\ RtJoined' /\ CountedIsDelivered'
  BY <1>0, ServerKept
<1> QED BY <1>4, <1>5, <1>6, <1>7, <1>8 DEF RtInv

\* SetToSeq gives a sequence of the set's members.
LEMMA SetToSeqTypes ==
  ASSUME NEW S, IsFiniteSet(S) PROVE SetToSeq(S) \in Seq(S)
<1>1. Cardinality(S) \in Nat /\ ExistsBijection(1 .. Cardinality(S), S)
  BY FS_CardinalityType
<1>2. \E f \in [1 .. Cardinality(S) -> S] : IsInjective(f)
  BY <1>1 DEF ExistsBijection, Bijection, Injection
<1>3. SetToSeq(S) \in [1 .. Cardinality(S) -> S]
  BY <1>2 DEF SetToSeq
<1> QED BY <1>1, <1>3

LEMMA SocketOpensKeeps == RtInv /\ SocketOpens => RtInv'
<1> SUFFICES ASSUME RtInv, SocketOpens PROVE RtInv'
  OBVIOUS
<1>0. /\ rtSock # NoSock /\ rtWire[rtSock] = "opening" /\ rtStep[rtSock] = "idle"
      /\ rtAttempts' = 0
      /\ rtWire' = [rtWire EXCEPT ![rtSock] = "open"]
      /\ rtInbox' = [rtInbox EXCEPT ![rtSock] = SetToSeq(rtWant)]
      /\ rtSent' = rtSent \cup ({rtSock} \X rtWant)
      /\ UNCHANGED <<rtUser, rtEnabled, rtSock, rtTimer, rtWant, rtShown,
                     rtOwner, rtNext, rtServer, rtEdits>>
  BY DEF SocketOpens
<1>1. rtSock \in RtConns /\ rtAttempts' \in 0 .. RtMaxAttempts + 1
  BY <1>0, RtAssumption DEF RtInv, RtTypeOK
<1>2. SetToSeq(rtWant) \in Seq(RtDeps)
  <2>1. IsFiniteSet(rtWant) /\ rtWant \subseteq RtDeps
    BY RtAssumption, FS_Subset DEF RtInv, RtTypeOK
  <2>2. SetToSeq(rtWant) \in Seq(rtWant)
    BY <2>1, SetToSeqTypes
  <2> QED BY <2>1, <2>2
<1>3. /\ rtInbox' \in [RtConns -> Seq(RtDeps)]
      /\ \A c \in RtConns : c # rtSock => rtInbox'[c] = rtInbox[c]
      /\ rtWire' \in [RtConns -> {"none", "opening", "open", "cut"}]
      /\ \A c \in RtConns : c # rtSock => rtWire'[c] = rtWire[c]
  BY <1>0, <1>2 DEF RtInv, RtTypeOK
<1>4. RtTypeOK'
  BY <1>0, <1>1, <1>3 DEF RtInv, RtTypeOK, rtServer
<1>5. RtSession'
  BY <1>0 DEF RtInv, RtSession
<1>6. RtUnmade'
  <2>1. \A c \in RtConns : rtNext <= c => c # rtSock
    BY <1>0, <1>1 DEF RtInv, RtUnmade
  <2> QED BY <1>0, <1>3, <2>1 DEF RtInv, RtUnmade, rtServer
<1>7. SessionsDoNotMix'
  BY <1>0 DEF RtInv, RtSession, SessionsDoNotMix
<1>8. RtServed' /\ RtJoined' /\ CountedIsDelivered'
  <2>1. \A c \in RtConns : rtStep[c] \in {"join", "track"} => c # rtSock
    BY <1>0
  <2> QED BY <1>0, <1>3, <2>1, ServerKept
<1> QED BY <1>4, <1>5, <1>6, <1>7, <1>8 DEF RtInv

LEMMA SocketClosesKeeps == RtInv /\ SocketCloses => RtInv'
<1> SUFFICES ASSUME RtInv, SocketCloses PROVE RtInv'
  OBVIOUS
<1>0. /\ rtSock # NoSock /\ rtWire[rtSock] \in {"opening", "open"}
      /\ rtWire' = [rtWire EXCEPT ![rtSock] = "cut"]
      /\ rtAttempts' = (IF rtAttempts <= RtMaxAttempts THEN rtAttempts + 1
                          ELSE rtAttempts)
      /\ rtTimer' = (rtTimer \/ (rtAttempts < RtMaxAttempts /\ rtEnabled))
      /\ UNCHANGED <<rtUser, rtEnabled, rtSock, rtWant, rtShown, rtOwner,
                     rtInbox, rtSent, rtNext, rtServer, rtEdits>>
  BY DEF SocketCloses
<1>1. rtAttempts' \in 0 .. RtMaxAttempts + 1
  BY <1>0, RtAssumption DEF RtInv, RtTypeOK
<1>2. rtTimer' \in BOOLEAN
  BY <1>0 DEF RtInv, RtTypeOK
<1>3. /\ rtWire' \in [RtConns -> {"none", "opening", "open", "cut"}]
      /\ \A c \in RtConns : c # rtSock => rtWire'[c] = rtWire[c]
  BY <1>0 DEF RtInv, RtTypeOK
<1>4. RtTypeOK'
  BY <1>0, <1>1, <1>2, <1>3 DEF RtInv, RtTypeOK, rtServer
<1>5. RtSession' /\ SessionsDoNotMix'
  BY <1>0 DEF RtInv, RtSession, SessionsDoNotMix
<1>6. RtUnmade'
  <2>1. \A c \in RtConns : rtNext <= c => c # rtSock
    BY <1>0 DEF RtInv, RtUnmade
  <2> QED BY <1>0, <1>3, <2>1 DEF RtInv, RtUnmade, rtServer
<1>7. RtServed' /\ RtJoined' /\ CountedIsDelivered'
  BY <1>0, ServerKept
<1> QED BY <1>4, <1>5, <1>6, <1>7 DEF RtInv

LEMMA ReconnectTimerKeeps == RtInv /\ ReconnectTimer => RtInv'
<1> SUFFICES ASSUME RtInv, ReconnectTimer PROVE RtInv'
  OBVIOUS
<1>0. UNCHANGED <<rtUser, rtEnabled, rtAttempts, rtWant, rtShown, rtInbox,
                  rtSent, rtServer, rtEdits>>
  BY DEF ReconnectTimer
<1>1. CASE rtEnabled /\ Connects
  <2>1. RtTypeOK'
    BY <1>0, <1>1, ConnectsFresh DEF RtInv, RtTypeOK, rtServer
  <2>2. RtSession'
    BY <1>0, <1>1 DEF RtInv, RtSession
  <2>3. RtUnmade' /\ SessionsDoNotMix'
    BY <1>0, <1>1, ConnectsKeeps
  <2>4. RtServed' /\ RtJoined' /\ CountedIsDelivered'
    BY <1>0, <1>1, ConnectsFresh, ServerKept
  <2> QED BY <2>1, <2>2, <2>3, <2>4 DEF RtInv
<1>2. CASE rtTimer' = FALSE /\ UNCHANGED <<rtSock, rtWire, rtOwner, rtNext>>
  <2>1. rtTimer' \in BOOLEAN
    BY <1>2, Zenon
  <2>2. RtTypeOK'
    BY <1>0, <1>2, <2>1 DEF RtInv, RtTypeOK, rtServer
  <2>3. RtSession' /\ RtUnmade' /\ SessionsDoNotMix'
    BY <1>0, <1>2 DEF RtInv, RtSession, RtUnmade, SessionsDoNotMix, rtServer
  <2>4. RtServed' /\ RtJoined' /\ CountedIsDelivered'
    BY <1>0, <1>2, ServerKept
  <2> QED BY <2>2, <2>3, <2>4 DEF RtInv
<1> QED BY <1>1, <1>2 DEF ReconnectTimer

LEMMA OnConnectKeeps ==
  ASSUME RtInv, NEW c \in RtConns, OnConnect(c) PROVE RtInv'
<1> DEFINE u == rtOwner[c]
<1>0. /\ rtWire[c] \in {"opening", "cut"} /\ rtStep[c] = "none" /\ u \in RtUsers
      /\ rtStep' = [rtStep EXCEPT ![c] = "idle"]
      /\ rtLive' = rtLive \cup {c}
      /\ rtConnsOf' = [rtConnsOf EXCEPT ![u] = @ \cup {c}]
      /\ rtShared' = rtShared \cup (IF rtConnsOf[u] = {} THEN {} ELSE {u})
      /\ UNCHANGED <<rtPage, rtNet, rtRooms, rtSubs, rtEdits>>
  BY DEF OnConnect, RtGoes
<1>1. /\ rtStep' \in [RtConns -> RtSteps] /\ rtStep'[c] = "idle"
      /\ \A k \in RtConns : k # c => rtStep'[k] = rtStep[k]
      /\ rtConnsOf' \in [RtUsers -> SUBSET RtConns]
      /\ rtConnsOf'[u] = rtConnsOf[u] \cup {c}
      /\ \A v \in RtUsers : v # u => rtConnsOf'[v] = rtConnsOf[v]
  BY <1>0 DEF RtInv, RtTypeOK, RtSteps
<1> HIDE DEF u
<1>2. RtTypeOK'
  BY <1>0, <1>1 DEF RtInv, RtTypeOK, rtPage, rtNet
<1>3. RtSession' /\ RtUnmade' /\ SessionsDoNotMix'
  BY <1>0, <1>1, PageKept DEF rtNet
<1>4. RtServed'
  <2>1. \A k \in RtConns : rtStep'[k] # "none" => rtOwner'[k] \in RtUsers
    BY <1>0, <1>1 DEF RtInv, RtServed, rtNet, u
  <2>2. \A k \in RtConns : rtStep'[k] \in {"idle", "join", "track", "forget"} =>
          k \in rtConnsOf'[rtOwner'[k]]
    <3>1. rtConnsOf[u] \subseteq rtConnsOf'[u]
      BY <1>1
    <3> QED BY <1>0, <1>1, <2>1, <3>1 DEF RtInv, RtServed, rtNet, u
  <2>3. \A k \in RtConns : rtStep'[k] \in {"idle", "join", "track"} => k \in rtLive'
    BY <1>0, <1>1 DEF RtInv, RtServed
  <2>4. \A v \in RtUsers : v \notin rtShared' =>
          \A x, y \in rtConnsOf'[v] : x = y
    BY <1>0, <1>1 DEF RtInv, RtServed
  <2> QED BY <2>1, <2>2, <2>3, <2>4 DEF RtServed
<1>5. RtJoined'
  BY <1>0, <1>1 DEF RtInv, RtTypeOK, RtJoined, Wanted, rtNet
<1>6. CountedIsDelivered'
  BY <1>0, <1>1 DEF RtInv, CountedIsDelivered, rtNet
<1> QED BY <1>2, <1>3, <1>4, <1>5, <1>6 DEF RtInv

\* The steps of a consumer between registering its connection and leaving.
LEMMA ConsumerMovesOn ==
  ASSUME RtInv, NEW c \in RtConns, NEW step \in RtSteps, RtGoes(c, step),
         rtStep[c] \in {"idle", "join", "track"},
         step \in {"idle", "join", "track"},
         UNCHANGED <<rtPage, rtWire, rtOwner, rtNext, rtLive, rtConnsOf,
                     rtShared>>,
         rtSent' \subseteq rtSent
  PROVE  /\ RtSession' /\ RtUnmade' /\ SessionsDoNotMix' /\ RtServed'
         /\ rtStep' \in [RtConns -> RtSteps] /\ rtStep'[c] = step
         /\ \A k \in RtConns : k # c => rtStep'[k] = rtStep[k]
<1>1. /\ rtStep' \in [RtConns -> RtSteps] /\ rtStep'[c] = step
      /\ \A k \in RtConns : k # c => rtStep'[k] = rtStep[k]
  BY DEF RtGoes, RtInv, RtTypeOK
<1>2. RtSession' /\ RtUnmade' /\ SessionsDoNotMix'
  BY <1>1, PageKept
<1>3. RtServed'
  BY <1>1 DEF RtInv, RtServed
<1> QED BY <1>1, <1>2, <1>3

LEMMA InboxHandled ==
  ASSUME RtTypeOK, NEW c \in RtConns, Handled(c), rtInbox[c] # <<>>
  PROVE  /\ rtInbox' \in [RtConns -> Seq(RtDeps)]
         /\ \A k \in RtConns : k # c => rtInbox'[k] = rtInbox[k]
<1>1. rtInbox[c] \in Seq(RtDeps)
  BY DEF RtTypeOK
<1>2. Tail(rtInbox[c]) \in Seq(RtDeps)
  BY <1>1
<1> QED BY <1>2 DEF Handled, RtTypeOK

LEMMA WantedTypes ==
  ASSUME RtTypeOK, NEW c \in RtConns, rtInbox[c] # <<>>
  PROVE  Wanted(c) \in RtDeps
<1>1. rtInbox[c] \in Seq(RtDeps)
  BY DEF RtTypeOK
<1> QED BY <1>1 DEF Wanted

LEMMA TrySubscribeKeeps ==
  ASSUME RtInv, NEW c \in RtConns, TrySubscribe(c) PROVE RtInv'
<1>0. /\ rtStep[c] = "idle" /\ rtInbox[c] # <<>>
      /\ UNCHANGED <<rtPage, rtWire, rtOwner, rtSent, rtNext, rtLive, rtRooms,
                     rtConnsOf, rtSubs, rtShared, rtEdits>>
  BY DEF TrySubscribe
<1>1. CASE Handled(c) /\ rtStep' = rtStep
  <2>1. /\ rtInbox' \in [RtConns -> Seq(RtDeps)]
        /\ \A k \in RtConns : k # c => rtInbox'[k] = rtInbox[k]
    BY <1>0, <1>1, InboxHandled DEF RtInv
  <2>2. RtTypeOK'
    BY <1>0, <1>1, <2>1 DEF RtInv, RtTypeOK, rtPage
  <2>3. RtSession' /\ RtUnmade' /\ SessionsDoNotMix'
    BY <1>0, <1>1, PageKept
  <2>4. RtServed' /\ RtJoined' /\ CountedIsDelivered'
    BY <1>0, <1>1, <2>1, ServerKept DEF rtServer
  <2> QED BY <2>2, <2>3, <2>4 DEF RtInv
<1>2. CASE RtGoes(c, "join") /\ rtInbox' = rtInbox
  <2>1. /\ RtSession' /\ RtUnmade' /\ SessionsDoNotMix' /\ RtServed'
        /\ rtStep' \in [RtConns -> RtSteps] /\ rtStep'[c] = "join"
        /\ \A k \in RtConns : k # c => rtStep'[k] = rtStep[k]
    BY <1>0, <1>2, ConsumerMovesOn DEF RtSteps
  <2>2. RtTypeOK'
    BY <1>0, <1>2, <2>1 DEF RtInv, RtTypeOK, rtPage
  <2>3. RtJoined'
    BY <1>0, <1>2, <2>1 DEF RtInv, RtTypeOK, RtJoined, Wanted
  <2>4. CountedIsDelivered'
    BY <1>0, <2>1 DEF RtInv, CountedIsDelivered
  <2> QED BY <2>1, <2>2, <2>3, <2>4 DEF RtInv
<1> QED BY <1>1, <1>2 DEF TrySubscribe

LEMMA JoinRoomKeeps ==
  ASSUME RtInv, NEW c \in RtConns, JoinRoom(c) PROVE RtInv'
<1>0. /\ rtStep[c] = "join" /\ RtGoes(c, "track")
      /\ UNCHANGED <<rtPage, rtWire, rtOwner, rtInbox, rtSent, rtNext, rtLive,
                     rtConnsOf, rtSubs, rtShared, rtEdits>>
  BY DEF JoinRoom, rtNet
<1>1. /\ RtSession' /\ RtUnmade' /\ SessionsDoNotMix' /\ RtServed'
      /\ rtStep' \in [RtConns -> RtSteps] /\ rtStep'[c] = "track"
      /\ \A k \in RtConns : k # c => rtStep'[k] = rtStep[k]
  BY <1>0, ConsumerMovesOn DEF RtSteps
<1>2. c \in rtLive /\ rtInbox[c] # <<>>
  BY <1>0 DEF RtInv, RtServed, RtJoined
<1> DEFINE d == Wanted(c)
<1>3. d \in RtDeps
  BY <1>2, WantedTypes DEF RtInv
<1>4. rtRooms' = [rtRooms EXCEPT ![d] = @ \cup {c}]
  BY <1>2 DEF JoinRoom
<1>5. d = Head(rtInbox[c])
  BY DEF Wanted
<1> HIDE DEF d
<1>6. /\ rtRooms' \in [RtDeps -> SUBSET RtConns] /\ c \in rtRooms'[d]
      /\ \A e \in RtDeps : /\ rtRooms[e] \subseteq rtRooms'[e]
                           /\ rtRooms'[e] \subseteq rtRooms[e] \cup {c}
  BY <1>3, <1>4 DEF RtInv, RtTypeOK
<1>7. RtTypeOK'
  BY <1>0, <1>1, <1>6 DEF RtInv, RtTypeOK, rtPage
<1>8. RtJoined'
  <2>1. \A e \in RtDeps : \A k \in rtRooms'[e] : rtStep'[k] # "none"
    BY <1>1, <1>6 DEF RtInv, RtTypeOK, RtJoined
  <2>2. \A k \in RtConns : rtStep'[k] \in {"join", "track"} => rtInbox'[k] # <<>>
    BY <1>0, <1>1, <1>2 DEF RtInv, RtJoined
  <2>3. \A k \in RtConns : rtStep'[k] = "track" => k \in rtRooms'[Head(rtInbox'[k])]
    <3> SUFFICES ASSUME NEW k \in RtConns, rtStep'[k] = "track"
                 PROVE  k \in rtRooms'[Head(rtInbox[k])]
      BY <1>0
    <3>1. CASE k = c
      BY <1>5, <1>6, <3>1
    <3>2. CASE k # c
      <4>1. rtStep[k] = "track" /\ rtInbox[k] # <<>>
        BY <1>1, <3>2 DEF RtInv, RtJoined
      <4>2. Head(rtInbox[k]) \in RtDeps /\ k \in rtRooms[Head(rtInbox[k])]
        BY <4>1, WantedTypes DEF RtInv, RtJoined, Wanted
      <4> QED BY <1>6, <4>2
    <3> QED BY <3>1, <3>2
  <2> QED BY <2>1, <2>2, <2>3 DEF RtJoined, Wanted
<1>9. CountedIsDelivered'
  BY <1>0, <1>1, <1>6 DEF RtInv, CountedIsDelivered
<1> QED BY <1>1, <1>7, <1>8, <1>9 DEF RtInv

LEMMA TrackSubscriptionKeeps ==
  ASSUME RtInv, NEW c \in RtConns, TrackSubscription(c) PROVE RtInv'
<1>0. /\ rtStep[c] = "track" /\ RtGoes(c, "idle") /\ Handled(c)
      /\ rtSubs' = [rtSubs EXCEPT ![rtOwner[c]] = @ \cup {Wanted(c)}]
      /\ UNCHANGED <<rtPage, rtWire, rtOwner, rtSent, rtNext, rtLive, rtRooms,
                     rtConnsOf, rtShared, rtEdits>>
  BY DEF TrackSubscription
<1>1. /\ RtSession' /\ RtUnmade' /\ SessionsDoNotMix' /\ RtServed'
      /\ rtStep' \in [RtConns -> RtSteps] /\ rtStep'[c] = "idle"
      /\ \A k \in RtConns : k # c => rtStep'[k] = rtStep[k]
  BY <1>0, ConsumerMovesOn DEF RtSteps
<1>2. /\ rtInbox[c] # <<>> /\ c \in rtRooms[Wanted(c)]
      /\ rtOwner[c] \in RtUsers
  BY <1>0 DEF RtInv, RtServed, RtJoined
<1>3. Wanted(c) \in RtDeps
  BY <1>2, WantedTypes DEF RtInv
<1>4. /\ rtInbox' \in [RtConns -> Seq(RtDeps)]
      /\ \A k \in RtConns : k # c => rtInbox'[k] = rtInbox[k]
  BY <1>0, <1>2, InboxHandled DEF RtInv
<1>5. /\ rtSubs' \in [RtUsers -> SUBSET RtDeps]
      /\ \A u \in RtUsers, d \in RtDeps :
           d \in rtSubs'[u] => \/ d \in rtSubs[u]
                               \/ u = rtOwner[c] /\ d = Wanted(c)
  BY <1>0, <1>2, <1>3 DEF RtInv, RtTypeOK
<1>6. RtTypeOK'
  BY <1>0, <1>1, <1>4, <1>5 DEF RtInv, RtTypeOK, rtPage
<1>7. RtJoined'
  BY <1>0, <1>1, <1>4 DEF RtInv, RtTypeOK, RtJoined, Wanted
<1>8. CountedIsDelivered'
  BY <1>0, <1>1, <1>2, <1>5 DEF RtInv, CountedIsDelivered
<1> QED BY <1>1, <1>6, <1>7, <1>8 DEF RtInv

LEMMA UnsubscribeKeeps ==
  ASSUME RtInv, NEW c \in RtConns, Unsubscribe(c) PROVE RtInv'
<1>0. /\ rtStep[c] = "idle"
      /\ UNCHANGED <<rtPage, rtWire, rtOwner, rtInbox, rtNext, rtStep, rtLive,
                     rtConnsOf, rtShared>>
  BY DEF Unsubscribe
<1>1. PICK d \in RtDeps :
        /\ rtRooms' = [rtRooms EXCEPT ![d] = @ \ {c}]
        /\ rtSubs' = [rtSubs EXCEPT ![rtOwner[c]] = @ \ {d}]
        /\ rtSent' = rtSent \ {<<c, d>>}
  BY DEF Unsubscribe
<1>2. rtOwner[c] \in RtUsers
  BY <1>0 DEF RtInv, RtServed
<1>3. /\ rtRooms' \in [RtDeps -> SUBSET RtConns]
      /\ \A e \in RtDeps : /\ rtRooms'[e] \subseteq rtRooms[e]
                           /\ \A k \in rtRooms[e] :
                                k \in rtRooms'[e] \/ (k = c /\ e = d)
      /\ rtSubs' \in [RtUsers -> SUBSET RtDeps]
      /\ \A u \in RtUsers : rtSubs'[u] \subseteq rtSubs[u]
      /\ d \notin rtSubs'[rtOwner[c]]
  BY <1>1, <1>2 DEF RtInv, RtTypeOK
<1>4. rtEdits' \in 0 .. RtMaxEdits
  BY RtAssumption DEF Unsubscribe, RtEdit, RtInv, RtTypeOK
<1>5. RtTypeOK'
  BY <1>0, <1>1, <1>3, <1>4 DEF RtInv, RtTypeOK, rtPage
<1>6. RtSession' /\ RtUnmade' /\ SessionsDoNotMix'
  BY <1>0, <1>1, PageKept
<1>7. RtServed'
  BY <1>0 DEF RtInv, RtServed
<1>8. RtJoined'
  <2>1. \A k \in RtConns : rtStep[k] = "track" =>
          Wanted(k) \in RtDeps /\ k # c /\ k \in rtRooms[Wanted(k)]
    BY <1>0, WantedTypes DEF RtInv, RtJoined
  <2> QED BY <1>0, <1>3, <2>1 DEF RtInv, RtJoined, Wanted
<1>9. CountedIsDelivered'
  BY <1>0, <1>3 DEF RtInv, CountedIsDelivered
<1> QED BY <1>5, <1>6, <1>7, <1>8, <1>9 DEF RtInv

LEMMA LeaveRoomsKeeps ==
  ASSUME RtInv, NEW c \in RtConns, LeaveRooms(c) PROVE RtInv'
<1>0. /\ rtStep[c] = "idle" /\ rtStep' = [rtStep EXCEPT ![c] = "forget"]
      /\ rtLive' = rtLive \ {c}
      /\ rtRooms' = [d \in RtDeps |-> rtRooms[d] \ {c}]
      /\ rtInbox' = [rtInbox EXCEPT ![c] = <<>>]
      /\ UNCHANGED <<rtPage, rtWire, rtOwner, rtSent, rtNext, rtConnsOf, rtSubs,
                     rtShared, rtEdits>>
  BY DEF LeaveRooms, RtGoes
<1>1. /\ rtStep' \in [RtConns -> RtSteps] /\ rtStep'[c] = "forget"
      /\ \A k \in RtConns : k # c => rtStep'[k] = rtStep[k]
      /\ rtRooms' \in [RtDeps -> SUBSET RtConns]
      /\ \A d \in RtDeps : rtRooms'[d] = rtRooms[d] \ {c}
  BY <1>0 DEF RtInv, RtTypeOK, RtSteps
<1>2. /\ rtInbox' \in [RtConns -> Seq(RtDeps)]
      /\ \A k \in RtConns : k # c => rtInbox'[k] = rtInbox[k]
  BY <1>0 DEF RtInv, RtTypeOK
<1>3. RtTypeOK'
  BY <1>0, <1>1, <1>2 DEF RtInv, RtTypeOK, rtPage
<1>4. RtSession' /\ RtUnmade' /\ SessionsDoNotMix'
  BY <1>0, <1>1, PageKept
<1>5. RtServed'
  BY <1>0, <1>1 DEF RtInv, RtServed
<1>6. RtJoined'
  <2>1. \A k \in RtConns : rtStep[k] = "track" =>
          Wanted(k) \in RtDeps /\ k # c /\ k \in rtRooms[Wanted(k)]
    BY <1>0, WantedTypes DEF RtInv, RtJoined
  <2>2. \A d \in RtDeps : rtRooms[d] \subseteq RtConns
    BY DEF RtInv, RtTypeOK
  <2> QED BY <1>1, <1>2, <2>1, <2>2 DEF RtInv, RtJoined, Wanted
<1>7. CountedIsDelivered'
  BY <1>0, <1>1 DEF RtInv, CountedIsDelivered
<1> QED BY <1>3, <1>4, <1>5, <1>6, <1>7 DEF RtInv

\* A consumer that has left the rooms ends; what it leaves counted is cleared
\* unless its user has another connection.
LEMMA ForgetKeeps ==
  ASSUME RtInv, NEW c \in RtConns, ForgetConnection(c) \/ ClearSubscriptions(c)
  PROVE  RtInv'
<1>0. /\ rtStep[c] \in {"forget", "clear"}
      /\ UNCHANGED <<rtPage, rtWire, rtOwner, rtInbox, rtSent, rtNext, rtLive,
                     rtRooms, rtShared, rtEdits>>
  BY DEF ForgetConnection, ClearSubscriptions, rtNet
<1> DEFINE u == rtOwner[c]
<1>1. u \in RtUsers /\ (rtStep[c] = "forget" => c \in rtConnsOf[u])
  BY <1>0 DEF RtInv, RtServed
<1>2. PICK step \in {"clear", "gone"} :
        /\ rtStep' = [rtStep EXCEPT ![c] = step]
        /\ \/ /\ rtConnsOf' = [rtConnsOf EXCEPT ![u] = @ \ {c}]
              /\ rtSubs' = rtSubs /\ rtStep[c] = "forget"
              /\ rtConnsOf[u] = {c} => step = "clear"
           \/ /\ rtSubs' = [rtSubs EXCEPT ![u] = {}] /\ rtConnsOf' = rtConnsOf
  BY DEF ForgetConnection, ClearSubscriptions, RtGoes
<1> HIDE DEF u
<1>3. /\ rtStep' \in [RtConns -> RtSteps] /\ rtStep'[c] = step
      /\ \A k \in RtConns : k # c => rtStep'[k] = rtStep[k]
  BY <1>2 DEF RtInv, RtTypeOK, RtSteps
<1>4. /\ rtConnsOf' \in [RtUsers -> SUBSET RtConns]
      /\ \A v \in RtUsers : /\ rtConnsOf'[v] \subseteq rtConnsOf[v]
                            /\ \A k \in rtConnsOf[v] : k \in rtConnsOf'[v] \/ k = c
      /\ rtSubs' \in [RtUsers -> SUBSET RtDeps]
      /\ \A v \in RtUsers : rtSubs'[v] \subseteq rtSubs[v]
  BY <1>1, <1>2 DEF RtInv, RtTypeOK
<1>5. RtTypeOK'
  BY <1>0, <1>3, <1>4 DEF RtInv, RtTypeOK, rtPage
<1>6. RtSession' /\ RtUnmade' /\ SessionsDoNotMix'
  BY <1>0, <1>3, PageKept
<1>7. RtServed'
  <2>1. \A k \in RtConns : rtStep'[k] # "none" => rtOwner'[k] \in RtUsers
    BY <1>0, <1>1, <1>3 DEF RtInv, RtServed, u
  <2>2. \A k \in RtConns : rtStep'[k] \in {"idle", "join", "track", "forget"} =>
          k \in rtConnsOf'[rtOwner'[k]]
    <3> SUFFICES ASSUME NEW k \in RtConns,
                        rtStep'[k] \in {"idle", "join", "track", "forget"}
                 PROVE  k \in rtConnsOf'[rtOwner[k]]
      BY <1>0
    <3>1. k # c /\ rtStep[k] = rtStep'[k]
      BY <1>3
    <3>2. k \in rtConnsOf[rtOwner[k]] /\ rtOwner[k] \in RtUsers
      BY <3>1 DEF RtInv, RtServed
    <3> QED BY <1>4, <3>1, <3>2
  <2>3. \A k \in RtConns : rtStep'[k] \in {"idle", "join", "track"} => k \in rtLive'
    BY <1>0, <1>3 DEF RtInv, RtServed
  <2>4. \A v \in RtUsers : v \notin rtShared' =>
          \A x, y \in rtConnsOf'[v] : x = y
    BY <1>0, <1>4 DEF RtInv, RtServed
  <2> QED BY <2>1, <2>2, <2>3, <2>4 DEF RtServed
<1>8. RtJoined'
  BY <1>0, <1>3 DEF RtInv, RtTypeOK, RtJoined, Wanted
<1>9. CountedIsDelivered'
  <2> SUFFICES ASSUME NEW v \in RtUsers, NEW d \in RtDeps, v \notin rtShared,
                      d \in rtSubs'[v]
               PROVE  \/ \E k \in rtRooms[d] : rtOwner[k] = v
                      \/ \E k \in RtConns : /\ rtOwner[k] = v
                                            /\ rtStep'[k] \in {"forget", "clear"}
    BY <1>0 DEF CountedIsDelivered
  <2>1. \/ \E k \in rtRooms[d] : rtOwner[k] = v
        \/ \E k \in RtConns : /\ rtOwner[k] = v
                              /\ rtStep[k] \in {"forget", "clear"}
    BY <1>4 DEF RtInv, CountedIsDelivered
  <2>2. CASE v # u
    BY <1>3, <2>1, <2>2 DEF u
  <2>3. CASE v = u
    <3>1. rtStep[c] = "forget" /\ (rtConnsOf[u] = {c} => step = "clear")
      BY <1>1, <1>2, <2>3 DEF RtInv, RtTypeOK
    <3>2. rtConnsOf[u] = {c}
      BY <1>1, <2>3, <3>1 DEF RtInv, RtServed
    <3> QED BY <1>3, <2>3, <3>1, <3>2 DEF u
  <2> QED BY <2>2, <2>3
<1> QED BY <1>5, <1>6, <1>7, <1>8, <1>9 DEF RtInv

\* The inductive invariant of live updates.
THEOREM RtInvariance == RealtimeSpec => []RtInv
<1>1. RtInit => RtInv
  BY RtInitInv
<1>2. RtInv /\ [RealtimeNext]_rtVars => RtInv'
  <2> SUFFICES ASSUME RtInv, [RealtimeNext]_rtVars PROVE RtInv'
    OBVIOUS
  <2>1. CASE RtBrowser
    BY <2>1, LoginKeeps, ShowDeploymentsKeeps, LogoutKeeps, SocketOpensKeeps,
       SocketClosesKeeps, ReconnectTimerKeeps
    DEF RtBrowser
  <2>2. ASSUME NEW c \in RtConns, RtConsumer(c) \/ Unsubscribe(c) PROVE RtInv'
    BY <2>2, OnConnectKeeps, TrySubscribeKeeps, JoinRoomKeeps,
       TrackSubscriptionKeeps, UnsubscribeKeeps, LeaveRoomsKeeps, ForgetKeeps
    DEF RtConsumer
  <2>3. CASE UNCHANGED rtVars
    <3> USE DEF rtVars, rtPage, rtNet, rtServer
    <3>1. RtTypeOK'
      BY <2>3 DEF RtInv, RtTypeOK
    <3>2. RtSession' /\ RtUnmade' /\ SessionsDoNotMix'
      BY <2>3 DEF RtInv, RtSession, RtUnmade, SessionsDoNotMix
    <3>3. RtServed' /\ RtJoined' /\ CountedIsDelivered'
      BY <2>3, ServerKept
    <3> QED BY <3>1, <3>2, <3>3 DEF RtInv
  <2> QED BY <2>1, <2>2, <2>3 DEF RealtimeNext
<1> QED BY <1>1, <1>2, PTL DEF RealtimeSpec

\* The socket of a session asks only for deployments shown in that session,
\* through any logouts, logins and reconnects.
THEOREM SessionsApart == RealtimeSpec => []SessionsDoNotMix
<1>1. RtInv => SessionsDoNotMix
  BY DEF RtInv
<1> QED BY <1>1, RtInvariance, PTL

\* A deployment counted for a user who never had two connections at once is
\* one that user's connection gets updates of, or is about to be cleared.
THEOREM CountedDelivered == RealtimeSpec => []CountedIsDelivered
<1>1. RtInv => CountedIsDelivered
  BY DEF RtInv
<1> QED BY <1>1, RtInvariance, PTL


-----------------------------------------------------------------------------
(* LocalBuilds *)

\* A step that leaves a build alone.
LbKeeps(c) ==
  /\ lbStep'[c] = lbStep[c] /\ lbPhase'[c] = lbPhase[c]
  /\ lbToken'[c] = lbToken[c] /\ lbCancelAt'[c] = lbCancelAt[c]
  /\ lbEvent'[c] = lbEvent[c] /\ lbArtifact'[c] = lbArtifact[c]
  /\ lbStatus'[c] = lbStatus[c]

LEMMA LbOther ==
  ASSUME LbInv, NEW c \in BuildIds, LbKeeps(c)
  PROVE  PhaseStored(c)' /\ Stopping(c)' /\ OutcomeAgrees(c)'
BY DEF LbInv, LbKeeps, PhaseStored, Stopping, OutcomeAgrees

LEMMA LbInitInv == LbInit => LbInv
BY DEF LbInit, LbInv, LbTypeOK, PhaseStored, Stopping, OutcomeAgrees, LbSteps,
   LastPhase, NotCancelled

LEMMA LbStarted ==
  ASSUME LbInv, NEW b \in BuildIds, StartBuild(b)
  PROVE  LbInv'
<1>1. LbTypeOK'
  BY DEF LbInv, LbTypeOK, StartBuild, LbGoes, LbSteps,
     LastPhase, NotCancelled
<1>2. ASSUME NEW c \in BuildIds, c # b
      PROVE  PhaseStored(c)' /\ Stopping(c)' /\ OutcomeAgrees(c)'
  <2>1. LbKeeps(c)
    BY <1>2 DEF LbKeeps, LbInv, LbTypeOK, StartBuild, LbGoes
  <2> QED BY <2>1, LbOther
<1>3. PhaseStored(b)' /\ Stopping(b)' /\ OutcomeAgrees(b)'
  BY <1>1 DEF LbInv, LbTypeOK, PhaseStored, Stopping, OutcomeAgrees, StartBuild, LbGoes,
     LbSteps, LastPhase, NotCancelled
<1> QED BY <1>1, <1>2, <1>3 DEF LbInv

LEMMA LbCancelled ==
  ASSUME LbInv, NEW b \in BuildIds, CancelBuild(b)
  PROVE  LbInv'
<1>1. LbTypeOK'
  BY DEF LbInv, LbTypeOK, CancelBuild, LbSteps,
     LastPhase, NotCancelled
<1>2. ASSUME NEW c \in BuildIds, c # b
      PROVE  PhaseStored(c)' /\ Stopping(c)' /\ OutcomeAgrees(c)'
  <2>1. LbKeeps(c)
    BY <1>2 DEF LbKeeps, LbInv, LbTypeOK, CancelBuild
  <2> QED BY <2>1, LbOther
<1>3. PhaseStored(b)' /\ Stopping(b)' /\ OutcomeAgrees(b)'
  BY <1>1 DEF LbInv, LbTypeOK, PhaseStored, Stopping, OutcomeAgrees, CancelBuild,
     LbSteps, LastPhase, NotCancelled
<1> QED BY <1>1, <1>2, <1>3 DEF LbInv

LEMMA LbChecked ==
  ASSUME LbInv, NEW b \in BuildIds, CheckToken(b)
  PROVE  LbInv'
<1>1. LbTypeOK'
  BY DEF LbInv, LbTypeOK, CheckToken, LbGoes, LbSteps,
     LastPhase, NotCancelled
<1>2. ASSUME NEW c \in BuildIds, c # b
      PROVE  PhaseStored(c)' /\ Stopping(c)' /\ OutcomeAgrees(c)'
  <2>1. LbKeeps(c)
    BY <1>2 DEF LbKeeps, LbInv, LbTypeOK, CheckToken, LbGoes
  <2> QED BY <2>1, LbOther
<1>3. PhaseStored(b)' /\ Stopping(b)' /\ OutcomeAgrees(b)'
  BY <1>1 DEF LbInv, LbTypeOK, PhaseStored, Stopping, OutcomeAgrees, CheckToken, LbGoes,
     LbSteps, LastPhase, NotCancelled
<1> QED BY <1>1, <1>2, <1>3 DEF LbInv

LEMMA LbAnnounced ==
  ASSUME LbInv, NEW b \in BuildIds, AnnouncePhase(b)
  PROVE  LbInv'
<1>0. lbStatus' \in [BuildIds -> [phase : 0 .. LastPhase, completed : BOOLEAN,
                                   success : BOOLEAN]]
  BY DEF LbInv, LbTypeOK, AnnouncePhase
<1>1. LbTypeOK'
  BY <1>0 DEF LbInv, LbTypeOK, AnnouncePhase, LbGoes, LbSends, LbSteps
<1>2. ASSUME NEW c \in BuildIds, c # b
      PROVE  PhaseStored(c)' /\ Stopping(c)' /\ OutcomeAgrees(c)'
  <2>1. LbKeeps(c)
    BY <1>2 DEF LbKeeps, LbInv, LbTypeOK, AnnouncePhase, LbGoes, LbSends
  <2> QED BY <2>1, LbOther
<1>3. PhaseStored(b)' /\ Stopping(b)' /\ OutcomeAgrees(b)'
  BY <1>1 DEF LbInv, LbTypeOK, PhaseStored, Stopping, OutcomeAgrees, AnnouncePhase, LbGoes, LbSends,
     LbSteps, LastPhase, NotCancelled
<1> QED BY <1>1, <1>2, <1>3 DEF LbInv

LEMMA LbPhaseEnded ==
  ASSUME LbInv, NEW b \in BuildIds, PhaseEnds(b)
  PROVE  LbInv'
<1>0. lbPhase' \in [BuildIds -> 0 .. LastPhase]
  <2>1. lbPhase[b] < LastPhase => lbPhase[b] + 1 \in 0 .. LastPhase
    BY DEF LbInv, LbTypeOK, LastPhase
  <2>2. lbPhase \in [BuildIds -> 0 .. LastPhase]
    BY DEF LbInv, LbTypeOK
  <2> QED BY <2>1, <2>2 DEF PhaseEnds
<1>1. LbTypeOK'
  BY <1>0 DEF LbInv, LbTypeOK, PhaseEnds, LbGoes, LbSteps
<1>2. ASSUME NEW c \in BuildIds, c # b
      PROVE  PhaseStored(c)' /\ Stopping(c)' /\ OutcomeAgrees(c)'
  <2>1. LbKeeps(c)
    BY <1>2 DEF LbKeeps, LbInv, LbTypeOK, PhaseEnds, LbGoes
  <2> QED BY <2>1, LbOther
<1>3. PhaseStored(b)' /\ Stopping(b)' /\ OutcomeAgrees(b)'
  BY <1>1 DEF LbInv, LbTypeOK, PhaseStored, Stopping, OutcomeAgrees, PhaseEnds, LbGoes,
     LbSteps, LastPhase, NotCancelled
<1> QED BY <1>1, <1>2, <1>3 DEF LbInv

LEMMA LbWorkCancelled ==
  ASSUME LbInv, NEW b \in BuildIds, WorkCancelled(b)
  PROVE  LbInv'
<1>1. LbTypeOK'
  BY DEF LbInv, LbTypeOK, WorkCancelled, LbGoes, LbSteps,
     LastPhase, NotCancelled
<1>2. ASSUME NEW c \in BuildIds, c # b
      PROVE  PhaseStored(c)' /\ Stopping(c)' /\ OutcomeAgrees(c)'
  <2>1. LbKeeps(c)
    BY <1>2 DEF LbKeeps, LbInv, LbTypeOK, WorkCancelled, LbGoes
  <2> QED BY <2>1, LbOther
<1>3. PhaseStored(b)' /\ Stopping(b)' /\ OutcomeAgrees(b)'
  BY <1>1 DEF LbInv, LbTypeOK, PhaseStored, Stopping, OutcomeAgrees, WorkCancelled, LbGoes,
     LbSteps, LastPhase, NotCancelled
<1> QED BY <1>1, <1>2, <1>3 DEF LbInv

LEMMA LbCancelReported ==
  ASSUME LbInv, NEW b \in BuildIds, ReportCancelled(b)
  PROVE  LbInv'
<1>1. LbTypeOK'
  BY DEF LbInv, LbTypeOK, ReportCancelled, LbGoes, LbSends, LbSteps,
     LastPhase, NotCancelled
<1>2. ASSUME NEW c \in BuildIds, c # b
      PROVE  PhaseStored(c)' /\ Stopping(c)' /\ OutcomeAgrees(c)'
  <2>1. LbKeeps(c)
    BY <1>2 DEF LbKeeps, LbInv, LbTypeOK, ReportCancelled, LbGoes, LbSends
  <2> QED BY <2>1, LbOther
<1>3. PhaseStored(b)' /\ Stopping(b)' /\ OutcomeAgrees(b)'
  BY <1>1 DEF LbInv, LbTypeOK, PhaseStored, Stopping, OutcomeAgrees, ReportCancelled, LbGoes, LbSends,
     LbSteps, LastPhase, NotCancelled
<1> QED BY <1>1, <1>2, <1>3 DEF LbInv

LEMMA LbArtifactReported ==
  ASSUME LbInv, NEW b \in BuildIds, ReportArtifact(b)
  PROVE  LbInv'
<1>1. LbTypeOK'
  BY DEF LbInv, LbTypeOK, ReportArtifact, LbGoes, LbSends, LbSteps,
     LastPhase, NotCancelled
<1>2. ASSUME NEW c \in BuildIds, c # b
      PROVE  PhaseStored(c)' /\ Stopping(c)' /\ OutcomeAgrees(c)'
  <2>1. LbKeeps(c)
    BY <1>2 DEF LbKeeps, LbInv, LbTypeOK, ReportArtifact, LbGoes, LbSends
  <2> QED BY <2>1, LbOther
<1>3. PhaseStored(b)' /\ Stopping(b)' /\ OutcomeAgrees(b)'
  BY <1>1 DEF LbInv, LbTypeOK, PhaseStored, Stopping, OutcomeAgrees, ReportArtifact, LbGoes, LbSends,
     LbSteps, LastPhase, NotCancelled
<1> QED BY <1>1, <1>2, <1>3 DEF LbInv

LEMMA LbCompleteReported ==
  ASSUME LbInv, NEW b \in BuildIds, ReportComplete(b)
  PROVE  LbInv'
<1>1. LbTypeOK'
  BY DEF LbInv, LbTypeOK, ReportComplete, LbGoes, LbSends, LbSteps,
     LastPhase, NotCancelled
<1>2. ASSUME NEW c \in BuildIds, c # b
      PROVE  PhaseStored(c)' /\ Stopping(c)' /\ OutcomeAgrees(c)'
  <2>1. LbKeeps(c)
    BY <1>2 DEF LbKeeps, LbInv, LbTypeOK, ReportComplete, LbGoes, LbSends
  <2> QED BY <2>1, LbOther
<1>3. PhaseStored(b)' /\ Stopping(b)' /\ OutcomeAgrees(b)'
  BY <1>1 DEF LbInv, LbTypeOK, PhaseStored, Stopping, OutcomeAgrees, ReportComplete, LbGoes, LbSends,
     LbSteps, LastPhase, NotCancelled
<1> QED BY <1>1, <1>2, <1>3 DEF LbInv

LEMMA LbRecorded ==
  ASSUME LbInv, NEW b \in BuildIds, UpdateBuildCompleted(b)
  PROVE  LbInv'
<1>0. lbStatus' \in [BuildIds -> [phase : 0 .. LastPhase, completed : BOOLEAN,
                                   success : BOOLEAN]]
  <2>1. PICK s \in BOOLEAN :
          lbStatus' = [lbStatus EXCEPT ![b].completed = TRUE, ![b].success = s]
    BY Zenon DEF UpdateBuildCompleted
  <2> QED BY <2>1 DEF LbInv, LbTypeOK
<1>1. LbTypeOK'
  BY <1>0 DEF LbInv, LbTypeOK, UpdateBuildCompleted, LbGoes, LbSteps
<1>2. ASSUME NEW c \in BuildIds, c # b
      PROVE  PhaseStored(c)' /\ Stopping(c)' /\ OutcomeAgrees(c)'
  <2>1. LbKeeps(c)
    BY <1>2 DEF LbKeeps, LbInv, LbTypeOK, UpdateBuildCompleted, LbGoes
  <2> QED BY <2>1, LbOther
<1>3. PhaseStored(b)' /\ Stopping(b)' /\ OutcomeAgrees(b)'
  BY <1>1 DEF LbInv, LbTypeOK, PhaseStored, Stopping, OutcomeAgrees, UpdateBuildCompleted, LbGoes,
     LbSteps, LastPhase, NotCancelled
<1> QED BY <1>1, <1>2, <1>3 DEF LbInv

THEOREM BuildsInvariance == BuildsSpec => []LbInv
<1>1. LbInit => LbInv
  BY LbInitInv
<1>2. LbInv /\ [BuildsNext]_lbVars => LbInv'
  <2> SUFFICES ASSUME LbInv, [BuildsNext]_lbVars PROVE LbInv'
    OBVIOUS
  <2>1. CASE UNCHANGED lbVars
    BY <2>1 DEF lbVars, LbInv, LbTypeOK, PhaseStored, Stopping, OutcomeAgrees
  <2>2. CASE BuildsNext
    BY <2>2, LbStarted, LbCancelled, LbChecked, LbAnnounced, LbPhaseEnded,
       LbWorkCancelled, LbCancelReported, LbArtifactReported,
       LbCompleteReported, LbRecorded
    DEF BuildsNext, RunPipeline
  <2> QED BY <2>1, <2>2
<1> QED BY <1>1, <1>2, PTL DEF BuildsSpec

\* For any number of builds: a build whose cancellation was acknowledged before
\* its last phase began never succeeds and never delivers an artifact.
THEOREM CancelledNeverSucceeds == BuildsSpec => []CancelHolds
<1>1. LbInv => CancelHolds
  BY DEF LbInv, Stopping, OutcomeAgrees, CancelHolds
<1> QED BY <1>1, BuildsInvariance, PTL

\* The last event of a build that is over says what is stored, and a build
\* succeeded exactly when it delivered its artifact.
THEOREM BuildOutcomeTold == BuildsSpec => []OutcomeTold
<1>1. LbInv => OutcomeTold
  BY DEF LbInv, LbTypeOK, OutcomeAgrees, OutcomeTold
<1> QED BY <1>1, BuildsInvariance, PTL

\* No step changes a stored outcome or sends another event after it.
THEOREM BuildOutcomeFinal == BuildsSpec => [][OutcomeFinal]_lbVars
<1>1. LbInv /\ [BuildsNext]_lbVars => [OutcomeFinal]_lbVars
  <2> SUFFICES ASSUME LbInv, BuildsNext, NEW c \in BuildIds, lbStatus[c].completed
               PROVE  lbStatus'[c] = lbStatus[c] /\ lbEvent'[c] = lbEvent[c]
    BY DEF OutcomeFinal
  <2>1. lbStep[c] = "done"
    BY DEF LbInv, OutcomeAgrees
  <2>2. PICK b \in BuildIds : StartBuild(b) \/ CancelBuild(b) \/ RunPipeline(b)
    BY DEF BuildsNext
  <2>3. CASE StartBuild(b) \/ CancelBuild(b)
    BY <2>3 DEF StartBuild, CancelBuild
  <2>4. CASE RunPipeline(b)
    <3>1. b # c
      BY <2>1, <2>4 DEF RunPipeline, CheckToken, AnnouncePhase, PhaseEnds,
         WorkCancelled, ReportCancelled, ReportArtifact, ReportComplete,
         UpdateBuildCompleted
    <3>2. /\ lbStatus \in [BuildIds -> [phase : 0 .. LastPhase,
                             completed : BOOLEAN, success : BOOLEAN]]
          /\ DOMAIN lbEvent = BuildIds
      BY DEF LbInv, LbTypeOK
    <3> QED
      BY <2>4, <3>1, <3>2 DEF RunPipeline, CheckToken, AnnouncePhase, PhaseEnds,
         WorkCancelled, ReportCancelled, ReportArtifact, ReportComplete,
         UpdateBuildCompleted, LbSends
  <2> QED BY <2>2, <2>3, <2>4
<1> QED BY <1>1, BuildsInvariance, PTL DEF BuildsSpec

-----------------------------------------------------------------------------
(* LogStore *)

LEMMA LogStart == ASSUME LogInit PROVE LogInv
<1>1. /\ lgBuf \in Seq(LogEntries) /\ Len(lgBuf) = 0
      /\ lgSent \in Seq(LogEntries) /\ Len(lgSent) = 0
  BY DEF LogInit
<1>2. NoTail \in Followers
  BY DEF NoTail, Followers, LogFilters
<1>3. LogTypeOK
  BY <1>1, <1>2, LogAssumption DEF LogInit, LogTypeOK
<1>4. LogKept
  BY <1>1, LogAssumption DEF LogInit, LogKept, KeepsLast, Stored
<1>5. LogHeld
  BY LogAssumption DEF LogInit, LogHeld
<1>6. ASSUME NEW t \in Tails
      PROVE  FollowerSound(lgTail[t], lgSent) /\ FollowerPlace(lgTail[t], lgSent)
  <2>1. PICK c : c = NoTail
    OBVIOUS
  <2>2. lgTail[t] = c
    BY <2>1 DEF LogInit
  <2>3. /\ c.from = 1 /\ c.next = 1 /\ c.got = <<>> /\ c.missed = {}
    BY <2>1 DEF NoTail
  <2>4. SeenBy(c, lgSent) = {}
    BY <2>3 DEF SeenBy
  <2>5. FollowerSound(c, lgSent)
    BY <2>3, <2>4, FS_EmptySet DEF FollowerSound
  <2>6. FollowerPlace(c, lgSent)
    BY <1>1, <2>3 DEF FollowerPlace
  <2> QED BY <2>2, <2>5, <2>6
<1> QED BY <1>3, <1>4, <1>5, <1>6 DEF LogInv, TailSound

\* A follower keeps its place when an entry is broadcast.
LEMMA FollowerStays ==
  ASSUME NEW c \in Followers, NEW s \in Seq(LogEntries), NEW e \in LogEntries,
         FollowerSound(c, s), FollowerPlace(c, s)
  PROVE  FollowerSound(c, Append(s, e)) /\ FollowerPlace(c, Append(s, e))
<1>1. /\ c.from \in Nat /\ c.next \in Nat /\ c.missed \subseteq Nat
      /\ Len(s) \in Nat
  BY DEF Followers
<1>2. /\ Len(Append(s, e)) = Len(s) + 1
      /\ \A i \in 1 .. Len(s) : Append(s, e)[i] = s[i]
  OBVIOUS
<1>3. \A i \in c.from .. c.next - 1 : i \in 1 .. Len(s)
  BY <1>1 DEF FollowerPlace
<1>4. SeenBy(c, Append(s, e)) = SeenBy(c, s)
  BY <1>2, <1>3 DEF SeenBy
<1>5. \A i \in SeenBy(c, s) : Append(s, e)[i] = s[i]
  BY <1>2, <1>3 DEF SeenBy
<1>6. \A i \in c.missed : i + LogRing <= Len(s) + 1
  BY <1>1, LogAssumption DEF FollowerSound
<1>7. FollowerSound(c, Append(s, e))
  BY <1>2, <1>4, <1>5, <1>6 DEF FollowerSound
<1>8. FollowerPlace(c, Append(s, e))
  BY <1>1, <1>2 DEF FollowerPlace
<1> QED BY <1>7, <1>8

\* A follower that fell behind is moved to the oldest entry kept.
LEMMA FollowerLags ==
  ASSUME NEW c \in Followers, NEW s \in Seq(LogEntries), NEW to \in Nat,
         FollowerSound(c, s), FollowerPlace(c, s),
         c.next < to, to + LogRing <= Len(s) + 1
  PROVE  LET d == [c EXCEPT !.next = to,
                            !.missed = c.missed \cup (c.next .. to - 1)]
         IN  d \in Followers /\ FollowerSound(d, s) /\ FollowerPlace(d, s)
<1>1. /\ c.from \in Nat /\ c.next \in Nat /\ c.missed \subseteq Nat
      /\ Len(s) \in Nat /\ LogRing \in Nat /\ LogRing >= 1
  BY LogAssumption DEF Followers
<1>2. PICK gap : gap = c.next .. to - 1
  OBVIOUS
<1>3. PICK d : d = [c EXCEPT !.next = to, !.missed = c.missed \cup gap]
  OBVIOUS
<1>4. gap \subseteq Nat /\ \A i \in gap : i < to /\ c.next <= i
  BY <1>1, <1>2
<1>5. /\ d \in Followers /\ d.from = c.from /\ d.next = to /\ d.got = c.got
      /\ d.missed = c.missed \cup gap
  BY <1>3, <1>4 DEF Followers
<1>6. d.filter = c.filter
  BY <1>3 DEF Followers
<1>7. SeenBy(d, s) = SeenBy(c, s)
  <2>1. \A i \in Int : (i \in c.from .. to - 1 /\ i \notin gap)
                          <=> (i \in c.from .. c.next - 1)
    BY <1>1, <1>2 DEF FollowerPlace
  <2> QED BY <1>5, <1>6, <2>1 DEF SeenBy
<1>8. \A i \in d.missed : i + LogRing <= Len(s)
  <2>1. \A i \in Nat : i < to => i + LogRing <= Len(s)
    BY <1>1
  <2>2. \A i \in gap : i + LogRing <= Len(s)
    BY <1>4, <2>1
  <2> QED BY <1>5, <2>2 DEF FollowerSound
<1>9. FollowerSound(d, s)
  BY <1>5, <1>7, <1>8 DEF FollowerSound
<1>10. FollowerPlace(d, s)
  <2>1. \A i \in c.missed : i < to
    BY <1>1 DEF FollowerPlace
  <2>2. 1 <= c.from /\ c.from <= to /\ to <= Len(s) + 1
    BY <1>1 DEF FollowerPlace
  <2>3. \A i \in d.missed : i < to
    BY <1>4, <1>5, <2>1
  <2> QED BY <1>5, <2>2, <2>3 DEF FollowerPlace
<1> QED BY <1>2, <1>3, <1>5, <1>9, <1>10

\* A follower passes the next entry, and is given it if it matches.
LEMMA FollowerReads ==
  ASSUME NEW c \in Followers, NEW s \in Seq(LogEntries),
         FollowerSound(c, s), FollowerPlace(c, s), c.next <= Len(s)
  PROVE  LET d == [c EXCEPT !.next = c.next + 1,
                     !.got = IF MatchesFilter(s[c.next], c.filter)
                               THEN Append(c.got, s[c.next]) ELSE c.got]
         IN  d \in Followers /\ FollowerSound(d, s) /\ FollowerPlace(d, s)
<1>1. /\ c.from \in Nat /\ c.next \in Nat /\ c.missed \subseteq Nat
      /\ c.got \in Seq(LogEntries) /\ Len(s) \in Nat /\ Len(c.got) \in Nat
  BY DEF Followers
<1>2. PICK n : n = c.next
  OBVIOUS
<1>3. n \in 1 .. Len(s) /\ s[n] \in LogEntries /\ n \notin c.missed
  BY <1>1, <1>2 DEF FollowerPlace
<1>4. PICK got : got = IF MatchesFilter(s[n], c.filter)
                         THEN Append(c.got, s[n]) ELSE c.got
  OBVIOUS
<1>5. got \in Seq(LogEntries)
  BY <1>1, <1>3, <1>4
<1>6. PICK d : d = [c EXCEPT !.next = n + 1, !.got = got]
  OBVIOUS
<1>7. /\ d \in Followers /\ d.from = c.from /\ d.next = n + 1 /\ d.got = got
      /\ d.missed = c.missed /\ d.filter = c.filter
  <2>1. n + 1 \in Nat
    BY <1>3
  <2> QED BY <1>5, <1>6, <2>1 DEF Followers
<1>8. FollowerPlace(d, s)
  <2>1. \A i \in c.missed : i < n + 1
    BY <1>1, <1>2 DEF FollowerPlace
  <2>2. 1 <= c.from /\ c.from <= n + 1 /\ n + 1 <= Len(s) + 1
    BY <1>1, <1>2, <1>3 DEF FollowerPlace
  <2> QED BY <1>7, <2>1, <2>2 DEF FollowerPlace
<1>9. PICK seen : seen = SeenBy(c, s)
  OBVIOUS
<1>10. /\ seen \subseteq Nat /\ n \notin seen /\ IsFiniteSet(seen)
       /\ \A i \in seen : i < n
  <2>1. seen \subseteq c.from .. n - 1
    BY <1>2, <1>9 DEF SeenBy
  <2>2. IsFiniteSet(c.from .. n - 1)
    <3>1. c.from \in Int /\ n - 1 \in Int
      BY <1>1, <1>2
    <3> QED BY <3>1, FS_Interval
  <2>3. IsFiniteSet(seen)
    BY <2>1, <2>2, FS_Subset
  <2> QED BY <1>1, <1>2, <2>1, <2>3
<1>11. \A i \in Int : i \in c.from .. n <=> (i \in c.from .. n - 1 \/ i = n)
  BY <1>1, <1>2 DEF FollowerPlace
<1>a. SeenBy(d, s) = {i \in c.from .. n :
                        i \notin c.missed /\ MatchesFilter(s[i], c.filter)}
  <2>1. d.next - 1 = n
    BY <1>3, <1>7
  <2> QED BY <1>7, <2>1 DEF SeenBy
<1>b. seen = {i \in c.from .. n - 1 :
                i \notin c.missed /\ MatchesFilter(s[i], c.filter)}
  BY <1>2, <1>9 DEF SeenBy
<1>12. CASE ~MatchesFilter(s[n], c.filter)
  <2>1. SeenBy(d, s) = seen
    BY <1>11, <1>12, <1>a, <1>b
  <2>2. FollowerSound(d, s)
    BY <1>4, <1>7, <1>9, <1>12, <2>1 DEF FollowerSound
  <2> QED BY <1>2, <1>4, <1>6, <1>7, <1>8, <2>2
<1>13. CASE MatchesFilter(s[n], c.filter)
  <2>1. SeenBy(d, s) = seen \cup {n}
    BY <1>3, <1>11, <1>13, <1>a, <1>b
  <2>2. Cardinality(seen \cup {n}) = Cardinality(seen) + 1
    BY <1>10, FS_AddElement
  <2>3. /\ Len(got) = Len(c.got) + 1 /\ got[Len(c.got) + 1] = s[n]
        /\ \A k \in 1 .. Len(c.got) : got[k] = c.got[k]
    BY <1>1, <1>3, <1>4, <1>13
  <2>4. Len(c.got) = Cardinality(seen)
    BY <1>9 DEF FollowerSound
  <2>5. ASSUME NEW i \in seen \cup {n}
        PROVE  got[Cardinality({j \in seen \cup {n} : j <= i})] = s[i]
    <3>1. CASE i = n
      <4>1. {j \in seen \cup {n} : j <= n} = seen \cup {n}
        <5>1. n <= n /\ \A j \in seen : j <= n
          BY <1>3, <1>10
        <5> QED BY <5>1
      <4> QED BY <2>2, <2>3, <2>4, <3>1, <4>1
    <3>2. CASE i \in seen
      <4>1. PICK below : below = {j \in seen : j <= i}
        OBVIOUS
      <4>2. {j \in seen \cup {n} : j <= i} = below
        BY <1>1, <1>2, <1>10, <3>2, <4>1
      <4>3. i \in below /\ below \subseteq seen
        BY <1>10, <3>2, <4>1
      <4>4. IsFiniteSet(below) /\ Cardinality(below) <= Cardinality(seen)
        BY <1>10, <4>3, FS_Subset
      <4>5. Cardinality(below) # 0 /\ Cardinality(below) \in Nat
        BY <4>3, <4>4, FS_EmptySet, FS_CardinalityType
      <4>6. Cardinality(below) \in 1 .. Len(c.got)
        BY <1>1, <2>4, <4>4, <4>5
      <4>7. c.got[Cardinality(below)] = s[i]
        BY <1>9, <3>2, <4>1 DEF FollowerSound
      <4> QED BY <2>3, <4>2, <4>6, <4>7
    <3> QED BY <3>1, <3>2
  <2>6. FollowerSound(d, s)
    BY <1>7, <2>1, <2>2, <2>3, <2>4, <2>5 DEF FollowerSound
  <2> QED BY <1>2, <1>4, <1>6, <1>7, <1>8, <2>6
<1> QED BY <1>12, <1>13

LEMMA LogPush ==
  ASSUME LogInv, NEW p \in Pushers, PushLogs(p) PROVE LogInv'
<1>1. LogTypeOK /\ LogKept /\ LogHeld BY DEF LogInv
<1>2. PICK k \in LogBatches : /\ lgCount[p] + k <= LogMaxEntries
                              /\ lgTodo' = [lgTodo EXCEPT ![p] = k]
  BY DEF PushLogs
<1>3. /\ UNCHANGED <<lgBuf, lgLock, lgCount, lgSent, lgHalf, lgTail>>
      /\ lgTodo[p] = 0
  BY DEF PushLogs
<1>4. k \in Nat /\ k > 0
  BY LogAssumption
<1>5. /\ lgTodo \in [Pushers -> Nat] /\ lgTodo' \in [Pushers -> Nat]
      /\ lgTodo'[p] = k /\ \A q \in Pushers \ {p} : lgTodo'[q] = lgTodo[q]
  BY <1>1, <1>2, <1>4 DEF LogTypeOK
<1>6. LogTypeOK'
  BY <1>1, <1>3, <1>5 DEF LogTypeOK
<1>7. p \notin lgLock
  BY <1>1, <1>3 DEF LogHeld
<1>8. LogHeld'
  <2> SUFFICES ASSUME NEW q \in Pushers
               PROVE  /\ q \in lgLock => lgTodo'[q] > 0
                      /\ lgCount[q] + lgTodo'[q] <=
                           IF lgHalf # {} /\ q \in lgLock
                             THEN LogMaxEntries + 1 ELSE LogMaxEntries
    BY <1>1, <1>3 DEF LogHeld
  <2>1. CASE q = p
    BY <2>1, <1>2, <1>5, <1>7
  <2>2. CASE q # p
    BY <2>2, <1>1, <1>5 DEF LogHeld
  <2> QED BY <2>1, <2>2
<1>9. LogKept'
  BY <1>1, <1>3 DEF LogKept, Stored
<1> QED BY <1>3, <1>6, <1>8, <1>9 DEF LogInv, TailSound

LEMMA LogLocked ==
  ASSUME LogInv, NEW p \in Pushers, LockBuffer(p) PROVE LogInv'
<1>1. LogTypeOK /\ LogKept /\ LogHeld BY DEF LogInv
<1>2. /\ UNCHANGED <<lgBuf, lgTodo, lgCount, lgSent, lgHalf, lgTail>>
      /\ lgTodo[p] > 0 /\ lgLock = {} /\ lgLock' = {p}
  BY DEF LockBuffer, LockFree
<1>3. lgHalf = {}
  BY <1>1, <1>2 DEF LogHeld
<1>4. LogTypeOK'
  BY <1>1, <1>2 DEF LogTypeOK
<1>5. LogHeld'
  BY <1>1, <1>2, <1>3 DEF LogHeld
<1>6. LogKept'
  BY <1>1, <1>2 DEF LogKept, Stored
<1> QED BY <1>2, <1>4, <1>5, <1>6 DEF LogInv, TailSound

LEMMA LogBroadcast ==
  ASSUME LogInv, NEW p \in Pushers, BroadcastEntry(p) PROVE LogInv'
<1>1. LogTypeOK /\ LogKept /\ LogHeld BY DEF LogInv
<1>2. PICK e : e = [by |-> p, n |-> lgCount[p] + 1]
  OBVIOUS
<1>3. /\ p \in lgLock /\ lgTodo[p] > 0 /\ lgHalf = {}
      /\ lgSent' = Append(lgSent, e) /\ lgHalf' = {e}
      /\ lgCount' = [lgCount EXCEPT ![p] = @ + 1]
      /\ UNCHANGED <<lgBuf, lgLock, lgTodo, lgTail>>
  BY <1>2 DEF BroadcastEntry
<1>4. /\ lgCount \in [Pushers -> Nat] /\ lgTodo \in [Pushers -> Nat]
      /\ lgCount[p] + lgTodo[p] <= LogMaxEntries
  BY <1>1, <1>3 DEF LogTypeOK, LogHeld
<1>5. /\ lgCount' \in [Pushers -> Nat] /\ lgCount'[p] = lgCount[p] + 1
      /\ \A q \in Pushers \ {p} : lgCount'[q] = lgCount[q]
  BY <1>3, <1>4
<1>6. e \in LogEntries
  <2>1. lgCount[p] + 1 \in 1 .. LogMaxEntries
    BY <1>3, <1>4, LogAssumption
  <2> QED BY <1>2, <2>1 DEF LogEntries
<1>7. lgSent \in Seq(LogEntries) /\ Len(lgSent) \in Nat
  BY <1>1 DEF LogTypeOK
<1>8. /\ lgSent' \in Seq(LogEntries) /\ Len(lgSent') = Len(lgSent) + 1
      /\ lgSent'[Len(lgSent) + 1] = e
      /\ \A i \in 1 .. Len(lgSent) : lgSent'[i] = lgSent[i]
  BY <1>3, <1>6, <1>7
<1>9. LogTypeOK'
  BY <1>1, <1>3, <1>5, <1>6, <1>8 DEF LogTypeOK
<1>10. LogHeld'
  <2> SUFFICES ASSUME NEW q \in Pushers
               PROVE  /\ q \in lgLock => lgTodo[q] > 0
                      /\ lgCount'[q] + lgTodo[q] <=
                           IF q \in lgLock
                             THEN LogMaxEntries + 1 ELSE LogMaxEntries
    BY <1>3 DEF LogHeld
  <2>1. CASE q = p
    BY <2>1, <1>3, <1>4, <1>5, LogAssumption
  <2>2. CASE q # p
    <3>1. lgCount[q] + lgTodo[q] <= LogMaxEntries
      BY <1>1, <1>3 DEF LogHeld
    <3>2. q \in lgLock => lgTodo[q] > 0
      BY <1>1 DEF LogHeld
    <3> QED BY <2>2, <3>1, <3>2, <1>4, <1>5, LogAssumption
  <2> QED BY <2>1, <2>2
<1>11. LogKept'
  <2>1. Stored = Len(lgSent) /\ Stored' = Len(lgSent)
    BY <1>3, <1>7, <1>8 DEF Stored
  <2>2. /\ Len(lgBuf) = IF Len(lgSent) > LogCap THEN LogCap ELSE Len(lgSent)
        /\ \A i \in 1 .. Len(lgBuf) :
             lgBuf[i] = lgSent[Len(lgSent) - Len(lgBuf) + i]
    BY <1>1, <2>1 DEF LogKept, KeepsLast
  <2>3. \A i \in 1 .. Len(lgBuf) :
          Len(lgSent) - Len(lgBuf) + i \in 1 .. Len(lgSent)
    BY <1>7, <2>2, LogAssumption
  <2>4. \A i \in 1 .. Len(lgBuf) :
          lgBuf[i] = lgSent'[Len(lgSent) - Len(lgBuf) + i]
    BY <1>8, <2>2, <2>3
  <2>5. lgSent' # <<>> /\ lgHalf' = {lgSent'[Len(lgSent')]}
    BY <1>3, <1>7, <1>8
  <2>6. lgBuf' = lgBuf
    BY <1>3
  <2> QED BY <2>1, <2>2, <2>4, <2>5, <2>6 DEF LogKept, KeepsLast
<1>12. ASSUME NEW t \in Tails
       PROVE  /\ FollowerSound(lgTail'[t], lgSent')
              /\ FollowerPlace(lgTail'[t], lgSent')
  BY <1>1, <1>3, <1>6, <1>7, FollowerStays DEF LogInv, LogTypeOK, TailSound
<1> QED BY <1>9, <1>10, <1>11, <1>12 DEF LogInv, TailSound

LEMMA AppendFacts ==
  ASSUME NEW S, NEW buf \in Seq(S), NEW e \in S
  PROVE  /\ Append(buf, e) \in Seq(S) /\ Append(buf, e) # <<>>
         /\ Len(Append(buf, e)) = Len(buf) + 1
         /\ \A i \in 1 .. Len(buf) : Append(buf, e)[i] = buf[i]
         /\ Append(buf, e)[Len(buf) + 1] = e
BY AppendProperties

\* push_back, then pop_front over the capacity.
Pushed(buf, e) ==
  LET all == Append(buf, e)
  IN  IF Len(all) > LogCap THEN Tail(all) ELSE all

\* Pushing an entry on a buffer of the last LogCap entries keeps the last
\* LogCap.
LEMMA RingKeeps ==
  ASSUME NEW buf \in Seq(LogEntries), NEW sent \in Seq(LogEntries),
         sent # <<>>, KeepsLast(buf, sent, Len(sent) - 1)
  PROVE  /\ Pushed(buf, sent[Len(sent)]) \in Seq(LogEntries)
         /\ KeepsLast(Pushed(buf, sent[Len(sent)]), sent, Len(sent))
<1>a. PICK n, b, all, new :
        /\ n = Len(sent) /\ b = Len(buf) /\ all = Append(buf, sent[Len(sent)])
        /\ new = Pushed(buf, sent[Len(sent)])
  OBVIOUS
<1>b. n \in Nat \ {0} /\ b \in Nat /\ LogCap \in Nat
  BY <1>a, LogAssumption
<1>c. /\ b = IF n - 1 > LogCap THEN LogCap ELSE n - 1
      /\ \A i \in 1 .. b : buf[i] = sent[n - 1 - b + i]
  BY <1>a DEF KeepsLast
<1>d. new = IF Len(all) > LogCap THEN Tail(all) ELSE all
  BY <1>a DEF Pushed
<1>1. PICK e \in LogEntries : e = sent[n]
  BY <1>a, <1>b
<1>2. /\ all \in Seq(LogEntries) /\ Len(all) = b + 1 /\ all[b + 1] = e
      /\ all # <<>> /\ \A i \in 1 .. b : all[i] = buf[i]
  <2>1. all = Append(buf, e) /\ b = Len(buf)
    BY <1>1, <1>a
  <2>2. /\ Append(buf, e) \in Seq(LogEntries) /\ Append(buf, e) # <<>>
        /\ Len(Append(buf, e)) = Len(buf) + 1
        /\ \A i \in 1 .. Len(buf) : Append(buf, e)[i] = buf[i]
        /\ Append(buf, e)[Len(buf) + 1] = e
    <3>1. e \in LogEntries /\ buf \in Seq(LogEntries)
      BY <1>1
    <3> QED BY <3>1, AppendFacts, Zenon
  <2> QED BY <2>1, <2>2
<1>3. ASSUME NEW i \in 1 .. b + 1 PROVE all[i] = sent[n - 1 - b + i]
  <2>1. CASE i = b + 1
    <3>1. n - 1 - b + i = n
      BY <1>b, <2>1
    <3> QED BY <1>1, <1>2, <2>1, <3>1
  <2>2. CASE i # b + 1
    <3>1. i \in 1 .. b
      BY <1>b, <2>2
    <3> QED BY <1>2, <1>c, <3>1
  <2> QED BY <2>1, <2>2
<1>4. CASE b + 1 > LogCap
  <2>1. new = Tail(all) /\ b = LogCap /\ n > LogCap
    BY <1>2, <1>4, <1>b, <1>c, <1>d
  <2>2. /\ new \in Seq(LogEntries) /\ Len(new) = b
        /\ \A i \in 1 .. Len(new) : new[i] = all[i + 1]
    <3>1. /\ Tail(all) \in Seq(LogEntries) /\ Len(Tail(all)) = Len(all) - 1
          /\ \A i \in 1 .. Len(Tail(all)) : Tail(all)[i] = all[i + 1]
      BY <1>2, HeadTailProperties
    <3>2. Len(all) - 1 = b
      BY <1>2, <1>b
    <3> QED BY <2>1, <3>1, <3>2
  <2>3. ASSUME NEW i \in 1 .. b PROVE new[i] = sent[n - b + i]
    <3>1. i + 1 \in 1 .. b + 1
      BY <1>b
    <3>2. n - 1 - b + (i + 1) = n - b + i
      BY <1>b
    <3>3. all[i + 1] = sent[n - 1 - b + (i + 1)]
      BY <3>1, <1>3
    <3> QED BY <2>2, <3>2, <3>3
  <2>4. /\ Len(new) = IF n > LogCap THEN LogCap ELSE n
        /\ \A i \in 1 .. Len(new) : new[i] = sent[n - Len(new) + i]
    BY <2>1, <2>2, <2>3
  <2> QED BY <1>a, <2>2, <2>4 DEF KeepsLast
<1>5. CASE ~(b + 1 > LogCap)
  <2>1. new = all /\ b = n - 1 /\ ~(n > LogCap) /\ Len(new) = n
    BY <1>2, <1>5, <1>b, <1>c, <1>d
  <2>2. ASSUME NEW i \in 1 .. n PROVE new[i] = sent[n - n + i]
    <3>1. n - 1 - b + i = n - n + i /\ i \in 1 .. b + 1
      BY <1>b, <2>1
    <3>2. all[i] = sent[n - 1 - b + i]
      BY <3>1, <1>3
    <3> QED BY <2>1, <3>1, <3>2
  <2>3. \A i \in 1 .. Len(new) : new[i] = sent[n - Len(new) + i]
    BY <2>1, <2>2
  <2> QED BY <1>2, <1>a, <2>1, <2>3 DEF KeepsLast
<1> QED BY <1>4, <1>5

LEMMA LogEntryStored ==
  ASSUME LogInv, NEW p \in Pushers, StoreEntry(p) PROVE LogInv'
<1>1. LogTypeOK /\ LogKept /\ LogHeld BY DEF LogInv
<1>2. PICK e \in lgHalf : lgBuf' = Pushed(lgBuf, e)
  BY DEF StoreEntry, Pushed
<1>3. /\ p \in lgLock /\ lgHalf' = {}
      /\ lgTodo' = [lgTodo EXCEPT ![p] = @ - 1]
      /\ lgLock' = IF lgTodo[p] = 1 THEN {} ELSE lgLock
      /\ UNCHANGED <<lgCount, lgSent, lgTail>>
  BY DEF StoreEntry
<1>4. /\ lgSent \in Seq(LogEntries) /\ lgSent # <<>> /\ lgBuf \in Seq(LogEntries)
      /\ e = lgSent[Len(lgSent)] /\ Stored = Len(lgSent) - 1
  BY <1>1 DEF LogTypeOK, LogKept, Stored
<1>5. lgBuf' \in Seq(LogEntries) /\ KeepsLast(lgBuf', lgSent, Len(lgSent))
  BY <1>1, <1>2, <1>4, RingKeeps DEF LogKept
<1>6. /\ lgTodo \in [Pushers -> Nat] /\ lgCount \in [Pushers -> Nat]
      /\ lgTodo[p] > 0 /\ lgCount[p] + lgTodo[p] <= LogMaxEntries + 1
      /\ lgLock = {p}
  BY <1>1, <1>2, <1>3 DEF LogTypeOK, LogHeld
<1>7. /\ lgTodo' \in [Pushers -> Nat] /\ lgTodo'[p] = lgTodo[p] - 1
      /\ \A q \in Pushers \ {p} : lgTodo'[q] = lgTodo[q]
  BY <1>3, <1>6
<1>8. LogTypeOK'
  <2>1. Len(lgBuf') <= LogCap + 1
    BY <1>4, <1>5, LogAssumption DEF KeepsLast
  <2>2. lgLock' \in {{}} \cup {{q} : q \in Pushers}
    BY <1>1, <1>3 DEF LogTypeOK
  <2> QED BY <1>1, <1>3, <1>5, <1>7, <2>1, <2>2 DEF LogTypeOK
<1>9. LogHeld'
  <2> SUFFICES ASSUME NEW q \in Pushers
               PROVE  /\ q \in lgLock' => lgTodo'[q] > 0
                      /\ lgCount[q] + lgTodo'[q] <= LogMaxEntries
    BY <1>3 DEF LogHeld
  <2>1. CASE q = p
    BY <2>1, <1>3, <1>6, <1>7, LogAssumption
  <2>2. CASE q # p
    <3>1. q \notin lgLock' /\ q \notin lgLock
      BY <2>2, <1>3, <1>6
    <3>2. lgCount[q] + lgTodo[q] <= LogMaxEntries
      BY <3>1, <1>1 DEF LogHeld
    <3> QED BY <2>2, <3>1, <3>2, <1>7
  <2> QED BY <2>1, <2>2
<1>10. LogKept'
  BY <1>3, <1>5 DEF LogKept, Stored
<1> QED BY <1>3, <1>8, <1>9, <1>10 DEF LogInv, TailSound

\* A step of a follower alone.
LEMMA FollowerStep ==
  ASSUME LogInv, NEW t \in Tails, NEW d \in Followers,
         FollowerSound(d, lgSent), FollowerPlace(d, lgSent),
         lgTail' = [lgTail EXCEPT ![t] = d],
         UNCHANGED <<lgBuf, lgLock, lgTodo, lgCount, lgSent, lgHalf>>
  PROVE  LogInv'
<1>1. LogTypeOK /\ LogKept /\ LogHeld BY DEF LogInv
<1>2. /\ lgTail' \in [Tails -> Followers] /\ lgTail'[t] = d
      /\ \A u \in Tails \ {t} : lgTail'[u] = lgTail[u]
  BY <1>1 DEF LogTypeOK
<1>3. LogTypeOK'
  BY <1>1, <1>2 DEF LogTypeOK
<1>4. LogKept' /\ LogHeld'
  BY <1>1 DEF LogKept, LogHeld, Stored
<1>5. ASSUME NEW u \in Tails
      PROVE  /\ FollowerSound(lgTail'[u], lgSent')
             /\ FollowerPlace(lgTail'[u], lgSent')
  BY <1>2 DEF LogInv, TailSound
<1> QED BY <1>3, <1>4, <1>5 DEF LogInv, TailSound

LEMMA LogFollow ==
  ASSUME LogInv, NEW t \in Tails, NEW f \in LogFilters, TailLogs(t, f)
  PROVE  LogInv'
<1>1. PICK n : n = Len(lgSent) + 1
  OBVIOUS
<1>2. n \in Nat /\ n >= 1 /\ Len(lgSent) \in Nat
  BY <1>1 DEF LogInv, LogTypeOK
<1>3. PICK d : d = [NoTail EXCEPT !.on = TRUE, !.from = n, !.next = n,
                                  !.filter = f]
  OBVIOUS
<1>4. /\ d \in Followers /\ d.from = n /\ d.next = n /\ d.got = <<>>
      /\ d.missed = {}
  <2>1. NoTail \in Followers /\ NoTail.got = <<>> /\ NoTail.missed = {}
    BY DEF NoTail, Followers, LogFilters
  <2> QED BY <1>2, <1>3, <2>1 DEF Followers
<1>5. SeenBy(d, lgSent) = {}
  <2>1. d.from .. d.next - 1 = {}
    BY <1>2, <1>4
  <2> QED BY <2>1 DEF SeenBy
<1>6. FollowerSound(d, lgSent)
  BY <1>4, <1>5, FS_EmptySet DEF FollowerSound
<1>7. FollowerPlace(d, lgSent)
  BY <1>1, <1>2, <1>4 DEF FollowerPlace
<1>8. /\ lgTail' = [lgTail EXCEPT ![t] = d]
      /\ UNCHANGED <<lgBuf, lgLock, lgTodo, lgCount, lgSent, lgHalf>>
  BY <1>1, <1>3 DEF TailLogs
<1> QED BY <1>4, <1>6, <1>7, <1>8, FollowerStep

LEMMA LogReceive ==
  ASSUME LogInv, NEW t \in Tails, TailReceives(t) PROVE LogInv'
<1>1. PICK c : c = lgTail[t]
  OBVIOUS
<1>2. /\ c \in Followers /\ lgSent \in Seq(LogEntries) /\ Len(lgSent) \in Nat
      /\ FollowerSound(c, lgSent) /\ FollowerPlace(c, lgSent)
      /\ lgTail \in [Tails -> Followers]
  BY <1>1 DEF LogInv, LogTypeOK, TailSound
<1>3. /\ c.next <= Len(lgSent)
      /\ UNCHANGED <<lgBuf, lgLock, lgTodo, lgCount, lgSent, lgHalf>>
  BY <1>1 DEF TailReceives
<1>4. CASE c.next < OldestKept
  <2>1. PICK to : to = OldestKept
    OBVIOUS
  <2>2. to \in Nat /\ c.next < to /\ to + LogRing <= Len(lgSent) + 1
    <3>1. c.next \in Nat /\ c.next >= 1
      BY <1>2 DEF Followers, FollowerPlace
    <3> QED BY <1>2, <1>4, <2>1, <3>1, LogAssumption DEF OldestKept
  <2>3. PICK d : d = [c EXCEPT !.next = to,
                               !.missed = c.missed \cup (c.next .. to - 1)]
    OBVIOUS
  <2>4. d \in Followers /\ FollowerSound(d, lgSent) /\ FollowerPlace(d, lgSent)
    BY <1>2, <2>2, <2>3, FollowerLags
  <2>5. lgTail' = [lgTail EXCEPT ![t].next = to,
                     ![t].missed = @ \cup (c.next .. to - 1)]
    BY <1>1, <1>4, <2>1 DEF TailReceives
  <2>6. lgTail' = [lgTail EXCEPT ![t] = d]
    BY <1>1, <1>2, <2>3, <2>5 DEF Followers
  <2> QED BY <1>3, <2>4, <2>6, FollowerStep
<1>5. CASE ~(c.next < OldestKept)
  <2>1. PICK got : got = IF MatchesFilter(lgSent[c.next], c.filter)
                           THEN Append(c.got, lgSent[c.next]) ELSE c.got
    OBVIOUS
  <2>2. PICK d : d = [c EXCEPT !.next = c.next + 1, !.got = got]
    OBVIOUS
  <2>3. d \in Followers /\ FollowerSound(d, lgSent) /\ FollowerPlace(d, lgSent)
    BY <1>2, <1>3, <2>1, <2>2, FollowerReads
  <2>4. lgTail' = [lgTail EXCEPT ![t].next = @ + 1, ![t].got = got]
    BY <1>1, <1>2, <1>5, <2>1 DEF TailReceives, Followers
  <2>5. lgTail' = [lgTail EXCEPT ![t] = d]
    BY <1>1, <1>2, <2>2, <2>4 DEF Followers
  <2> QED BY <1>3, <2>3, <2>5, FollowerStep
<1> QED BY <1>4, <1>5

\* The invariant of the log: the buffer holds the last entries stored, only
\* the holder of the lock has one on its way, and followers are sound.
THEOREM LogInvariance == LogSpec => []LogInv
<1>1. LogInit => LogInv
  BY LogStart
<1>2. LogInv /\ [LogNext]_lgVars => LogInv'
  <2> SUFFICES ASSUME LogInv, [LogNext]_lgVars PROVE LogInv'
    OBVIOUS
  <2>1. CASE UNCHANGED lgVars
    BY <2>1
    DEF lgVars, LogInv, LogTypeOK, LogKept, LogHeld, Stored, TailSound
  <2>2. CASE LogNext
    BY <2>2, LogPush, LogLocked, LogBroadcast, LogEntryStored, LogReceive, LogFollow
    DEF LogNext
  <2> QED BY <2>1, <2>2
<1> QED BY <1>1, <1>2, PTL DEF LogSpec

\* Two of the three parts of LogSound, for any number of streams and clients
\* and any capacities: the buffer holds the most recent entries in the order
\* they were broadcast, and a follower gets every matching entry once, in
\* order, but for the ones its own lag cost it.
THEOREM LogDelivered == LogSpec => [](BufferIsRecent /\ TailSound)
<1>1. LogInv => BufferIsRecent
  <2> SUFFICES ASSUME LogInv, lgLock = {}
               PROVE  LET n == Len(lgSent)
                      IN  lgBuf = SubSeq(lgSent,
                                    IF n > LogCap THEN n - LogCap + 1 ELSE 1, n)
    BY DEF BufferIsRecent
  <2>1. /\ lgSent \in Seq(LogEntries) /\ lgBuf \in Seq(LogEntries)
        /\ Stored = Len(lgSent) /\ LogCap \in Nat
    BY LogAssumption DEF LogInv, LogTypeOK, LogHeld, Stored
  <2>2. PICK n, m : /\ n = Len(lgSent)
                    /\ m = IF Len(lgSent) > LogCap
                             THEN Len(lgSent) - LogCap + 1 ELSE 1
    OBVIOUS
  <2>3. n \in Nat /\ m \in Nat /\ m >= 1 /\ m <= n + 1
    BY <2>1, <2>2
  <2>4. /\ Len(lgBuf) = IF n > LogCap THEN LogCap ELSE n
        /\ \A i \in 1 .. Len(lgBuf) : lgBuf[i] = lgSent[n - Len(lgBuf) + i]
    BY <2>1, <2>2 DEF LogInv, LogKept, KeepsLast
  <2>5. \A i \in m .. n : lgSent[i] \in LogEntries
    BY <2>1, <2>2, <2>3
  <2>6. PICK sub : sub = SubSeq(lgSent, m, n)
    OBVIOUS
  <2>7. /\ sub \in Seq(LogEntries)
        /\ Len(sub) = IF m <= n THEN n - m + 1 ELSE 0
        /\ \A i \in 1 .. n - m + 1 : sub[i] = lgSent[m + i - 1]
    BY <2>3, <2>5, <2>6, SubSeqProperties
  <2>8. Len(sub) = Len(lgBuf) /\ n - m + 1 = Len(lgBuf)
    <3>1. CASE n > LogCap
      <4>1. m = n - LogCap + 1 /\ Len(lgBuf) = LogCap
        BY <2>2, <2>4, <3>1
      <4> QED BY <2>1, <2>3, <2>7, <3>1, <4>1
    <3>2. CASE ~(n > LogCap)
      <4>1. m = 1 /\ Len(lgBuf) = n
        BY <2>2, <2>4, <3>2
      <4> QED BY <2>1, <2>3, <2>7, <4>1
    <3> QED BY <3>1, <3>2
  <2>9. ASSUME NEW i \in 1 .. Len(lgBuf) PROVE lgBuf[i] = sub[i]
    <3>1. m + i - 1 = n - Len(lgBuf) + i
      BY <2>1, <2>3, <2>8
    <3> QED BY <3>1, <2>4, <2>7, <2>8
  <2>10. lgBuf = sub
    BY <2>1, <2>7, <2>8, <2>9, SeqEqual
  <2> QED BY <2>2, <2>6, <2>10
<1>2. LogInv => TailSound
  BY DEF LogInv
<1> QED BY <1>1, <1>2, LogInvariance, PTL

-----------------------------------------------------------------------------
(* The pages of the log *)

\* Every set of numbers has a least element.
LEMMA LeastOf ==
  ASSUME NEW T, T \subseteq Nat, T # {}
  PROVE  \E x \in T : \A y \in T : ~(y < x)
<1>1. PICK x \in T : \A y \in T : ~(<<y, x>> \in OpToRel(<, Nat))
  BY WFMin, NatLessThanWellFounded
<1>2. ASSUME NEW y \in T PROVE ~(y < x)
  <2>1. y \in Nat /\ x \in Nat
    OBVIOUS
  <2>2. SUFFICES ASSUME y < x PROVE <<y, x>> \in OpToRel(<, Nat)
    BY <1>1
  <2> QED BY <2>1, <2>2 DEF OpToRel
<1> QED BY <1>2

\* Induction over a set of numbers instead of a predicate.
LEMMA FirstMiss ==
  ASSUME NEW T, T \subseteq Nat, 0 \in T,
         \A n \in Nat : n \in T => n + 1 \in T
  PROVE  T = Nat
<1>1. SUFFICES ASSUME Nat \ T # {} PROVE FALSE
  OBVIOUS
<1>2. PICK x \in Nat \ T : \A y \in Nat \ T : ~(y < x)
  BY <1>1, LeastOf
<1>3. x # 0 /\ x - 1 \in Nat
  OBVIOUS
<1>4. x - 1 \notin Nat \ T
  BY <1>2, <1>3
<1>5. (x - 1) + 1 = x
  BY <1>2, <1>3
<1> QED BY <1>3, <1>4, <1>5

\* Rounding up: p pages of z are enough for n entries, and p - 1 are not.
LEMMA Rounds ==
  ASSUME NEW n \in Nat, NEW z \in Nat \ {0}
  PROVE  LET p == (n + z - 1) \div z
         IN  /\ p \in Nat /\ n <= p * z
             /\ (p = 0 <=> n = 0)
             /\ p > 0 => (p - 1) * z < n
OBVIOUS

LEMMA Times ==
  ASSUME NEW i \in Nat, NEW p \in Nat, NEW z \in Nat, i <= p
  PROVE  i * z <= p * z
OBVIOUS


\* The equation a function on prefixes of buf satisfies when it is the filter.
FiltersTo(k, buf, f, m) ==
  k = [n \in 0 .. m |->
         IF n = 0 THEN <<>>
           ELSE IF MatchesFilter(buf[n], f) THEN Append(k[n - 1], buf[n])
                  ELSE k[n - 1]]

\* A function that satisfies it exists for every prefix: extend the one for
\* the prefix before it.
LEMMA FilterExists ==
  ASSUME NEW buf \in Seq(LogEntries), NEW f
  PROVE  \A m \in Nat : m <= Len(buf) =>
           \E k \in [0 .. m -> Seq(LogEntries)] : FiltersTo(k, buf, f, m)
<1> DEFINE Good(m) == m <= Len(buf) =>
             \E k \in [0 .. m -> Seq(LogEntries)] : FiltersTo(k, buf, f, m)
<1> DEFINE T == {m \in Nat : Good(m)}
<1>1. Good(0)
  <2>1. PICK k : k = [n \in 0 .. 0 |-> <<>>]
    OBVIOUS
  <2>2. k \in [0 .. 0 -> Seq(LogEntries)]
    BY <2>1
  <2>3. FiltersTo(k, buf, f, 0)
    BY <2>1 DEF FiltersTo
  <2> QED BY <2>2, <2>3
<1>2. ASSUME NEW m \in Nat, Good(m) PROVE Good(m + 1)
  <2>1. SUFFICES ASSUME m + 1 <= Len(buf)
                 PROVE  \E k \in [0 .. m + 1 -> Seq(LogEntries)] :
                          FiltersTo(k, buf, f, m + 1)
    OBVIOUS
  <2>2. m <= Len(buf) /\ m + 1 \in 1 .. Len(buf)
    BY <2>1
  <2>3. PICK k \in [0 .. m -> Seq(LogEntries)] : FiltersTo(k, buf, f, m)
    BY <1>2, <2>2
  <2>4. PICK e : e = IF MatchesFilter(buf[m + 1], f)
                       THEN Append(k[m], buf[m + 1]) ELSE k[m]
    OBVIOUS
  <2>5. buf[m + 1] \in LogEntries /\ k[m] \in Seq(LogEntries)
    BY <2>2, <2>3
  <2>6. e \in Seq(LogEntries)
    BY <2>4, <2>5
  <2>7. PICK h : h = [n \in 0 .. m + 1 |-> IF n = m + 1 THEN e ELSE k[n]]
    OBVIOUS
  <2>8. h \in [0 .. m + 1 -> Seq(LogEntries)]
    BY <2>3, <2>6, <2>7
  <2>9. ASSUME NEW n \in 0 .. m + 1
        PROVE  h[n] = IF n = 0 THEN <<>>
                        ELSE IF MatchesFilter(buf[n], f)
                               THEN Append(h[n - 1], buf[n]) ELSE h[n - 1]
    <3>1. CASE n = m + 1
      <4>1. h[n] = e /\ n # 0 /\ n - 1 = m /\ h[m] = k[m]
        BY <2>7, <3>1
      <4> QED BY <4>1, <2>4, <3>1
    <3>2. CASE n # m + 1
      <4>1. n \in 0 .. m /\ h[n] = k[n]
        BY <2>7, <3>2
      <4>2. CASE n = 0
        BY <4>1, <4>2, <2>3 DEF FiltersTo
      <4>3. CASE n # 0
        <5>1. n - 1 \in 0 .. m /\ h[n - 1] = k[n - 1]
          BY <4>1, <4>3, <2>7
        <5> QED BY <4>1, <4>3, <5>1, <2>3 DEF FiltersTo
      <4> QED BY <4>2, <4>3
    <3> QED BY <3>1, <3>2
  <2>10. FiltersTo(h, buf, f, m + 1)
    <3>1. h = [n \in 0 .. m + 1 |-> h[n]]
      BY <2>8
    <3> QED BY <3>1, <2>9 DEF FiltersTo
  <2> QED BY <2>8, <2>10
<1> HIDE DEF Good
<1>3. T \subseteq Nat /\ 0 \in T /\ \A m \in Nat : m \in T => m + 1 \in T
  BY <1>1, <1>2
<1>4. T = Nat
  <2> HIDE DEF T
  <2> QED BY <1>3, FirstMiss
<1>5. \A m \in Nat : Good(m)
  BY <1>4
<1> QED BY <1>5 DEF Good

\* So the function chosen by Matching satisfies it.
LEMMA MatchingSolved ==
  ASSUME NEW buf \in Seq(LogEntries), NEW f
  PROVE  \E k : FiltersTo(k, buf, f, Len(buf)) /\ Matching(buf, f) = k[Len(buf)]
<1>1. Len(buf) \in Nat
  OBVIOUS
<1>2. \E k : FiltersTo(k, buf, f, Len(buf))
  BY <1>1, FilterExists
<1>3. PICK k : k = CHOOSE h : FiltersTo(h, buf, f, Len(buf))
  OBVIOUS
<1>4. FiltersTo(k, buf, f, Len(buf))
  BY <1>2, <1>3
<1>5. Matching(buf, f) = k[Len(buf)]
  BY <1>3 DEF Matching, FiltersTo
<1> QED BY <1>4, <1>5

\* A query gives entries of the log.
LEMMA MatchingType ==
  ASSUME NEW buf \in Seq(LogEntries), NEW f
  PROVE  Matching(buf, f) \in Seq(LogEntries)
<1>1. PICK k : FiltersTo(k, buf, f, Len(buf)) /\ Matching(buf, f) = k[Len(buf)]
  BY MatchingSolved
<1> DEFINE T == {m \in Nat : m <= Len(buf) => k[m] \in Seq(LogEntries)}
<1>2. 0 \in T
  <2>1. 0 \in 0 .. Len(buf)
    OBVIOUS
  <2>2. k[0] = <<>>
    BY <1>1, <2>1 DEF FiltersTo
  <2>3. k[0] \in Seq(LogEntries) /\ 0 \in Nat
    BY <2>2
  <2> QED BY <2>3
<1>3. ASSUME NEW m \in Nat, m \in T PROVE m + 1 \in T
  <2>1. SUFFICES ASSUME m + 1 <= Len(buf) PROVE k[m + 1] \in Seq(LogEntries)
    OBVIOUS
  <2>0. m <= Len(buf)
    BY <2>1
  <2>2. /\ m + 1 \in 0 .. Len(buf) /\ m + 1 # 0 /\ (m + 1) - 1 = m
        /\ buf[m + 1] \in LogEntries
    BY <2>1
  <2>3. k[m + 1] = IF MatchesFilter(buf[m + 1], f)
                     THEN Append(k[m], buf[m + 1]) ELSE k[m]
    BY <1>1, <2>2 DEF FiltersTo
  <2>4. k[m] \in Seq(LogEntries)
    BY <1>3, <2>0
  <2> QED BY <2>2, <2>3, <2>4
<1>4. T \subseteq Nat
  OBVIOUS
<1> HIDE DEF T
<1>5. T = Nat
  BY <1>2, <1>3, <1>4, FirstMiss
<1> QED BY <1>1, <1>5 DEF T

\* The equation of the running concatenation of ss.
JoinsUp(g, ss) ==
  g = [i \in 1 .. Len(ss) |-> IF i = 1 THEN ss[i] ELSE g[i - 1] \o ss[i]]

\* FlattenSeq is the last value of any function that satisfies it: two such
\* functions agree everywhere.
LEMMA FlattenSolved ==
  ASSUME NEW ss, Len(ss) \in Nat \ {0}, NEW g, JoinsUp(g, ss)
  PROVE  FlattenSeq(ss) = g[Len(ss)]
<1>1. PICK h : h = CHOOSE k : JoinsUp(k, ss)
  OBVIOUS
<1>2. JoinsUp(h, ss)
  BY <1>1
<1>3. FlattenSeq(ss) = h[Len(ss)]
  BY <1>1 DEF FlattenSeq, JoinsUp
<1>4. \A i \in 1 .. Len(ss) : /\ h[i] = IF i = 1 THEN ss[i] ELSE h[i - 1] \o ss[i]
                              /\ g[i] = IF i = 1 THEN ss[i] ELSE g[i - 1] \o ss[i]
  BY <1>2 DEF JoinsUp
<1> DEFINE T == {m \in Nat : m + 1 <= Len(ss) => h[m + 1] = g[m + 1]}
<1>5. 0 \in T
  <2>1. 1 \in 1 .. Len(ss) /\ 0 + 1 = 1
    OBVIOUS
  <2>2. h[1] = g[1]
    BY <1>4, <2>1
  <2> QED BY <2>1, <2>2
<1>6. ASSUME NEW m \in Nat, m \in T PROVE m + 1 \in T
  <2>1. SUFFICES ASSUME (m + 1) + 1 <= Len(ss)
                 PROVE  h[(m + 1) + 1] = g[(m + 1) + 1]
    OBVIOUS
  <2>2. PICK i : i = (m + 1) + 1
    OBVIOUS
  <2>3. i \in 1 .. Len(ss) /\ i # 1 /\ i - 1 = m + 1 /\ m + 1 <= Len(ss)
    BY <2>1, <2>2
  <2>4. h[m + 1] = g[m + 1]
    BY <1>6, <2>3
  <2>5. h[i] = g[i]
    BY <1>4, <2>3, <2>4
  <2> QED BY <2>2, <2>5
<1>7. T \subseteq Nat
  OBVIOUS
<1>8. T = Nat
  <2> HIDE DEF T
  <2> QED BY <1>5, <1>6, <1>7, FirstMiss
<1>9. Len(ss) - 1 \in Nat /\ (Len(ss) - 1) + 1 = Len(ss)
  OBVIOUS
<1>10. h[Len(ss)] = g[Len(ss)]
  <2>1. PICK m \in Nat : m = Len(ss) - 1
    BY <1>9
  <2>2. m \in T
    BY <1>8
  <2>3. m + 1 <= Len(ss) => h[m + 1] = g[m + 1]
    BY <2>2
  <2>4. m + 1 = Len(ss)
    BY <2>1
  <2> QED BY <2>3, <2>4
<1> QED BY <1>3, <1>10

LEMMA FcnIsSeq ==
  ASSUME NEW S, NEW n \in Nat, NEW s \in [1 .. n -> S]
  PROVE  s \in Seq(S)
OBVIOUS

\* The pages of size z of a sequence are pieces of it that follow each other.
LEMMA PagesJoin ==
  ASSUME NEW S, NEW all \in Seq(S), NEW z \in Nat \ {0}, NEW ss, NEW p,
         p = (Len(all) + z - 1) \div z,
         ss = [k \in 1 .. p |->
                 SubSeq(all, (k - 1) * z + 1,
                        IF (k - 1) * z + z < Len(all) THEN (k - 1) * z + z
                          ELSE Len(all))]
  PROVE  FlattenSeq(ss) = all
<1>1. PICK n : n = Len(all)
  OBVIOUS
<1>2. n \in Nat
  BY <1>1
<1>3. /\ p \in Nat /\ n <= p * z
      /\ (p = 0 <=> n = 0)
      /\ p > 0 => (p - 1) * z < n
  BY <1>1, <1>2, Rounds
<1>4. Len(ss) = p
  BY <1>3
<1>5. CASE p = 0
  <2>1. all = <<>>
    BY <1>1, <1>3, <1>5
  <2>2. ss \in Seq(Seq(S))
    <3>1. 1 .. p = {}
      BY <1>5
    <3>2. ss \in [1 .. p -> Seq(S)]
      BY <3>1
    <3>3. p \in Nat
      BY <1>3
    <3> QED BY <3>2, <3>3, FcnIsSeq, Zenon
  <2>3. ss = <<>>
    BY <1>4, <1>5, <2>2, EmptySeq, Zenon
  <2> QED BY <2>1, <2>3 DEF FlattenSeq
<1>6. CASE p # 0
  <2> DEFINE upto(i) == IF i * z < n THEN i * z ELSE n
  <2>1. PICK g : g = [i \in 1 .. p |-> SubSeq(all, 1, upto(i))]
    OBVIOUS
  <2>2. ASSUME NEW i \in 1 .. p
        PROVE  /\ (i - 1) * z < n /\ (i - 1) * z \in Nat
               /\ (i - 1) * z + z = i * z /\ i * z \in Nat
    <3>1. i - 1 \in Nat /\ p - 1 \in Nat /\ i - 1 <= p - 1 /\ z \in Nat
      BY <1>3
    <3>2. (i - 1) * z <= (p - 1) * z
      BY <3>1, Times
    <3>3. (i - 1) * z \in Nat /\ (p - 1) * z \in Nat /\ i * z \in Nat
      BY <1>3, <3>1
    <3>4. (i - 1) * z + z = i * z
      BY <3>1
    <3> QED BY <3>2, <3>3, <3>4, <1>2, <1>3, <1>6
  <2>3. ASSUME NEW i \in 1 .. p
        PROVE  g[i] = IF i = 1 THEN ss[i] ELSE g[i - 1] \o ss[i]
    <3>1. PICK a, b : a = (i - 1) * z /\ b = upto(i)
      OBVIOUS
    <3>2. a \in Nat /\ a < n /\ b \in Nat /\ a <= b /\ b <= n
      BY <2>2, <3>1, <1>2
    <3>3. ss[i] = SubSeq(all, a + 1, b)
      BY <2>2, <3>1, <1>1
    <3>4. g[i] = SubSeq(all, 1, b)
      BY <2>1, <3>1
    <3>5. CASE i = 1
      <4>1. a = 0 /\ a + 1 = 1
        BY <3>1, <3>5
      <4> QED BY <3>3, <3>4, <3>5, <4>1
    <3>6. CASE i # 1
      <4>1. i - 1 \in 1 .. p /\ upto(i - 1) = a
        BY <2>2, <3>1, <3>2, <3>6, <1>3
      <4>2. g[i - 1] = SubSeq(all, 1, a)
        BY <2>1, <4>1
      <4>3. /\ 1 \in 1 .. Len(all) + 1 /\ a \in 1 - 1 .. Len(all)
            /\ b \in a .. Len(all)
        BY <1>1, <1>2, <3>2
      <4>4. SubSeq(all, 1, a) \o SubSeq(all, a + 1, b) = SubSeq(all, 1, b)
        BY <4>3, ConcatAdjacentSubSeq
      <4> QED BY <3>3, <3>4, <3>6, <4>2, <4>4
    <3> QED BY <3>5, <3>6
  <2>4. JoinsUp(g, ss)
    <3>1. g = [i \in 1 .. p |-> g[i]]
      BY <2>1
    <3>2. [i \in 1 .. p |-> g[i]]
            = [i \in 1 .. p |-> IF i = 1 THEN ss[i] ELSE g[i - 1] \o ss[i]]
      BY <2>3
    <3> QED BY <3>1, <3>2, <1>4 DEF JoinsUp
  <2>5. FlattenSeq(ss) = g[p]
    BY <1>3, <1>4, <1>6, <2>4, FlattenSolved
  <2>6. upto(p) = n /\ p \in 1 .. p
    BY <1>2, <1>3, <1>6
  <2>7. g[p] = SubSeq(all, 1, Len(all))
    BY <2>1, <2>6, <1>1
  <2> QED BY <2>5, <2>7, SubSeqFull
<1> QED BY <1>5, <1>6

\* For any buffer, filter and page size: no entry of a query is on two pages or
\* on none, and their order is the query's (list_logs, with total_pages).
LEMMA LogPagesPartition == LogTypeOK => PagesPartition
<1> SUFFICES ASSUME LogTypeOK, NEW f \in LogFilters, NEW asked \in 0 .. LogCap
             PROVE  FlattenSeq([k \in 1 .. TotalPages(f, asked) |->
                                  ListLogs(f, k, asked)]) = QueryLogs(f)
  BY DEF PagesPartition
<1>1. PICK all, z, p : /\ all = QueryLogs(f) /\ z = PageSize(asked)
                       /\ p = TotalPages(f, asked)
  OBVIOUS
<1>2. all \in Seq(LogEntries)
  BY <1>1, MatchingType DEF QueryLogs, LogTypeOK
<1>3. z \in Nat \ {0}
  BY <1>1, LogAssumption DEF PageSize
<1>4. p = (Len(all) + z - 1) \div z
  BY <1>1 DEF TotalPages
<1>5. ASSUME NEW k \in 1 .. p
      PROVE  ListLogs(f, k, asked)
               = SubSeq(all, (k - 1) * z + 1,
                        IF (k - 1) * z + z < Len(all) THEN (k - 1) * z + z
                          ELSE Len(all))
  <2>1. k # 0
    OBVIOUS
  <2>2. Offset(k, asked) = (k - 1) * z
    BY <1>1, <2>1 DEF Offset
  <2> QED BY <1>1, <2>2 DEF ListLogs
<1>6. [k \in 1 .. p |-> ListLogs(f, k, asked)]
        = [k \in 1 .. p |->
             SubSeq(all, (k - 1) * z + 1,
                    IF (k - 1) * z + z < Len(all) THEN (k - 1) * z + z
                      ELSE Len(all))]
  BY <1>5
<1>7. FlattenSeq([k \in 1 .. p |-> ListLogs(f, k, asked)]) = all
  BY <1>2, <1>3, <1>4, <1>6, PagesJoin
<1> QED BY <1>1, <1>7

\* LogSound for any number of streams and clients and any capacities: the
\* buffer holds the most recent entries in the order they were broadcast, a
\* follower gets every matching entry once, in order, but for the ones its own
\* lag cost it, and the pages of a query, one after the other, are the query.
THEOREM LogIsSound == LogSpec => []LogSound
<1>1. LogInv => PagesPartition
  BY LogPagesPartition DEF LogInv
<1>2. BufferIsRecent /\ TailSound /\ PagesPartition => LogSound
  BY DEF LogSound
<1> QED BY <1>1, <1>2, LogInvariance, LogDelivered, PTL

-----------------------------------------------------------------------------
(* The components together *)

\* The run over all components shows each of them as it is: its behaviours are
\* behaviours of every component, so what is proved of a component's own
\* specification holds of what the run explores.
THEOREM PlatComposes ==
  PlatSpec => /\ ProjectSpec /\ PreviewSpec /\ GitHubSpec /\ RetrySpec
              /\ BuildsSpec /\ LogSpec /\ RealtimeSpec /\ WrSpec
<1>1. PlatInit => /\ ProjInit /\ PvInit /\ GhInit /\ RpInit /\ LbInit
                  /\ LogInit /\ RtInit /\ WrInit
  BY DEF PlatInit
<1>2. [PlatNext]_platVars => [ProjectNext]_projVars
  BY DEF PlatNext, platVars
<1>3. [PlatNext]_platVars => [PreviewNext]_pvVars
  BY DEF PlatNext, platVars
<1>4. [PlatNext]_platVars => [GitHubNext]_ghVars
  BY DEF PlatNext, platVars
<1>5. [PlatNext]_platVars => [RetryNext]_rpVars
  BY DEF PlatNext, platVars
<1>6. [PlatNext]_platVars => [BuildsNext]_lbVars
  BY DEF PlatNext, platVars
<1>7. [PlatNext]_platVars => [LogNext]_lgVars
  BY DEF PlatNext, platVars
<1>8. [PlatNext]_platVars => [RealtimeNext]_rtVars
  BY DEF PlatNext, platVars
<1>9. [PlatNext]_platVars => [WiringNext]_wrVars
  BY DEF PlatNext, platVars
<1> QED
  BY <1>1, <1>2, <1>3, <1>4, <1>5, <1>6, <1>7, <1>8, <1>9, PTL
  DEF PlatSpec, ProjectSpec, PreviewSpec, GitHubSpec, RetrySpec, BuildsSpec,
      LogSpec, RealtimeSpec, WrSpec

\* Every variable of every component keeps its type, for every value of the
\* constants.
THEOREM PlatTypeCorrect == PlatSpec => []PlatTypeOK
<1>1. PlatSpec => [](part \in Parts)
  <2>1. PlatInit => part \in Parts
    BY DEF PlatInit
  <2>2. part \in Parts /\ [PlatNext]_platVars => (part \in Parts)'
    BY DEF PlatNext, platVars
  <2> QED BY <2>1, <2>2, PTL DEF PlatSpec
<1>2. /\ ProjInv => ProjTypeOK
      /\ PvInv => PvTypeOK
      /\ GhInv => GhTypeOK
      /\ RpInv => RpTypeOK
      /\ LbInv => LbTypeOK
      /\ LogInv => LogTypeOK
      /\ RtInv => RtTypeOK
      /\ WrInv => WrTypeOK
  BY DEF ProjInv, PvInv, GhInv, RpInv, LbInv, LogInv, RtInv, WrInv
<1>3. (/\ part \in Parts
       /\ ProjTypeOK /\ PvTypeOK /\ GhTypeOK /\ RpTypeOK /\ LbTypeOK /\ LogTypeOK
       /\ RtTypeOK /\ WrTypeOK) => PlatTypeOK
  BY DEF PlatTypeOK
<1> QED
  BY <1>1, <1>2, <1>3, PlatComposes, ProjInvariance, PvInvariance, GhInvariance,
     RetryInvariance, BuildsInvariance, LogInvariance, RtInvariance,
     WrInvariance, PTL

\* The safety invariants of the components, together and for every value of the
\* constants: those the run checks, and the safety halves of ProjectSettles,
\* ParentDeletionEnds and CancelStopsBuild.
THEOREM PlatSafe ==
  PlatSpec => []( /\ MigratedBeforeServed /\ GaugeCountsLive /\ DeleteSweeps
                  /\ ProjRestIsSettled /\ DeletionPending
                  /\ NoPreviewOutlivesParent /\ RailsOutlivePreviews
                  /\ ImportsExclusive /\ NoStrayDeployment
                  /\ LogSound /\ CancelHolds
                  /\ SessionsDoNotMix /\ CountedIsDelivered
                  /\ WorkloadsWired )
BY PlatComposes, MigratedFirst, GaugeSound, SweepsAll, ProjRestSettled,
   NoOrphanPreview, RailsStay, DeletionIsPending, OneImport, NoStray, LogIsSound,
   CancelledNeverSucceeds, SessionsApart, CountedDelivered, Wired, PTL
=============================================================================
