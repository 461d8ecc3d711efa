----------------------------- MODULE RetryPolicy -----------------------------
(***************************************************************************)
(* How long the operator waits before it reconciles a Project again.       *)
(*                                                                         *)
(* What is kept and what is abstracted:                                    *)
(*  - Reconciles end with a result or an error of any class, in any order; *)
(*    which error is of which class is RetryClass.                         *)
(*  - The attempt counter is a u32 that saturates; RetryTop stands for its *)
(*    largest value and must be beyond every shift the code can make.      *)
(*  - The wait is what the last error asked for, in seconds; 0 is "wait    *)
(*    for a change".  A change of the Project may come at any time.        *)
(***************************************************************************)
EXTENDS Naturals

CONSTANT RetryTop    \* where the attempt counter saturates

ASSUME RetryAssumption == RetryTop \in Nat /\ RetryTop > 64

BackoffBaseTransient == 30
BackoffBaseDependency == 60
BackoffMax == 600
OwnershipConflictRequeue == 300

RetryClasses ==
  {"Permanent", "OwnershipConflict", "DependencyNotReady", "Transient"}

\* backoff_class: the errors of a reconcile, some of them wrapped by the
\* finalizer, whose own errors are not the operator's.  A ServiceAccount of somebody
\* else counts as permanent, any other object of somebody else does not.
RetryErrors == {"spec", "serviceAccount", "ownership", "api404", "api409",
                "apiOther", "previewsTerminating", "namespaceMissing", "other"}
RetryClass(error) ==
  CASE error \in {"spec", "serviceAccount"} -> "Permanent"
    [] error = "ownership" -> "OwnershipConflict"
    [] error \in {"api404", "api409", "previewsTerminating",
                  "namespaceMissing"} -> "DependencyNotReady"
    [] error \in {"apiOther", "other"} -> "Transient"
ErrorClass(error, wrapped, ofFinalizer) ==
  IF wrapped /\ ofFinalizer THEN "Transient" ELSE RetryClass(error)

VARIABLES
  rpAttempts,  \* backoff_state: failures in a row; 0 when there is no entry
  rpWait,      \* seconds until the next reconcile; 0: none is scheduled
  rpClass      \* class of the last error; "none" after a success

rpVars == <<rpAttempts, rpWait, rpClass>>

RpTypeOK ==
  /\ rpAttempts \in 0 .. RetryTop
  /\ rpWait \in Nat
  /\ rpClass \in RetryClasses \cup {"none"}

RpInit == rpAttempts = 0 /\ rpWait = 0 /\ rpClass = "none"

\* Mutant of ShiftFactor: a shift that is too large yields nothing.
ShiftFactorChecked(attempt) == IF attempt <= 20 THEN 2 ^ attempt ELSE 0

\* A u64 shift by at most 20 places, then a saturating product.
ShiftFactor(attempt) == 2 ^ (IF attempt < 20 THEN attempt ELSE 20)

ComputeBackoff(base, attempt) ==
  LET secs == base * ShiftFactor(attempt)
  IN  IF secs < BackoffMax THEN secs ELSE BackoffMax

\* Mutant of BumpAttempts: the counter does not saturate.
BumpAttemptsPastTop ==
  rpAttempts' = IF rpAttempts <= RetryTop THEN rpAttempts + 1 ELSE 0

BumpAttempts ==
  rpAttempts' = IF rpAttempts < RetryTop THEN rpAttempts + 1 ELSE rpAttempts

BaseOf(class) ==
  IF class = "DependencyNotReady" THEN BackoffBaseDependency
    ELSE BackoffBaseTransient

ReconcileFails(class) ==
  /\ rpClass' = class
  /\ \/ class = "Permanent" /\ rpAttempts' = 0 /\ rpWait' = 0
     \/ class = "OwnershipConflict" /\ rpAttempts' = 0
        /\ rpWait' = OwnershipConflictRequeue
     \/ class \in {"Transient", "DependencyNotReady"}
        /\ BumpAttempts
        /\ rpWait' = ComputeBackoff(BaseOf(class), rpAttempts' - 1)

ReconcileSucceeds ==
  /\ rpAttempts' = 0 /\ rpWait' = 0 /\ rpClass' = "none"

RetryNext ==
  \/ ReconcileSucceeds
  \/ \E error \in RetryErrors, wrapped, ofFinalizer \in BOOLEAN :
       ReconcileFails(ErrorClass(error, wrapped, ofFinalizer))

RetrySpec == RpInit /\ [][RetryNext]_rpVars

-----------------------------------------------------------------------------
(* Properties *)

\* However long a Project has been failing, the retry of a retryable error
\* comes neither before the base delay nor after ten minutes, and a failure
\* of the same class as the last never shortens the wait.
BackoffSane ==
  [][/\ rpClass' \in {"Transient", "DependencyNotReady"} =>
          BaseOf(rpClass') <= rpWait' /\ rpWait' <= BackoffMax
     /\ rpClass' = rpClass => rpWait <= rpWait']_rpVars

-----------------------------------------------------------------------------
(* The inductive invariant *)

\* The wait is what the last outcome asked for after so many failures.
RpWaits ==
  \/ rpClass \in {"none", "Permanent"} /\ rpWait = 0
  \/ rpClass = "OwnershipConflict" /\ rpWait = OwnershipConflictRequeue
  \/ /\ rpClass \in {"Transient", "DependencyNotReady"}
     /\ rpAttempts > 0
     /\ rpWait = ComputeBackoff(BaseOf(rpClass), rpAttempts - 1)

RpInv == RpTypeOK /\ RpWaits
=============================================================================
