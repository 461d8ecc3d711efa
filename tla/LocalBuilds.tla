----------------------------- MODULE LocalBuilds -----------------------------
(***************************************************************************)
(* The in-process build service: the task of each build, its event stream, *)
(* its stored status, and cancellations from any client.                   *)
(*                                                                         *)
(* What is kept and what is abstracted:                                    *)
(*  - The four phases of a build and the places where its task can be      *)
(*    interrupted; the delays are arbitrary.                               *)
(*  - The channel is larger than the events of a build, so a send never    *)
(*    waits, and one to a client that is gone is dropped.                  *)
(*  - Of the stream only the last event and the artifact are kept.         *)
(***************************************************************************)
EXTENDS Naturals

CONSTANT BuildIds

LastPhase == 4   \* Pulling, Building, Pushing, Finalizing; 0 is Queued
LbSteps == {"unborn", "check", "announce", "work", "artifact", "complete",
            "cancelled", "record", "done"}

VARIABLES
  lbStep, lbPhase,      \* by build: the task's next step and its phase
  lbToken,              \* by build: cancellation was requested
  lbCancelAt,           \* by build: history, the phase stored when it was
  lbEvent, lbArtifact,  \* by build: last event sent; an artifact was sent
  lbStatus              \* by build: the stored status

lbVars == <<lbStep, lbPhase, lbToken, lbCancelAt, lbEvent, lbArtifact,
            lbStatus>>

LbTypeOK ==
  /\ lbStep \in [BuildIds -> LbSteps]
  /\ lbPhase \in [BuildIds -> 0 .. LastPhase]
  /\ lbToken \in [BuildIds -> BOOLEAN]
  /\ lbCancelAt \in [BuildIds -> 0 .. LastPhase + 1]
  /\ lbEvent \in [BuildIds -> {"none", "phase", "log", "artifact", "error", "complete"}]
  /\ lbArtifact \in [BuildIds -> BOOLEAN]
  /\ lbStatus \in [BuildIds -> [phase : 0 .. LastPhase, completed : BOOLEAN,
                                success : BOOLEAN]]

NotCancelled == LastPhase + 1

LbInit ==
  /\ lbStep = [b \in BuildIds |-> "unborn"]
  /\ lbPhase = [b \in BuildIds |-> 0]
  /\ lbToken = [b \in BuildIds |-> FALSE]
  /\ lbCancelAt = [b \in BuildIds |-> NotCancelled]
  /\ lbEvent = [b \in BuildIds |-> "none"]
  /\ lbArtifact = [b \in BuildIds |-> FALSE]
  /\ lbStatus = [b \in BuildIds |->
                   [phase |-> 0, completed |-> FALSE, success |-> FALSE]]

LbGoes(b, step) == lbStep' = [lbStep EXCEPT ![b] = step]
LbSends(b, event) == lbEvent' = [lbEvent EXCEPT ![b] = event]

StartBuild(b) ==
  /\ lbStep[b] = "unborn"
  /\ LbGoes(b, "check")
  /\ lbPhase' = [lbPhase EXCEPT ![b] = 1]
  /\ UNCHANGED <<lbToken, lbCancelAt, lbEvent, lbArtifact, lbStatus>>

\* A build that is known and not completed; the caller gets Ok.
CancelBuild(b) ==
  /\ lbStep[b] # "unborn" /\ ~lbStatus[b].completed
  /\ lbToken' = [lbToken EXCEPT ![b] = TRUE]
  /\ lbCancelAt' = IF lbToken[b] THEN lbCancelAt
                     ELSE [lbCancelAt EXCEPT ![b] = lbStatus[b].phase]
  /\ UNCHANGED <<lbStep, lbPhase, lbEvent, lbArtifact, lbStatus>>

CheckToken(b) ==
  /\ lbStep[b] = "check"
  /\ LbGoes(b, IF lbToken[b] THEN "cancelled" ELSE "announce")
  /\ UNCHANGED <<lbPhase, lbToken, lbCancelAt, lbEvent, lbArtifact, lbStatus>>

\* The phase event, then the stored phase, then the log line.  A sleep that
\* starts with the token cancelled ends at once.
AnnouncePhase(b) ==
  /\ lbStep[b] = "announce"
  /\ \/ lbEvent[b] # "phase" /\ LbSends(b, "phase") /\ UNCHANGED <<lbStep, lbStatus>>
     \/ lbEvent[b] = "phase" /\ LbSends(b, "log")
        /\ LbGoes(b, IF lbToken[b] THEN "cancelled" ELSE "work")
        /\ lbStatus' = [lbStatus EXCEPT ![b].phase = lbPhase[b]]
  /\ UNCHANGED <<lbPhase, lbToken, lbCancelAt, lbArtifact>>

\* The sleep and the cancellation race: when both are ready either may win.
PhaseEnds(b) ==
  /\ lbStep[b] = "work"
  /\ IF lbPhase[b] < LastPhase
       THEN LbGoes(b, "check") /\ lbPhase' = [lbPhase EXCEPT ![b] = @ + 1]
       ELSE LbGoes(b, "artifact") /\ lbPhase' = lbPhase
  /\ UNCHANGED <<lbToken, lbCancelAt, lbEvent, lbArtifact, lbStatus>>

WorkCancelled(b) ==
  /\ lbStep[b] = "work" /\ lbToken[b]
  /\ LbGoes(b, "cancelled")
  /\ UNCHANGED <<lbPhase, lbToken, lbCancelAt, lbEvent, lbArtifact, lbStatus>>

ReportCancelled(b) ==
  /\ lbStep[b] = "cancelled"
  /\ LbSends(b, "error") /\ LbGoes(b, "record")
  /\ UNCHANGED <<lbPhase, lbToken, lbCancelAt, lbArtifact, lbStatus>>

ReportArtifact(b) ==
  /\ lbStep[b] = "artifact"
  /\ LbSends(b, "artifact") /\ LbGoes(b, "complete")
  /\ lbArtifact' = [lbArtifact EXCEPT ![b] = TRUE]
  /\ UNCHANGED <<lbPhase, lbToken, lbCancelAt, lbStatus>>

ReportComplete(b) ==
  /\ lbStep[b] = "complete"
  /\ LbSends(b, "complete") /\ LbGoes(b, "record")
  /\ UNCHANGED <<lbPhase, lbToken, lbCancelAt, lbArtifact, lbStatus>>

\* Mutant of UpdateBuildCompleted: a build that has ended has succeeded.
UpdateBuildSucceeded(b) ==
  /\ lbStep[b] = "record"
  /\ LbGoes(b, "done")
  /\ lbStatus' = [lbStatus EXCEPT ![b].completed = TRUE, ![b].success = TRUE]
  /\ UNCHANGED <<lbPhase, lbToken, lbCancelAt, lbEvent, lbArtifact>>

UpdateBuildCompleted(b) ==
  /\ lbStep[b] = "record"
  /\ LbGoes(b, "done")
  /\ lbStatus' = [lbStatus EXCEPT ![b].completed = TRUE,
                                  ![b].success = (lbEvent[b] = "complete")]
  /\ UNCHANGED <<lbPhase, lbToken, lbCancelAt, lbEvent, lbArtifact>>

RunPipeline(b) ==
  \/ CheckToken(b) \/ AnnouncePhase(b) \/ PhaseEnds(b) \/ WorkCancelled(b)
  \/ ReportCancelled(b) \/ ReportArtifact(b) \/ ReportComplete(b)
  \/ UpdateBuildCompleted(b)
BuildsNext ==
  \E b \in BuildIds : StartBuild(b) \/ CancelBuild(b) \/ RunPipeline(b)

BuildsSpec == LbInit /\ [][BuildsNext]_lbVars

\* The runtime polls the task of every build.
LbFairness == \A b \in BuildIds : WF_lbVars(RunPipeline(b))

-----------------------------------------------------------------------------
(* Properties *)

\* A build whose cancellation was acknowledged before its last phase began
\* ends, and ends as failed with no artifact; only one that was already
\* finalizing may go on to succeed.
CancelStopsBuild ==
  \A b \in BuildIds :
    lbCancelAt[b] < LastPhase ~>
      /\ lbStatus[b].completed /\ ~lbStatus[b].success
      /\ ~lbArtifact[b]

-----------------------------------------------------------------------------
(* The inductive invariant of a build *)

\* The stored phase is the task's own as soon as the phase does its work, and
\* one that got past the last phase stored it.
PhaseStored(b) ==
  /\ lbStep[b] = "work" => lbStatus[b].phase = lbPhase[b]
  /\ (lbStep[b] \in {"artifact", "complete"} \/ lbArtifact[b]) =>
       lbStatus[b].phase = LastPhase

\* A build stopped before its last phase is on its way to fail or has failed.
Stopping(b) ==
  /\ lbToken[b] <=> lbCancelAt[b] # NotCancelled
  /\ lbCancelAt[b] < LastPhase =>
       /\ lbStep[b] = "work" => lbPhase[b] < LastPhase
       /\ lbStep[b] \notin {"artifact", "complete"}
       /\ ~lbArtifact[b]

\* What the client was told last, what it was given and what is stored agree:
\* a build that is over succeeded exactly when its artifact was delivered.
OutcomeAgrees(b) ==
  /\ lbStep[b] = "complete" => lbArtifact[b]
  /\ lbStep[b] \in {"unborn", "check", "announce", "work", "artifact",
                    "cancelled"} => ~lbArtifact[b]
  /\ lbStep[b] \in {"record", "done"} =>
       lbEvent[b] = IF lbArtifact[b] THEN "complete" ELSE "error"
  /\ lbStatus[b].completed <=> lbStep[b] = "done"
  /\ lbStatus[b].success <=> lbStatus[b].completed /\ lbArtifact[b]

LbInv ==
  /\ LbTypeOK
  /\ \A b \in BuildIds : PhaseStored(b) /\ Stopping(b) /\ OutcomeAgrees(b)

\* The safety half of CancelStopsBuild: a build whose cancellation was
\* acknowledged before its last phase began never succeeds and never delivers
\* an artifact, however the cancellation and the end of a phase race.
CancelHolds ==
  \A b \in BuildIds :
    lbCancelAt[b] < LastPhase => ~lbStatus[b].success /\ ~lbArtifact[b]

\* Every client is told what is stored: when a build is over, its last event
\* says whether it succeeded, and it succeeded exactly when it delivered.
OutcomeTold ==
  \A b \in BuildIds :
    lbStatus[b].completed =>
      /\ lbStatus[b].success <=> lbArtifact[b]
      /\ lbEvent[b] = IF lbStatus[b].success THEN "complete" ELSE "error"

\* A stored outcome is final: no later cancellation or event changes it.
OutcomeFinal ==
  \A b \in BuildIds :
    lbStatus[b].completed =>
      lbStatus'[b] = lbStatus[b] /\ lbEvent'[b] = lbEvent[b]
=============================================================================
