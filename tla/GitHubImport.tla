---------------------------- MODULE GitHubImport ----------------------------
(***************************************************************************)
(* Importing one GitHub repository from several dashboard replicas: the    *)
(* lease kept in the repository row, its heartbeat, its takeover when it   *)
(* has gone stale, and the synchronisation that rewrites the same row.     *)
(*                                                                         *)
(* What is kept and what is abstracted:                                    *)
(*  - Time is counted in heartbeat periods; an age stops at the lease's    *)
(*    length, which is all the code compares it with.                      *)
(*  - A claim is its timestamp, here an identifier no other claim in use   *)
(*    has; NoClaim is a NULL timestamp, which old selected rows have.      *)
(*  - The token, the clone and introspection, the Secret and the manifest  *)
(*    are one step that sends the Project to the cluster; what the         *)
(*    manifest says is in SourcePipeline.                                  *)
(*  - One statement of SQL is one step.                                    *)
(***************************************************************************)
EXTENDS Naturals, FiniteSets

CONSTANTS
  Importers,     \* concurrent import requests
  GhTtl,         \* length of the lease, in heartbeat periods
  GhMaxFaults    \* bound on crashes, stalls, failed statements, deletions
                 \* and synchronisations

\* The heartbeat period is a third of the lease.
ASSUME GhAssumption ==
  GhTtl \in Nat /\ GhTtl > 1 /\ GhMaxFaults \in Nat /\ IsFiniteSet(Importers)

NoClaim == 0
GhClaims == 0 .. 2 * Cardinality(Importers) + 2
GhAges == 0 .. GhTtl
Rows == [selected : BOOLEAN, claim : GhClaims, age : GhAges]

VARIABLES
  ghRow,       \* the repository row
  ghImported,  \* the importer whose GitHubProject row there is, as a set
  ghDeployed,  \* importers whose Deployment row there is
  ghPc, ghSeen, ghHeld, ghBeat, \* by importer: step, the row it read, the
               \* claim it holds, and whether its heartbeat is due
  ghSync,      \* what a synchronisation read: "none", "free" or "selected"
  ghLost,      \* history: a synchronisation erased a claim it had not read
  ghStalled,   \* history: a heartbeat was late
  ghCut,       \* history: an import ended after its Deployment row
  ghFaults

ghRows == <<ghRow, ghImported, ghDeployed>>
ghImp == <<ghPc, ghSeen, ghHeld, ghBeat>>
ghHist == <<ghLost, ghStalled, ghCut, ghFaults>>
ghVars == <<ghRows, ghImp, ghSync, ghHist>>

GhPcs == {"idle", "check", "recover", "claim", "send", "deployment", "project",
          "rollback", "release"}
Importing == {"send", "deployment", "project", "rollback"}

GhTypeOK ==
  /\ ghRow \in Rows
  /\ ghImported \in {{}} \cup {{i} : i \in Importers}
  /\ ghDeployed \subseteq Importers
  /\ ghPc \in [Importers -> GhPcs]
  /\ ghSeen \in [Importers -> Rows]
  /\ ghHeld \in [Importers -> GhClaims]
  /\ ghBeat \in [Importers -> BOOLEAN]
  /\ ghSync \in {"none", "free", "selected"}
  /\ ghLost \in BOOLEAN /\ ghStalled \in BOOLEAN /\ ghCut \in BOOLEAN
  /\ ghFaults \in 0 .. GhMaxFaults

FreeRow == [selected |-> FALSE, claim |-> NoClaim, age |-> 0]

GhInit ==
  /\ ghRow \in {FreeRow, [selected |-> TRUE, claim |-> NoClaim, age |-> 0]}
  /\ ghImported = {} /\ ghDeployed = {}
  /\ ghPc = [i \in Importers |-> "idle"]
  /\ ghSeen = [i \in Importers |-> FreeRow]
  /\ ghHeld = [i \in Importers |-> NoClaim]
  /\ ghBeat = [i \in Importers |-> FALSE]
  /\ ghSync = "none"
  /\ ghLost = FALSE /\ ghStalled = FALSE /\ ghCut = FALSE /\ ghFaults = 0

GhFault == ghFaults < GhMaxFaults /\ ghFaults' = ghFaults + 1

UsedClaims ==
  {NoClaim, ghRow.claim} \cup {ghHeld[i] : i \in Importers}
    \cup {ghSeen[i].claim : i \in Importers}

\* A timestamp nobody holds.
FreshClaim == CHOOSE c \in GhClaims : c \notin UsedClaims

-----------------------------------------------------------------------------
(* Time *)

Older(row) ==
  IF row.selected /\ row.age < GhTtl THEN [row EXCEPT !.age = @ + 1] ELSE row

\* A period passes.  A heartbeat that is due is sent within the period unless
\* its replica is stalled, which is a fault.
GhTick ==
  LET late == {i \in Importers : ghPc[i] \in Importing /\ ghBeat[i]}
  IN  /\ IF late = {} THEN UNCHANGED <<ghFaults, ghStalled>>
           ELSE GhFault /\ ghStalled' = TRUE
      /\ ghRow' = Older(ghRow)
      /\ ghBeat' = [i \in Importers |-> ghPc[i] \in Importing]
      /\ ghSeen' = [i \in Importers |-> Older(ghSeen[i])]
      /\ UNCHANGED <<ghImported, ghDeployed, ghPc, ghHeld, ghSync,
                     ghLost, ghCut>>

-----------------------------------------------------------------------------
(* The import handler *)

Goes(i, pc) == ghPc' = [ghPc EXCEPT ![i] = pc]

\* The handler loads the row, then looks for a project.
LoadRow(i) ==
  /\ ghPc[i] = "idle"
  /\ ghSeen' = [ghSeen EXCEPT ![i] = ghRow]
  /\ Goes(i, "check")
  /\ UNCHANGED <<ghRows, ghHeld, ghBeat, ghSync, ghHist>>

\* Mutant of Stale: the lease is one heartbeat too short.
StaleEarly(row) == row.selected /\ row.age >= GhTtl - 1

\* Mutant of Stale: a row without a timestamp is never stale.
StaleTimed(row) == row.selected /\ row.claim # NoClaim /\ row.age >= GhTtl

Stale(row) == row.selected /\ row.age >= GhTtl

CheckProject(i) ==
  /\ ghPc[i] = "check"
  /\ Goes(i, IF ghImported # {} THEN "idle"
               ELSE IF Stale(ghSeen[i]) THEN "recover" ELSE "claim")
  /\ ghSeen' = IF ghPc'[i] = "recover" THEN ghSeen
                 ELSE [ghSeen EXCEPT ![i] = FreeRow]
  /\ UNCHANGED <<ghRows, ghHeld, ghBeat, ghSync, ghHist>>

\* Clears exactly the claim that was read.
RecoverClaim(i) ==
  /\ ghPc[i] = "recover"
  /\ ghRow' = IF ghRow.selected /\ ghRow.claim = ghSeen[i].claim
                THEN FreeRow
                ELSE ghRow
  /\ Goes(i, "claim")
  /\ ghSeen' = [ghSeen EXCEPT ![i] = FreeRow]
  /\ UNCHANGED <<ghImported, ghDeployed, ghHeld, ghBeat, ghSync, ghHist>>

Claim(i) ==
  /\ ghPc[i] = "claim"
  /\ IF ghRow.selected
       THEN Goes(i, "idle") /\ UNCHANGED <<ghRow, ghHeld, ghBeat>>
       ELSE /\ ghRow' = [selected |-> TRUE, claim |-> FreshClaim, age |-> 0]
            /\ ghHeld' = [ghHeld EXCEPT ![i] = FreshClaim]
            /\ ghBeat' = [ghBeat EXCEPT ![i] = FALSE]
            /\ Goes(i, "send")
  /\ UNCHANGED <<ghImported, ghDeployed, ghSeen, ghSync, ghHist>>

CutOff(i) == ghCut' = (ghCut \/ ghPc[i] \in {"project", "rollback"})

\* Every heartbeat moves the claim, if it is still the importer's own, and
\* stops the import if it is not.
RenewClaim(i) ==
  /\ ghPc[i] \in Importing /\ ghBeat[i]
  /\ IF ghRow.selected /\ ghRow.claim = ghHeld[i]
       THEN /\ ghRow' = [ghRow EXCEPT !.claim = FreshClaim, !.age = 0]
            /\ ghHeld' = [ghHeld EXCEPT ![i] = FreshClaim]
            /\ ghBeat' = [ghBeat EXCEPT ![i] = FALSE]
            /\ UNCHANGED <<ghPc, ghCut>>
       ELSE /\ Goes(i, "release") /\ CutOff(i)
            /\ UNCHANGED <<ghRow, ghHeld, ghBeat>>
  /\ UNCHANGED <<ghImported, ghDeployed, ghSeen, ghSync, ghLost, ghStalled,
                 ghFaults>>

\* A renewal that fails drops the import where it is.
RenewFails(i) ==
  /\ ghPc[i] \in Importing /\ ghBeat[i]
  /\ GhFault /\ CutOff(i)
  /\ Goes(i, "release")
  /\ UNCHANGED <<ghRows, ghSeen, ghHeld, ghBeat, ghSync, ghLost, ghStalled>>

\* The token, the clone, a send or the insert may fail.
ImportFails(i) ==
  /\ ghPc[i] \in {"send", "deployment"}
  /\ Goes(i, "release")
  /\ UNCHANGED <<ghRows, ghSeen, ghHeld, ghBeat, ghSync, ghHist>>

SendProject(i) ==
  /\ ghPc[i] = "send"
  /\ Goes(i, "deployment")
  /\ UNCHANGED <<ghRows, ghSeen, ghHeld, ghBeat, ghSync, ghHist>>

CreateDeployment(i) ==
  /\ ghPc[i] = "deployment"
  /\ ghDeployed' = ghDeployed \cup {i}
  /\ Goes(i, "project")
  /\ UNCHANGED <<ghRow, ghImported, ghSeen, ghHeld, ghBeat, ghSync,
                 ghHist>>

Returns(i) ==
  /\ ghPc' = [ghPc EXCEPT ![i] = "idle"]
  /\ ghHeld' = [ghHeld EXCEPT ![i] = NoClaim]
  /\ ghBeat' = [ghBeat EXCEPT ![i] = FALSE]

\* Mutant of CreateProject: a refused insert ends the import at once.
CreateProjectOrStop(i) ==
  /\ ghPc[i] = "project"
  /\ IF ghImported = {} /\ i \in ghDeployed
       THEN ghImported' = {i} /\ Returns(i)
       ELSE /\ Goes(i, "release")
            /\ UNCHANGED <<ghImported, ghHeld, ghBeat>>
  /\ UNCHANGED <<ghRow, ghDeployed, ghSeen, ghSync, ghHist>>

\* At most one project per repository, and only for a Deployment row that is
\* still there; the claim stays after a success.
CreateProject(i) ==
  /\ ghPc[i] = "project"
  /\ IF ghImported = {} /\ i \in ghDeployed
       THEN ghImported' = {i} /\ Returns(i)
       ELSE /\ Goes(i, "rollback")
            /\ UNCHANGED <<ghImported, ghHeld, ghBeat>>
  /\ UNCHANGED <<ghRow, ghDeployed, ghSeen, ghSync, ghHist>>

\* A failure to delete the row is only logged.
RollBackDeployment(i) ==
  /\ ghPc[i] = "rollback"
  /\ \/ ghDeployed' = ghDeployed \ {i} /\ UNCHANGED <<ghFaults, ghCut>>
     \/ ghDeployed' = ghDeployed /\ GhFault /\ CutOff(i)
  /\ Goes(i, "release")
  /\ UNCHANGED <<ghRow, ghImported, ghSeen, ghHeld, ghBeat, ghSync,
                 ghLost, ghStalled>>

\* After an error the claim is released, if it is still the importer's own;
\* a failure to do so is only logged.
ReleaseClaim(i) ==
  /\ ghPc[i] = "release"
  /\ \/ /\ ghRow' = IF ghRow.selected /\ ghRow.claim = ghHeld[i]
                      THEN FreeRow
                      ELSE ghRow
        /\ ghFaults' = ghFaults
     \/ ghRow' = ghRow /\ GhFault
  /\ Returns(i)
  /\ UNCHANGED <<ghImported, ghDeployed, ghSeen, ghSync, ghLost, ghStalled,
                 ghCut>>

\* The replica dies or the browser goes away: the handler is dropped.
ImporterDies(i) ==
  /\ ghPc[i] # "idle"
  /\ GhFault /\ CutOff(i)
  /\ Returns(i)
  /\ ghSeen' = [ghSeen EXCEPT ![i] = FreeRow]
  /\ UNCHANGED <<ghRows, ghSync, ghLost, ghStalled>>

-----------------------------------------------------------------------------
(* The rest of the dashboard *)

\* sync_repositories_for_installation: a row read as selected gets its
\* descriptive columns only, any other row is written back whole.
SyncReads ==
  /\ GhFault
  /\ ghSync = "none"
  /\ ghSync' = IF ghRow.selected THEN "selected" ELSE "free"
  /\ UNCHANGED <<ghRows, ghImp, ghLost, ghStalled, ghCut>>

SyncWrites ==
  /\ \/ ghSync = "selected" /\ UNCHANGED <<ghRow, ghLost>>
     \/ ghSync = "free" /\ ghRow' = FreeRow
        /\ ghLost' = (ghLost \/ ghRow.selected)
  /\ ghSync' = "none"
  /\ UNCHANGED <<ghImported, ghDeployed, ghImp, ghStalled, ghCut, ghFaults>>

\* delete_deployment_for_current_org: in one transaction a deployment with a
\* project frees the repository's row, and takes the project with it.
DeleteDeployment(i) ==
  /\ GhFault
  /\ i \in ghDeployed
  /\ ghDeployed' = ghDeployed \ {i}
  /\ ghImported' = ghImported \ {i}
  /\ ghRow' = IF i \in ghImported THEN FreeRow ELSE ghRow
  /\ UNCHANGED <<ghImp, ghSync, ghLost, ghStalled, ghCut>>

ImportWork(i) ==
  \/ SendProject(i) \/ CreateDeployment(i) \/ CreateProject(i)
  \/ RollBackDeployment(i) \/ ImportFails(i)
GhHandler(i) ==
  \/ LoadRow(i) \/ CheckProject(i) \/ RecoverClaim(i) \/ Claim(i)
  \/ RenewClaim(i) \/ ReleaseClaim(i)
GitHubNext ==
  \/ GhTick \/ SyncReads \/ SyncWrites
  \/ \E i \in Importers :
       \/ GhHandler(i) \/ ImportWork(i)
       \/ RenewFails(i) \/ ImporterDies(i) \/ DeleteDeployment(i)

GitHubSpec == GhInit /\ [][GitHubNext]_ghVars

\* Handlers run, time passes, a user who is refused tries again, and the
\* calls to GitHub, git and the agent end, with a result or an error.
GhFairness ==
  /\ WF_ghVars(GhTick)
  /\ \A i \in Importers : WF_ghVars(GhHandler(i)) /\ WF_ghVars(ImportWork(i))

-----------------------------------------------------------------------------
(* Properties *)

\* Two imports of one repository run at the same time only after a heartbeat
\* came too late or a synchronisation erased the claim of a running import.
ImportsExclusive ==
  ~ghLost /\ ~ghStalled =>
    \A i, j \in Importers :
      ghPc[i] \in Importing /\ ghPc[j] \in Importing => i = j

\* An import that finds the repository imported by another takes its
\* Deployment row back: one that belongs to nobody is left only by an import
\* that was cut off or could not undo it.
NoStrayDeployment ==
  ~ghCut =>
    \A i \in ghDeployed : i \in ghImported \/ ghPc[i] \in {"project", "rollback"}

\* A repository whose import died is imported or free again in the end.
ClaimIsReclaimed ==
  ghRow.selected /\ ghImported = {} ~> ~ghRow.selected \/ ghImported # {}

-----------------------------------------------------------------------------
(* The inductive invariant *)

\* An importer has a claim from the moment it takes the row to its return,
\* and no other importer has the same.
GhHolds ==
  /\ \A i \in Importers :
       ghHeld[i] # NoClaim <=> ghPc[i] \in Importing \cup {"release"}
  /\ \A i, j \in Importers :
       ghHeld[i] = ghHeld[j] /\ ghHeld[i] # NoClaim => i = j

\* A copy of the claim that is in the row has its age; a copy that is about
\* to be recovered has expired.
GhCopies ==
  /\ \A j \in Importers :
       /\ ghSeen[j].selected /\ ghRow.selected
       /\ ghSeen[j].claim = ghRow.claim
       => ghSeen[j].age = ghRow.age
  /\ \A j \in Importers : ghPc[j] = "recover" => Stale(ghSeen[j])

\* A running import has the row, and has renewed it in time.
GhLeased ==
  ~ghLost /\ ~ghStalled =>
    \A i \in Importers : ghPc[i] \in Importing =>
      /\ ghRow.selected /\ ghRow.claim = ghHeld[i]
      /\ ghRow.age <= (IF ghBeat[i] THEN 1 ELSE 0)

\* The row of an imported repository stays taken, by a claim that nobody has
\* and nobody is about to recover.
GhTaken ==
  ~ghLost /\ ~ghStalled /\ ghImported # {} =>
    /\ ghRow.selected /\ ghRow.claim # NoClaim
    /\ \A i \in Importers : ghHeld[i] # ghRow.claim
    /\ \A j \in Importers : ghPc[j] = "recover" => ghSeen[j].claim # ghRow.claim

GhInv ==
  GhTypeOK /\ GhHolds /\ GhCopies /\ GhLeased /\ GhTaken /\ NoStrayDeployment
=============================================================================
