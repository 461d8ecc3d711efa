--------------------------- MODULE SourcePipeline ---------------------------
(***************************************************************************)
(* From a GitHub webhook to the running workload of an imported project.   *)
(*                                                                         *)
(*   github_webhook handlers -> Deployment row -> agent -> Project object  *)
(*     -> watch -> operator reconcile -> Kaniko Job -> spec.image or       *)
(*        preview Project -> production Deployment                         *)
(*                                                                         *)
(* What is kept and what is abstracted:                                    *)
(*  - A manifest is its three build annotations; its spec.image is always  *)
(*    the "<registry>:pending" placeholder source_project_yaml wrote.      *)
(*    pr-branch travels with pr-number and is left out.                    *)
(*  - Handlers run concurrently; each reads the row, writes it and sends   *)
(*    the manifest in three steps (three awaits).  Deliveries that change  *)
(*    nothing (other branches, tags, unknown repositories) are left out.   *)
(*  - The operator reads the Project from its watch cache when a reconcile *)
(*    starts and keeps that copy; every Kubernetes call is a step.  The    *)
(*    cache sees every version, in order, at any delay.                    *)
(*  - A patch that changes nothing makes no new version.                   *)
(*  - One commit, one Job: build_job_name is a function of target and sha. *)
(*  - The project needs no database or Redis: those gates have their own   *)
(*    modules.                                                             *)
(***************************************************************************)
EXTENDS Naturals, Sequences, FiniteSets

CONSTANTS
  Pushes,          \* commits pushed to the production branch
  Opened,          \* <<pull request, head commit>> of opened/synchronize
  Closed,          \* pull requests that are closed
  PreviewSettings, \* values of spec.source.preview.enabled considered
  MaxDeliveries,   \* bound on the deliveries that arrive
  MaxFaults,       \* bound on failed calls, lost commands, operator restarts
  MaxLag,          \* bound on the versions a reconcile's cache is behind
  Prod,            \* the production target of a build
  Initial,         \* the "initial" trigger of source_project_yaml
  NoTrigger, NoPr, NoImage,
  Placeholder      \* the "<registry>:pending" image

PRs == {o[1] : o \in Opened} \cup Closed
Shas == Pushes \cup {o[2] : o \in Opened}
Triggers == Shas \cup {Initial}
Targets == PRs \cup {Prod}
\* A build: its target and trigger name its Job and its image.
Builds == Targets \X Triggers

ASSUME PipelineAssumption ==
  /\ PreviewSettings \subseteq BOOLEAN
  /\ MaxDeliveries \in Nat /\ MaxFaults \in Nat /\ MaxLag \in Nat
  /\ Prod \notin PRs
  /\ NoTrigger \notin Triggers
  /\ NoPr \notin PRs
  /\ NoImage \notin Builds
  /\ Placeholder \notin Builds \cup {NoImage}

Anns == [trigger : Triggers \cup {NoTrigger},
         action : {"none", "create", "delete"},
         pr : PRs \cup {NoPr}]
NoAnn == [trigger |-> NoTrigger, action |-> "none", pr |-> NoPr]

Active == {"Pending", "Running"}
Phases == {"none", "Succeeded", "Failed"} \cup Active
BuildStatus == [target : Targets, trigger : Triggers \cup {NoTrigger},
                phase : Phases]
NoBuild == [target |-> Prod, trigger |-> NoTrigger, phase |-> "none"]
JobOf(b) == <<b.target, b.trigger>>

Hooks ==
  [kind : {"push"}, pr : {NoPr}, sha : Pushes]
    \cup {[kind |-> "open", pr |-> o[1], sha |-> o[2]] : o \in Opened}
    \cup [kind : {"close"}, pr : Closed, sha : {NoTrigger}]

Projects == [ann : Anns, image : Builds \cup {Placeholder},
             build : BuildStatus, previews : BOOLEAN]
\* What the import leaves in the cluster.
Imported == [ann |-> [NoAnn EXCEPT !.trigger = Initial],
             image |-> Placeholder, build |-> NoBuild, previews |-> FALSE]

VARIABLES
  row,        \* Deployment row: manifest annotations and status
  hook,       \* webhook delivery: "idle", "read", "written", "done", "error"
  snap,       \* webhook delivery -> manifest its handler computed
  wire,       \* manifests accepted for the agent, in order
  proj,       \* the Project object in the API server
  watch,      \* its versions the operator's cache has not seen
  cache,      \* the operator's cached Project
  dirty,      \* a reconcile request is queued
  pc,         \* next call of the running reconcile, or "idle"
  app,        \* the copy of the cache that reconcile works on
  cur,        \* build the source-build gate looks at
  fresh,      \* has_new_build
  obs,        \* state of the build's Job when the gate read it
  jobs,       \* Kaniko Jobs
  previews,   \* image of each preview Project
  deployed,   \* image of the production Deployment
  built,      \* history: builds whose Job succeeded
  published,  \* history: images written to spec.image or to a preview
  faults      \* faults so far

hookVars == <<row, hook, snap>>
opVars == <<pc, app, cur, fresh, obs>>
outVars == <<jobs, previews, deployed, built, published>>
vars == <<hookVars, wire, proj, watch, cache, dirty, opVars, outVars, faults>>

TypeOK ==
  /\ row \in [ann : Anns, status : {"pending", "error"}]
  /\ hook \in [Hooks -> {"idle", "read", "written", "done", "error"}]
  /\ snap \in [Hooks -> Anns]
  /\ wire \in Seq(Anns)
  /\ proj \in Projects
  /\ watch \in Seq(Projects)
  /\ cache \in Projects
  /\ dirty \in BOOLEAN
  /\ pc \in {"idle", "cancelJob", "cancelStatus", "deletePreview",
             "clearDelete", "ttl", "ignore", "gate", "job", "pend", "clear",
             "decide", "publish", "mark", "rollout", "status"}
  /\ app \in Projects
  /\ cur \in BuildStatus
  /\ fresh \in BOOLEAN
  /\ obs \in {"none", "running", "succeeded", "failed"}
  /\ jobs \in [Builds -> {"none", "running", "succeeded", "failed"}]
  /\ previews \in [PRs -> Builds \cup {NoImage}]
  /\ deployed \in Builds \cup {Placeholder, NoImage}
  /\ built \subseteq Builds
  /\ published \subseteq Builds
  /\ faults \in 0 .. MaxFaults

Init ==
  /\ row = [ann |-> Imported.ann, status |-> "pending"]
  /\ hook = [h \in Hooks |-> "idle"]
  /\ snap = [h \in Hooks |-> NoAnn]
  /\ wire = <<>>
  /\ proj \in {[Imported EXCEPT !.previews = e] : e \in PreviewSettings}
  /\ watch = <<>>
  /\ cache = proj
  /\ dirty = TRUE
  /\ pc = "idle"
  /\ app = Imported
  /\ cur = NoBuild
  /\ fresh = FALSE
  /\ obs = "none"
  /\ jobs = [b \in Builds |-> "none"]
  /\ previews = [p \in PRs |-> NoImage]
  /\ deployed = NoImage
  /\ built = {}
  /\ published = {}
  /\ faults = 0

-----------------------------------------------------------------------------
(* The dashboard: github_webhook *)

\* A push only upserts the trigger: a preview action and PR number that an
\* earlier delivery left in the manifest stay.
WithBuildTrigger(ann, sha) == [ann EXCEPT !.trigger = sha]

WithPreviewCreate(pr, sha) ==
  [trigger |-> sha, action |-> "create", pr |-> pr]

WithPreviewDelete(pr) ==
  [trigger |-> NoTrigger, action |-> "delete", pr |-> pr]

ApplyWebhookAction(ann, h) ==
  CASE h.kind = "push"  -> WithBuildTrigger(ann, h.sha)
    [] h.kind = "open"  -> WithPreviewCreate(h.pr, h.sha)
    [] h.kind = "close" -> WithPreviewDelete(h.pr)

\* Load the row and compute the next manifest.
HookRead(h) ==
  /\ hook[h] = "idle"
  /\ Cardinality({g \in Hooks : hook[g] # "idle"}) < MaxDeliveries
  /\ hook' = [hook EXCEPT ![h] = "read"]
  /\ snap' = [snap EXCEPT ![h] = ApplyWebhookAction(row.ann, h)]
  /\ UNCHANGED <<row, wire, proj, watch, cache, dirty, opVars, outVars, faults>>

\* Write the whole row back, without a check that it is still the one read.
HookWrite(h) ==
  /\ hook[h] = "read"
  /\ hook' = [hook EXCEPT ![h] = "written"]
  /\ row' = [ann |-> snap[h], status |-> "pending"]
  /\ UNCHANGED <<snap, wire, proj, watch, cache, dirty, opVars, outVars, faults>>

\* Hand the manifest to the agent registry.
HookSend(h) ==
  /\ hook[h] = "written"
  /\ hook' = [hook EXCEPT ![h] = "done"]
  /\ wire' = Append(wire, snap[h])
  /\ snap' = [snap EXCEPT ![h] = NoAnn]
  /\ UNCHANGED <<row, proj, watch, cache, dirty, opVars, outVars, faults>>

\* Refreshing the credentials or the send fails: the row is written again,
\* from the handler's own copy.
HookFail(h) ==
  /\ hook[h] = "written"
  /\ faults < MaxFaults
  /\ faults' = faults + 1
  /\ hook' = [hook EXCEPT ![h] = "error"]
  /\ row' = [ann |-> snap[h], status |-> "error"]
  /\ snap' = [snap EXCEPT ![h] = NoAnn]
  /\ UNCHANGED <<wire, proj, watch, cache, dirty, opVars, outVars>>

\* The row update or the load of the cluster fails: the handler returns with
\* what it has done so far.
HookAbort(h) ==
  /\ hook[h] \in {"read", "written"}
  /\ faults < MaxFaults
  /\ faults' = faults + 1
  /\ hook' = [hook EXCEPT ![h] = "error"]
  /\ snap' = [snap EXCEPT ![h] = NoAnn]
  /\ UNCHANGED <<row, wire, proj, watch, cache, dirty, opVars, outVars>>

Webhook(h) ==
  HookRead(h) \/ HookWrite(h) \/ HookSend(h) \/ HookFail(h) \/ HookAbort(h)

-----------------------------------------------------------------------------
(* The API server and the agent *)

\* A write of the Project: a new version unless nothing changed.
Store(p) ==
  /\ proj' = p
  /\ watch' = IF p = proj THEN watch ELSE Append(watch, p)

\* ApplyProject: a forced server-side apply of the manifest takes the four
\* annotations and spec.image over; the rest of the spec is the same in every
\* manifest.
AgentApply ==
  /\ wire # <<>>
  /\ wire' = Tail(wire)
  /\ Store([proj EXCEPT !.ann = Head(wire), !.image = Placeholder])
  /\ UNCHANGED <<hookVars, cache, dirty, opVars, outVars, faults>>

\* The apply fails, or the stream is lost with the command in flight.
AgentDrop ==
  /\ wire # <<>>
  /\ faults < MaxFaults
  /\ faults' = faults + 1
  /\ wire' = Tail(wire)
  /\ UNCHANGED <<hookVars, proj, watch, cache, dirty, opVars, outVars>>

\* The reflector stores the next version and queues a reconcile.
Deliver ==
  /\ watch # <<>>
  /\ cache' = Head(watch)
  /\ watch' = Tail(watch)
  /\ dirty' = TRUE
  /\ UNCHANGED <<hookVars, wire, proj, opVars, outVars, faults>>

\* A Kaniko Job ends; the operator owns Jobs, so their events queue a
\* reconcile.
JobEnds(b, result) ==
  /\ jobs[b] = "running"
  /\ jobs' = [jobs EXCEPT ![b] = result]
  /\ built' = IF result = "succeeded" THEN built \cup {b} ELSE built
  /\ dirty' = TRUE
  /\ UNCHANGED <<hookVars, wire, proj, watch, cache, opVars,
                 previews, deployed, published, faults>>

\* Somebody else deletes a Job.
JobRemoved(b) ==
  /\ jobs[b] # "none"
  /\ faults < MaxFaults
  /\ faults' = faults + 1
  /\ jobs' = [jobs EXCEPT ![b] = "none"]
  /\ dirty' = TRUE
  /\ UNCHANGED <<hookVars, wire, proj, watch, cache, opVars,
                 previews, deployed, built, published>>

-----------------------------------------------------------------------------
(* The operator: reconcile *)

\* The reconcile is over; its locals are dead.
Idle ==
  /\ pc' = "idle"
  /\ app' = Imported
  /\ cur' = NoBuild
  /\ fresh' = FALSE
  /\ obs' = "none"

Goto(l) == pc' = l /\ UNCHANGED <<app, cur, fresh, obs>>

\* status.build is a preview build of the pull request.
MatchingPreviewBuild(p, pr) == p.build.phase # "none" /\ p.build.target = pr

\* Read the cache and enter reconcile_preview_delete_action or pass it.
Start ==
  /\ pc = "idle"
  /\ dirty
  /\ Len(watch) <= MaxLag
  /\ dirty' = FALSE
  /\ app' = cache
  /\ pc' = IF cache.ann.action # "delete" THEN "ttl"
           ELSE IF MatchingPreviewBuild(cache, cache.ann.pr) THEN "cancelJob"
           ELSE "deletePreview"
  /\ UNCHANGED <<hookVars, wire, proj, watch, cache, cur, fresh, obs,
                 outVars, faults>>

\* Delete the Job of the preview build; a failure is only logged.
CancelJob ==
  /\ pc = "cancelJob"
  /\ \/ jobs' = [jobs EXCEPT ![JobOf(app.build)] = "none"] /\ faults' = faults
     \/ faults < MaxFaults /\ faults' = faults + 1 /\ jobs' = jobs
  /\ Goto("cancelStatus")
  /\ UNCHANGED <<hookVars, wire, proj, watch, cache, dirty,
                 previews, deployed, built, published>>

CancelStatus ==
  /\ pc = "cancelStatus"
  /\ Store([proj EXCEPT !.build = NoBuild])
  /\ Goto("deletePreview")
  /\ UNCHANGED <<hookVars, wire, cache, dirty, outVars, faults>>

DeletePreview ==
  /\ pc = "deletePreview"
  /\ previews' = [previews EXCEPT ![app.ann.pr] = NoImage]
  /\ Goto("clearDelete")
  /\ UNCHANGED <<hookVars, wire, proj, watch, cache, dirty,
                 jobs, deployed, built, published, faults>>

\* Null all four annotations, whatever they are by now.
ClearDelete ==
  /\ pc = "clearDelete"
  /\ Store([proj EXCEPT !.ann = NoAnn])
  /\ Idle
  /\ UNCHANGED <<hookVars, wire, cache, dirty, outVars, faults>>

\* reconcile_preview_ttl_cleanup: any of the previews may be past its TTL;
\* a failed delete is ignored.
TtlCleanup ==
  /\ pc = "ttl"
  /\ \E expired \in SUBSET PRs :
       /\ app.previews \/ expired = {}
       /\ previews' = [p \in PRs |-> IF p \in expired THEN NoImage
                                                      ELSE previews[p]]
  /\ Goto(IF app.ann.trigger # NoTrigger /\ app.ann.action = "create"
              /\ ~ app.previews
            THEN "ignore" ELSE "gate")
  /\ UNCHANGED <<hookVars, wire, proj, watch, cache, dirty,
                 jobs, deployed, built, published, faults>>

\* A preview request while previews are disabled: drop the annotations and go
\* on without a new build.
IgnorePreview ==
  /\ pc = "ignore"
  /\ Store([proj EXCEPT !.ann = NoAnn])
  /\ Goto("gate")
  /\ UNCHANGED <<hookVars, wire, cache, dirty, outVars, faults>>

\* Mutant of NewBuild: any pr-number makes the build a preview.
NewBuildAnyPr(p) ==
  IF p.ann.trigger = NoTrigger THEN NoBuild
    ELSE [target |-> p.ann.pr, trigger |-> p.ann.trigger, phase |-> "Pending"]

\* Mutant of NewBuild: no check that previews are enabled.
NewBuildUnchecked(p) ==
  IF p.ann.trigger = NoTrigger THEN NoBuild
    ELSE [target |-> IF p.ann.action = "create" THEN p.ann.pr ELSE Prod,
          trigger |-> p.ann.trigger, phase |-> "Pending"]

\* derive_new_build_status
NewBuild(p) ==
  IF p.ann.trigger = NoTrigger \/ (p.ann.action = "create" /\ ~ p.previews)
    THEN NoBuild
    ELSE [target |-> IF p.ann.action = "create" THEN p.ann.pr ELSE Prod,
          trigger |-> p.ann.trigger, phase |-> "Pending"]

\* A new build first, else the active one; a failed build blocks; otherwise
\* the gate is open.
Gate ==
  /\ pc = "gate"
  /\ \/ /\ NewBuild(app) # NoBuild
        /\ cur' = NewBuild(app) /\ fresh' = TRUE /\ pc' = "job"
        /\ UNCHANGED <<app, obs>>
     \/ /\ NewBuild(app) = NoBuild /\ app.build.phase \in Active
        /\ cur' = app.build /\ fresh' = FALSE /\ pc' = "job"
        /\ UNCHANGED <<app, obs>>
     \/ /\ NewBuild(app) = NoBuild /\ app.build.phase = "Failed"
        /\ Idle
     \/ /\ NewBuild(app) = NoBuild /\ app.build.phase \in {"none", "Succeeded"}
        /\ Goto("rollout")
  /\ UNCHANGED <<hookVars, wire, proj, watch, cache, dirty, outVars, faults>>

\* Get the Job, or create it for a new build.
GetJob ==
  /\ pc = "job"
  /\ jobs[JobOf(cur)] # "none" \/ fresh
  /\ jobs' = [jobs EXCEPT ![JobOf(cur)] = IF @ = "none" THEN "running" ELSE @]
  /\ obs' = jobs'[JobOf(cur)]
  /\ pc' = IF fresh THEN "pend" ELSE "decide"
  /\ UNCHANGED <<hookVars, wire, proj, watch, cache, dirty, app, cur, fresh,
                 previews, deployed, built, published, faults>>

\* The Job of a build under way is gone: BuildJobMissing.
JobMissing ==
  /\ pc = "job"
  /\ jobs[JobOf(cur)] = "none"
  /\ ~ fresh
  /\ Store([proj EXCEPT !.build = [cur EXCEPT !.phase = "Failed"]])
  /\ Idle
  /\ UNCHANGED <<hookVars, wire, cache, dirty, outVars, faults>>

\* Record the new build, then null the annotations that asked for it.
Pend ==
  /\ pc = "pend"
  /\ Store([proj EXCEPT !.build = cur])
  /\ Goto("clear")
  /\ UNCHANGED <<hookVars, wire, cache, dirty, outVars, faults>>

\* Mutant of Clear: the request is left on the Project.
ClearForgotten ==
  /\ pc = "clear"
  /\ Goto("decide")
  /\ UNCHANGED <<hookVars, wire, proj, watch, cache, dirty, outVars, faults>>

Clear ==
  /\ pc = "clear"
  /\ Store([proj EXCEPT !.ann = NoAnn])
  /\ Goto("decide")
  /\ UNCHANGED <<hookVars, wire, cache, dirty, outVars, faults>>

\* Mutant of Decide: a Job that has not failed is taken for a success.
DecideEager ==
  /\ pc = "decide"
  /\ \/ /\ obs = "failed"
        /\ Store([proj EXCEPT !.build = [cur EXCEPT !.phase = "Failed"]])
        /\ Idle
     \/ /\ obs # "failed"
        /\ Goto("publish")
        /\ UNCHANGED <<proj, watch>>
  /\ UNCHANGED <<hookVars, wire, cache, dirty, outVars, faults>>

\* Mutant of Decide: the success is recorded before the image is published.
DecideMarksFirst ==
  /\ pc = "decide"
  /\ \/ /\ obs # "succeeded"
        /\ Store([proj EXCEPT !.build = [cur EXCEPT !.phase =
                    IF obs = "failed" THEN "Failed" ELSE "Running"]])
        /\ dirty' = TRUE
        /\ Idle
     \/ /\ obs = "succeeded"
        /\ Goto("mark")
        /\ UNCHANGED <<proj, watch, dirty>>
  /\ UNCHANGED <<hookVars, wire, cache, outVars, faults>>

\* Mutant of Decide: no requeue while the Job runs.
DecideAwaits ==
  /\ pc = "decide"
  /\ \/ /\ obs # "succeeded"
        /\ Store([proj EXCEPT !.build = [cur EXCEPT !.phase =
                    IF obs = "failed" THEN "Failed" ELSE "Running"]])
        /\ Idle
     \/ /\ obs = "succeeded"
        /\ Goto("publish")
        /\ UNCHANGED <<proj, watch>>
  /\ UNCHANGED <<hookVars, wire, cache, dirty, outVars, faults>>

\* build_decision_from_job_state, on the Job state read earlier.  Waiting asks
\* for a requeue.
Decide ==
  /\ pc = "decide"
  /\ \/ /\ obs = "running"
        /\ Store([proj EXCEPT !.build = [cur EXCEPT !.phase = "Running"]])
        /\ dirty' = TRUE
        /\ Idle
     \/ /\ obs = "failed"
        /\ Store([proj EXCEPT !.build = [cur EXCEPT !.phase = "Failed"]])
        /\ Idle
        /\ UNCHANGED dirty
     \/ /\ obs = "succeeded"
        /\ Goto("publish")
        /\ UNCHANGED <<proj, watch, dirty>>
  /\ UNCHANGED <<hookVars, wire, cache, outVars, faults>>

\* patch_project_image or reconcile_preview_from_build
Publish ==
  /\ pc = "publish"
  /\ published' = published \cup {JobOf(cur)}
  /\ \/ /\ cur.target = Prod
        /\ Store([proj EXCEPT !.image = JobOf(cur)])
        /\ UNCHANGED previews
     \/ /\ cur.target # Prod
        /\ previews' = [previews EXCEPT ![cur.target] = JobOf(cur)]
        /\ UNCHANGED <<proj, watch>>
  /\ Goto("mark")
  /\ UNCHANGED <<hookVars, wire, cache, dirty, jobs, deployed, built, faults>>

MarkSucceeded ==
  /\ pc = "mark"
  /\ Store([proj EXCEPT !.build = [cur EXCEPT !.phase = "Succeeded"]])
  /\ Idle
  /\ UNCHANGED <<hookVars, wire, cache, dirty, outVars, faults>>

\* Apply the Deployment with the image of the copy.
Rollout ==
  /\ pc = "rollout"
  /\ deployed' = app.image
  /\ Goto("status")
  /\ UNCHANGED <<hookVars, wire, proj, watch, cache, dirty,
                 jobs, previews, built, published, faults>>

\* build_status and update_status write back the build of the copy; a missing
\* one is not serialised, so the merge patch leaves it alone.
UpdateStatus ==
  /\ pc = "status"
  /\ Store(IF app.build = NoBuild THEN proj
             ELSE [proj EXCEPT !.build = app.build])
  /\ Idle
  /\ UNCHANGED <<hookVars, wire, cache, dirty, outVars, faults>>

\* A call fails: the error policy queues a retry.
CallFails ==
  /\ pc # "idle"
  /\ faults < MaxFaults
  /\ faults' = faults + 1
  /\ dirty' = TRUE
  /\ Idle
  /\ UNCHANGED <<hookVars, wire, proj, watch, cache, outVars>>

\* The operator restarts: its cache starts from a fresh list.
Restart ==
  /\ faults < MaxFaults
  /\ faults' = faults + 1
  /\ cache' = proj
  /\ watch' = <<>>
  /\ dirty' = TRUE
  /\ Idle
  /\ UNCHANGED <<hookVars, wire, proj, outVars>>

PreviewDelete == CancelJob \/ CancelStatus \/ DeletePreview \/ ClearDelete
SourceBuild ==
  IgnorePreview \/ Gate \/ GetJob \/ JobMissing \/ Pend \/ Clear \/ Decide
Reconcile ==
  \/ Start \/ PreviewDelete \/ TtlCleanup \/ SourceBuild
  \/ Publish \/ MarkSucceeded \/ Rollout \/ UpdateStatus

Next ==
  \/ \E h \in Hooks : Webhook(h)
  \/ AgentApply \/ AgentDrop
  \/ Deliver
  \/ \E b \in Builds : \/ \E r \in {"succeeded", "failed"} : JobEnds(b, r)
                       \/ JobRemoved(b)
  \/ Reconcile
  \/ CallFails \/ Restart

Spec == Init /\ [][Next]_vars

\* Tasks are scheduled, the agent and the watch make progress, and a Kaniko
\* Job ends.  Faults are not fair.
Fairness ==
  /\ \A h \in Hooks : WF_vars(HookWrite(h) \/ HookSend(h))
  /\ WF_vars(AgentApply)
  /\ WF_vars(Deliver)
  /\ \A b \in Builds : WF_vars(JobEnds(b, "succeeded") \/ JobEnds(b, "failed"))
  /\ WF_vars(Reconcile)

FairSpec == Spec /\ Fairness

-----------------------------------------------------------------------------
(* Properties *)

\* Production only ever points at, or runs, the placeholder or an image whose
\* Kaniko Job succeeded as a production build; a preview only runs an image
\* built for its own pull request.  The gate works on a Job state and a copy
\* of the Project that may be stale when patch_project_image, the preview
\* apply and the Deployment apply use them.
OnlyBuiltImages ==
  /\ \A i \in {proj.image, deployed} \ {Placeholder, NoImage} :
       i \in built /\ i[1] = Prod
  /\ \A p \in PRs : previews[p] # NoImage =>
       previews[p] \in built /\ previews[p][1] = p

\* A build recorded as succeeded has had its image published: a crash between
\* the image patch and mark_build_succeeded must not lose the image.
SucceededIsPublished ==
  proj.build.phase = "Succeeded" => JobOf(proj.build) \in published

\* Once deliveries and faults stop, the requests are consumed and production
\* runs the image the Project names, unless the last build failed: every
\* reconcile that ends with await_change is followed by an event while there
\* is something left to do.
Converges ==
  <>[](/\ proj.ann = NoAnn
       /\ \/ proj.build.phase = "Failed"
          \/ proj.build.phase \notin Active /\ deployed = proj.image)

\* An active build is always backed by something that will look at it again:
\* a running reconcile, a queued request or a version still to be delivered.
ActiveIsWatched ==
  proj.build.phase \in Active => pc # "idle" \/ dirty \/ watch # <<>>

\* With previews disabled a pull request builds nothing and leaves no preview,
\* although its request passes through the Project like any other.
DisabledPreviewsIgnored ==
  ~ proj.previews =>
    /\ \A b \in Builds : jobs[b] # "none" => b[1] = Prod
    /\ \A p \in PRs : previews[p] = NoImage

-----------------------------------------------------------------------------
(* The inductive invariant *)

\* A preview action comes with the number of its pull request.
SoundAnn(a) == a.action # "none" => a.pr \in PRs

AnnsSound ==
  /\ SoundAnn(row.ann)
  /\ \A h \in Hooks : SoundAnn(snap[h])
  /\ \A i \in 1 .. Len(wire) : SoundAnn(wire[i])

\* A copy of the Project names only images of production builds that
\* succeeded, and records only builds that were asked for and successes that
\* were published.
SoundCopy(p) ==
  /\ SoundAnn(p.ann)
  /\ p.image # Placeholder => p.image \in built /\ p.image[1] = Prod
  /\ p.build.phase # "none" =>
       p.build.trigger # NoTrigger /\ (p.previews \/ p.build.target = Prod)
  /\ p.build.phase = "Succeeded" => JobOf(p.build) \in published

CopiesSound ==
  /\ SoundCopy(proj) /\ SoundCopy(cache) /\ SoundCopy(app)
  /\ cache.previews = proj.previews
  /\ pc # "idle" => app.previews = proj.previews
  /\ \A i \in 1 .. Len(watch) :
       SoundCopy(watch[i]) /\ watch[i].previews = proj.previews

\* What the operator leaves behind.
OutputsSound ==
  /\ published \subseteq built
  /\ \A b \in Builds : jobs[b] = "succeeded" => b \in built
  /\ \A b \in Builds : jobs[b] # "none" => proj.previews \/ b[1] = Prod
  /\ deployed \notin {Placeholder, NoImage} =>
       deployed \in built /\ deployed[1] = Prod
  /\ \A p \in PRs : previews[p] # NoImage =>
       previews[p] \in built /\ previews[p][1] = p /\ proj.previews

\* What the running reconcile relies on.
LocalsSound ==
  /\ pc \in {"cancelJob", "cancelStatus", "deletePreview", "clearDelete"} =>
       app.ann.action = "delete"
  /\ pc \in {"job", "pend", "clear", "decide", "publish", "mark"} =>
       /\ cur.trigger # NoTrigger /\ cur.phase \in Active
       /\ proj.previews \/ cur.target = Prod
  /\ obs = "succeeded" => /\ pc \in {"pend", "clear", "decide", "publish", "mark"}
                          /\ JobOf(cur) \in built
  /\ pc = "publish" => obs = "succeeded"
  /\ pc = "mark" => JobOf(cur) \in published
  /\ pc \in {"rollout", "status"} => app.build.phase \notin Active

\* The watch ends with the current version; with nothing queued and nothing
\* under way to the cache, a reconcile works on the current version.
CacheFollows ==
  /\ watch = <<>> => cache = proj
  /\ watch # <<>> => watch[Len(watch)] = proj
  /\ watch = <<>> /\ ~ dirty /\ pc # "idle" => app = proj

IInv ==
  /\ TypeOK
  /\ AnnsSound /\ CopiesSound /\ OutputsSound /\ LocalsSound
  /\ CacheFollows /\ ActiveIsWatched

-----------------------------------------------------------------------------
(* What holds when the operator has nothing left to do *)

\* No request is queued and no version is on its way to the cache.
Quiet == ~dirty /\ watch = <<>>

\* The safety half of Converges: an operator that waits for an event has
\* consumed the requests on the Project, and production runs the image the
\* Project names unless the last build failed.  No wake-up is missing, whatever
\* was delivered, overwritten, deleted or failed before.
RestIsConverged ==
  pc = "idle" /\ Quiet =>
    /\ proj.ann = NoAnn
    /\ \/ proj.build.phase = "Failed"
       \/ proj.build.phase \notin Active /\ deployed = proj.image

\* Annotations ask for a build or a deletion, or all of them are gone.
Asks(a) == a.trigger # NoTrigger \/ a.action = "delete" \/ a = NoAnn

RequestsAsk ==
  /\ Asks(row.ann)
  /\ \A h \in Hooks : Asks(snap[h])
  /\ \A i \in 1 .. Len(wire) : Asks(wire[i])
  /\ Asks(proj.ann) /\ Asks(cache.ann) /\ Asks(app.ann)
  /\ \A i \in 1 .. Len(watch) : Asks(watch[i].ann)

\* Where a reconcile is says what its copy asked for and which build it holds.
OnItsWay ==
  /\ pc \in {"ttl", "ignore", "gate"} => app.ann.action # "delete"
  /\ pc = "ignore" \/ fresh => app.ann.trigger # NoTrigger
  /\ fresh => pc \in {"job", "pend", "clear", "decide", "publish", "mark"}
  /\ pc \in {"pend", "clear"} => fresh
  /\ pc \in {"job", "decide", "publish", "mark"} /\ ~fresh =>
       cur = app.build /\ cur.phase \in Active

\* A reconcile that has written nothing yet, on the current version.
StepsDone ==
  Quiet =>
    /\ pc = "gate" =>
         ~(app.ann.trigger # NoTrigger /\ app.ann.action = "create" /\ ~app.previews)
    /\ pc \in {"decide", "publish", "mark"} => ~fresh
    /\ pc \in {"rollout", "status"} => app.ann = NoAnn
    /\ pc = "status" => deployed = app.image

RestInv == RequestsAsk /\ OnItsWay /\ StepsDone /\ RestIsConverged

-----------------------------------------------------------------------------
(* What the repository says and the code does not do *)

\* docs/architecture/deployment-flow.md: the running workload keeps its
\* previous image while a build is pending or failed, so a Deployment that
\* runs a built image never goes back to the placeholder.
KeepsBuiltImage == [][(deployed \in built) => (deployed' \in built)]_vars

\* docs/architecture/deployment-flow.md: when the manifest carries a build
\* trigger, the operator creates its Kaniko Job; unless a later manifest
\* replaces the request first.
TriggerIsBuilt ==
  \A s \in Triggers :
    proj.ann.trigger = s ~>
      \/ \E t \in Targets : jobs[<<t, s>>] # "none"
      \/ proj.ann.trigger \notin {s, NoTrigger}
      \/ proj.ann.action = "delete"
=============================================================================
