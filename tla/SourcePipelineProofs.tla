------------------------ MODULE SourcePipelineProofs ------------------------
(***************************************************************************)
(* Proofs about SourcePipeline, for every set of deliveries and every      *)
(* bound on deliveries, faults and lag.                                    *)
(***************************************************************************)
EXTENDS SourcePipeline, TLAPS

-----------------------------------------------------------------------------
(* The fields of a Project *)

LEMMA Constants ==
  /\ NoAnn \in Anns /\ SoundAnn(NoAnn)
  /\ NoBuild \in BuildStatus /\ NoBuild.phase = "none"
  /\ Imported \in Projects /\ Imported.build.phase = "none"
  /\ Imported.image = Placeholder /\ SoundAnn(Imported.ann)
BY PipelineAssumption
   DEF NoAnn, Anns, SoundAnn, NoBuild, BuildStatus, Targets, Phases, Imported,
       Projects, Triggers, Shas

LEMMA PutAnn ==
  ASSUME NEW q \in Projects, NEW a \in Anns, NEW p, p = [q EXCEPT !.ann = a]
  PROVE  /\ p \in Projects /\ p.ann = a /\ p.image = q.image
         /\ p.build = q.build /\ p.previews = q.previews
BY DEF Projects

LEMMA PutImage ==
  ASSUME NEW q \in Projects, NEW i \in Builds \cup {Placeholder}, NEW p,
         p = [q EXCEPT !.image = i]
  PROVE  /\ p \in Projects /\ p.ann = q.ann /\ p.image = i
         /\ p.build = q.build /\ p.previews = q.previews
BY DEF Projects

LEMMA PutBuild ==
  ASSUME NEW q \in Projects, NEW b \in BuildStatus, NEW p, p = [q EXCEPT !.build = b]
  PROVE  /\ p \in Projects /\ p.ann = q.ann /\ p.image = q.image
         /\ p.build = b /\ p.previews = q.previews
BY DEF Projects

LEMMA PutPhase ==
  ASSUME NEW b \in BuildStatus, NEW f \in Phases, NEW c, c = [b EXCEPT !.phase = f]
  PROVE  /\ c \in BuildStatus /\ c.phase = f
         /\ c.target = b.target /\ c.trigger = b.trigger
BY DEF BuildStatus

\* The Job of a build that was asked for.
LEMMA JobOfBuild ==
  ASSUME NEW b \in BuildStatus, b.trigger # NoTrigger
  PROVE  JobOf(b) \in Builds /\ JobOf(b)[1] = b.target
BY DEF JobOf, BuildStatus, Builds

\* derive_new_build_status makes a build of what the annotations ask for.
LEMMA NewBuildSound ==
  ASSUME NEW p \in Projects, SoundAnn(p.ann)
  PROVE  /\ NewBuild(p) \in BuildStatus
         /\ NewBuild(p) # NoBuild =>
              /\ NewBuild(p).trigger # NoTrigger /\ NewBuild(p).phase = "Pending"
              /\ p.previews \/ NewBuild(p).target = Prod
<1>1. CASE p.ann.trigger = NoTrigger \/ (p.ann.action = "create" /\ ~ p.previews)
  BY <1>1, Constants DEF NewBuild
<1>2. CASE ~ (p.ann.trigger = NoTrigger \/ (p.ann.action = "create" /\ ~ p.previews))
  <2> DEFINE t == IF p.ann.action = "create" THEN p.ann.pr ELSE Prod
             b == [target |-> t, trigger |-> p.ann.trigger, phase |-> "Pending"]
  <2>1. NewBuild(p) = b
    BY <1>2 DEF NewBuild
  <2>2. t \in Targets /\ (p.previews \/ t = Prod)
    BY <1>2 DEF SoundAnn, Targets
  <2>3. p.ann.trigger \in Triggers
    BY <1>2 DEF Projects, Anns
  <2>4. p.ann.trigger # NoTrigger
    BY <1>2
  <2> HIDE DEF t
  <2>5. b \in BuildStatus
    BY <2>2, <2>3 DEF BuildStatus, Phases, Active
  <2> QED BY <2>1, <2>2, <2>4, <2>5
<1> QED BY <1>1, <1>2

\* A webhook action leaves annotations that belong together.
LEMMA HookAnn ==
  ASSUME NEW a \in Anns, SoundAnn(a), NEW h \in Hooks
  PROVE  ApplyWebhookAction(a, h) \in Anns /\ SoundAnn(ApplyWebhookAction(a, h))
<1>1. CASE h \in [kind : {"push"}, pr : {NoPr}, sha : Pushes]
  <2>1. ApplyWebhookAction(a, h) = [a EXCEPT !.trigger = h.sha] /\ h.sha \in Triggers
    BY <1>1 DEF ApplyWebhookAction, WithBuildTrigger, Triggers, Shas
  <2> QED BY <2>1 DEF Anns, SoundAnn
<1>2. CASE h \in {[kind |-> "open", pr |-> o[1], sha |-> o[2]] : o \in Opened}
  <2>1. /\ ApplyWebhookAction(a, h) = [trigger |-> h.sha, action |-> "create", pr |-> h.pr]
        /\ h.sha \in Triggers /\ h.pr \in PRs
    BY <1>2 DEF ApplyWebhookAction, WithPreviewCreate, Triggers, Shas, PRs
  <2> QED BY <2>1 DEF Anns, SoundAnn
<1>3. CASE h \in [kind : {"close"}, pr : Closed, sha : {NoTrigger}]
  <2>1. /\ ApplyWebhookAction(a, h) = [trigger |-> NoTrigger, action |-> "delete", pr |-> h.pr]
        /\ h.pr \in PRs
    BY <1>3 DEF ApplyWebhookAction, WithPreviewDelete, PRs
  <2> QED BY <2>1 DEF Anns, SoundAnn
<1> QED BY <1>1, <1>2, <1>3 DEF Hooks

-----------------------------------------------------------------------------
(* Every write of the Project is sound *)

\* The history only grows.
Grows == built \subseteq built' /\ published \subseteq published'

LEMMA HistoryGrows == [Next]_vars => Grows
<1> SUFFICES ASSUME [Next]_vars PROVE Grows
  OBVIOUS
<1>1. ASSUME UNCHANGED <<built, published>> PROVE Grows
  BY <1>1 DEF Grows
<1>2. CASE \E h \in Hooks : Webhook(h)
  BY <1>1, <1>2 DEF Webhook, HookRead, HookWrite, HookSend, HookFail, HookAbort, outVars
<1>3. CASE AgentApply \/ AgentDrop \/ Deliver \/ CallFails \/ Restart \/ UNCHANGED vars
  BY <1>1, <1>3 DEF AgentApply, AgentDrop, Deliver, CallFails, Restart, vars, outVars
<1>4. CASE \E b \in Builds : JobRemoved(b) \/ \E r \in {"succeeded", "failed"} : JobEnds(b, r)
  BY <1>4 DEF JobEnds, JobRemoved, Grows
<1>5. CASE Publish
  BY <1>5 DEF Publish, Grows
<1>6. CASE Start \/ TtlCleanup \/ MarkSucceeded \/ Rollout \/ UpdateStatus
  BY <1>1, <1>6 DEF Start, TtlCleanup, MarkSucceeded, Rollout, UpdateStatus, outVars
<1>7. CASE PreviewDelete
  BY <1>1, <1>7 DEF PreviewDelete, CancelJob, CancelStatus, DeletePreview, ClearDelete, outVars
<1>8. CASE SourceBuild
  BY <1>1, <1>8 DEF SourceBuild, IgnorePreview, Gate, GetJob, JobMissing, Pend, Clear, Decide, outVars
<1> QED BY <1>2, <1>3, <1>4, <1>5, <1>6, <1>7, <1>8 DEF Next, Reconcile

LEMMA CopyStays ==
  ASSUME Grows, NEW q, SoundCopy(q)
  PROVE  SoundCopy(q)'
BY DEF SoundCopy, Grows

\* A step writes nothing, or a sound Project with the same preview setting.
Writes(p) ==
  /\ p \in Projects /\ p.previews = proj.previews
  /\ SoundCopy(p)'
  /\ Store(p)

\* The three kinds of writes.
LEMMA WritesAnn ==
  ASSUME TypeOK, Grows, SoundCopy(proj), NEW a \in Anns, SoundAnn(a),
         Store([proj EXCEPT !.ann = a])
  PROVE  \E p : Writes(p)
<1>1. PICK p, q : q = proj /\ p = [q EXCEPT !.ann = a]
  OBVIOUS
<1>2. /\ p \in Projects /\ p.ann = a /\ p.image = q.image
      /\ p.build = q.build /\ p.previews = q.previews
  BY <1>1, PutAnn DEF TypeOK
<1>3. SoundCopy(q)'
  BY <1>1, CopyStays
<1>4. SoundCopy(p)'
  BY <1>2, <1>3 DEF SoundCopy
<1> QED BY <1>1, <1>2, <1>4 DEF Writes

LEMMA WritesBuild ==
  ASSUME TypeOK, Grows, SoundCopy(proj), NEW b \in BuildStatus,
         b.phase # "none" =>
           b.trigger # NoTrigger /\ (proj.previews \/ b.target = Prod),
         b.phase = "Succeeded" => JobOf(b) \in published,
         Store([proj EXCEPT !.build = b])
  PROVE  \E p : Writes(p)
<1>1. PICK p, q : q = proj /\ p = [q EXCEPT !.build = b]
  OBVIOUS
<1>2. /\ p \in Projects /\ p.ann = q.ann /\ p.image = q.image
      /\ p.build = b /\ p.previews = q.previews
  BY <1>1, PutBuild DEF TypeOK
<1>3. SoundCopy(q)'
  BY <1>1, CopyStays
<1>4. SoundCopy(p)'
  BY <1>1, <1>2, <1>3 DEF SoundCopy, Grows
<1> QED BY <1>1, <1>2, <1>4 DEF Writes

\* A new phase for the build in hand.
LEMMA WritesPhase ==
  ASSUME IInv, Grows, pc \in {"job", "pend", "clear", "decide", "publish", "mark"},
         NEW f \in Phases, f = "Succeeded" => JobOf(cur) \in published,
         Store([proj EXCEPT !.build = [cur EXCEPT !.phase = f]])
  PROVE  \E p : Writes(p)
<1>1. TypeOK /\ SoundCopy(proj) /\ LocalsSound
  BY DEF IInv, CopiesSound
<1>2. PICK b : b = [cur EXCEPT !.phase = f]
  OBVIOUS
<1>3. b \in BuildStatus /\ b.phase = f /\ b.target = cur.target /\ b.trigger = cur.trigger
  BY <1>1, <1>2, PutPhase DEF TypeOK
<1>4. b.trigger # NoTrigger /\ (proj.previews \/ b.target = Prod) /\ JobOf(b) = JobOf(cur)
  BY <1>1, <1>3 DEF LocalsSound, JobOf
<1>5. Store([proj EXCEPT !.build = b])
  BY <1>2
<1> QED BY <1>1, <1>3, <1>4, <1>5, WritesBuild

LEMMA WriteSound ==
  ASSUME IInv, Next, ~ Deliver, ~ Restart
  PROVE  UNCHANGED <<proj, watch>> \/ \E p : Writes(p)
<1>t. TypeOK /\ AnnsSound /\ SoundCopy(proj) /\ SoundCopy(app) /\ LocalsSound
  BY DEF IInv, CopiesSound
<1>g. Grows
  BY HistoryGrows
<1>c. NoAnn \in Anns /\ SoundAnn(NoAnn) /\ NoBuild \in BuildStatus /\ NoBuild.phase = "none"
  BY Constants
<1>1. CASE AgentApply
  <2>1. PICK a, p, q : a = Head(wire) /\ q = [proj EXCEPT !.ann = a]
                       /\ p = [q EXCEPT !.image = Placeholder]
    OBVIOUS
  <2>2. a \in Anns /\ SoundAnn(a)
    <3>1. wire \in Seq(Anns) /\ wire # <<>>
      BY <1>t, <1>1 DEF AgentApply, TypeOK
    <3>2. a = wire[1] /\ 1 \in 1 .. Len(wire) /\ a \in Anns
      BY <2>1, <3>1
    <3> QED BY <1>t, <3>2 DEF AnnsSound
  <2>3. /\ q \in Projects /\ q.ann = a /\ q.image = proj.image
        /\ q.build = proj.build /\ q.previews = proj.previews
    BY <1>t, <2>1, <2>2, PutAnn DEF TypeOK
  <2>4. /\ p \in Projects /\ p.ann = a /\ p.image = Placeholder
        /\ p.build = proj.build /\ p.previews = proj.previews
    <3>1. PICK i : i = Placeholder /\ i \in Builds \cup {Placeholder}
      OBVIOUS
    <3>2. p = [q EXCEPT !.image = i]
      BY <2>1, <3>1
    <3> QED BY <2>3, <3>1, <3>2, PutImage
  <2>5. SoundCopy(p)
    BY <1>t, <2>2, <2>4 DEF SoundCopy
  <2>6. Store(p)
    BY <1>1, <2>1 DEF AgentApply
  <2> QED BY <1>g, <2>4, <2>5, <2>6, CopyStays DEF Writes
<1>2. CASE ClearDelete \/ IgnorePreview \/ Clear
  <2>1. Store([proj EXCEPT !.ann = NoAnn])
    BY <1>2 DEF ClearDelete, IgnorePreview, Clear
  <2> QED BY <1>t, <1>g, <1>c, <2>1, WritesAnn
<1>3. CASE CancelStatus
  BY <1>t, <1>g, <1>c, <1>3, WritesBuild DEF CancelStatus
<1>4. CASE JobMissing
  <2>1. Store([proj EXCEPT !.build = [cur EXCEPT !.phase = "Failed"]]) /\ pc = "job"
    BY <1>4 DEF JobMissing
  <2> QED BY <1>g, <2>1, WritesPhase DEF Phases
<1>5. CASE Decide
  <2>1. CASE obs = "running"
    <3>1. Store([proj EXCEPT !.build = [cur EXCEPT !.phase = "Running"]]) /\ pc = "decide"
      BY <1>5, <2>1 DEF Decide
    <3> QED BY <1>g, <3>1, WritesPhase DEF Phases, Active
  <2>2. CASE obs = "failed"
    <3>1. Store([proj EXCEPT !.build = [cur EXCEPT !.phase = "Failed"]]) /\ pc = "decide"
      BY <1>5, <2>2 DEF Decide
    <3> QED BY <1>g, <3>1, WritesPhase DEF Phases
  <2>3. CASE obs = "succeeded"
    BY <1>5, <2>3 DEF Decide
  <2> QED BY <1>5, <2>1, <2>2, <2>3 DEF Decide
<1>6. CASE Pend
  <2>1. PICK b : b = cur
    OBVIOUS
  <2>2. /\ b \in BuildStatus /\ b.phase \in Active /\ b.trigger # NoTrigger
        /\ proj.previews \/ b.target = Prod
    BY <1>t, <1>6, <2>1 DEF Pend, LocalsSound, TypeOK
  <2>3. Store([proj EXCEPT !.build = b])
    BY <1>6, <2>1 DEF Pend
  <2> QED BY <1>t, <1>g, <2>2, <2>3, WritesBuild DEF Active
<1>7. CASE Publish
  <2>1. CASE cur.target # Prod
    BY <1>7, <2>1 DEF Publish
  <2>2. CASE cur.target = Prod
    <3>1. PICK i, q, p : i = JobOf(cur) /\ q = proj /\ p = [q EXCEPT !.image = i]
      OBVIOUS
    <3>2. i \in Builds /\ i[1] = Prod
      BY <1>t, <1>7, <2>2, <3>1, JobOfBuild DEF Publish, LocalsSound, TypeOK
    <3>3. i \in built
      BY <1>t, <1>7, <3>1 DEF Publish, LocalsSound
    <3>4. /\ p \in Projects /\ p.ann = q.ann /\ p.image = i
          /\ p.build = q.build /\ p.previews = q.previews
      BY <1>t, <3>1, <3>2, PutImage DEF TypeOK
    <3>5. SoundCopy(q)
      BY <1>t, <3>1
    <3>6. SoundCopy(p)
      BY <3>2, <3>3, <3>4, <3>5 DEF SoundCopy
    <3>7. Store(p)
      BY <1>7, <2>2, <3>1 DEF Publish
    <3> QED BY <1>g, <3>1, <3>4, <3>6, <3>7, CopyStays DEF Writes
  <2> QED BY <2>1, <2>2
<1>8. CASE MarkSucceeded
  <2>1. Store([proj EXCEPT !.build = [cur EXCEPT !.phase = "Succeeded"]]) /\ pc = "mark"
    BY <1>8 DEF MarkSucceeded
  <2>2. JobOf(cur) \in published
    BY <1>t, <2>1 DEF LocalsSound
  <2> QED BY <1>g, <2>1, <2>2, WritesPhase DEF Phases
<1>9. CASE UpdateStatus
  <2>1. CASE app.build = NoBuild
    BY <1>9, <2>1 DEF UpdateStatus, Store
  <2>2. CASE app.build # NoBuild
    <3>1. PICK b : b = app.build
      OBVIOUS
    <3>2. app.previews = proj.previews /\ b \in BuildStatus
      BY <1>9, <3>1, <1>t DEF UpdateStatus, IInv, CopiesSound, TypeOK, Projects
    <3>3. /\ b.phase # "none" => b.trigger # NoTrigger /\ (proj.previews \/ b.target = Prod)
          /\ b.phase = "Succeeded" => JobOf(b) \in published
      BY <1>t, <3>1, <3>2 DEF SoundCopy
    <3>4. Store([proj EXCEPT !.build = b])
      BY <1>9, <2>2, <3>1 DEF UpdateStatus
    <3> QED BY <1>t, <1>g, <3>2, <3>3, <3>4, WritesBuild
  <2> QED BY <2>1, <2>2
<1>10. CASE \E h \in Hooks : Webhook(h)
  BY <1>10 DEF Webhook, HookRead, HookWrite, HookSend, HookFail, HookAbort
<1>11. CASE AgentDrop \/ CallFails \/ Start \/ TtlCleanup \/ Rollout
            \/ CancelJob \/ DeletePreview \/ Gate \/ GetJob
  BY <1>11 DEF AgentDrop, CallFails, Start, TtlCleanup, Rollout, CancelJob, DeletePreview,
               Gate, GetJob
<1>12. CASE \E b \in Builds : JobRemoved(b) \/ \E r \in {"succeeded", "failed"} : JobEnds(b, r)
  BY <1>12 DEF JobEnds, JobRemoved
<1> QED
  BY <1>1, <1>2, <1>3, <1>4, <1>5, <1>6, <1>7, <1>8, <1>9, <1>10, <1>11, <1>12
     DEF Next, Reconcile, PreviewDelete, SourceBuild

-----------------------------------------------------------------------------
(* The dashboard and the wire *)

HooksSound ==
  /\ row \in [ann : Anns, status : {"pending", "error"}]
  /\ hook \in [Hooks -> {"idle", "read", "written", "done", "error"}]
  /\ snap \in [Hooks -> Anns]
  /\ wire \in Seq(Anns)
  /\ AnnsSound

LEMMA HooksStep ==
  ASSUME IInv, [Next]_vars
  PROVE  HooksSound'
<1>t. HooksSound
  BY DEF IInv, TypeOK, HooksSound
<1>c. NoAnn \in Anns /\ SoundAnn(NoAnn)
  BY Constants
<1>1. ASSUME UNCHANGED <<row, hook, snap, wire>> PROVE HooksSound'
  BY <1>1, <1>t DEF HooksSound, AnnsSound
<1>2. ASSUME NEW h \in Hooks, Webhook(h) PROVE HooksSound'
  <2>1. CASE HookRead(h)
    <3>1. PICK a : a = ApplyWebhookAction(row.ann, h)
      OBVIOUS
    <3>2. a \in Anns /\ SoundAnn(a)
      BY <1>t, <3>1, HookAnn DEF HooksSound, AnnsSound
    <3> QED BY <1>t, <2>1, <3>1, <3>2 DEF HookRead, HooksSound, AnnsSound
  <2>2. CASE HookWrite(h)
    BY <1>t, <2>2 DEF HookWrite, HooksSound, AnnsSound
  <2>3. CASE HookSend(h)
    <3>1. PICK a : a = snap[h]
      OBVIOUS
    <3>2. a \in Anns /\ SoundAnn(a)
      BY <1>t, <3>1 DEF HooksSound, AnnsSound
    <3>3. /\ wire' \in Seq(Anns) /\ Len(wire') = Len(wire) + 1 /\ Len(wire) \in Nat
          /\ wire'[Len(wire) + 1] = a
          /\ \A i \in 1 .. Len(wire) : wire'[i] = wire[i]
      BY <1>t, <2>3, <3>1, <3>2 DEF HookSend, HooksSound
    <3>4. \A i \in 1 .. Len(wire') : SoundAnn(wire'[i])
      BY <1>t, <3>2, <3>3 DEF HooksSound, AnnsSound
    <3> QED BY <1>t, <1>c, <2>3, <3>3, <3>4 DEF HookSend, HooksSound, AnnsSound
  <2>4. CASE HookFail(h)
    BY <1>t, <1>c, <2>4 DEF HookFail, HooksSound, AnnsSound
  <2>5. CASE HookAbort(h)
    BY <1>t, <1>c, <2>5 DEF HookAbort, HooksSound, AnnsSound
  <2> QED BY <1>2, <2>1, <2>2, <2>3, <2>4, <2>5 DEF Webhook
<1>3. CASE AgentApply \/ AgentDrop
  <2>1. wire # <<>> /\ wire' = Tail(wire) /\ UNCHANGED <<row, hook, snap>>
    BY <1>3 DEF AgentApply, AgentDrop, hookVars
  <2>2. /\ wire' \in Seq(Anns) /\ Len(wire') = Len(wire) - 1 /\ Len(wire) \in Nat
        /\ \A i \in 1 .. Len(wire') : wire'[i] = wire[i + 1]
    BY <1>t, <2>1 DEF HooksSound
  <2>3. \A i \in 1 .. Len(wire') : SoundAnn(wire'[i])
    BY <1>t, <2>2 DEF HooksSound, AnnsSound
  <2> QED BY <1>t, <2>1, <2>2, <2>3 DEF HooksSound, AnnsSound
<1>4. CASE Deliver \/ CallFails \/ Restart \/ UNCHANGED vars
  BY <1>1, <1>4 DEF Deliver, CallFails, Restart, vars, hookVars
<1>5. CASE \E b \in Builds : JobRemoved(b) \/ \E r \in {"succeeded", "failed"} : JobEnds(b, r)
  BY <1>1, <1>5 DEF JobEnds, JobRemoved, hookVars
<1>6. CASE Reconcile
  BY <1>1, <1>6 DEF Reconcile, PreviewDelete, SourceBuild, Start, TtlCleanup, MarkSucceeded,
     Rollout, UpdateStatus, Publish, CancelJob, CancelStatus, DeletePreview, ClearDelete,
     IgnorePreview, Gate, GetJob, JobMissing, Pend, Clear, Decide, hookVars
<1> QED BY <1>2, <1>3, <1>4, <1>5, <1>6 DEF Next

-----------------------------------------------------------------------------
(* The Project, its versions and the cache *)

\* A sound copy of this Project.
Copy(q) == q \in Projects /\ SoundCopy(q) /\ q.previews = proj.previews

LEMMA CopyKept ==
  ASSUME Grows, proj'.previews = proj.previews, NEW q, Copy(q)
  PROVE  Copy(q)'
<1>1. SoundCopy(q)'
  BY CopyStays DEF Copy
<1> QED BY <1>1 DEF Copy

VersionsSound ==
  /\ Copy(proj) /\ Copy(cache)
  /\ watch \in Seq(Projects) /\ \A i \in 1 .. Len(watch) : Copy(watch[i])
  /\ watch = <<>> => cache = proj
  /\ watch # <<>> => watch[Len(watch)] = proj

LEMMA VersionsHold == IInv => VersionsSound
<1> SUFFICES ASSUME IInv PROVE VersionsSound
  OBVIOUS
<1>1. TypeOK /\ CopiesSound /\ CacheFollows
  BY DEF IInv
<1>2. Copy(proj) /\ Copy(cache) /\ watch \in Seq(Projects)
  BY <1>1 DEF TypeOK, CopiesSound, Copy
<1>3. \A i \in 1 .. Len(watch) : watch[i] \in Projects
  BY <1>2
<1>4. \A i \in 1 .. Len(watch) : Copy(watch[i])
  BY <1>1, <1>3 DEF CopiesSound, Copy
<1> QED BY <1>1, <1>2, <1>4 DEF VersionsSound, CacheFollows

LEMMA CacheStays == Next /\ ~ Deliver /\ ~ Restart => cache' = cache
BY DEF Next, Webhook, HookRead, HookWrite, HookSend, HookFail, HookAbort, AgentApply,
   AgentDrop, JobEnds, JobRemoved, CallFails, Reconcile, PreviewDelete, SourceBuild, Start,
   TtlCleanup, MarkSucceeded, Rollout, UpdateStatus, Publish, CancelJob, CancelStatus,
   DeletePreview, ClearDelete, IgnorePreview, Gate, GetJob, JobMissing, Pend, Clear, Decide

LEMMA VersionsStep ==
  ASSUME IInv, [Next]_vars
  PROVE  VersionsSound' /\ proj'.previews = proj.previews
<1>v. VersionsSound
  BY VersionsHold
<1>g. Grows
  BY HistoryGrows
<1>k. ASSUME proj'.previews = proj.previews, NEW q, Copy(q) PROVE Copy(q)'
  BY <1>g, <1>k, CopyKept
<1>1. CASE UNCHANGED <<proj, watch>> /\ cache' = cache
  <2>1. PICK q, c, w : q = proj /\ c = cache /\ w = watch
    OBVIOUS
  <2>2. Copy(q) /\ Copy(c) /\ \A i \in 1 .. Len(w) : Copy(w[i])
    BY <1>v, <2>1 DEF VersionsSound
  <2>3. proj' = q /\ cache' = c /\ watch' = w
    BY <1>1, <2>1
  <2>4. Copy(q)' /\ Copy(c)'
    BY <1>k, <2>1, <2>2, <2>3
  <2>5. \A i \in 1 .. Len(w) : Copy(w[i])'
    BY <1>k, <2>1, <2>2, <2>3
  <2>6. Copy(proj)' /\ Copy(cache)' /\ \A i \in 1 .. Len(watch') : Copy(watch[i])'
    BY <2>3, <2>4, <2>5 DEF Copy, SoundCopy
  <2> QED BY <1>v, <1>1, <2>6 DEF VersionsSound
<1>2. ASSUME NEW p, Writes(p), p # proj, cache' = cache
      PROVE  VersionsSound' /\ proj'.previews = proj.previews
  <2>1. PICK c, w : c = cache /\ w = watch
    OBVIOUS
  <2>2. Copy(c) /\ w \in Seq(Projects) /\ \A i \in 1 .. Len(w) : Copy(w[i])
    BY <1>v, <2>1 DEF VersionsSound
  <2>3. /\ proj' = p /\ cache' = c /\ watch' = Append(w, p)
        /\ p \in Projects /\ p.previews = proj.previews /\ SoundCopy(p)'
    BY <1>2, <2>1 DEF Writes, Store
  <2>4. Copy(p)' /\ Copy(c)'
    BY <1>k, <2>2, <2>3 DEF Copy
  <2>5. \A i \in 1 .. Len(w) : Copy(w[i])'
    BY <1>k, <2>2, <2>3
  <2>6. /\ watch' \in Seq(Projects) /\ Len(watch') = Len(w) + 1 /\ Len(w) \in Nat
        /\ watch'[Len(w) + 1] = p /\ watch' # <<>>
        /\ \A i \in 1 .. Len(w) : watch'[i] = w[i]
    BY <2>2, <2>3
  <2>7. ASSUME NEW i \in 1 .. Len(watch') PROVE Copy(watch[i])'
    <3>1. PICK x : x = watch'[i]
      OBVIOUS
    <3>2. Copy(x)'
      BY <2>4, <2>5, <2>6, <3>1
    <3> QED BY <3>1, <3>2 DEF Copy, SoundCopy
  <2>8. Copy(proj)' /\ Copy(cache)'
    BY <2>3, <2>4 DEF Copy, SoundCopy
  <2> QED BY <2>3, <2>6, <2>7, <2>8 DEF VersionsSound
<1>3. CASE Deliver
  <2>1. PICK q, w : q = proj /\ w = watch
    OBVIOUS
  <2>2. /\ Copy(q) /\ w \in Seq(Projects) /\ \A i \in 1 .. Len(w) : Copy(w[i])
        /\ w # <<>> /\ w[Len(w)] = q
    BY <1>v, <1>3, <2>1 DEF VersionsSound, Deliver
  <2>3. proj' = q /\ cache' = Head(w) /\ watch' = Tail(w)
    BY <1>3, <2>1 DEF Deliver
  <2>4. Copy(q)'
    BY <1>k, <2>1, <2>2, <2>3
  <2>5. \A i \in 1 .. Len(w) : Copy(w[i])'
    BY <1>k, <2>1, <2>2, <2>3
  <2>6. /\ watch' \in Seq(Projects) /\ Len(watch') = Len(w) - 1 /\ Len(w) \in Nat
        /\ Len(w) >= 1 /\ cache' = w[1]
        /\ \A i \in 1 .. Len(watch') : watch'[i] = w[i + 1]
    BY <2>2, <2>3
  <2>7. ASSUME NEW i \in 1 .. Len(watch') PROVE Copy(watch[i])'
    <3>1. PICK x : x = watch'[i]
      OBVIOUS
    <3>2. x = w[i + 1] /\ i + 1 \in 1 .. Len(w)
      BY <2>6, <3>1
    <3>3. Copy(x)'
      BY <2>5, <3>2
    <3> QED BY <3>1, <3>3 DEF Copy, SoundCopy
  <2>8. PICK c : c = w[1]
    OBVIOUS
  <2>9. Copy(c)'
    BY <2>5, <2>6, <2>8
  <2>10. Copy(proj)' /\ Copy(cache)'
    BY <2>3, <2>4, <2>6, <2>8, <2>9 DEF Copy, SoundCopy
  <2>11. watch' = <<>> => cache' = proj'
    <3>1. watch' = <<>> => Len(watch') = 0
      OBVIOUS
    <3>2. Len(watch') = 0 => Len(w) = 1
      BY <2>6
    <3> QED BY <2>2, <2>3, <2>6, <3>1, <3>2
  <2>12. watch' # <<>> => watch'[Len(watch')] = proj'
    BY <2>2, <2>3, <2>6
  <2> QED BY <2>1, <2>3, <2>6, <2>7, <2>10, <2>11, <2>12 DEF VersionsSound
<1>4. CASE Restart
  <2>1. PICK q : q = proj
    OBVIOUS
  <2>2. proj' = q /\ cache' = q /\ watch' = <<>> /\ Copy(q)
    BY <1>v, <1>4, <2>1 DEF Restart, VersionsSound
  <2>3. Copy(q)'
    BY <1>k, <2>1, <2>2
  <2>4. Copy(proj)' /\ Copy(cache)'
    BY <2>2, <2>3 DEF Copy, SoundCopy
  <2> QED BY <2>1, <2>2, <2>4 DEF VersionsSound
<1>5. CASE UNCHANGED vars
  BY <1>1, <1>5 DEF vars
<1>6. CASE Next /\ ~ Deliver /\ ~ Restart
  <2>1. cache' = cache
    BY <1>6, CacheStays
  <2>2. ASSUME NEW p, Writes(p), p = proj PROVE UNCHANGED <<proj, watch>>
    BY <2>2 DEF Writes, Store
  <2> QED BY <1>1, <1>2, <1>6, <2>1, <2>2, WriteSound
<1> QED BY <1>3, <1>4, <1>5, <1>6

-----------------------------------------------------------------------------
(* What the operator leaves behind *)

OutputsTyped ==
  /\ jobs \in [Builds -> {"none", "running", "succeeded", "failed"}]
  /\ previews \in [PRs -> Builds \cup {NoImage}]
  /\ deployed \in Builds \cup {Placeholder, NoImage}
  /\ built \subseteq Builds
  /\ published \subseteq Builds

LEMMA OutputsStep ==
  ASSUME IInv, [Next]_vars
  PROVE  OutputsTyped' /\ OutputsSound'
<1>t. TypeOK /\ OutputsTyped /\ OutputsSound /\ LocalsSound /\ SoundCopy(app)
  BY DEF IInv, TypeOK, OutputsTyped, CopiesSound
<1>p. proj'.previews = proj.previews
  BY VersionsStep
<1>1. ASSUME UNCHANGED outVars PROVE OutputsTyped' /\ OutputsSound'
  BY <1>1, <1>p, <1>t DEF OutputsTyped, OutputsSound, outVars
<1>2. CASE \E h \in Hooks : Webhook(h)
  BY <1>1, <1>2 DEF Webhook, HookRead, HookWrite, HookSend, HookFail, HookAbort
<1>3. CASE AgentApply \/ AgentDrop \/ Deliver \/ CallFails \/ Restart \/ UNCHANGED vars
  BY <1>1, <1>3 DEF AgentApply, AgentDrop, Deliver, CallFails, Restart, vars
<1>4. CASE \/ Start \/ CancelStatus \/ ClearDelete \/ IgnorePreview \/ Gate \/ JobMissing
           \/ Pend \/ Clear \/ Decide \/ MarkSucceeded \/ UpdateStatus
  BY <1>1, <1>4 DEF Start, CancelStatus, ClearDelete, IgnorePreview, Gate, JobMissing,
                    Pend, Clear, Decide, MarkSucceeded, UpdateStatus
<1>5. ASSUME NEW b \in Builds, NEW r \in {"succeeded", "failed"}, JobEnds(b, r)
      PROVE  OutputsTyped' /\ OutputsSound'
  BY <1>5, <1>p, <1>t DEF JobEnds, OutputsTyped, OutputsSound
<1>6. ASSUME NEW b \in Builds, JobRemoved(b)
      PROVE  OutputsTyped' /\ OutputsSound'
  BY <1>6, <1>p, <1>t DEF JobRemoved, OutputsTyped, OutputsSound
<1>7. CASE CancelJob
  BY <1>7, <1>p, <1>t DEF CancelJob, OutputsTyped, OutputsSound
<1>8. CASE DeletePreview
  BY <1>8, <1>p, <1>t DEF DeletePreview, OutputsTyped, OutputsSound
<1>9. CASE TtlCleanup
  BY <1>9, <1>p, <1>t DEF TtlCleanup, OutputsTyped, OutputsSound
<1>10. CASE GetJob
  <2>1. PICK b : b = JobOf(cur)
    OBVIOUS
  <2>2. b \in Builds /\ (proj.previews \/ b[1] = Prod)
    BY <1>t, <1>10, <2>1, JobOfBuild DEF GetJob, LocalsSound, TypeOK
  <2>3. jobs' = [jobs EXCEPT ![b] = IF @ = "none" THEN "running" ELSE @]
        /\ UNCHANGED <<previews, deployed, built, published>>
    BY <1>10, <2>1 DEF GetJob
  <2> QED BY <1>p, <1>t, <2>2, <2>3 DEF OutputsTyped, OutputsSound
<1>11. CASE Publish
  <2>1. PICK b, t : b = JobOf(cur) /\ t = cur.target
    OBVIOUS
  <2>2. b \in Builds /\ b[1] = t /\ t \in Targets /\ (proj.previews \/ t = Prod)
    BY <1>t, <1>11, <2>1, JobOfBuild DEF Publish, LocalsSound, TypeOK, BuildStatus
  <2>3. b \in built
    BY <1>t, <1>11, <2>1 DEF Publish, LocalsSound
  <2>4. /\ published' = published \cup {b} /\ UNCHANGED <<jobs, deployed, built>>
        /\ \/ UNCHANGED previews
           \/ t # Prod /\ previews' = [previews EXCEPT ![t] = b]
    BY <1>11, <2>1 DEF Publish
  <2>5. OutputsTyped'
    BY <1>t, <2>2, <2>4 DEF OutputsTyped
  <2>6. \A p \in PRs : previews'[p] # NoImage =>
          previews'[p] \in built /\ previews'[p][1] = p /\ proj.previews
    BY <1>t, <2>2, <2>3, <2>4 DEF OutputsTyped, OutputsSound
  <2> QED BY <1>p, <1>t, <2>3, <2>4, <2>5, <2>6 DEF OutputsSound
<1>12. CASE Rollout
  <2>1. PICK i : i = app.image
    OBVIOUS
  <2>2. i \in Builds \cup {Placeholder} /\ (i # Placeholder => i \in built /\ i[1] = Prod)
    BY <1>t, <2>1 DEF TypeOK, Projects, SoundCopy
  <2>3. deployed' = i /\ UNCHANGED <<jobs, previews, built, published>>
    BY <1>12, <2>1 DEF Rollout
  <2> QED BY <1>p, <1>t, <2>2, <2>3 DEF OutputsTyped, OutputsSound
<1> QED
  BY <1>2, <1>3, <1>4, <1>5, <1>6, <1>7, <1>8, <1>9, <1>10, <1>11, <1>12
     DEF Next, Reconcile, PreviewDelete, SourceBuild

-----------------------------------------------------------------------------
(* The running reconcile *)

LocalsTyped ==
  /\ pc \in {"idle", "cancelJob", "cancelStatus", "deletePreview",
             "clearDelete", "ttl", "ignore", "gate", "job", "pend", "clear",
             "decide", "publish", "mark", "rollout", "status"}
  /\ cur \in BuildStatus
  /\ fresh \in BOOLEAN
  /\ obs \in {"none", "running", "succeeded", "failed"}

\* The copy the reconcile works on; an idle operator's is only the initial one.
AppSound ==
  /\ app \in Projects /\ SoundCopy(app)
  /\ pc # "idle" => app.previews = proj.previews

LEMMA IdleSound ==
  ASSUME Idle
  PROVE  LocalsTyped' /\ LocalsSound' /\ AppSound'
<1>1. LocalsTyped' /\ LocalsSound'
  BY Constants DEF Idle, LocalsTyped, LocalsSound
<1>2. Imported \in Projects /\ SoundCopy(Imported)'
  BY Constants DEF SoundCopy
<1>3. app' = Imported /\ pc' = "idle"
  BY DEF Idle
<1>4. SoundCopy(app)'
  BY <1>2, <1>3 DEF SoundCopy
<1> QED BY <1>1, <1>2, <1>3, <1>4 DEF AppSound

LEMMA AppStep ==
  ASSUME IInv, [Next]_vars
  PROVE  AppSound'
<1>t. TypeOK /\ AppSound
  BY DEF IInv, TypeOK, CopiesSound, AppSound
<1>p. proj'.previews = proj.previews /\ Grows
  BY VersionsStep, HistoryGrows
<1>1. ASSUME UNCHANGED app, pc' = "idle" \/ pc # "idle" PROVE AppSound'
  <2>1. PICK q : q = app
    OBVIOUS
  <2>2. q \in Projects /\ SoundCopy(q) /\ app' = q
    BY <1>1, <1>t, <2>1 DEF AppSound
  <2>3. SoundCopy(q)'
    BY <1>p, <2>2, CopyStays
  <2>4. SoundCopy(app)'
    BY <2>2, <2>3 DEF SoundCopy
  <2> QED BY <1>1, <1>p, <1>t, <2>1, <2>2, <2>4 DEF AppSound
<1>2. CASE Start
  <2>1. PICK c : c = cache
    OBVIOUS
  <2>2. Copy(c) /\ app' = c
    BY <1>2, <2>1, VersionsHold DEF Start, VersionsSound
  <2>3. Copy(c)'
    BY <1>p, <2>2, CopyKept
  <2> QED BY <2>2, <2>3 DEF Copy, SoundCopy, AppSound
<1>3. CASE \E h \in Hooks : Webhook(h)
  BY <1>1, <1>3 DEF Webhook, HookRead, HookWrite, HookSend, HookFail, HookAbort, opVars
<1>4. CASE AgentApply \/ AgentDrop \/ Deliver \/ UNCHANGED vars
  BY <1>1, <1>4 DEF AgentApply, AgentDrop, Deliver, vars, opVars
<1>5. CASE \E b \in Builds : JobRemoved(b) \/ \E r \in {"succeeded", "failed"} : JobEnds(b, r)
  BY <1>1, <1>5 DEF JobEnds, JobRemoved, opVars
<1>6. CASE CallFails \/ Restart \/ ClearDelete \/ JobMissing \/ MarkSucceeded \/ UpdateStatus
  BY <1>6, IdleSound DEF CallFails, Restart, ClearDelete, JobMissing, MarkSucceeded, UpdateStatus
<1>7. CASE Gate \/ Decide
  BY <1>1, <1>7, IdleSound DEF Gate, Decide, Goto
<1>8. CASE \/ CancelJob \/ CancelStatus \/ DeletePreview \/ TtlCleanup \/ IgnorePreview
           \/ GetJob \/ Pend \/ Clear \/ Publish \/ Rollout
  BY <1>1, <1>8 DEF CancelJob, CancelStatus, DeletePreview, TtlCleanup, IgnorePreview,
                    GetJob, Pend, Clear, Publish, Rollout, Goto
<1> QED
  BY <1>2, <1>3, <1>4, <1>5, <1>6, <1>7, <1>8
     DEF Next, Reconcile, PreviewDelete, SourceBuild

LEMMA LocalsStep ==
  ASSUME IInv, [Next]_vars
  PROVE  LocalsTyped' /\ LocalsSound'
<1>t. TypeOK /\ LocalsTyped /\ LocalsSound /\ OutputsSound /\ AppSound
  BY DEF IInv, TypeOK, LocalsTyped, CopiesSound, AppSound
<1>p. proj'.previews = proj.previews /\ built \subseteq built' /\ published \subseteq published'
  BY VersionsStep, HistoryGrows DEF Grows
<1>1. ASSUME UNCHANGED opVars PROVE LocalsTyped' /\ LocalsSound'
  BY <1>1, <1>p, <1>t DEF LocalsTyped, LocalsSound, opVars, JobOf
<1>2. CASE \E h \in Hooks : Webhook(h)
  BY <1>1, <1>2 DEF Webhook, HookRead, HookWrite, HookSend, HookFail, HookAbort
<1>3. CASE AgentApply \/ AgentDrop \/ Deliver \/ UNCHANGED vars
  BY <1>1, <1>3 DEF AgentApply, AgentDrop, Deliver, vars
<1>4. CASE \E b \in Builds : JobRemoved(b) \/ \E r \in {"succeeded", "failed"} : JobEnds(b, r)
  BY <1>1, <1>4 DEF JobEnds, JobRemoved
<1>5. CASE CallFails \/ Restart \/ ClearDelete \/ JobMissing \/ MarkSucceeded \/ UpdateStatus
  BY <1>5, IdleSound DEF CallFails, Restart, ClearDelete, JobMissing, MarkSucceeded, UpdateStatus
<1>6. CASE Start
  <2>1. app' = cache /\ UNCHANGED <<cur, fresh, obs>> /\ pc = "idle"
    BY <1>6 DEF Start
  <2>2. CASE cache.ann.action # "delete"
    <3>1. pc' = "ttl"
      BY <1>6, <2>2 DEF Start
    <3> QED BY <1>t, <2>1, <3>1 DEF LocalsTyped, LocalsSound
  <2>3. CASE cache.ann.action = "delete"
    <3>1. pc' \in {"cancelJob", "deletePreview"}
      BY <1>6, <2>3 DEF Start
    <3> QED BY <1>t, <2>1, <2>3, <3>1 DEF LocalsTyped, LocalsSound
  <2> QED BY <2>2, <2>3
<1>7. CASE CancelJob \/ CancelStatus \/ DeletePreview \/ TtlCleanup \/ IgnorePreview
  <2>1. /\ UNCHANGED <<app, cur, fresh, obs>>
        /\ \/ /\ pc \in {"cancelJob", "cancelStatus", "deletePreview"}
              /\ pc' \in {"cancelStatus", "deletePreview", "clearDelete"}
           \/ pc \in {"ttl", "ignore"} /\ pc' \in {"ignore", "gate"}
    BY <1>7 DEF CancelJob, CancelStatus, DeletePreview, TtlCleanup, IgnorePreview, Goto
  <2> QED BY <1>p, <1>t, <2>1 DEF LocalsTyped, LocalsSound
<1>8. CASE Gate
  <2>1. CASE NewBuild(app) # NoBuild
    <3>1. PICK n : n = NewBuild(app)
      OBVIOUS
    <3>2. /\ n \in BuildStatus /\ n.trigger # NoTrigger /\ n.phase = "Pending"
          /\ app.previews \/ n.target = Prod
      BY <1>t, <2>1, <3>1, NewBuildSound DEF AppSound, SoundCopy
    <3>3. cur' = n /\ fresh' = TRUE /\ pc' = "job" /\ UNCHANGED <<app, obs>> /\ pc = "gate"
      BY <1>8, <2>1, <3>1 DEF Gate
    <3> QED BY <1>p, <1>t, <3>2, <3>3 DEF LocalsTyped, LocalsSound, Active, AppSound
  <2>2. CASE NewBuild(app) = NoBuild /\ app.build.phase \in Active
    <3>1. PICK n : n = app.build
      OBVIOUS
    <3>2. /\ n \in BuildStatus /\ n.trigger # NoTrigger /\ n.phase \in Active
          /\ app.previews \/ n.target = Prod
      BY <1>t, <2>2, <3>1 DEF AppSound, SoundCopy, Projects, Active
    <3>3. cur' = n /\ fresh' = FALSE /\ pc' = "job" /\ UNCHANGED <<app, obs>> /\ pc = "gate"
      BY <1>8, <2>2, <3>1 DEF Gate, Active
    <3> QED BY <1>p, <1>t, <3>2, <3>3 DEF LocalsTyped, LocalsSound, AppSound
  <2>3. CASE NewBuild(app) = NoBuild /\ app.build.phase = "Failed"
    BY <1>8, <2>3, IdleSound DEF Gate, Active
  <2>4. CASE NewBuild(app) = NoBuild /\ app.build.phase \in {"none", "Succeeded"}
    BY <1>8, <1>p, <1>t, <2>4 DEF Gate, Goto, Active, LocalsTyped, LocalsSound
  <2> QED BY <1>8, <2>1, <2>2, <2>3, <2>4 DEF Gate
<1>9. CASE GetJob
  <2>1. PICK b : b = JobOf(cur)
    OBVIOUS
  <2>2. b \in Builds
    BY <1>t, <1>9, <2>1, JobOfBuild DEF GetJob, LocalsSound, TypeOK
  <2>3. /\ jobs'[b] \in {"none", "running", "succeeded", "failed"}
        /\ jobs'[b] = "succeeded" => b \in built
    BY <1>t, <1>9, <2>1, <2>2 DEF GetJob, OutputsSound, TypeOK
  <2>4. obs' = jobs'[b] /\ UNCHANGED <<app, cur, fresh>> /\ pc = "job"
        /\ pc' \in {"pend", "decide"}
    BY <1>9, <2>1 DEF GetJob
  <2> QED BY <1>p, <1>t, <2>1, <2>3, <2>4 DEF LocalsTyped, LocalsSound, JobOf
<1>10. CASE Pend \/ Clear
  BY <1>10, <1>p, <1>t DEF Pend, Clear, Goto, LocalsTyped, LocalsSound, JobOf
<1>11. CASE Decide
  <2>1. CASE obs = "succeeded"
    BY <1>11, <1>p, <1>t, <2>1 DEF Decide, Goto, LocalsTyped, LocalsSound, JobOf
  <2>2. CASE obs # "succeeded"
    BY <1>11, <2>2, IdleSound DEF Decide
  <2> QED BY <2>1, <2>2
<1>12. CASE Publish
  BY <1>12, <1>p, <1>t DEF Publish, Goto, LocalsTyped, LocalsSound, JobOf
<1>13. CASE Rollout
  BY <1>13, <1>p, <1>t DEF Rollout, Goto, LocalsTyped, LocalsSound, JobOf
<1> QED
  BY <1>2, <1>3, <1>4, <1>5, <1>6, <1>7, <1>8, <1>9, <1>10, <1>11, <1>12, <1>13
     DEF Next, Reconcile, PreviewDelete, SourceBuild

-----------------------------------------------------------------------------
(* Something always looks at an active build again *)

\* A version was stored: nothing changed or the watch has something to say.
LEMMA Stored ==
  ASSUME TypeOK, NEW p \in Projects, Store(p)
  PROVE  \/ p = proj /\ UNCHANGED <<proj, watch>>
         \/ proj' = p /\ watch' # <<>>
<1>1. CASE p = proj
  BY <1>1 DEF Store
<1>2. CASE p # proj
  BY <1>2 DEF Store, TypeOK
<1> QED BY <1>1, <1>2

\* Outside Deliver and Restart a step leaves the Project alone or adds a version.
LEMMA WatchGrows ==
  ASSUME IInv, Next, ~ Deliver, ~ Restart
  PROVE  UNCHANGED <<proj, watch>> \/ watch' # <<>>
<1>1. UNCHANGED <<proj, watch>> \/ \E p : Writes(p)
  BY WriteSound
<1>2. ASSUME NEW p, Writes(p) PROVE UNCHANGED <<proj, watch>> \/ watch' # <<>>
  BY <1>2, Stored DEF Writes, IInv
<1> QED BY <1>1, <1>2

\* A step that ends no reconcile keeps or sets the request, and only Start and
\* the end of a reconcile replace the copy.
LEMMA RequestStays ==
  ASSUME Next
  PROVE  \/ dirty'
         \/ Start
         \/ UNCHANGED <<dirty, app>> /\ (pc' = "idle" <=> pc = "idle")
         \/ /\ UNCHANGED dirty /\ pc' = "idle"
            /\ ClearDelete \/ Gate \/ JobMissing \/ Decide \/ MarkSucceeded \/ UpdateStatus
<1>1. CASE \E h \in Hooks : Webhook(h)
  BY <1>1 DEF Webhook, HookRead, HookWrite, HookSend, HookFail, HookAbort, opVars
<1>2. CASE AgentApply \/ AgentDrop \/ Deliver \/ CallFails \/ Restart
  BY <1>2 DEF AgentApply, AgentDrop, Deliver, CallFails, Restart, opVars
<1>3. CASE \E b \in Builds : JobRemoved(b) \/ \E r \in {"succeeded", "failed"} : JobEnds(b, r)
  BY <1>3 DEF JobEnds, JobRemoved
<1>4. CASE \/ CancelJob \/ CancelStatus \/ DeletePreview \/ TtlCleanup \/ IgnorePreview
           \/ GetJob \/ Pend \/ Clear \/ Publish \/ Rollout
  BY <1>4 DEF CancelJob, CancelStatus, DeletePreview, TtlCleanup, IgnorePreview,
              GetJob, Pend, Clear, Publish, Rollout, Goto
<1>5. CASE ClearDelete \/ JobMissing \/ MarkSucceeded \/ UpdateStatus
  BY <1>5 DEF ClearDelete, JobMissing, MarkSucceeded, UpdateStatus, Idle
<1>6. CASE Gate
  BY <1>6 DEF Gate, Goto, Idle
<1>7. CASE Decide
  BY <1>7 DEF Decide, Goto, Idle
<1> QED
  BY <1>1, <1>2, <1>3, <1>4, <1>5, <1>6, <1>7
     DEF Next, Reconcile, PreviewDelete, SourceBuild

LEMMA FollowsStep ==
  ASSUME IInv, [Next]_vars
  PROVE  watch' = <<>> /\ ~ dirty' /\ pc' # "idle" => app' = proj'
<1>t. CacheFollows
  BY DEF IInv
<1>1. CASE UNCHANGED vars
  BY <1>t, <1>1 DEF CacheFollows, vars, opVars
<1>2. CASE Deliver \/ Restart
  BY <1>2 DEF Deliver, Restart
<1>3. CASE Start
  BY <1>t, <1>3 DEF Start, CacheFollows
<1>4. CASE Next /\ ~ Deliver /\ ~ Restart /\ ~ Start
  BY <1>t, <1>4, WatchGrows, RequestStays DEF CacheFollows
<1> QED BY <1>1, <1>2, <1>3, <1>4

LEMMA ActiveStep ==
  ASSUME IInv, [Next]_vars
  PROVE  ActiveIsWatched'
<1>t. TypeOK /\ CacheFollows /\ ActiveIsWatched /\ LocalsSound
  BY DEF IInv
<1> SUFFICES ASSUME pc' = "idle", ~ dirty', watch' = <<>>
             PROVE  proj'.build.phase \notin Active
  BY DEF ActiveIsWatched
<1>1. CASE UNCHANGED vars
  BY <1>t, <1>1 DEF ActiveIsWatched, vars, opVars
<1>2. CASE Deliver \/ Restart \/ Start
  BY <1>2 DEF Deliver, Restart, Start
<1>3. CASE Next /\ ~ Deliver /\ ~ Restart /\ ~ Start
  <2>1. UNCHANGED <<proj, watch>>
    BY <1>3, WatchGrows
  <2>2. CASE UNCHANGED dirty /\ pc = "idle"
    BY <1>t, <2>1, <2>2 DEF ActiveIsWatched
  <2>3. ASSUME pc # "idle", UNCHANGED dirty PROVE app = proj
    BY <1>t, <2>1, <2>3 DEF CacheFollows
  <2>4. CASE ClearDelete
    <3>1. app = proj /\ app.ann.action = "delete"
      BY <1>t, <2>3, <2>4 DEF ClearDelete, LocalsSound
    <3>2. proj' = [proj EXCEPT !.ann = NoAnn] /\ proj \in Projects
      BY <1>t, <2>4 DEF ClearDelete, Store, TypeOK
    <3>3. proj'.ann = NoAnn
      BY <3>2 DEF Projects
    <3> QED BY <2>1, <3>1, <3>3 DEF NoAnn
  <2>5. CASE Gate
    <3>1. app = proj
      BY <2>3, <2>5 DEF Gate
    <3>2. app.build.phase = "Failed"
      BY <2>5 DEF Gate, Goto
    <3> QED BY <2>1, <3>1, <3>2 DEF Active
  <2>6. ASSUME NEW f \in {"Failed", "Succeeded"},
               Store([proj EXCEPT !.build = [cur EXCEPT !.phase = f]])
        PROVE  proj'.build.phase \notin Active
    BY <1>t, <2>6 DEF Store, TypeOK, Projects, BuildStatus, Active
  <2>7. CASE JobMissing \/ MarkSucceeded
    BY <2>6, <2>7 DEF JobMissing, MarkSucceeded
  <2>8. CASE Decide
    BY <2>6, <2>8 DEF Decide, Goto
  <2>9. CASE UpdateStatus
    <3>1. app = proj
      BY <2>3, <2>9 DEF UpdateStatus
    <3>2. app.build.phase \notin Active
      BY <1>t, <2>9 DEF UpdateStatus, LocalsSound
    <3> QED BY <2>1, <3>1, <3>2
  <2> QED
    BY <1>3, <2>2, <2>4, <2>5, <2>7, <2>8, <2>9, RequestStays
<1> QED BY <1>1, <1>2, <1>3

-----------------------------------------------------------------------------
(* The theorems *)

LEMMA FaultsStep ==
  ASSUME IInv, [Next]_vars
  PROVE  faults' \in 0 .. MaxFaults /\ dirty' \in BOOLEAN
<1>t. faults \in 0 .. MaxFaults /\ dirty \in BOOLEAN
  BY DEF IInv, TypeOK
<1>m. MaxFaults \in Nat
  BY PipelineAssumption
<1>1. faults' = faults \/ (faults < MaxFaults /\ faults' = faults + 1)
  <2>1. CASE \E h \in Hooks : Webhook(h)
    BY <2>1 DEF Webhook, HookRead, HookWrite, HookSend, HookFail, HookAbort
  <2>2. CASE AgentApply \/ AgentDrop \/ Deliver \/ CallFails \/ Restart \/ UNCHANGED vars
    BY <2>2 DEF AgentApply, AgentDrop, Deliver, CallFails, Restart, vars
  <2>3. CASE \E b \in Builds : JobRemoved(b) \/ \E r \in {"succeeded", "failed"} : JobEnds(b, r)
    BY <2>3 DEF JobEnds, JobRemoved
  <2>4. CASE Reconcile
    BY <2>4 DEF Reconcile, PreviewDelete, SourceBuild, Start, TtlCleanup, MarkSucceeded,
       Rollout, UpdateStatus, Publish, CancelJob, CancelStatus, DeletePreview, ClearDelete,
       IgnorePreview, Gate, GetJob, JobMissing, Pend, Clear, Decide
  <2> QED BY <2>1, <2>2, <2>3, <2>4 DEF Next
<1>2. dirty' \in {dirty, TRUE, FALSE}
  <2>1. CASE \E h \in Hooks : Webhook(h)
    BY <2>1 DEF Webhook, HookRead, HookWrite, HookSend, HookFail, HookAbort
  <2>2. CASE AgentApply \/ AgentDrop \/ Deliver \/ CallFails \/ Restart \/ UNCHANGED vars
    BY <2>2 DEF AgentApply, AgentDrop, Deliver, CallFails, Restart, vars
  <2>3. CASE \E b \in Builds : JobRemoved(b) \/ \E r \in {"succeeded", "failed"} : JobEnds(b, r)
    BY <2>3 DEF JobEnds, JobRemoved
  <2>4. CASE Reconcile
    BY <2>4 DEF Reconcile, PreviewDelete, SourceBuild, Start, TtlCleanup, MarkSucceeded,
       Rollout, UpdateStatus, Publish, CancelJob, CancelStatus, DeletePreview, ClearDelete,
       IgnorePreview, Gate, GetJob, JobMissing, Pend, Clear, Decide
  <2> QED BY <2>1, <2>2, <2>3, <2>4 DEF Next
<1>3. faults' \in 0 .. MaxFaults
  BY <1>t, <1>m, <1>1
<1> QED BY <1>t, <1>2, <1>3

LEMMA InitHolds == Init => IInv
<1> SUFFICES ASSUME Init PROVE IInv
  OBVIOUS
<1>1. PICK e \in PreviewSettings : proj = [Imported EXCEPT !.previews = e]
  BY DEF Init
<1>2. /\ proj \in Projects /\ proj.ann = Imported.ann /\ proj.image = Placeholder
      /\ proj.build = NoBuild /\ cache = proj
  BY <1>1, Constants, PipelineAssumption DEF Init, Imported, Projects
<1>3. /\ Imported.ann \in Anns /\ Imported.build.phase = "none"
  BY Constants DEF Projects
<1>4. TypeOK
  <2>1. HooksSound
    BY <1>3, Constants DEF Init, HooksSound, AnnsSound
  <2>2. LocalsTyped /\ OutputsTyped
    BY Constants DEF Init, LocalsTyped, OutputsTyped
  <2>3. faults \in 0 .. MaxFaults
    BY PipelineAssumption DEF Init
  <2>4. watch \in Seq(Projects) /\ dirty \in BOOLEAN /\ app \in Projects
    BY Constants DEF Init
  <2> QED BY <1>2, <2>1, <2>2, <2>3, <2>4 DEF TypeOK, HooksSound, LocalsTyped, OutputsTyped
<1>5. AnnsSound
  BY Constants DEF Init, AnnsSound
<1>6. SoundCopy(proj) /\ SoundCopy(app) /\ SoundCopy(cache)
  BY <1>2, Constants DEF Init, SoundCopy
<1>7. CopiesSound
  BY <1>2, <1>6 DEF Init, CopiesSound
<1>8. OutputsSound
  BY DEF Init, OutputsSound
<1>9. LocalsSound
  BY DEF Init, LocalsSound
<1>10. CacheFollows
  BY DEF Init, CacheFollows
<1>11. ActiveIsWatched
  BY DEF Init, ActiveIsWatched
<1> QED BY <1>4, <1>5, <1>7, <1>8, <1>9, <1>10, <1>11 DEF IInv

LEMMA StepHolds == IInv /\ [Next]_vars => IInv'
<1> SUFFICES ASSUME IInv, [Next]_vars PROVE IInv'
  OBVIOUS
<1>1. /\ HooksSound' /\ VersionsSound' /\ OutputsTyped' /\ OutputsSound'
      /\ AppSound' /\ LocalsTyped' /\ LocalsSound'
  BY HooksStep, VersionsStep, OutputsStep, AppStep, LocalsStep
<1>2. faults' \in 0 .. MaxFaults /\ dirty' \in BOOLEAN
  BY FaultsStep
<1>3. TypeOK'
  BY <1>1, <1>2 DEF TypeOK, HooksSound, VersionsSound, Copy, OutputsTyped, AppSound, LocalsTyped
<1>4. CopiesSound'
  BY <1>1 DEF CopiesSound, VersionsSound, Copy, AppSound
<1>5. CacheFollows'
  BY <1>1, FollowsStep DEF CacheFollows, VersionsSound
<1>6. ActiveIsWatched'
  BY ActiveStep
<1> QED BY <1>1, <1>3, <1>4, <1>5, <1>6 DEF IInv, HooksSound

\* The inductive invariant of the webhook-to-workload pipeline: what handlers,
\* agent, watch cache and reconcile rely on across their awaits.
THEOREM Invariance == Spec => []IInv
BY InitHolds, StepHolds, PTL DEF Spec

\* Every variable keeps its type.
THEOREM TypeCorrect == Spec => []TypeOK
<1>1. IInv => TypeOK
  BY DEF IInv
<1> QED BY Invariance, <1>1, PTL

\* patch_project_image, the preview apply and the Deployment apply use only
\* images whose Kaniko Job succeeded, for the target they were built for,
\* however stale the Job state and the copy of the Project are.
THEOREM BuiltOnly == Spec => []OnlyBuiltImages
<1>1. IInv => OnlyBuiltImages
  BY DEF IInv, CopiesSound, SoundCopy, OutputsSound, OnlyBuiltImages
<1> QED BY Invariance, <1>1, PTL

\* mark_build_succeeded is never recorded before the image is published,
\* whatever fails or restarts in between.
THEOREM PublishedFirst == Spec => []SucceededIsPublished
<1>1. IInv => SucceededIsPublished
  BY DEF IInv, CopiesSound, SoundCopy, SucceededIsPublished
<1> QED BY Invariance, <1>1, PTL

\* The operator never stops looking at an active build.
THEOREM ActiveWatched == Spec => []ActiveIsWatched
<1>1. IInv => ActiveIsWatched
  BY DEF IInv
<1> QED BY Invariance, <1>1, PTL

\* With previews disabled no pull request gets a Job or a preview.
THEOREM DisabledIgnored == Spec => []DisabledPreviewsIgnored
<1>1. IInv => DisabledPreviewsIgnored
  BY DEF IInv, OutputsSound, DisabledPreviewsIgnored
<1> QED BY Invariance, <1>1, PTL

-----------------------------------------------------------------------------
(* An operator at rest *)

\* A webhook action leaves annotations that ask for something.
LEMMA HookAsks ==
  ASSUME NEW a \in Anns, NEW h \in Hooks
  PROVE  Asks(ApplyWebhookAction(a, h))
<1>1. CASE h \in [kind : {"push"}, pr : {NoPr}, sha : Pushes]
  <2>1. ApplyWebhookAction(a, h) = [a EXCEPT !.trigger = h.sha] /\ h.sha \in Triggers
    BY <1>1 DEF ApplyWebhookAction, WithBuildTrigger, Triggers, Shas
  <2>2. h.sha # NoTrigger
    BY <2>1, PipelineAssumption
  <2> QED BY <2>1, <2>2 DEF Anns, Asks
<1>2. CASE h \in {[kind |-> "open", pr |-> o[1], sha |-> o[2]] : o \in Opened}
  <2>1. /\ ApplyWebhookAction(a, h) = [trigger |-> h.sha, action |-> "create", pr |-> h.pr]
        /\ h.sha \in Triggers
    BY <1>2 DEF ApplyWebhookAction, WithPreviewCreate, Triggers, Shas
  <2>2. h.sha # NoTrigger
    BY <2>1, PipelineAssumption
  <2> QED BY <2>1, <2>2 DEF Asks
<1>3. CASE h \in [kind : {"close"}, pr : Closed, sha : {NoTrigger}]
  BY <1>3 DEF ApplyWebhookAction, WithPreviewDelete, Asks
<1> QED BY <1>1, <1>2, <1>3 DEF Hooks

HooksAsk ==
  /\ Asks(row.ann)
  /\ \A h \in Hooks : Asks(snap[h])
  /\ \A i \in 1 .. Len(wire) : Asks(wire[i])

LEMMA HooksAskStep ==
  ASSUME IInv, HooksAsk, [Next]_vars
  PROVE  HooksAsk'
<1>t. HooksSound
  BY DEF IInv, TypeOK, HooksSound
<1>c. Asks(NoAnn)
  BY DEF Asks
<1>1. ASSUME UNCHANGED <<row, snap, wire>> PROVE HooksAsk'
  BY <1>1 DEF HooksAsk
<1>2. ASSUME NEW h \in Hooks, Webhook(h) PROVE HooksAsk'
  <2>1. CASE HookRead(h)
    <3>1. PICK a : a = ApplyWebhookAction(row.ann, h)
      OBVIOUS
    <3>2. Asks(a)
      BY <1>t, <3>1, HookAsks DEF HooksSound
    <3> QED BY <1>t, <2>1, <3>1, <3>2 DEF HookRead, HooksSound, HooksAsk
  <2>2. CASE HookWrite(h)
    BY <1>t, <2>2 DEF HookWrite, HooksSound, HooksAsk
  <2>3. CASE HookSend(h)
    <3>1. PICK a : a = snap[h]
      OBVIOUS
    <3>2. a \in Anns /\ Asks(a)
      BY <1>t, <3>1 DEF HooksSound, HooksAsk
    <3>3. /\ Len(wire') = Len(wire) + 1 /\ Len(wire) \in Nat
          /\ wire'[Len(wire) + 1] = a
          /\ \A i \in 1 .. Len(wire) : wire'[i] = wire[i]
      BY <1>t, <2>3, <3>1, <3>2 DEF HookSend, HooksSound
    <3>4. \A i \in 1 .. Len(wire') : Asks(wire'[i])
      BY <3>2, <3>3 DEF HooksAsk
    <3> QED BY <1>t, <1>c, <2>3, <3>4 DEF HookSend, HooksSound, HooksAsk
  <2>4. CASE HookFail(h)
    BY <1>t, <1>c, <2>4 DEF HookFail, HooksSound, HooksAsk
  <2>5. CASE HookAbort(h)
    BY <1>t, <1>c, <2>5 DEF HookAbort, HooksSound, HooksAsk
  <2> QED BY <1>2, <2>1, <2>2, <2>3, <2>4, <2>5 DEF Webhook
<1>3. CASE AgentApply \/ AgentDrop
  <2>1. wire # <<>> /\ wire' = Tail(wire) /\ UNCHANGED <<row, snap>>
    BY <1>3 DEF AgentApply, AgentDrop, hookVars
  <2>2. /\ Len(wire') = Len(wire) - 1 /\ Len(wire) \in Nat
        /\ \A i \in 1 .. Len(wire') : wire'[i] = wire[i + 1]
    BY <1>t, <2>1 DEF HooksSound
  <2>3. \A i \in 1 .. Len(wire') : Asks(wire'[i])
    BY <2>2 DEF HooksAsk
  <2> QED BY <2>1, <2>3 DEF HooksAsk
<1>4. CASE Deliver \/ CallFails \/ Restart \/ UNCHANGED vars
  BY <1>1, <1>4 DEF Deliver, CallFails, Restart, vars, hookVars
<1>5. CASE \E b \in Builds : JobRemoved(b) \/ \E r \in {"succeeded", "failed"} : JobEnds(b, r)
  BY <1>1, <1>5 DEF JobEnds, JobRemoved, hookVars
<1>6. CASE Reconcile
  BY <1>1, <1>6 DEF Reconcile, PreviewDelete, SourceBuild, Start, TtlCleanup, MarkSucceeded,
     Rollout, UpdateStatus, Publish, CancelJob, CancelStatus, DeletePreview, ClearDelete,
     IgnorePreview, Gate, GetJob, JobMissing, Pend, Clear, Decide, hookVars
<1> QED BY <1>2, <1>3, <1>4, <1>5, <1>6 DEF Next

\* What a write of the Project puts in place of its annotations.
LEMMA AnnStep ==
  ASSUME IInv, HooksAsk, Next, ~ Deliver, ~ Restart
  PROVE  \/ UNCHANGED <<proj, watch>>
         \/ /\ proj'.ann = proj.ann \/ Asks(proj'.ann)
            /\ watch' = Append(watch, proj')
<1>t. TypeOK /\ proj \in Projects
  BY DEF IInv, TypeOK
<1>c. Asks(NoAnn)
  BY DEF Asks
<1>0. ASSUME NEW p, Store(p), p.ann = proj.ann \/ Asks(p.ann)
      PROVE  \/ UNCHANGED <<proj, watch>>
             \/ /\ proj'.ann = proj.ann \/ Asks(proj'.ann)
                /\ watch' = Append(watch, proj')
  BY <1>0 DEF Store
<1>1. CASE AgentApply
  <2>1. PICK a : a = Head(wire)
    OBVIOUS
  <2>2. Asks(a)
    <3>1. wire \in Seq(Anns) /\ wire # <<>>
      BY <1>t, <1>1 DEF AgentApply, TypeOK
    <3>2. a = wire[1] /\ 1 \in 1 .. Len(wire)
      BY <2>1, <3>1
    <3> QED BY <3>2 DEF HooksAsk
  <2>3. [proj EXCEPT !.ann = a, !.image = Placeholder].ann = a
    BY <1>t DEF Projects
  <2>4. Store([proj EXCEPT !.ann = a, !.image = Placeholder])
    BY <1>1, <2>1 DEF AgentApply
  <2> QED BY <1>0, <2>2, <2>3, <2>4
<1>2. CASE ClearDelete \/ IgnorePreview \/ Clear
  <2>1. Store([proj EXCEPT !.ann = NoAnn])
    BY <1>2 DEF ClearDelete, IgnorePreview, Clear
  <2>2. [proj EXCEPT !.ann = NoAnn].ann = NoAnn
    BY <1>t DEF Projects
  <2> QED BY <1>0, <1>c, <2>1, <2>2
<1>3. ASSUME NEW b, Store([proj EXCEPT !.build = b])
      PROVE  \/ UNCHANGED <<proj, watch>>
             \/ /\ proj'.ann = proj.ann \/ Asks(proj'.ann)
                /\ watch' = Append(watch, proj')
  <2>1. [proj EXCEPT !.build = b].ann = proj.ann
    BY <1>t DEF Projects
  <2> QED BY <1>0, <1>3, <2>1
<1>4. CASE CancelStatus \/ JobMissing \/ Pend \/ MarkSucceeded
  BY <1>3, <1>4 DEF CancelStatus, JobMissing, Pend, MarkSucceeded
<1>5. CASE Decide
  BY <1>3, <1>5 DEF Decide
<1>6. CASE UpdateStatus
  <2>1. CASE app.build = NoBuild
    BY <1>6, <2>1 DEF UpdateStatus, Store
  <2>2. CASE app.build # NoBuild
    BY <1>3, <1>6, <2>2 DEF UpdateStatus
  <2> QED BY <2>1, <2>2
<1>7. CASE Publish
  <2>1. CASE cur.target # Prod
    BY <1>7, <2>1 DEF Publish
  <2>2. CASE cur.target = Prod
    <3>1. [proj EXCEPT !.image = JobOf(cur)].ann = proj.ann
      BY <1>t DEF Projects
    <3>2. Store([proj EXCEPT !.image = JobOf(cur)])
      BY <1>7, <2>2 DEF Publish
    <3> QED BY <1>0, <3>1, <3>2
  <2> QED BY <2>1, <2>2
<1>8. CASE \E h \in Hooks : Webhook(h)
  BY <1>8 DEF Webhook, HookRead, HookWrite, HookSend, HookFail, HookAbort
<1>9. CASE AgentDrop \/ CallFails \/ Start \/ TtlCleanup \/ Rollout
           \/ CancelJob \/ DeletePreview \/ Gate \/ GetJob
  BY <1>9 DEF AgentDrop, CallFails, Start, TtlCleanup, Rollout, CancelJob, DeletePreview,
              Gate, GetJob
<1>10. CASE \E b \in Builds : JobRemoved(b) \/ \E r \in {"succeeded", "failed"} : JobEnds(b, r)
  BY <1>10 DEF JobEnds, JobRemoved
<1> QED
  BY <1>1, <1>2, <1>4, <1>5, <1>6, <1>7, <1>8, <1>9, <1>10
     DEF Next, Reconcile, PreviewDelete, SourceBuild

\* Only Start and the end of a reconcile replace its copy.
LEMMA AppMoves ==
  ASSUME [Next]_vars
  PROVE  app' \in {app, cache, Imported}
<1>1. CASE \E h \in Hooks : Webhook(h)
  BY <1>1 DEF Webhook, HookRead, HookWrite, HookSend, HookFail, HookAbort, opVars
<1>2. CASE AgentApply \/ AgentDrop \/ Deliver \/ CallFails \/ Restart \/ UNCHANGED vars
  BY <1>2 DEF AgentApply, AgentDrop, Deliver, CallFails, Restart, Idle, opVars, vars
<1>3. CASE \E b \in Builds : JobRemoved(b) \/ \E r \in {"succeeded", "failed"} : JobEnds(b, r)
  BY <1>3 DEF JobEnds, JobRemoved, opVars
<1>4. CASE \/ CancelJob \/ CancelStatus \/ DeletePreview \/ TtlCleanup \/ IgnorePreview
           \/ GetJob \/ Pend \/ Clear \/ Publish \/ Rollout
  BY <1>4 DEF CancelJob, CancelStatus, DeletePreview, TtlCleanup, IgnorePreview,
              GetJob, Pend, Clear, Publish, Rollout, Goto
<1>5. CASE Start \/ ClearDelete \/ JobMissing \/ MarkSucceeded \/ UpdateStatus
  BY <1>5 DEF Start, ClearDelete, JobMissing, MarkSucceeded, UpdateStatus, Idle
<1>6. CASE Gate \/ Decide
  BY <1>6 DEF Gate, Decide, Goto, Idle
<1> QED
  BY <1>1, <1>2, <1>3, <1>4, <1>5, <1>6
     DEF Next, Reconcile, PreviewDelete, SourceBuild

\* The copies of the Project ask for something, like the Project itself.
LEMMA RequestsAskStep ==
  ASSUME IInv, RequestsAsk, [Next]_vars
  PROVE  RequestsAsk'
<1>t. watch \in Seq(Projects)
  BY DEF IInv, TypeOK
<1>h. HooksAsk /\ HooksAsk'
  BY HooksAskStep DEF RequestsAsk, HooksAsk
<1>a. Asks(app'.ann)
  <2>1. Asks(Imported.ann)
    <3>1. Imported.ann = [NoAnn EXCEPT !.trigger = Initial]
      BY DEF Imported
    <3>2. Imported.ann.trigger = Initial /\ Initial # NoTrigger
      BY <3>1, PipelineAssumption DEF NoAnn, Triggers
    <3> QED BY <3>2 DEF Asks
  <2> QED BY <2>1, AppMoves DEF RequestsAsk
<1>1. ASSUME UNCHANGED <<proj, watch, cache>>
      PROVE  /\ Asks(proj'.ann) /\ Asks(cache'.ann)
             /\ \A i \in 1 .. Len(watch') : Asks(watch'[i].ann)
  BY <1>1 DEF RequestsAsk
<1>2. ASSUME Next, ~ Deliver, ~ Restart
      PROVE  /\ Asks(proj'.ann) /\ Asks(cache'.ann)
             /\ \A i \in 1 .. Len(watch') : Asks(watch'[i].ann)
  <2>1. cache' = cache
    BY <1>2, CacheStays
  <2>2. CASE UNCHANGED <<proj, watch>>
    BY <1>1, <2>1, <2>2
  <2>3. CASE /\ proj'.ann = proj.ann \/ Asks(proj'.ann)
             /\ watch' = Append(watch, proj')
    <3>1. Asks(proj'.ann)
      BY <2>3 DEF RequestsAsk
    <3>2. PICK q : q = proj'
      OBVIOUS
    <3>3. /\ Len(watch') = Len(watch) + 1 /\ Len(watch) \in Nat
          /\ watch'[Len(watch) + 1] = q
          /\ \A i \in 1 .. Len(watch) : watch'[i] = watch[i]
      BY <1>t, <2>3, <3>2
    <3>4. \A i \in 1 .. Len(watch') : Asks(watch'[i].ann)
      BY <3>1, <3>2, <3>3 DEF RequestsAsk
    <3> QED BY <2>1, <3>1, <3>4 DEF RequestsAsk
  <2> QED BY <1>2, <1>h, <2>2, <2>3, AnnStep
<1>3. CASE Deliver
  <2>1. watch # <<>> /\ watch' = Tail(watch) /\ cache' = Head(watch) /\ proj' = proj
    BY <1>3 DEF Deliver
  <2>2. /\ Len(watch') = Len(watch) - 1 /\ Len(watch) \in Nat
        /\ 1 \in 1 .. Len(watch) /\ cache' = watch[1]
        /\ \A i \in 1 .. Len(watch') : watch'[i] = watch[i + 1]
    BY <1>t, <2>1
  <2>3. \A i \in 1 .. Len(watch') : Asks(watch'[i].ann)
    BY <2>2 DEF RequestsAsk
  <2> QED BY <1>a, <1>h, <2>1, <2>2, <2>3 DEF RequestsAsk, HooksAsk
<1>4. CASE Restart
  BY <1>4, <1>a, <1>h DEF Restart, RequestsAsk, HooksAsk
<1>5. CASE UNCHANGED vars
  BY <1>5, <1>1, <1>a, <1>h DEF vars, RequestsAsk, HooksAsk
<1> QED BY <1>2, <1>3, <1>4, <1>5, <1>a, <1>h DEF RequestsAsk, HooksAsk

\* Steps of the others leave the reconcile and the Deployment alone.
LEMMA OthersKeep ==
  ASSUME [Next]_vars, ~ Reconcile, ~ CallFails, ~ Restart
  PROVE  UNCHANGED <<opVars, deployed>>
<1>1. CASE \E h \in Hooks : Webhook(h)
  BY <1>1 DEF Webhook, HookRead, HookWrite, HookSend, HookFail, HookAbort, outVars
<1>2. CASE AgentApply \/ AgentDrop \/ Deliver \/ UNCHANGED vars
  BY <1>2 DEF AgentApply, AgentDrop, Deliver, outVars, vars
<1>3. CASE \E b \in Builds : JobRemoved(b) \/ \E r \in {"succeeded", "failed"} : JobEnds(b, r)
  BY <1>3 DEF JobEnds, JobRemoved
<1> QED BY <1>1, <1>2, <1>3 DEF Next

LEMMA IdleIsOnItsWay == Idle => OnItsWay'
BY DEF Idle, OnItsWay

LEMMA OnItsWayStep ==
  ASSUME IInv, OnItsWay, [Next]_vars
  PROVE  OnItsWay'
<1>t. app \in Projects /\ app.ann \in Anns
  BY DEF IInv, TypeOK, Projects
<1>1. CASE CallFails \/ Restart \/ ClearDelete \/ JobMissing \/ MarkSucceeded \/ UpdateStatus
  BY <1>1, IdleIsOnItsWay DEF CallFails, Restart, ClearDelete, JobMissing, MarkSucceeded,
                              UpdateStatus
<1>2. CASE ~ Reconcile /\ ~ CallFails /\ ~ Restart
  BY <1>2, OthersKeep DEF OnItsWay, opVars
<1>3. CASE Start
  BY <1>3 DEF Start, OnItsWay
<1>4. CASE CancelJob \/ CancelStatus \/ DeletePreview
  BY <1>4 DEF CancelJob, CancelStatus, DeletePreview, Goto, OnItsWay
<1>5. CASE TtlCleanup
  BY <1>5 DEF TtlCleanup, Goto, OnItsWay
<1>6. CASE IgnorePreview
  BY <1>6 DEF IgnorePreview, Goto, OnItsWay
<1>7. CASE Gate
  <2>1. CASE NewBuild(app) # NoBuild
    <3>1. app.ann.trigger # NoTrigger
      BY <2>1 DEF NewBuild
    <3>2. fresh' = TRUE /\ pc' = "job" /\ app' = app
      BY <1>7, <2>1 DEF Gate
    <3> QED BY <3>1, <3>2 DEF OnItsWay
  <2>2. CASE NewBuild(app) = NoBuild /\ app.build.phase \in Active
    BY <1>7, <2>2 DEF Gate, OnItsWay, Active
  <2>3. CASE NewBuild(app) = NoBuild /\ app.build.phase = "Failed"
    BY <1>7, <2>3, IdleIsOnItsWay DEF Gate, Active
  <2>4. CASE NewBuild(app) = NoBuild /\ app.build.phase \in {"none", "Succeeded"}
    BY <1>7, <2>4 DEF Gate, Goto, OnItsWay, Active
  <2> QED BY <1>7, <2>1, <2>2, <2>3, <2>4 DEF Gate
<1>8. CASE GetJob
  BY <1>8 DEF GetJob, OnItsWay
<1>9. CASE Pend \/ Clear \/ Publish \/ Rollout
  BY <1>9 DEF Pend, Clear, Publish, Rollout, Goto, OnItsWay
<1>10. CASE Decide
  BY <1>10, IdleIsOnItsWay DEF Decide, Goto, OnItsWay
<1> QED
  BY <1>1, <1>2, <1>3, <1>4, <1>5, <1>6, <1>7, <1>8, <1>9, <1>10
     DEF Reconcile, PreviewDelete, SourceBuild

\* A step that ends quiet began quiet, or was Start, and wrote nothing: every
\* change of the Project is an event that queues a reconcile.
LEMMA QuietStep ==
  ASSUME IInv, Next, Quiet', ~ Start
  PROVE  /\ Quiet /\ UNCHANGED <<proj, watch, dirty>>
         /\ pc # "idle" => app = proj
<1>1. ~ Deliver /\ ~ Restart
  BY DEF Quiet, Deliver, Restart
<1>2. UNCHANGED <<proj, watch>>
  BY <1>1, WatchGrows DEF Quiet
<1>3. UNCHANGED dirty
  BY RequestStays DEF Quiet
<1>4. Quiet
  BY <1>2, <1>3 DEF Quiet
<1> QED BY <1>2, <1>3, <1>4 DEF IInv, CacheFollows, Quiet

\* What a quiet reconcile cannot do: each of these writes would change the
\* Project.
LEMMA QuietWrites ==
  ASSUME IInv, OnItsWay, StepsDone, Next, Quiet', ~ Start
  PROVE  /\ ~ ClearDelete /\ ~ IgnorePreview /\ ~ Clear
         /\ ~ JobMissing /\ ~ MarkSucceeded
         /\ Decide => obs = "succeeded"
<1>q. /\ Quiet /\ UNCHANGED <<proj, watch, dirty>>
      /\ pc # "idle" => app = proj
  BY QuietStep
<1>t. /\ proj \in Projects /\ cur \in BuildStatus /\ LocalsSound
      /\ obs \in {"none", "running", "succeeded", "failed"}
  BY DEF IInv, TypeOK
<1>1. ASSUME Store([proj EXCEPT !.ann = NoAnn]) PROVE proj.ann = NoAnn
  <2>1. proj = [proj EXCEPT !.ann = NoAnn]
    BY <1>q, <1>1 DEF Store
  <2>2. [proj EXCEPT !.ann = NoAnn].ann = NoAnn
    BY <1>t DEF Projects
  <2> QED BY <2>1, <2>2
<1>2. ASSUME NEW f \in {"Failed", "Succeeded"},
             Store([proj EXCEPT !.build = [cur EXCEPT !.phase = f]])
      PROVE  proj.build.phase = f
  <2>1. proj = [proj EXCEPT !.build = [cur EXCEPT !.phase = f]]
    BY <1>q, <1>2 DEF Store
  <2>2. [proj EXCEPT !.build = [cur EXCEPT !.phase = f]].build = [cur EXCEPT !.phase = f]
    BY <1>t DEF Projects
  <2>3. [cur EXCEPT !.phase = f].phase = f
    BY <1>t DEF BuildStatus
  <2> QED BY <2>1, <2>2, <2>3
<1>3. ~ ClearDelete
  <2> SUFFICES ASSUME ClearDelete PROVE FALSE
    OBVIOUS
  <2>1. proj.ann = NoAnn /\ app = proj
    BY <1>1, <1>q DEF ClearDelete
  <2>2. app.ann.action = "delete"
    BY <1>t DEF ClearDelete, LocalsSound
  <2> QED BY <2>1, <2>2 DEF NoAnn
<1>4. ~ IgnorePreview
  <2> SUFFICES ASSUME IgnorePreview PROVE FALSE
    OBVIOUS
  <2>1. proj.ann = NoAnn /\ app = proj
    BY <1>1, <1>q DEF IgnorePreview
  <2>2. app.ann.trigger # NoTrigger
    BY DEF IgnorePreview, OnItsWay
  <2> QED BY <2>1, <2>2 DEF NoAnn
<1>5. ~ Clear
  <2> SUFFICES ASSUME Clear PROVE FALSE
    OBVIOUS
  <2>1. proj.ann = NoAnn /\ app = proj
    BY <1>1, <1>q DEF Clear
  <2>2. app.ann.trigger # NoTrigger
    BY DEF Clear, OnItsWay
  <2> QED BY <2>1, <2>2 DEF NoAnn
<1>6. ASSUME pc \in {"job", "decide", "publish", "mark"}, ~ fresh
      PROVE  proj.build.phase \in Active
  BY <1>6, <1>q DEF OnItsWay
<1>7. ~ JobMissing
  <2> SUFFICES ASSUME JobMissing PROVE FALSE
    OBVIOUS
  <2>1. proj.build.phase = "Failed"
    BY <1>2 DEF JobMissing
  <2> QED BY <1>6, <2>1 DEF JobMissing, Active
<1>8. ~ MarkSucceeded
  <2> SUFFICES ASSUME MarkSucceeded PROVE FALSE
    OBVIOUS
  <2>1. proj.build.phase = "Succeeded"
    BY <1>2 DEF MarkSucceeded
  <2>2. ~ fresh
    BY <1>q DEF MarkSucceeded, StepsDone
  <2> QED BY <1>6, <2>1, <2>2 DEF MarkSucceeded, Active
<1>9. Decide => obs = "succeeded"
  <2> SUFFICES ASSUME Decide, obs # "succeeded" PROVE FALSE
    OBVIOUS
  <2>1. obs # "running"
    BY <1>q DEF Decide, Quiet
  <2>2. proj.build.phase = "Failed"
    BY <1>2, <2>1 DEF Decide
  <2>3. ~ fresh /\ pc = "decide"
    BY <1>q DEF Decide, StepsDone
  <2> QED BY <1>6, <2>2, <2>3 DEF Active
<1> QED BY <1>3, <1>4, <1>5, <1>7, <1>8, <1>9

LEMMA RestStep ==
  ASSUME IInv, RestInv, Next
  PROVE  StepsDone' /\ RestIsConverged'
<1> SUFFICES ASSUME Quiet' PROVE StepsDone' /\ RestIsConverged'
  BY DEF StepsDone, RestIsConverged
<1>0. CASE Start
  BY <1>0 DEF Start, StepsDone, RestIsConverged
<1> SUFFICES ASSUME ~ Start PROVE StepsDone' /\ RestIsConverged'
  BY <1>0
<1>r. OnItsWay /\ StepsDone /\ RestIsConverged /\ Asks(app.ann)
  BY DEF RestInv, RequestsAsk
<1>q. /\ Quiet /\ UNCHANGED <<proj, watch, dirty>>
      /\ pc # "idle" => app = proj
  BY QuietStep
<1>w. /\ ~ ClearDelete /\ ~ IgnorePreview /\ ~ Clear
      /\ ~ JobMissing /\ ~ MarkSucceeded
      /\ Decide => obs = "succeeded"
  BY <1>r, QuietWrites
<1>f. ~ CallFails /\ ~ Restart
  BY DEF Quiet, CallFails, Restart
<1>1. CASE ~ Reconcile
  <2>1. UNCHANGED <<pc, app, fresh, deployed>>
    BY <1>1, <1>f, OthersKeep DEF opVars
  <2> QED BY <1>r, <1>q, <2>1 DEF StepsDone, RestIsConverged
<1>2. CASE CancelJob \/ CancelStatus \/ DeletePreview
  BY <1>2 DEF CancelJob, CancelStatus, DeletePreview, Goto, StepsDone, RestIsConverged
<1>3. CASE TtlCleanup
  BY <1>3 DEF TtlCleanup, Goto, StepsDone, RestIsConverged
<1>4. CASE Gate
  <2>1. CASE pc' = "job"
    BY <2>1 DEF StepsDone, RestIsConverged
  <2>2. CASE pc' # "job"
    <3>1. NewBuild(app) = NoBuild /\ pc = "gate" /\ app = proj
      BY <1>4, <1>q, <2>2 DEF Gate
    <3>2. ~(app.ann.trigger # NoTrigger /\ app.ann.action = "create" /\ ~app.previews)
      BY <1>r, <1>q, <3>1 DEF StepsDone
    <3>3. app.ann.trigger = NoTrigger
      BY <3>1, <3>2 DEF NewBuild, NoBuild
    <3>4. app.ann = NoAnn
      BY <1>r, <3>1, <3>3 DEF OnItsWay, Asks
    <3>5. CASE pc' = "rollout"
      BY <1>4, <3>4, <3>5 DEF Gate, Goto, Idle, StepsDone, RestIsConverged
    <3>6. CASE pc' = "idle"
      <4>1. app.build.phase = "Failed"
        BY <1>4, <3>6 DEF Gate, Goto
      <4>2. proj'.build.phase = "Failed" /\ proj'.ann = NoAnn
        BY <1>q, <3>1, <3>4, <4>1
      <4> QED BY <3>6, <4>2 DEF StepsDone, RestIsConverged
    <3> QED BY <1>4, <2>2, <3>5, <3>6 DEF Gate, Goto, Idle
  <2> QED BY <2>1, <2>2
<1>5. CASE GetJob
  BY <1>5 DEF GetJob, StepsDone, RestIsConverged
<1>6. CASE Pend
  BY <1>6 DEF Pend, Goto, StepsDone, RestIsConverged
<1>7. CASE Decide
  BY <1>7, <1>w, <1>r, <1>q DEF Decide, Goto, StepsDone, RestIsConverged
<1>8. CASE Publish
  BY <1>8, <1>r, <1>q DEF Publish, Goto, StepsDone, RestIsConverged
<1>9. CASE Rollout
  BY <1>9, <1>r, <1>q DEF Rollout, Goto, StepsDone, RestIsConverged
<1>10. CASE UpdateStatus
  <2>1. app = proj /\ pc = "status" /\ pc' = "idle" /\ UNCHANGED deployed
    BY <1>10, <1>q DEF UpdateStatus, Idle, outVars
  <2>2. app.ann = NoAnn /\ deployed = app.image
    BY <1>r, <1>q, <2>1 DEF StepsDone
  <2>3. app.build.phase \notin Active
    BY <2>1 DEF IInv, LocalsSound
  <2> QED BY <1>q, <2>1, <2>2, <2>3 DEF StepsDone, RestIsConverged
<1> QED
  BY <1>w, <1>1, <1>2, <1>3, <1>4, <1>5, <1>6, <1>7, <1>8, <1>9, <1>10
     DEF Reconcile, PreviewDelete, SourceBuild

LEMMA RestInitHolds == Init => RestInv
<1> SUFFICES ASSUME Init PROVE RestInv
  OBVIOUS
<1>1. PICK e \in PreviewSettings : proj = [Imported EXCEPT !.previews = e]
  BY DEF Init
<1>2. proj.ann = Imported.ann /\ cache = proj /\ app = Imported
  BY <1>1 DEF Init, Imported
<1>3. Imported.ann.trigger = Initial /\ Initial # NoTrigger
  BY PipelineAssumption DEF Imported, NoAnn, Triggers
<1>4. Asks(Imported.ann) /\ Asks(NoAnn)
  BY <1>3 DEF Asks
<1> QED BY <1>2, <1>4
        DEF Init, RestInv, RequestsAsk, OnItsWay, StepsDone, RestIsConverged, Quiet

\* The inductive invariant behind the rest of the operator: what reconcile has
\* established at each step when nothing is queued behind it.
THEOREM RestInvariance == Spec => []RestInv
<1>1. IInv /\ RestInv /\ [Next]_vars => RestInv'
  <2> SUFFICES ASSUME IInv, RestInv, [Next]_vars PROVE RestInv'
    OBVIOUS
  <2>1. RequestsAsk' /\ OnItsWay'
    BY RequestsAskStep, OnItsWayStep DEF RestInv
  <2>2. StepsDone' /\ RestIsConverged'
    <3>1. CASE Next
      BY <3>1, RestStep
    <3>2. CASE UNCHANGED vars
      BY <3>2 DEF vars, opVars, outVars, RestInv, StepsDone, RestIsConverged, Quiet
    <3> QED BY <3>1, <3>2
  <2> QED BY <2>1, <2>2 DEF RestInv
<1> QED BY RestInitHolds, <1>1, Invariance, PTL DEF Spec

\* No wake-up is missing: when no reconcile runs, none is queued and no version
\* is on its way, the requests on the Project are consumed and production runs
\* the image the Project names, unless the last build failed.
THEOREM RestConverged == Spec => []RestIsConverged
<1>1. RestInv => RestIsConverged
  BY DEF RestInv
<1> QED BY RestInvariance, <1>1, PTL
=============================================================================
