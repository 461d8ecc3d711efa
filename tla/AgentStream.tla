---------------------------- MODULE AgentStream ----------------------------
(***************************************************************************)
(* The control plane's half of the agent link: the AgentRegistry map, the  *)
(* two tasks RegistryBackedAgentService spawns for every authenticated     *)
(* agent stream, and the callers of send_command_to_cluster.               *)
(*                                                                         *)
(*   caller -> chan (mpsc, 64) -> forward task -> out (mpsc, 64) -> agent  *)
(*                                                                         *)
(* What is kept and what is abstracted:                                    *)
(*  - A connection stands for its generation: next_generation hands every  *)
(*    registration a number of its own, so "conn.generation = generation"  *)
(*    is "the entry is still this connection's".                           *)
(*  - The map is DashMap (external).  A shard guard is a reader/writer     *)
(*    lock; readers do not wait for parked writers.  A lock is kept per    *)
(*    agent_id: two agents that share a shard only add waiting.            *)
(*  - send_command keeps the read guard of its entry across the .await on  *)
(*    a full channel.  Every write to the entry (register, heartbeat,      *)
(*    unregister_if) waits for the guard.  That wait is no .await: it      *)
(*    blocks the worker thread of the runtime, and with it what else would *)
(*    run there.  Other workers may go on or may not exist, so steps go    *)
(*    on being possible while a task blocks and nothing is promised then.  *)
(*  - A receiver is dropped when its task's async block ends, which for    *)
(*    the forward task is after unregister_if.                             *)
(*  - What a heartbeat or a health report writes is left out, as only the  *)
(*    eviction reads it and nothing calls that; that they wait for the     *)
(*    guard is kept for the heartbeat.  A heartbeat that is still buffered *)
(*    when its connection breaks counts as the end of the stream: either   *)
(*    way the event task goes for the guard next.                          *)
(***************************************************************************)
EXTENDS Naturals, Sequences, FiniteSets

CONSTANTS
  Agents,     \* agent ids a peer may announce
  Clusters,   \* cluster ids the agent token interceptor may authenticate
  Conns,      \* stream connections, each used once (bound on reconnects)
  Cmds,       \* calls of send_command_to_cluster, each made once (bound)
  Called,     \* clusters the calls may be addressed to
  Announce,   \* <<agent, cluster>> pairs that peers present
  Beating,    \* connections that live long enough to send heartbeats
  Workers,    \* worker threads of the runtime
  Cap,        \* capacity of the registry's command channel (64 in the code)
  OutCap,     \* capacity of the outbound stream's channel (64 in the code)
  None        \* "no entry"

ASSUME AnnounceAssumption == Announce \subseteq Agents \X Clusters
ASSUME CalledAssumption == Called \subseteq Clusters
ASSUME BeatingAssumption == Beating \subseteq Conns
ASSUME WorkersAssumption == Workers \in Nat \ {0}
ASSUME CapAssumption == Cap \in Nat \ {0} /\ OutCap \in Nat \ {0}
ASSUME NoneAssumption == None \notin Agents \cup Clusters \cup Conns

VARIABLES
  reg,        \* registry: agent id -> connection that owns the entry
  who,        \* connection -> agent id it announced
  binding,    \* connection -> authenticated cluster
  peer,       \* connection -> "idle", "live" (agent attached) or "gone"
  fwd,        \* forward task: "off", "run", "cleanup" (left its loop), "done"
  evt,        \* handler, later event task: "off", "open" (registering), "run",
              \* "beat" (writes a heartbeat), "cleanup", "done"
  chan,       \* registry command channel of the connection
  hold,       \* command the forward task took and has not sent on yet
  out,        \* outbound channel of the stream
  outOpen,    \* the transport still holds the outbound receiver
  send,       \* call: "idle", "found", "wait" (guard held, no room), "ok", "err"
  dest,       \* call -> cluster it is addressed to
  tgt,        \* call -> agent id found for it
  accepted,   \* history: commands the channel accepted (send returned Ok)
  delivered   \* history: commands the agent received

connVars == <<who, binding, peer, fwd, evt>>
dataVars == <<chan, hold, out, outOpen, delivered>>
callVars == <<send, dest, tgt, accepted>>
vars == <<reg, connVars, dataVars, callVars>>

TypeOK ==
  /\ reg \in [Agents -> Conns \cup {None}]
  /\ who \in [Conns -> Agents \cup {None}]
  /\ binding \in [Conns -> Clusters \cup {None}]
  /\ peer \in [Conns -> {"idle", "live", "gone"}]
  /\ fwd \in [Conns -> {"off", "run", "cleanup", "done"}]
  /\ evt \in [Conns -> {"off", "open", "run", "beat", "cleanup", "done"}]
  /\ chan \in [Conns -> Seq(Cmds)]
  /\ hold \in [Conns -> Seq(Cmds)]
  /\ out \in [Conns -> Seq(Cmds)]
  /\ outOpen \in [Conns -> BOOLEAN]
  /\ send \in [Cmds -> {"idle", "found", "wait", "ok", "err"}]
  /\ dest \in [Cmds -> Clusters \cup {None}]
  /\ tgt \in [Cmds -> Agents \cup {None}]
  /\ accepted \in [Conns -> Seq(Cmds)]
  /\ delivered \in [Conns -> Seq(Cmds)]

Init ==
  /\ reg = [a \in Agents |-> None]
  /\ who = [c \in Conns |-> None]
  /\ binding = [c \in Conns |-> None]
  /\ peer = [c \in Conns |-> "idle"]
  /\ fwd = [c \in Conns |-> "off"]
  /\ evt = [c \in Conns |-> "off"]
  /\ chan = [c \in Conns |-> <<>>]
  /\ hold = [c \in Conns |-> <<>>]
  /\ out = [c \in Conns |-> <<>>]
  /\ outOpen = [c \in Conns |-> FALSE]
  /\ send = [m \in Cmds |-> "idle"]
  /\ dest = [m \in Cmds |-> None]
  /\ tgt = [m \in Cmds |-> None]
  /\ accepted = [c \in Conns |-> <<>>]
  /\ delivered = [c \in Conns |-> <<>>]

-----------------------------------------------------------------------------
(* The map *)

\* No caller holds the read guard of the entry, so a writer gets through.
WriteLockFree(a) == \A m \in Cmds : ~ (send[m] = "wait" /\ tgt[m] = a)

\* Mutant of UnregisterIf: plain unregister, no check of the generation.
UnregisterAny(a, c) == reg' = [reg EXCEPT ![a] = None]

\* unregister_if: the entry goes only if it is still this connection's.
UnregisterIf(a, c) ==
  reg' = IF reg[a] = c THEN [reg EXCEPT ![a] = None] ELSE reg

\* The sender half of chan[c] lives in the registry entry.
SenderDropped(c) == reg[who[c]] # c

-----------------------------------------------------------------------------
(* agent_stream_authenticated: open a stream *)

\* The first event of a stream: the handler takes the id it announces and the
\* authenticated cluster, and goes to register them.
Connected(c, a, k) ==
  /\ peer[c] = "idle" /\ evt[c] = "off"
  /\ who' = [who EXCEPT ![c] = a]
  /\ binding' = [binding EXCEPT ![c] = k]
  /\ evt' = [evt EXCEPT ![c] = "open"]
  /\ UNCHANGED <<reg, peer, fwd, dataVars, callVars>>

\* register_with_cluster on a vacant entry, or one of the same cluster, whose
\* connection is replaced.  Both tasks are spawned in the same handler.
MayRegister(a, k) == reg[a] # None => binding[reg[a]] = k

Register(c) ==
  /\ evt[c] = "open"
  /\ WriteLockFree(who[c])
  /\ MayRegister(who[c], binding[c])
  /\ reg' = [reg EXCEPT ![who[c]] = c]
  /\ peer' = [peer EXCEPT ![c] = "live"]
  /\ fwd' = [fwd EXCEPT ![c] = "run"]
  /\ evt' = [evt EXCEPT ![c] = "run"]
  /\ outOpen' = [outOpen EXCEPT ![c] = TRUE]
  /\ UNCHANGED <<who, binding, chan, hold, out, delivered, callVars>>

\* The entry belongs to another cluster: ClusterMismatch, nothing is spawned.
Refuse(c) ==
  /\ evt[c] = "open"
  /\ WriteLockFree(who[c])
  /\ ~ MayRegister(who[c], binding[c])
  /\ peer' = [peer EXCEPT ![c] = "gone"]
  /\ evt' = [evt EXCEPT ![c] = "off"]
  /\ UNCHANGED <<reg, who, binding, fwd, dataVars, callVars>>

-----------------------------------------------------------------------------
(* The forward task: while let Some(cmd) = command_rx.recv() *)

\* Mutant of FwdRecv: room in the outbound channel is reserved first, off by
\* one at its limit.
FwdRecvReserves(c) ==
  /\ fwd[c] = "run" /\ hold[c] = <<>> /\ chan[c] # <<>>
  /\ Len(out[c]) + 1 < OutCap
  /\ hold' = [hold EXCEPT ![c] = <<Head(chan[c])>>]
  /\ chan' = [chan EXCEPT ![c] = Tail(@)]
  /\ UNCHANGED <<reg, connVars, out, outOpen, delivered, callVars>>

FwdRecv(c) ==
  /\ fwd[c] = "run" /\ hold[c] = <<>> /\ chan[c] # <<>>
  /\ hold' = [hold EXCEPT ![c] = <<Head(chan[c])>>]
  /\ chan' = [chan EXCEPT ![c] = Tail(@)]
  /\ UNCHANGED <<reg, connVars, out, outOpen, delivered, callVars>>

\* recv() returns None: the sender is gone and the channel is drained.
FwdClosed(c) ==
  /\ fwd[c] = "run" /\ hold[c] = <<>> /\ chan[c] = <<>>
  /\ SenderDropped(c)
  /\ fwd' = [fwd EXCEPT ![c] = "cleanup"]
  /\ UNCHANGED <<reg, who, binding, peer, evt, dataVars, callVars>>

\* Mutant of FwdSend: the command in hand is kept and sent again.
FwdSendTwice(c) ==
  /\ fwd[c] = "run" /\ hold[c] # <<>>
  /\ outOpen[c] /\ Len(out[c]) < OutCap
  /\ out' = [out EXCEPT ![c] = @ \o hold[c]]
  /\ UNCHANGED <<reg, connVars, hold, chan, outOpen, delivered, callVars>>

FwdSend(c) ==
  /\ fwd[c] = "run" /\ hold[c] # <<>>
  /\ outOpen[c] /\ Len(out[c]) < OutCap
  /\ out' = [out EXCEPT ![c] = @ \o hold[c]]
  /\ hold' = [hold EXCEPT ![c] = <<>>]
  /\ UNCHANGED <<reg, connVars, chan, outOpen, delivered, callVars>>

\* out_tx.send fails: the loop breaks and the command in hand is lost.
FwdBreak(c) ==
  /\ fwd[c] = "run" /\ hold[c] # <<>> /\ ~ outOpen[c]
  /\ hold' = [hold EXCEPT ![c] = <<>>]
  /\ fwd' = [fwd EXCEPT ![c] = "cleanup"]
  /\ UNCHANGED <<reg, who, binding, peer, evt, chan, out, outOpen, delivered, callVars>>

\* Mutant of FwdCleanup: the receiver is dropped, the entry stays.
FwdCleanupKeepsEntry(c) ==
  /\ fwd[c] = "cleanup"
  /\ fwd' = [fwd EXCEPT ![c] = "done"]
  /\ UNCHANGED <<reg, who, binding, peer, evt, dataVars, callVars>>

\* unregister_if, then the block ends: command_rx and out_tx are dropped.
FwdCleanup(c) ==
  /\ fwd[c] = "cleanup"
  /\ WriteLockFree(who[c])
  /\ UnregisterIf(who[c], c)
  /\ fwd' = [fwd EXCEPT ![c] = "done"]
  /\ UNCHANGED <<who, binding, peer, evt, dataVars, callVars>>

-----------------------------------------------------------------------------
(* The event task: while let Some(result) = events.next() *)

\* A heartbeat of the announcing agent: heartbeat() goes for the entry.
EvtBeat(c) ==
  /\ c \in Beating
  /\ evt[c] = "run" /\ peer[c] = "live"
  /\ evt' = [evt EXCEPT ![c] = "beat"]
  /\ UNCHANGED <<reg, who, binding, peer, fwd, dataVars, callVars>>

\* get_mut has the guard, or there is no entry.
EvtBeatDone(c) ==
  /\ evt[c] = "beat"
  /\ WriteLockFree(who[c])
  /\ evt' = [evt EXCEPT ![c] = "run"]
  /\ UNCHANGED <<reg, who, binding, peer, fwd, dataVars, callVars>>

EvtEnd(c) ==
  /\ evt[c] = "run" /\ peer[c] = "gone"
  /\ evt' = [evt EXCEPT ![c] = "cleanup"]
  /\ UNCHANGED <<reg, who, binding, peer, fwd, dataVars, callVars>>

\* Mutant of EvtCleanup: the event task ends without unregister_if.
EvtCleanupKeepsEntry(c) ==
  /\ evt[c] = "cleanup"
  /\ evt' = [evt EXCEPT ![c] = "done"]
  /\ UNCHANGED <<reg, who, binding, peer, fwd, dataVars, callVars>>

EvtCleanup(c) ==
  /\ evt[c] = "cleanup"
  /\ WriteLockFree(who[c])
  /\ UnregisterIf(who[c], c)
  /\ evt' = [evt EXCEPT ![c] = "done"]
  /\ UNCHANGED <<who, binding, peer, fwd, dataVars, callVars>>

-----------------------------------------------------------------------------
(* The transport and the agent at its far end *)

\* The connection breaks, or the agent process ends.
PeerLost(c) ==
  /\ peer[c] = "live"
  /\ peer' = [peer EXCEPT ![c] = "gone"]
  /\ UNCHANGED <<reg, who, binding, fwd, evt, dataVars, callVars>>

\* run_agent returns when the command stream ends: out_tx dropped and drained.
PeerStreamEnd(c) ==
  /\ peer[c] = "live" /\ fwd[c] = "done" /\ out[c] = <<>>
  /\ peer' = [peer EXCEPT ![c] = "gone"]
  /\ UNCHANGED <<reg, who, binding, fwd, evt, dataVars, callVars>>

\* tonic drops the response stream of a broken connection.
OutDropped(c) ==
  /\ peer[c] = "gone" /\ outOpen[c]
  /\ outOpen' = [outOpen EXCEPT ![c] = FALSE]
  /\ out' = [out EXCEPT ![c] = <<>>]
  /\ UNCHANGED <<reg, connVars, chan, hold, delivered, callVars>>

\* The agent reads the next command from the stream (handle_command).
AgentReceive(c) ==
  /\ peer[c] = "live" /\ out[c] # <<>>
  /\ delivered' = [delivered EXCEPT ![c] = Append(@, Head(out[c]))]
  /\ out' = [out EXCEPT ![c] = Tail(@)]
  /\ UNCHANGED <<reg, connVars, chan, hold, outOpen, callVars>>

-----------------------------------------------------------------------------
(* send_command_to_cluster and send_command *)

\* Mutant of BoundTo: any connected agent will do.
BoundToAny(k) == {a \in Agents : reg[a] # None}

BoundTo(k) == {a \in Agents : reg[a] # None /\ binding[reg[a]] = k}

\* agents.iter().find(..): the guard is released before send_command runs.
SendFind(m, k) ==
  /\ send[m] = "idle"
  /\ dest' = [dest EXCEPT ![m] = k]
  /\ \/ \E a \in BoundTo(k) :
          /\ tgt' = [tgt EXCEPT ![m] = a]
          /\ send' = [send EXCEPT ![m] = "found"]
     \/ /\ BoundTo(k) = {}
        /\ send' = [send EXCEPT ![m] = "err"]
        /\ UNCHANGED tgt
  /\ UNCHANGED <<reg, connVars, dataVars, accepted>>

\* agents.get(agent_id) finds no entry any more.
SendMiss(m) ==
  /\ send[m] = "found" /\ reg[tgt[m]] = None
  /\ send' = [send EXCEPT ![m] = "err"]
  /\ UNCHANGED <<reg, connVars, dataVars, dest, tgt, accepted>>

\* The channel takes the command.
Push(m, c) ==
  /\ fwd[c] # "done" /\ Len(chan[c]) < Cap
  /\ chan' = [chan EXCEPT ![c] = Append(@, m)]
  /\ accepted' = [accepted EXCEPT ![c] = Append(@, m)]
  /\ send' = [send EXCEPT ![m] = "ok"]
  /\ UNCHANGED <<reg, connVars, hold, out, outOpen, delivered, dest, tgt>>

\* Callers that hold the read guard and wait for room in the entry's channel.
Waiting(a) == {m \in Cmds : send[m] = "wait" /\ tgt[m] = a}

\* A place is free that no waiting caller is entitled to.
Room(a) == Len(chan[reg[a]]) + Cardinality(Waiting(a)) < Cap

\* The read guard is taken, send(command) has a permit in the same poll, and
\* the guard is released.
SendNow(m) ==
  /\ send[m] = "found" /\ reg[tgt[m]] # None /\ Room(tgt[m])
  /\ Push(m, reg[tgt[m]])

\* The read guard is taken and kept: send(command).await is pending.
SendWait(m) ==
  /\ send[m] = "found" /\ reg[tgt[m]] # None /\ ~ Room(tgt[m])
  /\ send' = [send EXCEPT ![m] = "wait"]
  /\ UNCHANGED <<reg, connVars, dataVars, dest, tgt, accepted>>

\* The caller is polled again with a permit; the guard is released.
SendPush(m) == send[m] = "wait" /\ Push(m, reg[tgt[m]])

Sending(m) == SendMiss(m) \/ SendNow(m) \/ SendWait(m) \/ SendPush(m)

-----------------------------------------------------------------------------
Open(c) == Register(c) \/ Refuse(c)

Forward(c) == FwdRecv(c) \/ FwdClosed(c) \/ FwdSend(c) \/ FwdBreak(c) \/ FwdCleanup(c)

Events(c) == EvtBeatDone(c) \/ EvtEnd(c) \/ EvtCleanup(c)

Far(c) == PeerLost(c) \/ PeerStreamEnd(c) \/ OutDropped(c) \/ AgentReceive(c)

Next ==
  \/ \E c \in Conns :
       \/ \E p \in Announce : Connected(c, p[1], p[2])
       \/ Open(c) \/ Forward(c) \/ EvtBeat(c) \/ Events(c) \/ Far(c)
  \/ \E m \in Cmds : Sending(m) \/ \E k \in Called : SendFind(m, k)

Spec == Init /\ [][Next]_vars

\* Tasks that wait for the guard of an entry, each of which keeps a worker
\* thread of the runtime; when no thread is left the process is stuck.
Blocked ==
  {t \in Conns \X {"fwd", "evt"} :
     /\ ~ WriteLockFree(who[t[1]])
     /\ \/ t[2] = "fwd" /\ fwd[t[1]] = "cleanup"
        \/ t[2] = "evt" /\ evt[t[1]] \in {"open", "beat", "cleanup"}}

Stuck == Cardinality(Blocked) >= Workers

\* While a worker thread is left, the runtime polls every task that can run,
\* the transport carries what was sent and reports a broken connection, and an
\* attached agent keeps reading: its loop awaits one command and its report at
\* a time, and the event task takes the reports.  Peers need not connect,
\* disconnect or send heartbeats, and calls need not be made.
Runs(A) == ~ Stuck /\ A

Fairness ==
  /\ \A c \in Conns : /\ WF_vars(Runs(Open(c) \/ Events(c)))
                      /\ WF_vars(Runs(Forward(c)))
                      /\ WF_vars(Runs(OutDropped(c) \/ AgentReceive(c)))
  /\ \A m \in Cmds : WF_vars(Runs(Sending(m)))

FairSpec == Spec /\ Fairness
-----------------------------------------------------------------------------
(* Properties *)

\* An entry that can be routed to always has a forward task that still owns the
\* receiver: a command is never accepted into a channel nobody will read, and
\* the "command channel closed" error of send_command is never the outcome.
ReceiverOutlivesEntry ==
  \A a \in Agents : reg[a] # None =>
    /\ who[reg[a]] = a
    /\ fwd[reg[a]] \in {"run", "cleanup"}

\* Through both channels and the forward task's hand, commands are neither lost,
\* duplicated nor reordered while the transport is up; whatever happens to the
\* connection, what the agent got is a prefix of what callers were told was Ok.
StreamIntegrity ==
  \A c \in Conns :
    /\ outOpen[c] => accepted[c] = delivered[c] \o out[c] \o hold[c] \o chan[c]
    /\ Len(delivered[c]) <= Len(accepted[c])
    /\ \A i \in 1 .. Len(delivered[c]) : delivered[c][i] = accepted[c][i]

\* What send_command_to_cluster documents: a command only ever enters the
\* stream of a connection that authenticated as the cluster the command is
\* addressed to.  The entry is let go of between finding it and sending, and the
\* id may then be registered under another cluster, so the code does not.
RoutedToItsCluster ==
  \A c \in Conns : \A i \in 1 .. Len(accepted[c]) :
    binding[c] = dest[accepted[c][i]]

\* The peers that announce this id belong to one cluster.
Sole(a) == \A p, q \in Announce : p[1] = a /\ q[1] = a => p[2] = q[2]

\* A command that enters a stream under an id of one cluster is addressed to
\* that cluster, whatever reconnects, clean-ups and other ids there are between
\* finding the agent and sending.  An agent draws its id (Uuid::now_v7 in its
\* main) and keeps the cluster of its token.
SoleIdsRouted ==
  \A c \in Conns : Sole(who[c]) =>
    \A i \in 1 .. Len(accepted[c]) : binding[c] = dest[accepted[c][i]]

\* Only the connection that owns an entry can make it disappear, in one of its
\* own clean-ups: the late clean-up of a connection that a reconnect replaced
\* leaves the replacement registered (unregister_if against unregister).
UnregisteredByOwner ==
  \A a \in Agents : reg[a] # None /\ reg'[a] = None =>
    LET c == reg[a] IN
    \/ fwd[c] = "cleanup" /\ fwd'[c] = "done"
    \/ evt[c] = "cleanup" /\ evt'[c] = "done"

OwnerUnregisters == [][UnregisteredByOwner]_vars

\* A call that waits for room returns unless a writer of the map ends up
\* blocked for good: the forward task drains the channel, or its clean-up and
\* the end of the stream let the call go.
SendReturnsUnlessStuck ==
  (<>[] ~ Stuck) =>
    \A m \in Cmds : (send[m] = "wait") ~> (send[m] \in {"ok", "err"})

\* The entry of a lost agent is removed, unless a writer ends up blocked.
LostPeerForgotten ==
  (<>[] ~ Stuck) =>
    \A c \in Conns :
      (peer[c] = "gone" /\ evt[c] # "off") ~> (\A a \in Agents : reg[a] # c)

\* What send_command_to_cluster documents: the call ends, with Ok or with Err
\* when the agent's command channel is closed.
SendReturns ==
  \A m \in Cmds : (send[m] = "wait") ~> (send[m] \in {"ok", "err"})

-----------------------------------------------------------------------------
(* The link that callers see *)

Outcome == [m \in Cmds |-> IF send[m] \in {"ok", "err"} THEN send[m]
                                                       ELSE "pending"]

Link == INSTANCE AgentLink WITH
          state <- peer, result <- Outcome, in <- accepted, got <- delivered

\* The registry, its guards, the two channels and the two tasks of a stream
\* implement the link: whatever reconnects, clean-ups and lost transports do,
\* a caller that got Ok has its command in one stream, once, a caller that
\* got Err has it in none, and an attached agent reads what was accepted, in
\* that order.
ImplementsLink == Link!LinkSpec

-----------------------------------------------------------------------------
(* The inductive invariant behind ReceiverOutlivesEntry and StreamIntegrity *)

\* A connection that was never opened has no task, no transport and no data.
IdleIsEmpty ==
  \A c \in Conns : peer[c] = "idle" =>
    fwd[c] = "off" /\ ~ outOpen[c] /\ accepted[c] = <<>> /\ delivered[c] = <<>>
    /\ out[c] = <<>> /\ hold[c] = <<>> /\ chan[c] = <<>>

\* A connection that goes to register has announced an id and is not attached.
OpenIsIdle == \A c \in Conns : evt[c] = "open" => peer[c] = "idle" /\ who[c] \in Agents

\* The outbound receiver outlives the agent's attachment, never the reverse.
LiveHasTransport == \A c \in Conns : peer[c] = "live" => outOpen[c]

\* A waiting caller holds the guard of an entry that exists.
WaitHasEntry ==
  \A m \in Cmds : send[m] = "wait" => tgt[m] \in Agents /\ reg[tgt[m]] # None
FoundHasTarget == \A m \in Cmds : send[m] = "found" => tgt[m] \in Agents

IInv == TypeOK /\ ReceiverOutlivesEntry /\ StreamIntegrity
        /\ IdleIsEmpty /\ OpenIsIdle /\ LiveHasTransport /\ WaitHasEntry /\ FoundHasTarget

(* The one behind SoleIdsRouted *)

\* A connection holds a pair that a peer presented.
BoundAsAnnounced ==
  \A c \in Conns : who[c] # None => <<who[c], binding[c]>> \in Announce

\* The agent a call found was announced under the call's cluster.
TargetAnnounced ==
  \A m \in Cmds : send[m] \in {"found", "wait"} => <<tgt[m], dest[m]>> \in Announce

\* A command that a channel accepted belongs to a call that is over, and its
\* cluster is one the id of the connection was announced under.
AcceptedAnnounced ==
  \A c \in Conns : \A i \in 1 .. Len(accepted[c]) :
    /\ send[accepted[c][i]] = "ok"
    /\ who[c] # None /\ <<who[c], dest[accepted[c][i]]>> \in Announce

RouteInv == BoundAsAnnounced /\ TargetAnnounced /\ AcceptedAnnounced
=============================================================================
