------------------------- MODULE AgentStreamProofs -------------------------
(***************************************************************************)
(* Proofs about AgentStream, for every set of agents, clusters,            *)
(* connections and calls and every channel capacity.                       *)
(***************************************************************************)
EXTENDS AgentStream, SequenceTheorems, TLAPS

-----------------------------------------------------------------------------
(* The algebra of the four queues a command passes through *)

\* Moving the head of one queue to the end of the queue before it leaves the
\* concatenation of the two unchanged.
LEMMA MoveHead ==
  ASSUME NEW S, NEW p \in Seq(S), NEW q \in Seq(S), q # <<>>
  PROVE  Append(p, Head(q)) \o Tail(q) = p \o q
<1>1. Head(q) \in S /\ Tail(q) \in Seq(S)
  BY HeadTailProperties
<1>2. <<Head(q)>> \in Seq(S) /\ Len(<<Head(q)>>) = 1 /\ <<Head(q)>>[1] = Head(q)
  BY <1>1
<1>3. <<Head(q)>> \o Tail(q) = q
  <2> DEFINE r == <<Head(q)>> \o Tail(q)
  <2>1. /\ r \in Seq(S)
        /\ Len(r) = 1 + Len(Tail(q))
        /\ \A i \in 1 .. 1 + Len(Tail(q)) :
             r[i] = IF i <= 1 THEN <<Head(q)>>[i] ELSE Tail(q)[i - 1]
    BY <1>1, <1>2, ConcatProperties
  <2>2. /\ Len(Tail(q)) = Len(q) - 1
        /\ \A i \in 1 .. Len(Tail(q)) : Tail(q)[i] = q[i + 1]
        /\ Len(q) \in Nat \ {0}
    BY HeadTailProperties, EmptySeq
  <2>3. Head(q) = q[1]
    OBVIOUS
  <2> HIDE DEF r
  <2>4. Len(r) = Len(q)
    BY <2>1, <2>2
  <2>5. ASSUME NEW i \in 1 .. Len(r)  PROVE r[i] = q[i]
    <3>1. CASE i = 1
      BY <3>1, <2>1, <2>2, <2>3, <1>2
    <3>2. CASE i # 1
      <4>1. i - 1 \in 1 .. Len(Tail(q))
        BY <3>2, <2>1, <2>2
      <4>2. r[i] = Tail(q)[i - 1]
        BY <3>2, <2>1, <2>2
      <4>3. Tail(q)[i - 1] = q[(i - 1) + 1]
        BY <4>1, <2>2
      <4>4. (i - 1) + 1 = i
        BY <2>2, <2>4
      <4> QED BY <4>2, <4>3, <4>4
    <3> QED BY <3>1, <3>2
  <2>6. r = q
    BY <2>1, <2>4, <2>5, SeqEqual
  <2> QED BY <2>6 DEF r
<1>4. Append(p, Head(q)) = p \o <<Head(q)>>
  BY <1>1, AppendIsConcat
<1> QED BY <1>1, <1>2, <1>3, <1>4, ConcatAssociative

\* A sequence is a prefix of whatever it is concatenated with.
LEMMA PrefixOfConcat ==
  ASSUME NEW S, NEW p \in Seq(S), NEW q \in Seq(S)
  PROVE  /\ Len(p) <= Len(p \o q)
         /\ \A i \in 1 .. Len(p) : p[i] = (p \o q)[i]
BY ConcatProperties, LenProperties

\* The same for the first of four queues, named so that it stays folded.
IsPrefixOf(p, s) == Len(p) <= Len(s) /\ \A i \in 1 .. Len(p) : p[i] = s[i]

LEMMA PrefixOfFour ==
  ASSUME NEW S, NEW p \in Seq(S), NEW q \in Seq(S), NEW r \in Seq(S), NEW t \in Seq(S)
  PROVE  IsPrefixOf(p, ((p \o q) \o r) \o t)
<1>1. PICK qr \in Seq(S) : qr = q \o r
  BY ConcatProperties
<1>2. (p \o q) \o r = p \o qr
  BY <1>1, ConcatAssociative, SMTT(20)
<1>3. PICK w \in Seq(S) : w = qr \o t
  BY ConcatProperties
<1>4. (p \o qr) \o t = p \o w
  BY <1>3, ConcatAssociative, SMTT(20)
<1> QED BY <1>2, <1>4, PrefixOfConcat DEF IsPrefixOf

-----------------------------------------------------------------------------
(* The inductive invariant *)

LEMMA InitIInv == Init => IInv
<1> SUFFICES ASSUME Init PROVE IInv
  OBVIOUS
<1>1. TypeOK
  BY EmptySeq DEF Init, TypeOK
<1>2. StreamIntegrity
  BY DEF Init, StreamIntegrity
<1>3. /\ ReceiverOutlivesEntry /\ IdleIsEmpty /\ OpenIsIdle
      /\ LiveHasTransport /\ WaitHasEntry /\ FoundHasTarget
  BY DEF Init, ReceiverOutlivesEntry, IdleIsEmpty, OpenIsIdle, LiveHasTransport,
         WaitHasEntry, FoundHasTarget
<1> QED BY <1>1, <1>2, <1>3 DEF IInv

\* A command is accepted by the connection whose entry the call's target has.
LEMMA Pushing ==
  ASSUME IInv, NEW m \in Cmds, SendNow(m) \/ SendPush(m)
  PROVE  /\ tgt[m] \in Agents /\ send[m] \in {"found", "wait"}
         /\ \E c \in Conns : /\ c = reg[tgt[m]] /\ who[c] = tgt[m]
                             /\ peer[c] # "idle" /\ Push(m, c)
<1>1. tgt[m] \in Agents /\ reg[tgt[m]] # None /\ send[m] \in {"found", "wait"}
  BY DEF IInv, SendNow, SendPush, WaitHasEntry, FoundHasTarget
<1>2. PICK c \in Conns : c = reg[tgt[m]]
  BY <1>1 DEF IInv, TypeOK
<1>3. who[c] = tgt[m] /\ fwd[c] \in {"run", "cleanup"}
  BY <1>1, <1>2 DEF IInv, ReceiverOutlivesEntry
<1>4. peer[c] # "idle"
  BY <1>3 DEF IInv, IdleIsEmpty
<1>5. Push(m, c)
  BY <1>2 DEF SendNow, SendPush
<1> QED BY <1>1, <1>2, <1>3, <1>4, <1>5

\* TypeOK is preserved by every step, given where a caller's target comes from.
LEMMA TypeStep == IInv /\ [Next]_vars => TypeOK'
<1> SUFFICES ASSUME IInv, [Next]_vars PROVE TypeOK'
  OBVIOUS
<1> USE DEF IInv, TypeOK, vars, connVars, dataVars, callVars
<1>1. ASSUME NEW c \in Conns, Open(c) PROVE TypeOK'
  <2>1. CASE Register(c)
    <3>1. who[c] \in Agents
      BY <2>1 DEF Register, OpenIsIdle
    <3> QED BY <2>1, <3>1 DEF Register
  <2>2. CASE Refuse(c)
    BY <2>2 DEF Refuse
  <2> QED BY <1>1, <2>1, <2>2 DEF Open
<1>11. ASSUME NEW c \in Conns, NEW p \in Announce, Connected(c, p[1], p[2]) PROVE TypeOK'
  <2>1. p[1] \in Agents /\ p[2] \in Clusters
    BY AnnounceAssumption
  <2> QED BY <1>11, <2>1 DEF Connected
<1>12. ASSUME NEW c \in Conns, EvtBeat(c) PROVE TypeOK'
  BY <1>12 DEF EvtBeat
<1>2. ASSUME NEW c \in Conns, Forward(c) PROVE TypeOK'
  <2>1. CASE FwdRecv(c)
    <3>1. Head(chan[c]) \in Cmds /\ Tail(chan[c]) \in Seq(Cmds)
      BY <2>1, HeadTailProperties DEF FwdRecv
    <3>2. <<Head(chan[c])>> \in Seq(Cmds)
      BY <3>1
    <3> QED BY <2>1, <3>1, <3>2 DEF FwdRecv
  <2>2. CASE FwdClosed(c)
    BY <2>2 DEF FwdClosed
  <2>3. CASE FwdSend(c)
    <3>1. out[c] \o hold[c] \in Seq(Cmds) /\ <<>> \in Seq(Cmds)
      BY ConcatProperties, EmptySeq
    <3> QED BY <2>3, <3>1 DEF FwdSend
  <2>4. CASE FwdBreak(c)
    BY <2>4, EmptySeq DEF FwdBreak
  <2>5. CASE FwdCleanup(c)
    BY <2>5 DEF FwdCleanup, UnregisterIf
  <2> QED BY <1>2, <2>1, <2>2, <2>3, <2>4, <2>5 DEF Forward
<1>3. ASSUME NEW c \in Conns, Events(c) PROVE TypeOK'
  <2>1. CASE EvtBeatDone(c) \/ EvtEnd(c)
    BY <2>1 DEF EvtBeatDone, EvtEnd
  <2>2. CASE EvtCleanup(c)
    BY <2>2 DEF EvtCleanup, UnregisterIf
  <2> QED BY <1>3, <2>1, <2>2 DEF Events
<1>4. ASSUME NEW c \in Conns, PeerLost(c) \/ PeerStreamEnd(c) PROVE TypeOK'
  BY <1>4 DEF PeerLost, PeerStreamEnd
<1>5. ASSUME NEW c \in Conns, OutDropped(c) PROVE TypeOK'
  BY <1>5, EmptySeq DEF OutDropped
<1>6. ASSUME NEW c \in Conns, AgentReceive(c) PROVE TypeOK'
  <2>1. Head(out[c]) \in Cmds /\ Tail(out[c]) \in Seq(Cmds)
    BY <1>6, HeadTailProperties DEF AgentReceive
  <2>2. Append(delivered[c], Head(out[c])) \in Seq(Cmds)
    BY <2>1, AppendProperties
  <2> QED BY <1>6, <2>1, <2>2 DEF AgentReceive
<1>7. ASSUME NEW m \in Cmds, SendMiss(m) \/ SendWait(m) PROVE TypeOK'
  BY <1>7 DEF SendMiss, SendWait
<1>8. ASSUME NEW m \in Cmds, SendNow(m) \/ SendPush(m) PROVE TypeOK'
  <2>1. PICK c \in Conns : Push(m, c)
    BY <1>8, Pushing
  <2>2. Append(chan[c], m) \in Seq(Cmds) /\ Append(accepted[c], m) \in Seq(Cmds)
    BY <2>1, AppendProperties
  <2> QED BY <2>1, <2>2 DEF Push
<1>9. ASSUME NEW m \in Cmds, NEW k \in Called, SendFind(m, k) PROVE TypeOK'
  BY <1>9, CalledAssumption DEF SendFind, BoundTo
<1>10. CASE UNCHANGED vars
  BY <1>10
<1> QED
  BY <1>1, <1>2, <1>3, <1>4, <1>5, <1>6, <1>7, <1>8, <1>9, <1>10, <1>11, <1>12
     DEF Next, Far, Sending

\* An entry always belongs to a connection whose forward task owns the receiver.
LEMMA ReceiverStep == IInv /\ TypeOK' /\ [Next]_vars => ReceiverOutlivesEntry'
<1> SUFFICES ASSUME IInv, TypeOK', [Next]_vars PROVE ReceiverOutlivesEntry'
  OBVIOUS
<1> USE NoneAssumption DEF IInv, ReceiverOutlivesEntry, vars, connVars, dataVars, callVars
<1>t. TypeOK
  OBVIOUS
<1>1. ASSUME NEW c \in Conns, Register(c) PROVE ReceiverOutlivesEntry'
  \* no entry was this connection's before: its task had not been spawned
  <2>1. (\A a \in Agents : reg[a] # c) /\ who[c] \in Agents
    BY <1>1 DEF Register, OpenIsIdle, IdleIsEmpty
  <2>2. SUFFICES ASSUME NEW a \in Agents, reg'[a] # None
                 PROVE  who'[reg'[a]] = a /\ fwd'[reg'[a]] \in {"run", "cleanup"}
    OBVIOUS
  <2>3. CASE a = who[c]
    BY <1>t, <1>1, <2>3 DEF Register, TypeOK
  <2>4. CASE a # who[c]
    <3>1. reg'[a] = reg[a] /\ reg[a] \in Conns /\ reg[a] # c
      BY <1>t, <1>1, <2>1, <2>2, <2>4 DEF Register, TypeOK
    <3> QED BY <1>t, <1>1, <3>1 DEF Register, TypeOK
  <2> QED BY <2>3, <2>4
<1>7. ASSUME NEW c \in Conns, NEW a \in Agents, NEW k, Connected(c, a, k)
      PROVE  ReceiverOutlivesEntry'
  <2>1. \A b \in Agents : reg[b] # c
    BY <1>7 DEF Connected, IdleIsEmpty
  <2>2. \A b \in Agents : reg[b] # None => reg[b] \in Conns
    BY <1>t DEF TypeOK
  <2>3. reg' = reg /\ fwd' = fwd /\ who' = [who EXCEPT ![c] = a]
    BY <1>7 DEF Connected
  <2> QED BY <1>t, <2>1, <2>2, <2>3 DEF TypeOK
<1>8. ASSUME NEW c \in Conns, Refuse(c) \/ EvtBeat(c) PROVE ReceiverOutlivesEntry'
  BY <1>8 DEF Refuse, EvtBeat
<1>2. ASSUME NEW c \in Conns, Forward(c) PROVE ReceiverOutlivesEntry'
  <2>1. CASE FwdRecv(c) \/ FwdSend(c)
    BY <2>1 DEF FwdRecv, FwdSend
  <2>2. CASE FwdClosed(c) \/ FwdBreak(c)
    <3>1. reg' = reg /\ who' = who /\ fwd' = [fwd EXCEPT ![c] = "cleanup"]
      BY <2>2 DEF FwdClosed, FwdBreak
    <3>2. \A a \in Agents : reg[a] # None => reg[a] \in Conns
      BY <1>t DEF TypeOK
    <3> QED BY <1>t, <3>1, <3>2 DEF TypeOK
  <2>3. CASE FwdCleanup(c)
    \* the entry, if it was this connection's, is gone with the receiver
    <3>1. \A a \in Agents : reg'[a] # None => reg'[a] = reg[a] /\ reg[a] # c
      BY <1>t, <2>3 DEF FwdCleanup, UnregisterIf, TypeOK
    <3> QED BY <1>t, <2>3, <3>1 DEF FwdCleanup, TypeOK
  <2> QED BY <1>2, <2>1, <2>2, <2>3 DEF Forward
<1>3. ASSUME NEW c \in Conns, Events(c) PROVE ReceiverOutlivesEntry'
  <2>1. CASE EvtBeatDone(c) \/ EvtEnd(c)
    BY <2>1 DEF EvtBeatDone, EvtEnd
  <2>2. CASE EvtCleanup(c)
    <3>1. \A a \in Agents : reg'[a] # None => reg'[a] = reg[a]
      BY <1>t, <2>2 DEF EvtCleanup, UnregisterIf, TypeOK
    <3> QED BY <2>2, <3>1 DEF EvtCleanup
  <2> QED BY <1>3, <2>1, <2>2 DEF Events
<1>4. ASSUME NEW c \in Conns, PeerLost(c) \/ PeerStreamEnd(c) \/ OutDropped(c) \/ AgentReceive(c)
      PROVE  ReceiverOutlivesEntry'
  BY <1>4 DEF PeerLost, PeerStreamEnd, OutDropped, AgentReceive
<1>5. ASSUME NEW m \in Cmds, Sending(m) \/ \E k \in Called : SendFind(m, k)
      PROVE  ReceiverOutlivesEntry'
  BY <1>5 DEF Sending, SendMiss, SendNow, SendWait, SendPush, Push, SendFind
<1>6. CASE UNCHANGED vars
  BY <1>6
<1>9. \A p \in Announce : p[1] \in Agents
  BY AnnounceAssumption
<1> QED
  BY <1>1, <1>2, <1>3, <1>4, <1>5, <1>6, <1>7, <1>8, <1>9 DEF Next, Open, Far

\* The bookkeeping conjuncts of the invariant.
LEMMA AuxStep ==
  IInv /\ TypeOK' /\ [Next]_vars =>
    IdleIsEmpty' /\ OpenIsIdle' /\ LiveHasTransport' /\ WaitHasEntry' /\ FoundHasTarget'
<1> SUFFICES ASSUME IInv, TypeOK', [Next]_vars
             PROVE  IdleIsEmpty' /\ OpenIsIdle' /\ LiveHasTransport' /\ WaitHasEntry' /\ FoundHasTarget'
  OBVIOUS
<1> USE NoneAssumption
    DEF IInv, IdleIsEmpty, OpenIsIdle, LiveHasTransport, WaitHasEntry, FoundHasTarget,
        vars, connVars, dataVars, callVars
<1>t. TypeOK
  OBVIOUS
<1> DEFINE Aux == IdleIsEmpty' /\ OpenIsIdle' /\ LiveHasTransport' /\ WaitHasEntry' /\ FoundHasTarget'
<1>1. ASSUME NEW c \in Conns, Open(c) PROVE Aux
  <2>1. CASE Register(c)
    BY <1>t, <2>1, SMTT(20) DEF Register, TypeOK
  <2>2. CASE Refuse(c)
    BY <1>t, <2>2 DEF Refuse, TypeOK
  <2> QED BY <1>1, <2>1, <2>2 DEF Open
<1>11. ASSUME NEW c \in Conns, NEW p \in Announce, Connected(c, p[1], p[2]) PROVE Aux
  <2>1. p[1] \in Agents
    BY AnnounceAssumption
  <2> QED BY <1>t, <1>11, <2>1 DEF Connected, TypeOK
<1>12. ASSUME NEW c \in Conns, EvtBeat(c) PROVE Aux
  BY <1>t, <1>12 DEF EvtBeat, TypeOK
<1>2. ASSUME NEW c \in Conns, Forward(c) PROVE Aux
  <2>0. CASE FwdRecv(c) \/ FwdClosed(c) \/ FwdSend(c) \/ FwdBreak(c)
    <3>1. peer[c] # "idle"
      BY <2>0 DEF FwdRecv, FwdClosed, FwdSend, FwdBreak
    <3>2. CASE FwdRecv(c)
      BY <1>t, <3>1, <3>2 DEF FwdRecv, TypeOK
    <3>3. CASE FwdClosed(c)
      BY <1>t, <3>1, <3>3 DEF FwdClosed, TypeOK
    <3>4. CASE FwdSend(c)
      BY <1>t, <3>1, <3>4 DEF FwdSend, TypeOK
    <3>5. CASE FwdBreak(c)
      BY <1>t, <3>1, <3>5 DEF FwdBreak, TypeOK
    <3> QED BY <2>0, <3>2, <3>3, <3>4, <3>5
  <2>1. CASE FwdCleanup(c)
    <3>1. \A m \in Cmds : send[m] = "wait" => reg'[tgt[m]] = reg[tgt[m]]
      BY <1>t, <2>1 DEF FwdCleanup, UnregisterIf, WriteLockFree, TypeOK
    <3> QED BY <1>t, <2>1, <3>1 DEF FwdCleanup, TypeOK
  <2> QED BY <1>2, <2>0, <2>1 DEF Forward
<1>3. ASSUME NEW c \in Conns, Events(c) PROVE Aux
  <2>1. CASE EvtBeatDone(c) \/ EvtEnd(c)
    BY <1>t, <2>1 DEF EvtBeatDone, EvtEnd, TypeOK
  <2>2. CASE EvtCleanup(c)
    <3>1. \A m \in Cmds : send[m] = "wait" => reg'[tgt[m]] = reg[tgt[m]]
      BY <1>t, <2>2 DEF EvtCleanup, UnregisterIf, WriteLockFree, TypeOK
    <3> QED BY <1>t, <2>2, <3>1 DEF EvtCleanup, TypeOK
  <2> QED BY <1>3, <2>1, <2>2 DEF Events
<1>4. ASSUME NEW c \in Conns, PeerLost(c) \/ PeerStreamEnd(c) PROVE Aux
  BY <1>t, <1>4, SMTT(20) DEF PeerLost, PeerStreamEnd, TypeOK
<1>5. ASSUME NEW c \in Conns, OutDropped(c) PROVE Aux
  BY <1>t, <1>5 DEF OutDropped, TypeOK
<1>6. ASSUME NEW c \in Conns, AgentReceive(c) PROVE Aux
  BY <1>t, <1>6 DEF AgentReceive, TypeOK
<1>7. ASSUME NEW m \in Cmds, SendMiss(m) \/ SendWait(m) PROVE Aux
  BY <1>t, <1>7 DEF SendMiss, SendWait, TypeOK
<1>8. ASSUME NEW m \in Cmds, SendNow(m) \/ SendPush(m) PROVE Aux
  <2>1. PICK c \in Conns : peer[c] # "idle" /\ Push(m, c)
    BY <1>8, Pushing
  <2>2. /\ chan' = [chan EXCEPT ![c] = Append(@, m)]
        /\ accepted' = [accepted EXCEPT ![c] = Append(@, m)]
        /\ send' = [send EXCEPT ![m] = "ok"]
        /\ UNCHANGED <<reg, who, binding, peer, fwd, evt, hold, out, outOpen, delivered, dest, tgt>>
    BY <2>1 DEF Push
  <2>3. IdleIsEmpty'
    BY <1>t, <2>1, <2>2 DEF TypeOK
  <2>4. OpenIsIdle' /\ LiveHasTransport' /\ WaitHasEntry' /\ FoundHasTarget'
    BY <1>t, <2>2 DEF TypeOK
  <2> QED BY <2>3, <2>4
<1>9. ASSUME NEW m \in Cmds, NEW k \in Called, SendFind(m, k) PROVE Aux
  <2>1. IdleIsEmpty' /\ OpenIsIdle' /\ LiveHasTransport'
    BY <1>9 DEF SendFind
  <2>2. /\ UNCHANGED reg
        /\ \A n \in Cmds \ {m} : send'[n] = send[n] /\ tgt'[n] = tgt[n]
        /\ \/ send'[m] = "found" /\ tgt'[m] \in Agents
           \/ send'[m] = "err"
    BY <1>t, <1>9 DEF SendFind, BoundTo, TypeOK
  <2>3. WaitHasEntry' /\ FoundHasTarget'
    BY <2>2
  <2> QED BY <2>1, <2>3
<1>10. CASE UNCHANGED vars
  BY <1>10
<1> QED
  BY <1>1, <1>2, <1>3, <1>4, <1>5, <1>6, <1>7, <1>8, <1>9, <1>10, <1>11, <1>12
     DEF Next, Far, Sending

\* The part of StreamIntegrity about one connection, for queues given by name.
Intact(open, acc, del, o, h, ch) ==
  /\ open => acc = del \o o \o h \o ch
  /\ Len(del) <= Len(acc)
  /\ \A i \in 1 .. Len(del) : del[i] = acc[i]

LEMMA StreamIsIntact ==
  StreamIntegrity <=>
    \A c \in Conns : Intact(outOpen[c], accepted[c], delivered[c], out[c], hold[c], chan[c])
BY DEF StreamIntegrity, Intact

\* The forward task takes the head of the channel in hand.
LEMMA IntactRecv ==
  ASSUME NEW S, NEW open, NEW acc \in Seq(S), NEW del \in Seq(S), NEW o \in Seq(S),
         NEW ch \in Seq(S), ch # <<>>, Intact(open, acc, del, o, <<>>, ch)
  PROVE  Intact(open, acc, del, o, <<Head(ch)>>, Tail(ch))
<1>1. del \o o \in Seq(S) /\ <<>> \in Seq(S) /\ Head(ch) \in S
  BY ConcatProperties, EmptySeq, HeadTailProperties
<1>2. (del \o o) \o <<>> = del \o o
  BY <1>1, ConcatEmptySeq
<1>3. Append(del \o o, Head(ch)) = (del \o o) \o <<Head(ch)>>
  BY <1>1, AppendIsConcat
<1>4. Append(del \o o, Head(ch)) \o Tail(ch) = (del \o o) \o ch
  BY <1>1, MoveHead
<1> QED BY <1>2, <1>3, <1>4 DEF Intact

\* The forward task puts the command in hand on the outbound channel.
LEMMA IntactSend ==
  ASSUME NEW S, NEW open, NEW acc \in Seq(S), NEW del \in Seq(S), NEW o \in Seq(S),
         NEW h \in Seq(S), NEW ch \in Seq(S), Intact(open, acc, del, o, h, ch)
  PROVE  Intact(open, acc, del, o \o h, <<>>, ch)
<1>1. del \o (o \o h) = (del \o o) \o h
  BY ConcatAssociative, SMTT(40)
<1>2. o \o h \in Seq(S) /\ del \o (o \o h) \in Seq(S)
  BY ConcatProperties
<1>3. (del \o (o \o h)) \o <<>> = del \o (o \o h)
  BY <1>2, ConcatEmptySeq
<1> QED BY <1>1, <1>3 DEF Intact

\* The agent receives the next command of the outbound channel.
LEMMA IntactReceive ==
  ASSUME NEW S, NEW acc \in Seq(S), NEW del \in Seq(S), NEW o \in Seq(S),
         NEW h \in Seq(S), NEW ch \in Seq(S), o # <<>>, Intact(TRUE, acc, del, o, h, ch)
  PROVE  Intact(TRUE, acc, Append(del, Head(o)), Tail(o), h, ch)
<1>1. Head(o) \in S /\ Tail(o) \in Seq(S)
  BY HeadTailProperties
<1>2. PICK d \in Seq(S), u \in Seq(S) : d = Append(del, Head(o)) /\ u = Tail(o)
  BY <1>1, AppendProperties
<1>3. d \o u = del \o o
  BY <1>2, MoveHead
<1>4. acc = ((d \o u) \o h) \o ch
  BY <1>3 DEF Intact
<1>5. IsPrefixOf(d, ((d \o u) \o h) \o ch)
  BY PrefixOfFour
<1>6. IsPrefixOf(d, acc)
  BY <1>4, <1>5
<1> QED BY <1>2, <1>4, <1>6 DEF Intact, IsPrefixOf

\* A call's command is accepted at the end of the channel.
LEMMA IntactPush ==
  ASSUME NEW S, NEW open, NEW acc \in Seq(S), NEW del \in Seq(S), NEW o \in Seq(S),
         NEW h \in Seq(S), NEW ch \in Seq(S), NEW m \in S, Intact(open, acc, del, o, h, ch)
  PROVE  Intact(open, Append(acc, m), del, o, h, Append(ch, m))
<1>1. PICK e \in Seq(S) : e = <<m>>
  <2>1. <<m>> \in Seq(S)
    OBVIOUS
  <2> QED BY <2>1
<1>2. Append(ch, m) = ch \o e /\ Append(acc, m) = acc \o e
  BY <1>1, AppendIsConcat
<1>3. ((del \o o) \o h) \o (ch \o e) = (((del \o o) \o h) \o ch) \o e
  <2>1. PICK f \in Seq(S) : f = (del \o o) \o h
    <3>1. PICK g \in Seq(S) : g = del \o o
      BY ConcatProperties
    <3>2. g \o h \in Seq(S)
      BY ConcatProperties
    <3> QED BY <3>1, <3>2
  <2>2. (f \o ch) \o e = f \o (ch \o e)
    BY ConcatAssociative, SMTT(40)
  <2> QED BY <2>1, <2>2
<1>4. open => Append(acc, m) = del \o o \o h \o Append(ch, m)
  BY <1>2, <1>3 DEF Intact
<1>5. /\ Len(Append(acc, m)) = Len(acc) + 1
      /\ \A i \in 1 .. Len(acc) : Append(acc, m)[i] = acc[i]
  BY AppendProperties
<1>6. Len(acc) \in Nat /\ Len(del) \in Nat
  BY LenProperties
<1>7. Len(del) <= Len(Append(acc, m)) /\ \A i \in 1 .. Len(del) : del[i] = Append(acc, m)[i]
  BY <1>5, <1>6 DEF Intact
<1> QED BY <1>4, <1>7 DEF Intact

\* Each step touches the queues of at most one connection, in one of these ways.
LEMMA StreamStep == IInv /\ TypeOK' /\ [Next]_vars => StreamIntegrity'
<1> SUFFICES ASSUME IInv, TypeOK', [Next]_vars PROVE StreamIntegrity'
  OBVIOUS
<1> DEFINE At(c) == Intact(outOpen[c], accepted[c], delivered[c], out[c], hold[c], chan[c])
<1>t. /\ TypeOK
      /\ \A c \in Conns : /\ accepted[c] \in Seq(Cmds) /\ delivered[c] \in Seq(Cmds)
                           /\ out[c] \in Seq(Cmds) /\ hold[c] \in Seq(Cmds) /\ chan[c] \in Seq(Cmds)
  BY DEF IInv, TypeOK
<1>i. \A c \in Conns : At(c)
  BY StreamIsIntact DEF IInv
<1>g. SUFFICES \A c \in Conns : At(c)'
  BY DEF StreamIntegrity, Intact
<1> DEFINE Same(c) == /\ outOpen'[c] = outOpen[c] /\ accepted'[c] = accepted[c]
                      /\ delivered'[c] = delivered[c] /\ out'[c] = out[c]
                      /\ hold'[c] = hold[c] /\ chan'[c] = chan[c]
<1>s. ASSUME NEW c \in Conns, \A d \in Conns \ {c} : Same(d), At(c)'
      PROVE  \A d \in Conns : At(d)'
  BY <1>s, <1>i
<1>n. ASSUME UNCHANGED <<dataVars, accepted>> PROVE \A d \in Conns : At(d)'
  BY <1>n, <1>i DEF dataVars
<1> HIDE DEF At
<1>1. ASSUME NEW c \in Conns, Register(c) PROVE \A d \in Conns : At(d)'
  <2>1. \A d \in Conns \ {c} : Same(d)
    BY <1>t, <1>1 DEF Register, TypeOK, callVars
  <2>2. /\ accepted'[c] = <<>> /\ delivered'[c] = <<>> /\ out'[c] = <<>>
        /\ hold'[c] = <<>> /\ chan'[c] = <<>>
    BY <1>1 DEF Register, callVars, IInv, IdleIsEmpty, OpenIsIdle
  <2>3. <<>> \o <<>> \o <<>> \o <<>> = <<>>
    OBVIOUS
  <2>4. At(c)'
    BY <2>2, <2>3 DEF At, Intact
  <2> QED BY <2>1, <2>4, <1>s
<1>2. ASSUME NEW c \in Conns, FwdRecv(c) PROVE \A d \in Conns : At(d)'
  <2>1. \A d \in Conns \ {c} : Same(d)
    BY <1>t, <1>2 DEF FwdRecv, TypeOK, callVars
  <2>2. Intact(outOpen[c], accepted[c], delivered[c], out[c], <<Head(chan[c])>>, Tail(chan[c]))
    BY <1>t, <1>i, <1>2, IntactRecv DEF FwdRecv, At
  <2>3. At(c)'
    BY <1>t, <1>2, <2>2 DEF FwdRecv, TypeOK, callVars, At
  <2> QED BY <2>1, <2>3, <1>s
<1>3. ASSUME NEW c \in Conns, FwdSend(c) PROVE \A d \in Conns : At(d)'
  <2>1. \A d \in Conns \ {c} : Same(d)
    BY <1>t, <1>3 DEF FwdSend, TypeOK, callVars
  <2>2. Intact(outOpen[c], accepted[c], delivered[c], out[c] \o hold[c], <<>>, chan[c])
    BY <1>t, <1>i, IntactSend DEF At
  <2>3. At(c)'
    <3>1. /\ outOpen'[c] = outOpen[c] /\ accepted'[c] = accepted[c]
          /\ delivered'[c] = delivered[c] /\ chan'[c] = chan[c]
      BY <1>3 DEF FwdSend, callVars
    <3>2. out'[c] = out[c] \o hold[c] /\ hold'[c] = <<>>
      BY <1>t, <1>3 DEF FwdSend, TypeOK
    <3> QED BY <2>2, <3>1, <3>2 DEF At
  <2> QED BY <2>1, <2>3, <1>s
<1>4. ASSUME NEW c \in Conns, FwdBreak(c) PROVE \A d \in Conns : At(d)'
  <2>1. \A d \in Conns \ {c} : Same(d)
    BY <1>t, <1>4 DEF FwdBreak, TypeOK, callVars
  <2>2. At(c)'
    BY <1>t, <1>i, <1>4 DEF FwdBreak, callVars, At, Intact
  <2> QED BY <2>1, <2>2, <1>s
<1>5. ASSUME NEW c \in Conns, OutDropped(c) PROVE \A d \in Conns : At(d)'
  <2>1. \A d \in Conns \ {c} : Same(d)
    BY <1>t, <1>5 DEF OutDropped, TypeOK, callVars
  <2>2. ~ outOpen'[c] /\ accepted'[c] = accepted[c] /\ delivered'[c] = delivered[c]
    BY <1>t, <1>5 DEF OutDropped, TypeOK, callVars
  <2>3. At(c)'
    BY <1>i, <2>2 DEF At, Intact
  <2> QED BY <2>1, <2>3, <1>s
<1>6. ASSUME NEW c \in Conns, AgentReceive(c) PROVE \A d \in Conns : At(d)'
  <2>1. \A d \in Conns \ {c} : Same(d)
    BY <1>t, <1>6 DEF AgentReceive, TypeOK, callVars
  <2>2. outOpen[c] = TRUE
    BY <1>t, <1>6 DEF AgentReceive, IInv, LiveHasTransport, TypeOK
  <2>3. Intact(TRUE, accepted[c], delivered[c], out[c], hold[c], chan[c])
    BY <1>i, <2>2 DEF At
  <2>4. Intact(TRUE, accepted[c], Append(delivered[c], Head(out[c])), Tail(out[c]), hold[c], chan[c])
    BY <1>t, <1>6, <2>3, IntactReceive DEF AgentReceive
  <2>5. At(c)'
    <3>1. /\ outOpen'[c] = TRUE /\ accepted'[c] = accepted[c]
          /\ hold'[c] = hold[c] /\ chan'[c] = chan[c]
      BY <1>6, <2>2 DEF AgentReceive, callVars
    <3>2. delivered'[c] = Append(delivered[c], Head(out[c])) /\ out'[c] = Tail(out[c])
      BY <1>t, <1>6 DEF AgentReceive, TypeOK
    <3> QED BY <2>4, <3>1, <3>2 DEF At
  <2> QED BY <2>1, <2>5, <1>s
<1>7. ASSUME NEW m \in Cmds, SendNow(m) \/ SendPush(m) PROVE \A d \in Conns : At(d)'
  <2>1. PICK c \in Conns : Push(m, c)
    BY <1>7, Pushing
  <2>2. /\ chan' = [chan EXCEPT ![c] = Append(@, m)]
        /\ accepted' = [accepted EXCEPT ![c] = Append(@, m)]
        /\ UNCHANGED <<hold, out, outOpen, delivered>>
    BY <2>1 DEF Push
  <2>3. \A d \in Conns \ {c} : Same(d)
    BY <1>t, <2>1, <2>2 DEF TypeOK
  <2>4. Intact(outOpen[c], Append(accepted[c], m), delivered[c], out[c], hold[c], Append(chan[c], m))
    BY <1>t, <1>i, <2>1, IntactPush DEF At
  <2>5. At(c)'
    BY <1>t, <2>1, <2>2, <2>4 DEF TypeOK, At
  <2> QED BY <2>1, <2>3, <2>5, <1>s
<1>8. ASSUME NEW c \in Conns,
             \/ Refuse(c) \/ FwdClosed(c) \/ FwdCleanup(c) \/ EvtBeat(c) \/ Events(c)
             \/ PeerLost(c) \/ PeerStreamEnd(c) \/ \E p \in Announce : Connected(c, p[1], p[2])
      PROVE  \A d \in Conns : At(d)'
  BY <1>n, <1>8
     DEF Refuse, FwdClosed, FwdCleanup, EvtBeat, Events, EvtBeatDone, EvtEnd, EvtCleanup,
         PeerLost, PeerStreamEnd, Connected, callVars
<1>9. ASSUME NEW m \in Cmds, SendMiss(m) \/ SendWait(m) \/ \E k \in Called : SendFind(m, k)
      PROVE  \A d \in Conns : At(d)'
  BY <1>n, <1>9 DEF SendMiss, SendWait, SendFind
<1>10. CASE UNCHANGED vars
  BY <1>n, <1>10 DEF vars, callVars
<1> QED
  BY <1>1, <1>2, <1>3, <1>4, <1>5, <1>6, <1>7, <1>8, <1>9, <1>10
     DEF Next, Open, Forward, Far, Sending

LEMMA StepIInv == IInv /\ [Next]_vars => IInv'
BY TypeStep, ReceiverStep, AuxStep, StreamStep DEF IInv

\* The strengthened invariant holds in every reachable state.
THEOREM Invariance == Spec => []IInv
<1>1. Init => IInv
  BY InitIInv
<1>2. IInv /\ [Next]_vars => IInv'
  BY StepIInv
<1> QED BY <1>1, <1>2, PTL DEF Spec

-----------------------------------------------------------------------------
(* The results *)

\* Every variable of the agent link keeps its type.
THEOREM TypeCorrect == Spec => []TypeOK
<1>1. IInv => TypeOK
  BY DEF IInv
<1> QED BY <1>1, Invariance, PTL

\* A registered entry always has a forward task that owns its receiver, so
\* send_command never reports a closed channel and accepts nothing unread.
THEOREM ReceiverSafe == Spec => []ReceiverOutlivesEntry
<1>1. IInv => ReceiverOutlivesEntry
  BY DEF IInv
<1> QED BY <1>1, Invariance, PTL

\* Accepted commands reach the agent in order, without loss or duplication,
\* while the transport is up, and what was delivered is always a prefix.
THEOREM StreamSafe == Spec => []StreamIntegrity
<1>1. IInv => StreamIntegrity
  BY DEF IInv
<1> QED BY <1>1, Invariance, PTL

\* Only its owner's clean-up removes an entry (unregister_if).
THEOREM OwnerSafe == Spec => OwnerUnregisters
<1>1. ASSUME IInv, [Next]_vars PROVE [UnregisteredByOwner]_vars
  <2> SUFFICES ASSUME Next, NEW a \in Agents, reg[a] # None, reg'[a] = None
               PROVE  LET c == reg[a] IN
                      \/ fwd[c] = "cleanup" /\ fwd'[c] = "done"
                      \/ evt[c] = "cleanup" /\ evt'[c] = "done"
    BY <1>1 DEF UnregisteredByOwner
  <2>t. TypeOK
    BY <1>1 DEF IInv
  <2>1. ASSUME NEW c \in Conns, Open(c) PROVE FALSE
    BY <2>1, <2>t, NoneAssumption DEF Open, Register, Refuse, TypeOK
  <2>2. ASSUME NEW c \in Conns, FwdCleanup(c)
        PROVE  c = reg[a] /\ fwd[c] = "cleanup" /\ fwd'[c] = "done"
    BY <2>2, <2>t DEF FwdCleanup, UnregisterIf, TypeOK
  <2>3. ASSUME NEW c \in Conns, EvtCleanup(c)
        PROVE  c = reg[a] /\ evt[c] = "cleanup" /\ evt'[c] = "done"
    BY <2>3, <2>t DEF EvtCleanup, UnregisterIf, TypeOK
  <2>4. ASSUME UNCHANGED reg PROVE FALSE
    BY <2>4
  <2> QED
    BY <2>1, <2>2, <2>3, <2>4
       DEF Next, Connected, Forward, EvtBeat, Events, FwdRecv, FwdClosed, FwdSend, FwdBreak,
           EvtBeatDone, EvtEnd, Far, PeerLost, PeerStreamEnd, OutDropped, AgentReceive,
           SendFind, Sending, SendMiss, SendNow, SendWait, SendPush, Push
<1> QED BY <1>1, Invariance, PTL DEF Spec, OwnerUnregisters
-----------------------------------------------------------------------------
(* Routing *)

\* Once a connection holds an announced pair, it keeps it.
LEMMA BoundStays ==
  ASSUME IInv, RouteInv, [Next]_vars, NEW d \in Conns, peer[d] # "idle" \/ evt[d] = "open"
  PROVE  who'[d] = who[d] /\ binding'[d] = binding[d]
<1>1. ASSUME NEW c \in Conns, NEW a, NEW k, Connected(c, a, k)
      PROVE  who'[d] = who[d] /\ binding'[d] = binding[d]
  BY <1>1 DEF Connected, IInv, TypeOK
<1>2. ASSUME UNCHANGED <<who, binding>>
      PROVE  who'[d] = who[d] /\ binding'[d] = binding[d]
  BY <1>2
<1> QED
  BY <1>1, <1>2
     DEF Next, Open, Register, Refuse, Forward, EvtBeat, Events, FwdRecv, FwdClosed, FwdSend,
         FwdBreak, FwdCleanup, EvtBeatDone, EvtEnd, EvtCleanup, Far, PeerLost, PeerStreamEnd,
         OutDropped, AgentReceive, SendFind, Sending, SendMiss, SendNow, SendWait, SendPush,
         Push, vars, connVars

LEMMA BoundStep == IInv /\ RouteInv /\ [Next]_vars => BoundAsAnnounced'
<1> SUFFICES ASSUME IInv, RouteInv, [Next]_vars, NEW d \in Conns, who'[d] # None
             PROVE  <<who'[d], binding'[d]>> \in Announce
  BY DEF BoundAsAnnounced
<1>t. TypeOK /\ (who[d] # None => <<who[d], binding[d]>> \in Announce)
  BY DEF IInv, RouteInv, BoundAsAnnounced
<1>1. ASSUME NEW c \in Conns, NEW p \in Announce, Connected(c, p[1], p[2])
      PROVE  <<who'[d], binding'[d]>> \in Announce
  <2>1. p = <<p[1], p[2]>>
    BY AnnounceAssumption
  <2>2. CASE d = c
    <3>1. who'[d] = p[1] /\ binding'[d] = p[2]
      BY <1>1, <1>t, <2>2 DEF Connected, TypeOK
    <3> QED BY <2>1, <3>1
  <2>3. CASE d # c
    BY <1>1, <1>t, <2>3 DEF Connected, TypeOK
  <2> QED BY <2>2, <2>3
<1>2. ASSUME UNCHANGED <<who, binding>> PROVE <<who'[d], binding'[d]>> \in Announce
  BY <1>2, <1>t
<1> QED
  BY <1>1, <1>2
     DEF Next, Open, Register, Refuse, Forward, EvtBeat, Events, FwdRecv, FwdClosed, FwdSend,
         FwdBreak, FwdCleanup, EvtBeatDone, EvtEnd, EvtCleanup, Far, PeerLost, PeerStreamEnd,
         OutDropped, AgentReceive, SendFind, Sending, SendMiss, SendNow, SendWait, SendPush,
         Push, vars, connVars

\* An entry that was found belongs to a connection bound under its agent id.
LEMMA TargetStep == IInv /\ RouteInv /\ [Next]_vars => TargetAnnounced'
<1> SUFFICES ASSUME IInv, RouteInv, [Next]_vars,
                    NEW m \in Cmds, send'[m] \in {"found", "wait"}
             PROVE  <<tgt'[m], dest'[m]>> \in Announce
  BY DEF TargetAnnounced
<1>t. TypeOK
  BY DEF IInv
<1> DEFINE Kept == send[m] \in {"found", "wait"} /\ dest'[m] = dest[m] /\ tgt'[m] = tgt[m]
<1>1. ASSUME Kept PROVE <<tgt'[m], dest'[m]>> \in Announce
  BY <1>1 DEF RouteInv, TargetAnnounced
<1>2. ASSUME NEW n \in Cmds, NEW k \in Called, SendFind(n, k)
      PROVE  <<tgt'[m], dest'[m]>> \in Announce
  <2>1. CASE n = m
    <3>1. dest'[m] = k /\ BoundTo(k) # {}
      BY <1>2, <1>t, <2>1 DEF SendFind, TypeOK
    <3>2. PICK a \in BoundTo(k) : tgt' = [tgt EXCEPT ![m] = a]
      BY <1>2, <2>1, <3>1 DEF SendFind
    <3>3. tgt'[m] = a /\ a \in Agents /\ reg[a] # None /\ binding[reg[a]] = k
      BY <1>t, <3>2 DEF BoundTo, TypeOK
    <3>4. PICK d \in Conns : d = reg[a]
      BY <1>t, <3>3 DEF TypeOK
    <3>5. who[d] = a
      BY <3>3, <3>4 DEF IInv, ReceiverOutlivesEntry
    <3>6. <<who[d], binding[d]>> \in Announce
      BY <3>3, <3>5, NoneAssumption DEF RouteInv, BoundAsAnnounced
    <3> QED BY <3>1, <3>3, <3>4, <3>5, <3>6
  <2>2. CASE n # m
    BY <1>1, <1>2, <1>t, <2>2 DEF SendFind, TypeOK
  <2> QED BY <2>1, <2>2
<1>3. ASSUME NEW n \in Cmds, SendMiss(n) \/ SendWait(n) PROVE Kept
  BY <1>3, <1>t DEF SendMiss, SendWait, TypeOK
<1>4. ASSUME NEW n \in Cmds, SendNow(n) \/ SendPush(n) PROVE Kept
  BY <1>4, <1>t DEF SendNow, SendPush, Push, TypeOK
<1>5. ASSUME UNCHANGED callVars PROVE Kept
  BY <1>5 DEF callVars
<1> QED
  BY <1>1, <1>2, <1>3, <1>4, <1>5
     DEF Next, Connected, Open, Register, Refuse, Forward, EvtBeat, Events, FwdRecv, FwdClosed,
         FwdSend, FwdBreak, FwdCleanup, EvtBeatDone, EvtEnd, EvtCleanup, Far, PeerLost,
         PeerStreamEnd, OutDropped, AgentReceive, Sending, vars

\* A call that is over keeps its outcome and its cluster.
LEMMA OverStays ==
  ASSUME IInv, [Next]_vars, NEW m \in Cmds, send[m] = "ok"
  PROVE  send'[m] = "ok" /\ dest'[m] = dest[m]
<1>t. TypeOK
  BY DEF IInv
<1>1. ASSUME NEW n \in Cmds, NEW k \in Called, SendFind(n, k)
      PROVE  send'[m] = "ok" /\ dest'[m] = dest[m]
  BY <1>1, <1>t DEF SendFind, TypeOK
<1>2. ASSUME NEW n \in Cmds, Sending(n) PROVE send'[m] = "ok" /\ dest'[m] = dest[m]
  BY <1>2, <1>t DEF Sending, SendMiss, SendNow, SendWait, SendPush, Push, TypeOK
<1>3. ASSUME UNCHANGED callVars PROVE send'[m] = "ok" /\ dest'[m] = dest[m]
  BY <1>3 DEF callVars
<1> QED
  BY <1>1, <1>2, <1>3
     DEF Next, Connected, Open, Register, Refuse, Forward, EvtBeat, Events, FwdRecv, FwdClosed,
         FwdSend, FwdBreak, FwdCleanup, EvtBeatDone, EvtEnd, EvtCleanup, Far, PeerLost,
         PeerStreamEnd, OutDropped, AgentReceive, vars

\* What a channel has accepted was accepted before, or is the command pushed.
LEMMA AcceptedGrows ==
  ASSUME IInv, [Next]_vars, NEW c \in Conns, NEW i \in 1 .. Len(accepted'[c])
  PROVE  \/ i \in 1 .. Len(accepted[c]) /\ accepted'[c][i] = accepted[c][i]
         \/ \E m \in Cmds : (SendNow(m) \/ SendPush(m)) /\ Push(m, c) /\ accepted'[c][i] = m
<1>t. TypeOK /\ accepted[c] \in Seq(Cmds)
  BY DEF IInv, TypeOK
<1>1. ASSUME NEW m \in Cmds, NEW e \in Conns, Push(m, e)
      PROVE  \/ i \in 1 .. Len(accepted[c]) /\ accepted'[c][i] = accepted[c][i]
             \/ c = e /\ accepted'[c][i] = m
  <2>1. CASE c # e
    <3>1. accepted'[c] = accepted[c]
      BY <1>1, <1>t, <2>1 DEF Push, TypeOK
    <3> QED BY <3>1
  <2>2. CASE c = e
    <3>1. accepted'[c] = Append(accepted[c], m)
      BY <1>1, <1>t, <2>2 DEF Push, TypeOK
    <3>2. /\ Len(accepted[c]) \in Nat
          /\ Len(Append(accepted[c], m)) = Len(accepted[c]) + 1
          /\ \A j \in 1 .. Len(accepted[c]) : Append(accepted[c], m)[j] = accepted[c][j]
          /\ Append(accepted[c], m)[Len(accepted[c]) + 1] = m
      BY <1>t, AppendProperties
    <3>3. i \in 1 .. Len(accepted[c]) \/ i = Len(accepted[c]) + 1
      BY <3>1, <3>2
    <3> QED BY <2>2, <3>1, <3>2, <3>3
  <2> QED BY <2>1, <2>2
<1>2. ASSUME UNCHANGED accepted
      PROVE  i \in 1 .. Len(accepted[c]) /\ accepted'[c][i] = accepted[c][i]
  BY <1>2
<1>3. ASSUME NEW m \in Cmds, SendNow(m) \/ SendPush(m)
      PROVE  \/ i \in 1 .. Len(accepted[c]) /\ accepted'[c][i] = accepted[c][i]
             \/ Push(m, c) /\ accepted'[c][i] = m
  BY <1>1, <1>3, Pushing
<1> QED
  BY <1>2, <1>3
     DEF Next, Connected, Open, Register, Refuse, Forward, EvtBeat, Events, FwdRecv, FwdClosed,
         FwdSend, FwdBreak, FwdCleanup, EvtBeatDone, EvtEnd, EvtCleanup, Far, PeerLost,
         PeerStreamEnd, OutDropped, AgentReceive, SendFind, Sending, SendMiss, SendWait,
         vars, callVars

\* The last conjunct concerns one accepted command at a time.
LEMMA AcceptStep ==
  ASSUME IInv, RouteInv, [Next]_vars, NEW c \in Conns, NEW i \in 1 .. Len(accepted'[c])
  PROVE  /\ send'[accepted'[c][i]] = "ok"
         /\ who'[c] # None /\ <<who'[c], dest'[accepted'[c][i]]>> \in Announce
<1>t. TypeOK /\ accepted[c] \in Seq(Cmds)
  BY DEF IInv, TypeOK
<1>1. CASE i \in 1 .. Len(accepted[c]) /\ accepted'[c][i] = accepted[c][i]
  <2>1. PICK m \in Cmds : m = accepted[c][i]
    BY <1>1, <1>t
  <2>2. send[m] = "ok" /\ who[c] # None /\ <<who[c], dest[m]>> \in Announce
    BY <1>1, <2>1 DEF RouteInv, AcceptedAnnounced
  <2>3. send'[m] = "ok" /\ dest'[m] = dest[m]
    BY <2>2, OverStays
  <2>4. peer[c] # "idle"
    <3>1. accepted[c] # <<>>
      BY <1>1, <1>t
    <3> QED BY <3>1 DEF IInv, IdleIsEmpty
  <2>5. who'[c] = who[c]
    BY <2>4, BoundStays
  <2> QED BY <1>1, <2>1, <2>2, <2>3, <2>5
<1>2. ASSUME NEW m \in Cmds, SendNow(m) \/ SendPush(m), Push(m, c), accepted'[c][i] = m
      PROVE  send'[m] = "ok" /\ who'[c] # None /\ <<who'[c], dest'[m]>> \in Announce
  <2>1. send'[m] = "ok" /\ dest' = dest /\ who' = who
    BY <1>2, <1>t DEF Push, TypeOK, connVars
  <2>2. tgt[m] \in Agents /\ send[m] \in {"found", "wait"}
    BY <1>2, Pushing
  <2>3. PICK d \in Conns : d = reg[tgt[m]] /\ who[d] = tgt[m] /\ Push(m, d)
    BY <1>2, Pushing
  <2>4. d = c
    <3>1. accepted'[d] = Append(accepted[d], m) /\ (d # c => accepted'[d] = accepted[d])
      BY <1>2, <1>t, <2>3 DEF Push, TypeOK
    <3>2. accepted[d] \in Seq(Cmds)
      BY <1>t DEF TypeOK
    <3>3. Append(accepted[d], m) # accepted[d]
      BY <3>2, AppendProperties
    <3> QED BY <3>1, <3>3
  <2>5. <<tgt[m], dest[m]>> \in Announce
    BY <2>2 DEF RouteInv, TargetAnnounced
  <2> QED BY <2>1, <2>2, <2>3, <2>4, <2>5, NoneAssumption
<1> QED BY <1>1, <1>2, AcceptedGrows

\* Under an id that stays with one cluster a command reaches the cluster it is
\* addressed to: what find saw still holds when the entry is
\* looked up again, whichever connection owns it by then.
THEOREM RoutedSafe == Spec => []SoleIdsRouted
<1>1. Init => RouteInv
  BY DEF Init, RouteInv, BoundAsAnnounced, TargetAnnounced, AcceptedAnnounced
<1>2. IInv /\ RouteInv /\ [Next]_vars => RouteInv'
  <2>1. IInv /\ RouteInv /\ [Next]_vars => AcceptedAnnounced'
    BY AcceptStep DEF AcceptedAnnounced
  <2> QED BY <2>1, BoundStep, TargetStep DEF RouteInv
<1>3. RouteInv => SoleIdsRouted
  <2> SUFFICES ASSUME RouteInv, NEW c \in Conns, Sole(who[c]),
                      NEW i \in 1 .. Len(accepted[c])
               PROVE  binding[c] = dest[accepted[c][i]]
    BY DEF SoleIdsRouted
  <2> DEFINE p == <<who[c], dest[accepted[c][i]]>>
             q == <<who[c], binding[c]>>
  <2>1. p \in Announce /\ q \in Announce
    BY DEF RouteInv, AcceptedAnnounced, BoundAsAnnounced
  <2>2. p[1] = who[c] /\ q[1] = who[c]
    OBVIOUS
  <2>3. p[2] = q[2]
    BY <2>1, <2>2 DEF Sole
  <2> QED BY <2>3
<1> QED BY <1>1, <1>2, <1>3, Invariance, PTL DEF Spec
-----------------------------------------------------------------------------
(* The link that callers see *)

\* A step that leaves calls, connections, accepted and delivered alone is a
\* stutter of the link.
LEMMA LinkStutter ==
  ASSUME UNCHANGED <<peer, send, accepted, delivered>>
  PROVE  UNCHANGED Link!linkVars
BY DEF Link!linkVars, Outcome

\* The outcome of a call changes where its send state does.
LEMMA OutcomeStep ==
  ASSUME TypeOK, NEW m \in Cmds, NEW v, send' = [send EXCEPT ![m] = v],
         send[m] \notin {"ok", "err"}
  PROVE  /\ Outcome[m] = "pending"
         /\ v \in {"ok", "err"} => Outcome' = [Outcome EXCEPT ![m] = v]
         /\ v \notin {"ok", "err"} => Outcome' = Outcome
BY DEF TypeOK, Outcome

\* A caller that found no entry gets Err; one that found one is still waiting.
LEMMA LinkReject ==
  ASSUME TypeOK, NEW m \in Cmds, NEW v \in {"err", "found", "wait"},
         send' = [send EXCEPT ![m] = v], send[m] \in {"idle", "found"},
         UNCHANGED <<peer, accepted, delivered>>
  PROVE  [Link!LinkNext]_Link!linkVars
<1>1. CASE v = "err"
  <2>1. Link!Reject(m)
    BY <1>1, OutcomeStep DEF Link!Reject
  <2> QED BY <2>1 DEF Link!LinkNext
<1>2. CASE v # "err"
  BY <1>2, OutcomeStep DEF Link!linkVars
<1> QED BY <1>1, <1>2

\* The command enters the stream of a connection that has been opened.
LEMMA LinkAccept ==
  ASSUME IInv, NEW m \in Cmds, SendNow(m) \/ SendPush(m)
  PROVE  Link!LinkNext
<1>1. PICK c \in Conns : peer[c] # "idle" /\ Push(m, c)
  BY Pushing
<1>2. send[m] \in {"found", "wait"}
  BY Pushing
<1>3. Outcome[m] = "pending" /\ Outcome' = [Outcome EXCEPT ![m] = "ok"]
  BY <1>1, <1>2, OutcomeStep DEF Push, IInv
<1>4. Link!Accept(m, c)
  BY <1>1, <1>3 DEF Link!Accept, Push, connVars
<1> QED BY <1>4 DEF Link!LinkNext

\* What the agent reads next is the next command that was accepted.
LEMMA LinkReceive ==
  ASSUME IInv, IInv', NEW c \in Conns, AgentReceive(c)
  PROVE  Link!LinkNext
<1> DEFINE n == Len(delivered[c])
<1>1. /\ delivered[c] \in Seq(Cmds) /\ out[c] \in Seq(Cmds) /\ out[c] # <<>>
      /\ delivered' = [delivered EXCEPT ![c] = Append(@, Head(out[c]))]
      /\ delivered'[c] = Append(delivered[c], Head(out[c]))
      /\ accepted' = accepted
  BY DEF IInv, TypeOK, AgentReceive, callVars
<1>2. Head(out[c]) \in Cmds
  BY <1>1, HeadTailProperties
<1>3. n \in Nat /\ Len(delivered'[c]) = n + 1
      /\ delivered'[c][n + 1] = Head(out[c])
  BY <1>1, <1>2, AppendProperties
<1>4. /\ Len(delivered'[c]) <= Len(accepted'[c])
      /\ \A i \in 1 .. Len(delivered'[c]) : delivered'[c][i] = accepted'[c][i]
  BY DEF IInv, StreamIntegrity
<1>5. n < Len(accepted[c])
  <2>1. Len(accepted[c]) \in Nat
    BY DEF IInv, TypeOK
  <2> QED BY <1>1, <1>3, <1>4, <2>1
<1>6. accepted[c][n + 1] = Head(out[c])
  BY <1>1, <1>3, <1>4
<1>7. delivered' = [delivered EXCEPT ![c] = Append(@, accepted[c][Len(@) + 1])]
  BY <1>1, <1>6
<1>8. Link!Receive(c)
  BY <1>1, <1>5, <1>7 DEF Link!Receive, AgentReceive, connVars, callVars, Outcome
<1> QED BY <1>8 DEF Link!LinkNext

LEMMA LinkStep == IInv /\ IInv' /\ [Next]_vars => [Link!LinkNext]_Link!linkVars
<1> SUFFICES ASSUME IInv, IInv', [Next]_vars
             PROVE  [Link!LinkNext]_Link!linkVars
  OBVIOUS
<1>t. TypeOK
  BY DEF IInv
<1>0. CASE UNCHANGED vars
  BY <1>0, LinkStutter DEF vars, connVars, dataVars, callVars
<1>1. ASSUME NEW c \in Conns, Open(c) PROVE Link!LinkNext
  <2>1. /\ peer[c] = "idle"
        /\ \/ peer' = [peer EXCEPT ![c] = "live"]
           \/ peer' = [peer EXCEPT ![c] = "gone"]
        /\ UNCHANGED <<send, accepted, delivered>>
    BY <1>1 DEF Open, Register, Refuse, IInv, OpenIsIdle, dataVars, callVars
  <2>2. Link!Connect(c)
    BY <2>1 DEF Link!Connect, Outcome
  <2> QED BY <2>2 DEF Link!LinkNext
<1>2. ASSUME NEW c \in Conns,
             \/ Forward(c) \/ EvtBeat(c) \/ Events(c) \/ OutDropped(c)
             \/ \E p \in Announce : Connected(c, p[1], p[2])
      PROVE  UNCHANGED Link!linkVars
  BY <1>2, LinkStutter
     DEF Forward, EvtBeat, Events, FwdRecv, FwdClosed, FwdSend, FwdBreak, FwdCleanup,
         EvtBeatDone, EvtEnd, EvtCleanup, OutDropped, Connected, connVars, dataVars, callVars
<1>3. ASSUME NEW c \in Conns, PeerLost(c) \/ PeerStreamEnd(c)
      PROVE  Link!LinkNext
  <2>1. Link!Lose(c)
    BY <1>3 DEF PeerLost, PeerStreamEnd, Link!Lose, dataVars, callVars, Outcome
  <2> QED BY <2>1 DEF Link!LinkNext
<1>4. ASSUME NEW c \in Conns, AgentReceive(c) PROVE Link!LinkNext
  BY <1>4, LinkReceive
<1>5. ASSUME NEW m \in Cmds, SendMiss(m) \/ SendWait(m) PROVE [Link!LinkNext]_Link!linkVars
  <2>1. PICK v \in {"err", "wait"} : send' = [send EXCEPT ![m] = v]
    BY <1>5 DEF SendMiss, SendWait
  <2> QED
    BY <1>5, <1>t, <2>1, LinkReject DEF SendMiss, SendWait, connVars, dataVars
<1>6. ASSUME NEW m \in Cmds, NEW k \in Called, SendFind(m, k)
      PROVE  [Link!LinkNext]_Link!linkVars
  <2>1. PICK v \in {"err", "found"} : send' = [send EXCEPT ![m] = v]
    BY <1>6 DEF SendFind
  <2> QED
    BY <1>6, <1>t, <2>1, LinkReject DEF SendFind, connVars, dataVars
<1>7. ASSUME NEW m \in Cmds, SendNow(m) \/ SendPush(m) PROVE Link!LinkNext
  BY <1>7, LinkAccept
<1> QED
  BY <1>0, <1>1, <1>2, <1>3, <1>4, <1>5, <1>6, <1>7 DEF Next, Far, Sending

\* The registry with its guards, channels and tasks implements the link of
\* AgentLink: commands are accepted once, delivered in order and never twice.
THEOREM LinkImplemented == Spec => ImplementsLink
<1>1. Init => Link!LinkInit
  BY DEF Init, Link!LinkInit, Outcome
<1>2. IInv /\ IInv' /\ [Next]_vars => [Link!LinkNext]_Link!linkVars
  BY LinkStep
<1> QED BY <1>1, <1>2, Invariance, PTL DEF Spec, ImplementsLink, Link!LinkSpec
=============================================================================
