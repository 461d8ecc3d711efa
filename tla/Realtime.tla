------------------------------ MODULE Realtime ------------------------------
(***************************************************************************)
(* Live deployment updates: the browser's single notification socket, its  *)
(* reconnects and logouts, the server's consumer of each connection, and   *)
(* the broadcaster's rooms and subscription counts.                        *)
(*                                                                         *)
(* What is kept and what is abstracted:                                    *)
(*  - One browser, whose users log in and out, and whose connections the   *)
(*    server may notice to be gone long after the browser did.             *)
(*  - The server handles one connection's messages one at a time and those *)
(*    of different connections concurrently; each lock is one step.        *)
(*  - Every deployment may be read by every user; log streams and what an  *)
(*    update says are left out.                                            *)
(***************************************************************************)
EXTENDS Naturals, FiniteSetsExt, SequencesExt

CONSTANTS
  RtUsers, RtDeps,  \* users of the browser; deployments
  RtMaxConns,       \* bound on sockets opened
  RtMaxSubs,        \* MAX_SUBSCRIPTIONS_PER_USER
  RtMaxAttempts,    \* MAX_RECONNECT_ATTEMPTS
  RtMaxEdits        \* bound on logouts, pages shown and unsubscriptions

ASSUME RtAssumption ==
  /\ RtMaxConns \in Nat /\ RtMaxSubs \in Nat \ {0}
  /\ RtMaxAttempts \in Nat /\ RtMaxEdits \in Nat
  /\ 0 \notin RtUsers /\ IsFiniteSet(RtDeps)

RtConns == 1 .. RtMaxConns
NoSock == 0
NoUser == 0

VARIABLES
  rtUser,      \* who is logged in
  rtEnabled, rtSock, rtTimer, rtAttempts,  \* NOTIFICATIONS_ENABLED,
               \* CURRENT_WS, RECONNECT_TIMEOUT, RECONNECT_ATTEMPTS
  rtWant,      \* SUBSCRIBED_IDS
  rtShown,     \* history: <<user, deployment>> shown in the present session
  rtWire,      \* connection -> "none", "opening", "open" or "cut"
  rtOwner,     \* connection -> the user its handshake authenticated
  rtInbox,     \* connection -> deployments asked for, in order
  rtSent,      \* history: <<connection, deployment>> asked for
  rtStep,      \* connection -> what its consumer does next
  rtLive,      \* connections: the registered connections
  rtRooms,     \* deployment -> members of its room
  rtConnsOf,   \* user_connections
  rtSubs,      \* user_subscriptions
  rtShared,    \* history: users who had two connections at once
  rtEdits, rtNext

rtPage == <<rtUser, rtEnabled, rtSock, rtTimer, rtAttempts, rtWant, rtShown>>
rtNet == <<rtWire, rtOwner, rtInbox, rtSent, rtNext>>
rtServer == <<rtStep, rtLive, rtRooms, rtConnsOf, rtSubs, rtShared>>
rtVars == <<rtPage, rtNet, rtServer, rtEdits>>

RtSteps == {"none", "idle", "join", "track", "forget", "clear", "gone"}

RtTypeOK ==
  /\ rtUser \in RtUsers \cup {NoUser}
  /\ rtEnabled \in BOOLEAN /\ rtTimer \in BOOLEAN
  /\ rtSock \in RtConns \cup {NoSock}
  /\ rtAttempts \in 0 .. RtMaxAttempts + 1
  /\ rtWant \subseteq RtDeps /\ rtShown \subseteq RtUsers \X RtDeps
  /\ rtWire \in [RtConns -> {"none", "opening", "open", "cut"}]
  /\ rtOwner \in [RtConns -> RtUsers \cup {NoUser}]
  /\ rtInbox \in [RtConns -> Seq(RtDeps)]
  /\ rtSent \subseteq RtConns \X RtDeps
  /\ rtStep \in [RtConns -> RtSteps]
  /\ rtLive \subseteq RtConns
  /\ rtRooms \in [RtDeps -> SUBSET RtConns]
  /\ rtConnsOf \in [RtUsers -> SUBSET RtConns]
  /\ rtSubs \in [RtUsers -> SUBSET RtDeps]
  /\ rtShared \subseteq RtUsers
  /\ rtEdits \in 0 .. RtMaxEdits /\ rtNext \in 1 .. RtMaxConns + 1

RtInit ==
  /\ rtUser = NoUser /\ rtEnabled = FALSE /\ rtSock = NoSock
  /\ rtTimer = FALSE /\ rtAttempts = 0 /\ rtWant = {} /\ rtShown = {}
  /\ rtWire = [c \in RtConns |-> "none"]
  /\ rtOwner = [c \in RtConns |-> NoUser]
  /\ rtInbox = [c \in RtConns |-> <<>>]
  /\ rtSent = {} /\ rtNext = 1
  /\ rtStep = [c \in RtConns |-> "none"]
  /\ rtLive = {} /\ rtRooms = [d \in RtDeps |-> {}]
  /\ rtConnsOf = [u \in RtUsers |-> {}]
  /\ rtSubs = [u \in RtUsers |-> {}]
  /\ rtShared = {} /\ rtEdits = 0

-----------------------------------------------------------------------------
(* The browser *)

RtEdit == rtEdits < RtMaxEdits /\ rtEdits' = rtEdits + 1

\* Dropping the old connection removes its callbacks and closes it.
CutOld == [c \in RtConns |-> IF c = rtSock THEN "cut" ELSE rtWire[c]]

\* connect_notifications
Connects ==
  /\ rtNext <= RtMaxConns
  /\ rtTimer' = FALSE
  /\ rtSock' = rtNext
  /\ rtWire' = [CutOld EXCEPT ![rtNext] = "opening"]
  /\ rtOwner' = [rtOwner EXCEPT ![rtNext] = rtUser]
  /\ rtNext' = rtNext + 1

Login(u) ==
  /\ rtUser = NoUser
  /\ rtUser' = u /\ rtShown' = {}
  /\ UNCHANGED <<rtEnabled, rtSock, rtTimer, rtAttempts, rtWant, rtNet,
                 rtServer, rtEdits>>

\* A page that shows deployments tracks them and makes sure of a socket; one
\* that is there already is kept, and is not told about them.
ShowDeployments ==
  /\ RtEdit
  /\ rtUser # NoUser
  /\ \E ds \in SUBSET RtDeps :
       /\ rtWant' = rtWant \cup ds
       /\ rtShown' = rtShown \cup ({rtUser} \X ds)
  /\ rtEnabled' = TRUE
  /\ \/ rtSock = NoSock /\ Connects
     \/ rtSock # NoSock /\ UNCHANGED <<rtSock, rtTimer, rtWire, rtOwner, rtNext>>
  /\ UNCHANGED <<rtUser, rtAttempts, rtInbox, rtSent, rtServer>>

\* Mutant of Logout: what was tracked is kept for the next session.
LogoutKeepsTracked ==
  /\ RtEdit
  /\ rtUser # NoUser
  /\ rtUser' = NoUser /\ rtShown' = {}
  /\ rtEnabled' = FALSE /\ rtTimer' = FALSE /\ rtSock' = NoSock
  /\ rtAttempts' = 0
  /\ rtWire' = CutOld
  /\ UNCHANGED <<rtWant, rtOwner, rtInbox, rtSent, rtNext, rtServer>>

\* disconnect_notifications, then the session ends.
Logout ==
  /\ RtEdit
  /\ rtUser # NoUser
  /\ rtUser' = NoUser /\ rtShown' = {}
  /\ rtEnabled' = FALSE /\ rtTimer' = FALSE /\ rtSock' = NoSock
  /\ rtWant' = {} /\ rtAttempts' = 0
  /\ rtWire' = CutOld
  /\ UNCHANGED <<rtOwner, rtInbox, rtSent, rtNext, rtServer>>

\* on_open: everything tracked is asked for again.
SocketOpens ==
  /\ rtSock # NoSock /\ rtWire[rtSock] = "opening" /\ rtStep[rtSock] = "idle"
  /\ rtAttempts' = 0
  /\ rtWire' = [rtWire EXCEPT ![rtSock] = "open"]
  /\ rtInbox' = [rtInbox EXCEPT ![rtSock] = SetToSeq(rtWant)]
  /\ rtSent' = rtSent \cup ({rtSock} \X rtWant)
  /\ UNCHANGED <<rtUser, rtEnabled, rtSock, rtTimer, rtWant, rtShown, rtOwner,
                 rtNext, rtServer, rtEdits>>

\* on_close: the network failed or the server refused.  CURRENT_WS keeps the
\* dead socket.
SocketCloses ==
  /\ rtSock # NoSock /\ rtWire[rtSock] \in {"opening", "open"}
  /\ rtWire' = [rtWire EXCEPT ![rtSock] = "cut"]
  /\ rtAttempts' = IF rtAttempts <= RtMaxAttempts THEN rtAttempts + 1
                     ELSE rtAttempts
  /\ rtTimer' = (rtTimer \/ (rtAttempts < RtMaxAttempts /\ rtEnabled))
  /\ UNCHANGED <<rtUser, rtEnabled, rtSock, rtWant, rtShown, rtOwner, rtInbox,
                 rtSent, rtNext, rtServer, rtEdits>>

ReconnectTimer ==
  /\ rtTimer
  /\ \/ rtEnabled /\ Connects
     \/ ~rtEnabled /\ rtTimer' = FALSE
        /\ UNCHANGED <<rtSock, rtWire, rtOwner, rtNext>>
  /\ UNCHANGED <<rtUser, rtEnabled, rtAttempts, rtWant, rtShown, rtInbox,
                 rtSent, rtServer, rtEdits>>

-----------------------------------------------------------------------------
(* The server *)

RtGoes(c, step) == rtStep' = [rtStep EXCEPT ![c] = step]

\* on_connect and register_connection; a handshake without a session fails.
OnConnect(c) ==
  LET u == rtOwner[c] IN
  /\ rtWire[c] \in {"opening", "cut"} /\ rtStep[c] = "none" /\ u \in RtUsers
  /\ RtGoes(c, "idle")
  /\ rtLive' = rtLive \cup {c}
  /\ rtConnsOf' = [rtConnsOf EXCEPT ![u] = @ \cup {c}]
  /\ rtShared' = rtShared \cup (IF rtConnsOf[u] = {} THEN {} ELSE {u})
  /\ UNCHANGED <<rtPage, rtNet, rtRooms, rtSubs, rtEdits>>

Wanted(c) == Head(rtInbox[c])
Handled(c) == rtInbox' = [rtInbox EXCEPT ![c] = Tail(@)]

\* try_subscribe reads the counts and lets the lock go; a deployment the user
\* is subscribed to needs nothing more.
TrySubscribe(c) ==
  /\ rtStep[c] = "idle" /\ rtInbox[c] # <<>>
  /\ LET subs == rtSubs[rtOwner[c]] IN
     IF Wanted(c) \in subs \/ Cardinality(subs) >= RtMaxSubs
       THEN Handled(c) /\ rtStep' = rtStep
       ELSE RtGoes(c, "join") /\ rtInbox' = rtInbox
  /\ UNCHANGED <<rtPage, rtWire, rtOwner, rtSent, rtNext, rtLive, rtRooms,
                 rtConnsOf, rtSubs, rtShared, rtEdits>>

JoinRoom(c) ==
  /\ rtStep[c] = "join"
  /\ rtRooms' = IF c \in rtLive
                  THEN [rtRooms EXCEPT ![Wanted(c)] = @ \cup {c}] ELSE rtRooms
  /\ RtGoes(c, "track")
  /\ UNCHANGED <<rtPage, rtNet, rtLive, rtConnsOf, rtSubs, rtShared, rtEdits>>

TrackSubscription(c) ==
  /\ rtStep[c] = "track"
  /\ rtSubs' = [rtSubs EXCEPT ![rtOwner[c]] = @ \cup {Wanted(c)}]
  /\ Handled(c) /\ RtGoes(c, "idle")
  /\ UNCHANGED <<rtPage, rtWire, rtOwner, rtSent, rtNext, rtLive, rtRooms,
                 rtConnsOf, rtShared, rtEdits>>

\* unsubscribe: the room, then the user's entry, whoever else is in the room.
\* The browser never sends it; other clients may.
Unsubscribe(c) ==
  /\ RtEdit
  /\ rtStep[c] = "idle" /\ rtWire[c] = "open" /\ rtInbox[c] = <<>>
  /\ \E d \in RtDeps :
       /\ rtRooms' = [rtRooms EXCEPT ![d] = @ \ {c}]
       /\ rtSubs' = [rtSubs EXCEPT ![rtOwner[c]] = @ \ {d}]
       /\ rtSent' = rtSent \ {<<c, d>>}
  /\ UNCHANGED <<rtPage, rtWire, rtOwner, rtInbox, rtNext, rtStep, rtLive,
                 rtConnsOf, rtShared>>

\* on_disconnect and remove_connection: the rooms, then the user's set of
\* connections, then the subscriptions of a user who has none left.
LeaveRooms(c) ==
  /\ rtWire[c] = "cut" /\ rtStep[c] = "idle"
  /\ rtLive' = rtLive \ {c}
  /\ rtRooms' = [d \in RtDeps |-> rtRooms[d] \ {c}]
  /\ rtInbox' = [rtInbox EXCEPT ![c] = <<>>]
  /\ RtGoes(c, "forget")
  /\ UNCHANGED <<rtPage, rtWire, rtOwner, rtSent, rtNext, rtConnsOf, rtSubs,
                 rtShared, rtEdits>>

\* Mutant of ForgetConnection: the subscriptions of the last connection stay.
ForgetConnectionOnly(c) ==
  /\ rtStep[c] = "forget"
  /\ rtConnsOf' = [rtConnsOf EXCEPT ![rtOwner[c]] = @ \ {c}]
  /\ RtGoes(c, "gone")
  /\ UNCHANGED <<rtPage, rtNet, rtLive, rtRooms, rtSubs, rtShared, rtEdits>>

ForgetConnection(c) ==
  /\ rtStep[c] = "forget"
  /\ rtConnsOf' = [rtConnsOf EXCEPT ![rtOwner[c]] = @ \ {c}]
  /\ RtGoes(c, IF rtConnsOf[rtOwner[c]] = {c} THEN "clear" ELSE "gone")
  /\ UNCHANGED <<rtPage, rtNet, rtLive, rtRooms, rtSubs, rtShared, rtEdits>>

ClearSubscriptions(c) ==
  /\ rtStep[c] = "clear"
  /\ rtSubs' = [rtSubs EXCEPT ![rtOwner[c]] = {}]
  /\ RtGoes(c, "gone")
  /\ UNCHANGED <<rtPage, rtNet, rtLive, rtRooms, rtConnsOf, rtShared, rtEdits>>

RtBrowser ==
  \/ \E u \in RtUsers : Login(u)
  \/ ShowDeployments \/ Logout \/ SocketOpens \/ SocketCloses \/ ReconnectTimer
RtConsumer(c) ==
  \/ OnConnect(c) \/ TrySubscribe(c) \/ JoinRoom(c) \/ TrackSubscription(c)
  \/ LeaveRooms(c) \/ ForgetConnection(c) \/ ClearSubscriptions(c)
RealtimeNext ==
  RtBrowser \/ \E c \in RtConns : RtConsumer(c) \/ Unsubscribe(c)

RealtimeSpec == RtInit /\ [][RealtimeNext]_rtVars

-----------------------------------------------------------------------------
(* Properties *)

\* The socket of a session only ever asks for deployments that were shown in
\* that session: nothing of an earlier user is left when the next one logs in.
SessionsDoNotMix ==
  \A c \in RtConns, d \in RtDeps :
    <<c, d>> \in rtSent /\ c = rtSock => <<rtUser, d>> \in rtShown

\* A deployment counted for a user who never had two connections at once is
\* one whose updates that user's connection gets; a second connection is
\* answered from the first one's entry and joins no room.
CountedIsDelivered ==
  \A u \in RtUsers, d \in RtDeps :
    u \notin rtShared /\ d \in rtSubs[u] =>
      \/ \E c \in rtRooms[d] : rtOwner[c] = u
      \/ \E c \in RtConns : rtOwner[c] = u /\ rtStep[c] \in {"forget", "clear"}

-----------------------------------------------------------------------------
(* The inductive invariant *)

\* Nothing is tracked, and no socket is kept, between two sessions.
RtSession ==
  /\ rtUser = NoUser => rtSock = NoSock /\ rtWant = {} /\ ~rtEnabled
  /\ \A d \in rtWant : <<rtUser, d>> \in rtShown

\* A connection that has not been made yet has left no trace.
RtUnmade ==
  /\ rtSock < rtNext
  /\ \A c \in RtConns : rtNext <= c =>
       /\ rtWire[c] = "none" /\ rtStep[c] = "none"
       /\ \A d \in RtDeps : <<c, d>> \notin rtSent

\* A consumer works for the user who owns its connection, which is registered
\* until the consumer forgets it.
RtServed ==
  /\ \A c \in RtConns : rtStep[c] # "none" => rtOwner[c] \in RtUsers
  /\ \A c \in RtConns : rtStep[c] \in {"idle", "join", "track", "forget"} =>
       c \in rtConnsOf[rtOwner[c]]
  /\ \A c \in RtConns : rtStep[c] \in {"idle", "join", "track"} => c \in rtLive
  /\ \A u \in RtUsers : u \notin rtShared =>
       \A x, y \in rtConnsOf[u] : x = y

\* Members of a room are connections that were made; one whose deployment is
\* about to be counted is in its room.
RtJoined ==
  /\ \A d \in RtDeps : \A c \in rtRooms[d] : rtStep[c] # "none"
  /\ \A c \in RtConns : rtStep[c] \in {"join", "track"} => rtInbox[c] # <<>>
  /\ \A c \in RtConns : rtStep[c] = "track" => c \in rtRooms[Wanted(c)]

RtInv ==
  /\ RtTypeOK /\ RtSession /\ RtUnmade /\ RtServed /\ RtJoined
  /\ SessionsDoNotMix /\ CountedIsDelivered
=============================================================================
