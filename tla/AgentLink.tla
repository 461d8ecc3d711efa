----------------------------- MODULE AgentLink -----------------------------
(***************************************************************************)
(* What the agent link promises the callers of send_command_to_cluster,    *)
(* without the registry map, its locks, the two channels and the tasks     *)
(* between a caller and an agent.                                          *)
(*                                                                         *)
(* Every stream connection is a pipe.  A call ends once: with Ok, when its *)
(* command has entered the pipe of one connection, or with Err, and then   *)
(* its command has entered none.  The agent at the far end gets what went  *)
(* in, in that order and each command once, for as long as it is attached; *)
(* what it has not got when it is lost is lost with it.                    *)
(***************************************************************************)
EXTENDS Naturals, Sequences

CONSTANTS Conns, Cmds

VARIABLES
  state,   \* connection: "idle", "live" or "gone"
  result,  \* call: "pending", "ok" or "err"
  in,      \* commands that entered the pipe of a connection
  got      \* commands its agent received

linkVars == <<state, result, in, got>>

LinkInit ==
  /\ state = [c \in Conns |-> "idle"]
  /\ result = [m \in Cmds |-> "pending"]
  /\ in = [c \in Conns |-> <<>>]
  /\ got = [c \in Conns |-> <<>>]

Connect(c) ==
  /\ state[c] = "idle"
  /\ state' \in {[state EXCEPT ![c] = "live"], [state EXCEPT ![c] = "gone"]}
  /\ UNCHANGED <<result, in, got>>

Lose(c) ==
  /\ state[c] = "live"
  /\ state' = [state EXCEPT ![c] = "gone"]
  /\ UNCHANGED <<result, in, got>>

\* The loss of a connection may not have been noticed yet.
Accept(m, c) ==
  /\ result[m] = "pending" /\ state[c] # "idle"
  /\ result' = [result EXCEPT ![m] = "ok"]
  /\ in' = [in EXCEPT ![c] = Append(@, m)]
  /\ UNCHANGED <<state, got>>

Reject(m) ==
  /\ result[m] = "pending"
  /\ result' = [result EXCEPT ![m] = "err"]
  /\ UNCHANGED <<state, in, got>>

Receive(c) ==
  /\ state[c] = "live" /\ Len(got[c]) < Len(in[c])
  /\ got' = [got EXCEPT ![c] = Append(@, in[c][Len(@) + 1])]
  /\ UNCHANGED <<state, result, in>>

LinkNext ==
  \/ \E c \in Conns : Connect(c) \/ Lose(c) \/ Receive(c)
  \/ \E m \in Cmds : Reject(m) \/ \E c \in Conns : Accept(m, c)

LinkSpec == LinkInit /\ [][LinkNext]_linkVars
=============================================================================
