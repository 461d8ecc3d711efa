--------------------------- MODULE MCAgentStream ---------------------------
(* Constants for checking AgentStream. *)
EXTENDS AgentStream

CONSTANTS a1, a2, k1, k2

\* Peers announce any agent id under any cluster.
AnyAnnounce == Agents \X Clusters

\* One id that agents of two clusters announce, and one of a single cluster.
MixedAnnounce == {<<a1, k1>>, <<a1, k2>>, <<a2, k2>>}
=============================================================================
