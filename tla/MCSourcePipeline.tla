-------------------------- MODULE MCSourcePipeline --------------------------
(* Instances of SourcePipeline for TLC. *)
EXTENDS SourcePipeline, TLC

CONSTANTS p1, s1, s2

\* One push and the life of one pull request.
OnePr == {<<p1, s2>>}
=============================================================================
