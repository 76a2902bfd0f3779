---------------------------- MODULE MCNasReload ----------------------------
(* Instances of NasReload for TLC. *)
EXTENDS NasReload

CONSTANTS r1, r2, n1, n2, s1, s2

\* One device, and an id for a second.
OneDevice == <<[nasname |-> n1, secret |-> s1], NULL>>
=============================================================================
