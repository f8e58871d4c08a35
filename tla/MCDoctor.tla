------------------------------ MODULE MCDoctor ------------------------------
(* Instances of Doctor for TLC. *)
EXTENDS Doctor
CONSTANT p1

\* Those that make products or remove them.
Producers == [p \in Proc |-> {"submit", "check", "rm"}]
=============================================================================
