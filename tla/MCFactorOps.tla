----------------------------- MODULE MCFactorOps -----------------------------
(* Instances of FactorOps for TLC. *)
EXTENDS FactorOps, TLC
CONSTANTS p1, p2

\* Two processes that may run any command.
Everything == [p \in Proc |-> Command]
\* One process checks, the other does everything else.
OneChecker == [p \in Proc |-> IF p = p1 THEN {"check"} ELSE Command \ {"check"}]

Interchangeable == Permutations(Proc)
=============================================================================
