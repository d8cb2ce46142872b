---------------------------- MODULE MCTokenService ----------------------------
(* Small instances of TokenService. *)
EXTENDS TokenService, TLC

CONSTANT u1

\* One user with every family.
OneOwner == [f \in Family |-> u1]

\* Rows, request slots and devices are interchangeable.
Symmetric == Permutations(Row) \cup Permutations(Proc) \cup Permutations(Device)
=============================================================================
