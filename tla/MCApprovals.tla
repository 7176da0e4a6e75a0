----------------------------- MODULE MCApprovals -----------------------------
(***************************************************************************)
(* Instances of Approvals for TLC.                                         *)
(***************************************************************************)
EXTENDS Approvals, TLC

\* Every deposit is one unit.
UnitAtoms == [d \in Deposits |-> 1]

\* A deposit named by a number is of that many units.
NumberAtoms == [d \in Deposits |-> d]

\* Ids and coins are interchangeable.
Symmetry == Permutations(Ids) \cup Permutations(Coins)

=============================================================================
