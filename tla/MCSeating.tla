------------------------------ MODULE MCSeating ------------------------------
(***************************************************************************)
(* Instances of Seating for TLC: a few keys, one block per deadline.       *)
(***************************************************************************)
EXTENDS Seating, TLC

\* Honest keys are interchangeable.
Symmetry == Permutations(Honest)

\* What an equivocator may claim before anyone binds.  Said at the start, it is heard
\* as late as in any order of saying it.
EarlyClaims ==
  {m \in Message : /\ m.kind = "roster" /\ m.from \in Equivocators \cap m.roster
                   /\ Cardinality(m.roster) = Seats}

\* Every bond has landed and every join is out: the admission workers are done.
BondedInit ==
  /\ height = StartHeight
  /\ faults = 0
  /\ net = {JoinMsg(p) : p \in Peers} \cup EarlyClaims
  /\ form = [p \in Peers |-> IF p \in Honest THEN NewFormation(p) ELSE Blank]
  /\ adm = [p \in Peers |-> "done"]
  /\ step = [p \in Peers |-> "idle"]
  /\ rcvd = [p \in Peers |-> {}]
  /\ recovery = [p \in Peers |-> FALSE]
  /\ fault = [p \in Peers |-> FALSE]
  /\ disk = [p \in Peers |-> Snapshot(form[p], FALSE)]
  /\ bridge = [p \in Peers |-> NoRoster]
  /\ paid = [p \in Peers |-> FALSE]

BondedSpec == BondedInit /\ [][Next]_vars

BondedFairSpec == BondedSpec /\ Fairness

=============================================================================
