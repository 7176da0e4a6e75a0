------------------------------- MODULE MCFinance -------------------------------
(* The payouts of small tables, from what their games propose.             *)
EXTENDS MCPayout, Finance

\* What the games of a table may propose: anything over two stakes, and for three
\* seats whose stakes are all there any split of them.
Seqs(S, lengths) == UNION {[1..n -> S] : n \in lengths}

Key(k, upper) == [key |-> k, upper |-> upper]

Stakes(owners, members, outpoints, atoms, foreign) ==
  [owner : {Key(k, FALSE) : k \in owners}, members : {members}, outpoint : outpoints,
   atoms : atoms, foreign : foreign]
Shares(keys, atoms) == [key : keys, atoms : atoms]

OfTwo ==
  [ours : {FALSE}, inputs : Seqs(Stakes({1, 2}, {1, 2}, {1, 2}, {6}, {FALSE})
                   \cup Stakes({2}, {1, 2}, {2}, {0, 7, 15}, {FALSE, TRUE})
                   \cup Stakes({2}, {2, 3}, {2}, {6}, {FALSE}), 1..2),
   payments : Seqs(Shares({Key(1, FALSE), Key(2, FALSE)}, {0, 5, 7, 12})
                     \cup Shares({Key(1, TRUE), Key(3, FALSE)}, {7}), 0..2)]
OfThree ==
  [ours : {FALSE}, inputs : {[k \in 1..3 |-> [owner |-> Key(k, FALSE), members |-> {1, 2, 3},
                              outpoint |-> k, atoms |-> 8, foreign |-> FALSE]]},
   payments : Seqs(Shares({Key(k, FALSE) : k \in 1..3}, {7, 8, 9}), 3..3)
                \cup Seqs(Shares({Key(k, FALSE) : k \in 1..3}, {9, 12, 15, 24}), 1..2)]

\* Outcomes of tables of two and three, whose seats are not in the order of their keys.
StakeOf(k, members) == [owner |-> Key(k, FALSE), members |-> members, outpoint |-> k,
                      atoms |-> 8, foreign |-> FALSE]
Tables == {<<StakeOf(2, {1, 2}), StakeOf(1, {1, 2})>>,
           <<StakeOf(3, {1, 2, 3}), StakeOf(1, {1, 2, 3}), StakeOf(2, {1, 2, 3})>>}
Outcomes ==
  [void : {FALSE}, shares : UNION {[seats -> {-8, 0, 8, 16, 24}] : seats \in SUBSET (1..4)}]
    \cup {[void |-> TRUE, shares |-> << >>]}
OurProposals ==
  UNION {{Settle(table, out) : out \in {o \in Outcomes : Divides(table, o)}} : table \in Tables}

\* Payout does not look into a transaction: its steps are taken for one proposal,
\* which is looked at no more.
Split == [ours |-> FALSE, inputs |-> [k \in 1..2 |-> [owner |-> Key(k, FALSE), members |-> {1, 2},
                                      outpoint |-> k, atoms |-> 6, foreign |-> FALSE]],
          payments |-> << [key |-> Key(1, FALSE), atoms |-> 12] >>]
Taken == [ours |-> FALSE, inputs |-> << >>, payments |-> << >>]

ProposedSpec ==
  /\ PayoutInit /\ proposal \in OfTwo \cup OfThree \cup OurProposals
  /\ [][PayoutNext /\ proposal \in {Split, Taken} /\ proposal' = Taken]_<<vars, proposal>>
  /\ Fairness /\ PayoutFairness
=============================================================================
