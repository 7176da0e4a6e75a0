-------------------------------- MODULE Finance --------------------------------
(***************************************************************************)
(* From a game's payout proposal to the one transaction every bridge of the *)
(* table builds, approves and signs (pkg/finance, BuildPayout), and from a  *)
(* match's outcome to the runtime's proposal (pkg/runtime, Settle).  The    *)
(* games of a table list the same outcome each in its own way: the id of a  *)
(* payout in Payout.tla is the transaction, so all must build the same.     *)
(*                                                                          *)
(* Keys are numbers, in the order of their hexadecimal form, and are        *)
(* written in lower or in upper case, the upper before the lower.  The fee  *)
(* and the dust limit are those of the wallet's relay rules.                *)
(***************************************************************************)
EXTENDS Integers, Sequences, FiniteSetsExt, Functions

CONSTANTS MaxMembers, MaxAtoms,
          FeeRates       \* the fee of one signature or output

ASSUME FinanceAssumption == {MaxMembers, MaxAtoms} \subseteq Nat /\ FeeRates \subseteq Nat

VARIABLE proposal        \* what a game proposes; ours, when Settle() made it of an outcome

\* A proposal has inputs, each a stake with its terms (owner, members, outpoint and
\* atoms; foreign is another table's, another kind of deposit or another tree), and
\* payments, each a gross share.  An owner and a payee are keys as written.
Keys == [key : Nat, upper : BOOLEAN]

Refused == [inputs |-> << >>, payments |-> << >>, fee |-> 0]

Total(f) == MapThenSumSet(LAMBDA n : f[n], DOMAIN f)
Sum(s) == Total([n \in DOMAIN s |-> s[n].atoms])

\* The members of S in ascending order of their keys, no two of which are alike.
InOrder(S, key) ==
  CHOOSE f \in Bijection(1..Cardinality(S), S) : \A m, n \in DOMAIN f : m < n => key[f[m]] < key[f[n]]

\* Terms.Canonical(): its refusals, and the case every key is then written in.
Acceptable(i) ==
  /\ i.atoms \in 1..MaxAtoms
  /\ Cardinality(i.members) \in 2..MaxMembers /\ i.owner.key \in i.members

Canonical(i) == [i EXCEPT !.owner.upper = FALSE]

\* Slip: the inputs are put in order before their keys are normalised.
OrderedAsWritten(inputs) ==
  LET rank == [n \in DOMAIN inputs |->
                 inputs[n].owner.key + IF inputs[n].owner.upper THEN 0 ELSE MaxMembers]
      f == InOrder(DOMAIN inputs, rank)
  IN  [n \in DOMAIN inputs |-> Canonical(inputs[f[n]])]

Ordered(inputs) ==
  LET f == InOrder(DOMAIN inputs, [n \in DOMAIN inputs |-> inputs[n].owner.key])
  IN  [n \in DOMAIN inputs |-> Canonical(inputs[f[n]])]

Paid(payments) ==
  LET f == InOrder(DOMAIN payments, [n \in DOMAIN payments |-> payments[n].key.key])
  IN  [n \in DOMAIN payments |-> payments[f[n]]]

\* BuildPayout(): the stakes are those of the whole roster, each once.
StakesStand(inputs) ==
  /\ Len(inputs) \in 2..MaxMembers
  /\ \A n \in DOMAIN inputs : Acceptable(inputs[n]) /\ ~inputs[n].foreign
  /\ \A n, m \in DOMAIN inputs :
       /\ inputs[n].members = inputs[m].members
       /\ n # m => /\ inputs[n].owner.key # inputs[m].owner.key
                   /\ inputs[n].outpoint # inputs[m].outpoint
  /\ Len(inputs) = Cardinality(inputs[1].members)
  /\ Sum(inputs) <= MaxAtoms

\* A recipient is a seat, named once and as the canonical terms name it; what goes
\* out is what came in.
PaymentsStand(payments, inputs) ==
  /\ Len(payments) \in 1..MaxMembers
  /\ \A n \in DOMAIN payments :
       /\ payments[n].key.key \in inputs[1].members /\ ~payments[n].key.upper
       /\ payments[n].atoms > 0
  /\ \A n, m \in DOMAIN payments : payments[n].key = payments[m].key => n = m
  /\ Sum(payments) = Sum(inputs)

\* The fee of the largest form the transaction can take once all have signed.
Fee(rate, inputs, payments) ==
  rate * (Len(inputs) * Cardinality(inputs[1].members) + Len(payments))

\* An output worth less than spending it costs.
Dust(rate, atoms) == atoms < rate

\* The fee is borne alike; what does not divide falls to the first.
Net(gross, fee) ==
  [n \in DOMAIN gross |->
     [gross[n] EXCEPT !.atoms =
        @ - fee \div Len(gross) - (IF n = 1 THEN fee % Len(gross) ELSE 0)]]

BuildPayout(p, rate) ==
  IF ~StakesStand(p.inputs) \/ ~PaymentsStand(p.payments, p.inputs) THEN Refused
  ELSE LET gross == Paid(p.payments)
           fee   == Fee(rate, p.inputs, gross)
           net   == Net(gross, fee)
       IN  IF /\ fee \in 1..Sum(gross)
              /\ \A n \in DOMAIN net : net[n].atoms > 0 /\ ~Dust(rate, net[n].atoms)
           THEN [inputs |-> Ordered(p.inputs), payments |-> net, fee |-> fee]
           ELSE Refused

-----------------------------------------------------------------------------
(* Settle(): stakes are those the seats announced, by seat; out is void or *)
(* divides them.                                                           *)

\* sharesFor(): an outcome that does not add up is not proposed.
Divides(stakes, out) ==
  /\ \A seat \in DOMAIN stakes : stakes[seat].atoms > 0
  /\ Sum(stakes) <= MaxAtoms
  /\ \/ out.void
     \/ /\ DOMAIN out.shares \subseteq DOMAIN stakes
        /\ \A seat \in DOMAIN out.shares : out.shares[seat] >= 0
        /\ Total(out.shares) = Sum(stakes)

\* sharesFor(): a void table gives every seat its stake back.
Share(stakes, out, seat) ==
  IF out.void THEN stakes[seat].atoms
  ELSE IF seat \in DOMAIN out.shares THEN out.shares[seat] ELSE 0

\* A seat that is due nothing is not named.
Settle(stakes, out) ==
  LET seats == {seat \in DOMAIN stakes : Share(stakes, out, seat) > 0}
      paid == InOrder(seats, [seat \in seats |-> seat])
  IN  [ours |-> TRUE, inputs |-> stakes,
       payments |-> [n \in DOMAIN paid |-> [key |-> stakes[paid[n]].owner,
                                            atoms |-> Share(stakes, out, paid[n])]]]

-----------------------------------------------------------------------------
\* The same proposal as another seat's game may list it.
Reordered(s) == {[n \in DOMAIN s |-> s[f[n]]] : f \in Bijection(DOMAIN s, DOMAIN s)}
Recased(inputs) ==
  {[n \in DOMAIN inputs |-> [inputs[n] EXCEPT !.owner.upper = case[n]]] :
     case \in [DOMAIN inputs -> BOOLEAN]}
Listings(p) ==
  {[inputs |-> inputs, payments |-> payments] :
     inputs \in UNION {Recased(order) : order \in Reordered(p.inputs)},
     payments \in Reordered(p.payments)}

\* Every stake of the roster spent, and shares that leave each recipient more than
\* the whole fee and the dust limit.
Payable(p, rate) ==
  /\ rate > 0
  /\ StakesStand(p.inputs) /\ PaymentsStand(p.payments, p.inputs)
  /\ \A n \in DOMAIN p.payments :
       p.payments[n].atoms >= Fee(rate, p.inputs, p.payments) + rate

\* However the games of a table list an outcome, their bridges build the same
\* transaction or none: it spends each seat's stake once, pays the seats the
\* proposal names what it says less the same share of the fee, all but a remainder,
\* creates and loses nothing.  A proposal that can bear its fee is not refused, and an
\* outcome of ours for nothing but its fee (BuildPayout, "canonicalizes ordering,
\* applies the fee rules"; sharesFor, "one the other seats refuse").
PayoutsAddUp ==
  \A rate \in FeeRates :
    LET p     == proposal
        built == BuildPayout(p, rate)
        Gross(key) == Sum([n \in {m \in DOMAIN p.payments : p.payments[m].key = key} |-> p.payments[n]])
    IN  /\ \A q \in Listings(p) : BuildPayout(q, rate) = built
        /\ Payable(p, rate) => built # Refused
        /\ p.ours => StakesStand(p.inputs) /\ PaymentsStand(p.payments, p.inputs)
        /\ built # Refused =>
             /\ Sum(built.payments) + built.fee = Sum(p.inputs)
             /\ {built.inputs[n].owner.key : n \in DOMAIN built.inputs} = p.inputs[1].members
             /\ \A n \in DOMAIN built.payments :
                  LET pay   == built.payments[n]
                      count == Len(built.payments)
                  IN  /\ pay.atoms > 0
                      /\ Gross(pay.key) - pay.atoms - built.fee \div count
                           \in 0..(count - 1)
=============================================================================
