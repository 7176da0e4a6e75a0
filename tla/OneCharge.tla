------------------------------ MODULE OneCharge ------------------------------
(***************************************************************************)
(* What the bridge promises of an obligation: it is charged by one payment *)
(* at a time, another is let in only when the first can never confirm, and *)
(* what confirmed stays the payment of its deposit.                        *)
(***************************************************************************)
CONSTANTS Deposits, Payments, None

VARIABLES due,    \* the payment that charges a deposit, or None
          lost,   \* payments that can never confirm
          paid    \* payments that confirmed

Init ==
  /\ due = [d \in Deposits |-> None]
  /\ lost = {} /\ paid = {}

Charge(d, p) ==
  /\ due[d] = None
  /\ \A e \in Deposits : due[e] # p
  /\ p \notin paid
  /\ due' = [due EXCEPT ![d] = p]
  /\ UNCHANGED <<lost, paid>>

Lose(P) ==
  /\ P \cap paid = {}
  /\ lost' = lost \cup P
  /\ UNCHANGED <<due, paid>>

Release(d) ==
  /\ due[d] \in lost
  /\ due' = [due EXCEPT ![d] = None]
  /\ UNCHANGED <<lost, paid>>

Confirm(d) ==
  /\ due[d] \in Payments \ lost
  /\ paid' = paid \cup {due[d]}
  /\ UNCHANGED <<due, lost>>

Next ==
  \/ \E d \in Deposits : Release(d) \/ Confirm(d) \/ \E p \in Payments : Charge(d, p)
  \/ \E P \in SUBSET Payments : Lose(P)

Spec == Init /\ [][Next]_<<due, lost, paid>>

=============================================================================
