-------------------------------- MODULE Payout --------------------------------
(***************************************************************************)
(* What becomes of the stakes of one table: the payout every seat has to   *)
(* sign (gaming_settlement.go, funds/settlement.go), the refund each owner *)
(* can take alone once the lock has run out (gaming_recovery.go,           *)
(* funds/refund.go) and the worker that publishes and observes both        *)
(* (gaming_financial_worker.go, funds/reconcile.go).                       *)
(*                                                                         *)
(* A payout spends every stake; a refund is one quote of one bridge.  The  *)
(* chain, external, holds no two transactions with an input in common.     *)
(***************************************************************************)
EXTENDS Roster

CONSTANTS Payouts,         \* settlement ids: different splits of the same stakes
          Quotes,          \* <<bridge, token>>: refund quotes, each a destination of its own
          None

ASSUME PayoutAssumption ==
  /\ \A q \in Quotes : q[1] \in Bridges
  /\ Payouts \cap Quotes = {} /\ None \notin Payouts \cup Quotes

VARIABLES
  settlements,   \* diskState.Settlements of each bridge
  operations,    \* diskState.Operations of each bridge, by transaction
  deposit,       \* the stake each bridge recorded
  quotes,        \* diskState.Quotes
  call,          \* the payout each bridge's approval is at, between its two writes
  signed,        \* <<bridge, payout>>: signature messages Bison Relay took
  seen,          \* those of them each bridge has applied (financialDone)
  staked,        \* bridges whose stake is on the chain
  chain,         \* where each transaction is
  mature         \* the stakes' relative lock has run out

book == <<settlements, operations, deposit, quotes>>
node == <<staked, chain, mature>>
payout == <<book, call, signed, seen, node>>
vars == <<roster, payout>>
unfailed == <<ledger, given, posted, applied>>   \* all of roster but faults

Owner(q) == q[1]
Tx == Payouts \cup Quotes   \* a quote stands for its refund
Inputs(t) == IF t \in Payouts THEN Bridges ELSE {Owner(t)}

Settled == {"publishing", "confirmed"}

Settlements ==
  [state : {"none", "awaiting_approval", "expired", "rejected", "awaiting_signatures"} \cup Settled,
   signatures : SUBSET Bridges]
OperationStates == {"none", "awaiting_signatures", "mempool"} \cup Settled

PayoutTypeOK ==
  /\ settlements \in [Bridges -> [Payouts -> Settlements]]
  /\ operations \in [Bridges -> [Tx -> OperationStates]]
  /\ deposit \in [Bridges ->
       [state : {"confirmed", "recovery_pending", "spend_pending", "spent", "needs_attention"},
        spendingTx : Tx \cup {None}]]
  /\ quotes \in [Quotes -> {"none", "open", "approved"}]
  /\ call \in [Bridges -> Payouts \cup {None}]
  /\ signed \subseteq Bridges \X Payouts
  /\ seen \in [Bridges -> SUBSET (Bridges \X Payouts)]
  /\ staked \subseteq Bridges
  /\ chain \in [Tx -> {"unknown", "mempool", "confirmed"}]
  /\ mature \in BOOLEAN

PayoutInit ==
  /\ Init
  /\ settlements = [b \in Bridges |-> [p \in Payouts |-> [state |-> "none", signatures |-> {}]]]
  /\ operations = [b \in Bridges |-> [t \in Tx |-> "none"]]
  /\ deposit = [b \in Bridges |-> [state |-> "confirmed", spendingTx |-> None]]
  /\ quotes = [q \in Quotes |-> "none"]
  /\ call = [b \in Bridges |-> None]
  /\ signed = {} /\ seen = [b \in Bridges |-> {}]
  /\ staked = {} /\ chain = [t \in Tx |-> "unknown"] /\ mature = FALSE

Closed(b) == ledger[b].closed
Spends(b, where) == {t \in Tx : b \in Inputs(t) /\ chain[t] = where}

\* GamingChainOutpoint(): still there while its spend waits in the mempool.
Found(b) == b \in staked /\ Spends(b, "confirmed") = {}

Set(b, p, state, signatures) ==
  settlements' = [settlements EXCEPT ![b][p] = [state |-> state, signatures |-> signatures]]

-----------------------------------------------------------------------------
(* The payout                                                              *)

\* The operator approves the stake, which a complete roster allows
\* (checkRoster), and it is mined: Approvals and Funding have the way there, and
\* over its blocks the worker catches up with the roster's frames.
Stake(b) ==
  /\ b \notin staked /\ Complete(ledger[b]) /\ ~Closed(b)
  /\ \A m \in posted : Waiting(b, m) => m.from \in Outsiders
  /\ staked' = staked \cup {b}
  /\ UNCHANGED <<roster, book, call, signed, seen, chain, mature>>

\* liveProposal().
Live(b) ==
  \E p \in Payouts : settlements[b][p].state \notin {"none", "expired", "rejected"}

\* ProposeGamingPayout(): validateGamingPayoutInputs(), then what
\* ProposeSettlement() refuses.
MayPropose(b, p) ==
  /\ ~Closed(b) /\ Complete(ledger[b]) /\ \A c \in Bridges : Found(c)
  /\ settlements[b][p].state \in {"none", "expired"} /\ ~Live(b)

\* ProposeSettlement(): a new payout, or an expired one asked for again.
Propose(b, p) ==
  /\ MayPropose(b, p)
  /\ Set(b, p, "awaiting_approval", {})
  /\ UNCHANGED <<roster, operations, deposit, quotes, call, signed, seen, node>>

\* expireSettlements(), as any reader finds the ten minutes over.
Expire(b, p) ==
  /\ settlements[b][p].state = "awaiting_approval"
  /\ Set(b, p, "expired", settlements[b][p].signatures)
  /\ UNCHANGED <<roster, operations, deposit, quotes, call, signed, seen, node>>

\* RejectSettlement(): not once a signature is there.
Reject(b, p) ==
  /\ settlements[b][p] = [state |-> "awaiting_approval", signatures |-> {}]
  /\ Set(b, p, "rejected", {})
  /\ UNCHANGED <<roster, operations, deposit, quotes, call, signed, seen, node>>

\* ApproveSettlement(): no payout and no refund may have the stake already.
MaySign(b, p) ==
  /\ settlements[b][p].state = "awaiting_approval" /\ ~Closed(b)
  /\ \A t \in Tx : operations[b][t] = "none"

\* ApproveGamingPayout(), up to ApproveSettlement(): an approval repeated goes
\* on with the signatures it has.
Approve(b, p) ==
  /\ call[b] = None /\ \A c \in Bridges : Found(c)
  /\ \/ /\ b \in settlements[b][p].signatures
        /\ UNCHANGED <<settlements, operations>>
     \/ /\ b \notin settlements[b][p].signatures /\ MaySign(b, p)
        /\ Set(b, p, "awaiting_signatures", settlements[b][p].signatures \cup {b})
        /\ operations' = [operations EXCEPT ![b][p] = "awaiting_signatures"]
  /\ call' = [call EXCEPT ![b] = p]
  /\ UNCHANGED <<roster, deposit, quotes, signed, seen, node>>

\* The payout operation is assembled: it has left "awaiting_signatures".
Assembled(b, p) == operations[b][p] \notin {"none", "awaiting_signatures"}

\* Slip: a signature delivered again resets what was assembled.
AddOver(b, p, c) ==
  /\ settlements[b][p].state \in {"awaiting_approval", "awaiting_signatures"} \cup Settled
  /\ c \in ledger[b].peers /\ ~Closed(b)
  /\ LET all   == settlements[b][p].signatures \cup {c}
         ready == all = ledger[b].peers /\ b \in all
     IN  /\ Set(b, p, IF ready THEN "publishing" ELSE settlements[b][p].state, all)
         /\ operations' = IF ready THEN [operations EXCEPT ![b][p] = "publishing"] ELSE operations

\* Slip: our own signature is taken for granted.
AddForUs(b, p, c) ==
  /\ settlements[b][p].state \in {"awaiting_approval", "awaiting_signatures"} \cup Settled
  /\ c \in ledger[b].peers /\ ~Closed(b)
  /\ LET all   == settlements[b][p].signatures \cup {c}
         ready == ledger[b].peers \subseteq all \cup {b}
     IN  /\ Set(b, p, IF ready THEN "publishing" ELSE settlements[b][p].state, all)
         /\ operations' = IF ready THEN [operations EXCEPT ![b][p] = "publishing"] ELSE operations

\* AddSettlementSignatures(): one of the table's bridges, a payout still asking;
\* assembled once every seat's signature is there and ours is among them.
AddSignatures(b, p, c) ==
  /\ settlements[b][p].state \in {"awaiting_approval", "awaiting_signatures"} \cup Settled
  /\ c \in ledger[b].peers
  /\ \/ Assembled(b, p) /\ UNCHANGED <<settlements, operations>>
     \/ /\ ~Assembled(b, p) /\ ~Closed(b)
        /\ LET all   == settlements[b][p].signatures \cup {c}
               ready == all = ledger[b].peers /\ b \in all
           IN  /\ Set(b, p, IF ready THEN "publishing" ELSE settlements[b][p].state, all)
               /\ operations' = IF ready THEN [operations EXCEPT ![b][p] = "publishing"]
                                ELSE operations

\* sendFinancialMessage(): once; a send may be refused.
Send(b, p) ==
  \/ signed' = signed \cup {<<b, p>>} /\ UNCHANGED faults
  \/ <<b, p>> \notin signed /\ Fault /\ UNCHANGED signed

\* ApproveGamingPayout(): our own signatures, through the same door, and to the
\* others; the table may have been closed meanwhile.
AddOwn(b, p) ==
  /\ call[b] = p
  /\ \/ Closed(b) /\ UNCHANGED <<settlements, operations, signed, faults>>
     \/ ~Closed(b) /\ AddSignatures(b, p, b) /\ Send(b, p)
  /\ call' = [call EXCEPT ![b] = None]
  /\ UNCHANGED <<unfailed, deposit, quotes, seen, node>>

\* SendGamingPayoutSignatures(): the operator sends what never went out.
Resend(b, p) ==
  /\ ~Closed(b)
  /\ settlements[b][p].state = "awaiting_signatures" /\ b \in settlements[b][p].signatures
  /\ <<b, p>> \notin signed /\ Send(b, p)
  /\ UNCHANGED <<unfailed, book, call, seen, node>>

\* receiveFinancialFrame(), for signatures: a payout not proposed here yet, or
\* not accepting, leaves the frame waiting.
ReceiveSignatures(b, c, p) ==
  /\ c # b /\ <<c, p>> \in signed \ seen[b] /\ ~Closed(b)
  /\ AddSignatures(b, p, c)
  /\ seen' = [seen EXCEPT ![b] = @ \cup {<<c, p>>}]
  /\ UNCHANGED <<roster, deposit, quotes, call, signed, node>>

-----------------------------------------------------------------------------
(* The chain                                                               *)

\* A node takes a transaction whose inputs exist and are free, a refund only
\* after the lock.
Accepts(t) ==
  /\ chain[t] = "unknown" /\ Inputs(t) \subseteq staked
  /\ \A b \in Inputs(t) : Spends(b, "mempool") = {} /\ Spends(b, "confirmed") = {}
  /\ t \in Payouts \/ mature

Broadcast(t) == chain' = [chain EXCEPT ![t] = IF Accepts(t) THEN "mempool" ELSE @]

Mine(t) ==
  /\ chain[t] = "mempool"
  /\ chain' = [chain EXCEPT ![t] = "confirmed"]
  /\ UNCHANGED <<roster, book, call, signed, seen, staked, mature>>

\* The mempool forgets a transaction, or a reorganisation takes its block back.
Unmine(t, where) ==
  /\ \/ chain[t] = "mempool" /\ where = "unknown"
     \/ chain[t] = "confirmed" /\ where \in {"mempool", "unknown"}
  /\ Fault
  /\ chain' = [chain EXCEPT ![t] = where]
  /\ UNCHANGED <<unfailed, book, call, signed, seen, staked, mature>>

LockRunsOut ==
  /\ ~mature /\ staked # {}
  /\ mature' = TRUE
  /\ UNCHANGED <<roster, book, call, signed, seen, staked, chain>>

-----------------------------------------------------------------------------
(* The refund                                                              *)

\* recoveryView(): the stake is there, nothing spends it, its lock is over and
\* the operator closed the table.
CanRecover(b) ==
  /\ deposit[b].spendingTx = None /\ deposit[b].state # "recovery_pending"
  /\ Found(b) /\ Spends(b, "mempool") = {}
  /\ mature /\ Closed(b)

\* No operation but a payout has the stake (op.Kind # "settlement").
Unreserved(b) == \A q \in Quotes : operations[b][q] = "none"

\* QuoteGamingRecovery().
Quote(q) ==
  /\ quotes[q] = "none" /\ CanRecover(Owner(q)) /\ Unreserved(Owner(q))
  /\ quotes' = [quotes EXCEPT ![q] = "open"]
  /\ UNCHANGED <<roster, settlements, operations, deposit, call, signed, seen, node>>

\* Slip: a second quote is approved beside the first.
MayRefundAgain(q) == quotes[q] = "open" /\ CanRecover(Owner(q))

MayRefund(q) == quotes[q] = "open" /\ CanRecover(Owner(q)) /\ Unreserved(Owner(q))

\* ConfirmGamingRecovery(): a quote approved before gives the transaction that
\* was journaled.  What the node did not take the worker sends again.
Confirm(q) ==
  /\ \/ quotes[q] = "approved" /\ UNCHANGED book
     \/ /\ MayRefund(q)
        /\ operations' = [operations EXCEPT ![Owner(q)][q] = "publishing"]
        /\ quotes' = [quotes EXCEPT ![q] = "approved"]
        /\ deposit' = [deposit EXCEPT ![Owner(q)].state = "recovery_pending"]
        /\ UNCHANGED settlements
  /\ Broadcast(q) \/ UNCHANGED chain
  /\ UNCHANGED <<roster, call, signed, seen, staked, mature>>

-----------------------------------------------------------------------------
(* reconcileGamingFinance                                                  *)

\* ObserveOperation(): the deposit a transaction of ours spends.
DepositAfter(d, t, where) ==
  IF where = "confirmed" THEN [state |-> "spent", spendingTx |-> t]
  ELSE IF d = [state |-> "spent", spendingTx |-> t]
  THEN [state |-> "needs_attention", spendingTx |-> None]
  ELSE IF where = "mempool" /\ d.state # "needs_attention"
  THEN [state |-> "spend_pending", spendingTx |-> t]
  ELSE IF d.spendingTx = t
  THEN [state |-> "needs_attention", spendingTx |-> None]
  ELSE d

PayoutState(state) == IF state = "mempool" THEN "publishing" ELSE state

\* Slip: only what the mempool once held is sent again.
SentAgainOnceSeen(b, t) == chain[t] = "unknown" /\ operations[b][t] = "mempool"

SentAgain(b, t) == chain[t] = "unknown" /\ (t \in Payouts => ~Closed(b))

\* reconcileGamingFinance() at one operation: its state follows the node, and
\* what the node does not know is sent again, a payout only while the table is
\* open.
ReconcileOperation(b, t, reached) ==
  /\ operations[b][t] \notin {"none", "awaiting_signatures"}
  /\ LET state == IF chain[t] = "unknown" THEN "publishing" ELSE chain[t]
     IN  /\ operations' = [operations EXCEPT ![b][t] = state]
         /\ IF t \in Payouts
            THEN Set(b, t, PayoutState(state), settlements[b][t].signatures)
            ELSE UNCHANGED settlements
  /\ deposit' = [deposit EXCEPT ![b] = DepositAfter(@, t, chain[t])]
  /\ IF SentAgain(b, t) /\ reached THEN Broadcast(t) ELSE UNCHANGED chain
  /\ UNCHANGED <<roster, quotes, call, signed, seen, staked, mature>>

\* ObserveDeposit(), with what reconcileGamingDeposits() found.
Observed(b) ==
  IF Spends(b, "confirmed") # {}
  THEN [state |-> "spent", spendingTx |-> CHOOSE t \in Spends(b, "confirmed") : TRUE]
  ELSE IF Spends(b, "mempool") # {}
  THEN [state |-> "spend_pending", spendingTx |-> CHOOSE t \in Spends(b, "mempool") : TRUE]
  ELSE [state |-> "confirmed", spendingTx |-> None]

\* Slip: once a spend was seen nothing looks again.
ReconcileDepositOnce(b) ==
  /\ b \in staked /\ deposit[b].spendingTx = None
  /\ deposit' = [deposit EXCEPT ![b] = Observed(b)]
  /\ UNCHANGED <<roster, settlements, operations, quotes, call, signed, seen, node>>

ReconcileDeposit(b) ==
  /\ b \in staked
  /\ deposit' = [deposit EXCEPT ![b] = Observed(b)]
  /\ UNCHANGED <<roster, settlements, operations, quotes, call, signed, seen, node>>

-----------------------------------------------------------------------------
\* The bridge restarts: the call is gone, and the messages it keeps are applied
\* again, those of the roster (Restart) and the signatures.
PayoutRestart(b) ==
  /\ Restart(b)
  /\ call' = [call EXCEPT ![b] = None]
  /\ seen' = [seen EXCEPT ![b] = {}]
  /\ UNCHANGED <<book, signed, node>>

PayoutStep ==
  \/ \E b \in Bridges, p \in Payouts :
       \/ Propose(b, p) \/ Expire(b, p) \/ Reject(b, p) \/ Approve(b, p)
       \/ AddOwn(b, p) \/ Resend(b, p)
       \/ \E c \in Bridges : ReceiveSignatures(b, c, p)
  \/ \E q \in Quotes : Quote(q) \/ Confirm(q)
  \/ \E b \in Bridges : Stake(b) \/ ReconcileDeposit(b)
  \/ \E b \in Bridges, t \in Tx, reached \in BOOLEAN : ReconcileOperation(b, t, reached)
  \/ \E t \in Tx : Mine(t) \/ \E where \in {"mempool", "unknown"} : Unmine(t, where)
  \/ LockRunsOut

PayoutNext ==
  \/ Next /\ UNCHANGED payout
  \/ \E b \in Bridges : PayoutRestart(b)
  \/ PayoutStep

PayoutSpec == PayoutInit /\ [][PayoutNext]_vars

\* The financial worker's passes and replays, a call that has begun, the miners.
PayoutFairness ==
  /\ \A b \in Bridges :
       /\ WF_vars(ReconcileDeposit(b))
       /\ \A t \in Tx : WF_vars(ReconcileOperation(b, t, TRUE))
       /\ \A p \in Payouts :
            /\ WF_vars(AddOwn(b, p))
            /\ \A c \in Bridges : WF_vars(ReceiveSignatures(b, c, p))
  /\ \A t \in Tx : WF_vars(Mine(t))

-----------------------------------------------------------------------------
\* A payout that is on the chain, or that any bridge could put there, is one
\* every seat's operator approved and none rejected: nobody's stake is moved
\* without them (ApproveSettlement, RejectSettlement, AddSettlementSignatures).
PaidTogether ==
  \A p \in Payouts :
    chain[p] # "unknown" \/ (\E a \in Bridges : Assembled(a, p)) =>
      \A b \in Bridges :
        /\ operations[b][p] # "none" /\ b \in settlements[b][p].signatures
        /\ settlements[b][p].state # "rejected"

\* An operator's stake is signed away once: never to two payouts, and never to
\* two refunds, however often quotes and proposals are renewed
\* (ApproveSettlement, ApproveRecovery: the reserved inputs).
SignedOnce ==
  \A b \in Bridges :
    /\ \A p, r \in Payouts : operations[b][p] # "none" /\ operations[b][r] # "none" => p = r
    /\ \A q, r \in Quotes :
         operations[b][q] # "none" /\ operations[b][r] # "none" => q = r

\* What an assembled payout has come to, no signature delivered again, no
\* proposal and no expiry takes back; only the chain does
\* (AddSettlementSignatures: repeated wire deliveries).
AssembledStands ==
  [][\A b \in Bridges, p \in Payouts :
       Assembled(b, p) =>
         /\ Assembled(b, p)' /\ settlements'[b][p].state \in Settled
         /\ operations[b][p] # operations'[b][p] => operations'[b][p] = IF chain[p] = "unknown" THEN "publishing" ELSE chain[p]]_vars

\* What the ledger says of a stake follows the chain, for the payouts others
\* published as for our own transactions: it comes to read spent by what spent
\* it, and reads spent by nothing else (ObserveDeposit, ObserveOperation).
SpendIsSeen ==
  \A b \in Bridges, t \in Tx :
    <>[](b \in Inputs(t) /\ chain[t] = "confirmed")
      => <>[](deposit[b] = [state |-> "spent", spendingTx |-> t])

\* A payout every seat has signed and sent is paid, unless an operator closes
\* the table, even to a bridge whose own copy lost a signature.
SignedIsPaid ==
  \A p \in Payouts :
    (\A b \in Bridges : <<b, p>> \in signed)
      ~> \/ chain[p] = "confirmed" \/ \E b \in Bridges : Closed(b)

\* "Peers' signatures that arrived before this proposal can apply now": what a
\* bridge took from a peer counts while the payout is asking.
EarlySignaturesCount ==
  \A b, c \in Bridges, p \in Payouts :
    <<c, p>> \in seen[b]
      /\ settlements[b][p].state \in {"awaiting_approval", "awaiting_signatures"}
    => c \in settlements[b][p].signatures

\* "A reorg takes the confirmation back.  That needs a person, and it stays that
\* way while the payout sits in the mempool again."
ReorgNeedsAPerson ==
  [][\A b \in Bridges :
       deposit[b].state = "needs_attention" /\ Spends(b, "mempool") # {}
         => deposit'[b].state = "needs_attention" \/ Spends(b, "mempool")' = {}]_vars
=============================================================================
