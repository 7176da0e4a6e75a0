------------------------------ MODULE Approvals ------------------------------
(***************************************************************************)
(* The bridge's side of a payment: the approval log (gaming_spend.go), the *)
(* authority ledger (funds/store.go) and the financial worker              *)
(* (gaming_financial_worker.go), between a game that asks, a person who    *)
(* answers, and a chain on which other users of the wallet spend too.      *)
(*                                                                         *)
(* Two files, two locks: spendMu is held for one access to the log, the    *)
(* ledger's mutex for one access to the ledger, and neither across the     *)
(* other except in requestGamingSpend.  So each action is one access, and  *)
(* an approval or a worker pass is a sequence of them.  Both files are     *)
(* read again at each access: a crash loses only where the sequences were. *)
(*                                                                         *)
(* Every deposit here belongs to one game and one table.  A request id     *)
(* pins one unsigned transaction and Decred's transaction ids do not cover *)
(* signatures: the id of a request stands for its transaction as well.     *)
(* Each transaction spends one coin of the wallet.                         *)
(***************************************************************************)
EXTENDS Integers, FiniteSetsExt

CONSTANTS Deposits,    \* the obligations of one table, at one bridge
          Ids,         \* request ids the bridge may issue
          Coins,       \* outputs of the game's wallet account
          None,        \* no id, deposit or coin
          Atoms,       \* amount of each deposit
          DayCap,      \* GamePolicy.PerDayCapAtoms; 0 is no cap
          TableCap,    \* GamePolicy.PerTableCapAtoms; 0 is no cap
          MaxPending,  \* maxPendingSpendsPerGame
          MaxLog,      \* maxSpendLog
          MaxFaults,   \* bound on failures
          MaxChanges   \* bound on settings changes that retire requests

ASSUME IdsAssumption == IsFiniteSet(Ids) /\ None \notin Ids \cup Deposits \cup Coins
ASSUME AtomsAssumption == Atoms \in [Deposits -> Nat \ {0}]
ASSUME CapsAssumption ==
  /\ DayCap \in Nat /\ TableCap \in Nat /\ MaxPending \in Nat /\ MaxLog \in Nat
  /\ MaxFaults \in Nat /\ MaxChanges \in Nat

VARIABLES
  faults,    \* failures so far
  changes,   \* settings changes so far
  on,        \* the operator's settings let this game spend
  closed,    \* the operator closed the table (CloseTable)
  retiring,  \* a settings change has still to answer the requests that wait
  asked,     \* calls for a deposit: what was read before the lock
  log,       \* the approval log, by id; durable
  of,        \* the deposit an id was issued for
  coin,      \* the coin its transaction spends
  preview,   \* ids whose unsigned transaction the ledger holds; durable
  lapsed,    \* ids whose approval window is over
  op,        \* the ledger's funding operation of each id; durable
  fund,      \* Deposit.FundingTx; durable
  coins,     \* what the chain says of a coin
  chain,     \* what the node says of a transaction
  phase,     \* ApproveGamingSpend, for each id it runs for
  work       \* the worker: the operation it is at, and what comes next

ledger == <<of, coin, preview, op, fund, closed>>
settings == <<changes, on, retiring>>
nature == <<lapsed, coins, chain>>
vars == <<faults, changes, on, retiring, closed, asked, log, of, coin, preview, lapsed, op, fund, coins, chain, phase, work>>

SpendStates == {"none", "pending", "publishing", "approved", "denied", "expired", "failed"}
Entry == [state : SpendStates, tx : Ids \cup {None}, old : BOOLEAN]
NoEntry == [state |-> "none", tx |-> None, old |-> FALSE]

OpStates == {"none", "publishing", "mempool", "confirmed", "abandoned"}
Phases == {"none", "approving", "signed", "marked", "committed", "sent", "unsure"}
Idle == [at |-> "idle", id |-> None]
NoCall == [coin |-> None, may |-> FALSE]
Calls == [coin : Coins, may : BOOLEAN] \cup {NoCall}
Jobs == [at : {"history", "broadcast", "fail"}, id : Ids] \cup {Idle}

TypeOK ==
  /\ faults \in Nat /\ changes \in Nat /\ on \in BOOLEAN /\ retiring \in BOOLEAN /\ closed \in BOOLEAN
  /\ asked \in [Deposits -> Calls]
  /\ log \in [Ids -> Entry]
  /\ of \in [Ids -> Deposits \cup {None}]
  /\ coin \in [Ids -> Coins \cup {None}]
  /\ preview \subseteq Ids /\ lapsed \subseteq Ids
  /\ op \in [Ids -> OpStates]
  /\ fund \in [Deposits -> Ids \cup {None}]
  /\ coins \in [Coins -> {"free", "taken", "gone"}]
  /\ chain \in [Ids -> {"none", "mempool", "mined"}]
  /\ phase \in [Ids -> Phases]
  /\ work \in Jobs

Init ==
  /\ faults = 0 /\ changes = 0 /\ on = TRUE /\ retiring = FALSE /\ closed = FALSE
  /\ asked = [d \in Deposits |-> NoCall]
  /\ log = [i \in Ids |-> NoEntry]
  /\ of = [i \in Ids |-> None]
  /\ coin = [i \in Ids |-> None]
  /\ preview = {} /\ lapsed = {}
  /\ op = [i \in Ids |-> "none"]
  /\ fund = [d \in Deposits |-> None]
  /\ coins = [c \in Coins |-> "free"]
  /\ chain = [i \in Ids |-> "none"]
  /\ phase = [i \in Ids |-> "none"]
  /\ work = Idle

-----------------------------------------------------------------------------
(* The log: a value, re-read from disk by every access                     *)

Fail == faults < MaxFaults /\ faults' = faults + 1

Known(l) == {i \in Ids : l[i].state # "none"}

\* Slip: what is being broadcast is out of the way.
WaitingOnly(e) == e.state = "pending"

spendOutstanding(e) == e.state \in {"pending", "publishing"}

\* old: decided more than a day ago.
spendCountsOrPends(e) == spendOutstanding(e) \/ (e.state = "approved" /\ ~e.old)

\* writeSpendLog(): a log that is too long loses decided entries the day cap
\* does not count.  The code drops the oldest; here any of them.
Droppable(l) == {i \in Known(l) : ~spendCountsOrPends(l[i])}
Excess(l) == Max({Cardinality(Known(l)) - MaxLog, 0})
writeSpendLog(l) ==
  \E D \in SUBSET Droppable(l) :
    /\ Cardinality(D) = Min({Excess(l), Cardinality(Droppable(l))})
    /\ log' = [i \in Ids |-> IF i \in D THEN NoEntry ELSE l[i]]

\* atomicWriteJSON(): an error may come before or after the rename.
Save(l) ==
  \/ writeSpendLog(l) /\ UNCHANGED faults
  \/ Fail /\ (writeSpendLog(l) \/ UNCHANGED log)

Saved == faults' = faults

Become(e, state) == [e EXCEPT !.state = state, !.old = FALSE]

\* Slip: the window ends a broadcast too.
ExpireOutstanding(l) ==
  [i \in Ids |-> IF spendOutstanding(l[i]) /\ i \in lapsed THEN Become(l[i], "expired") ELSE l[i]]

expireLocked(l) ==
  [i \in Ids |-> IF l[i].state = "pending" /\ i \in lapsed THEN Become(l[i], "expired") ELSE l[i]]

\* What the ledger alone says of a request.
spendFromFundingApproval(i) ==
  LET funded == of[i] # None /\ fund[of[i]] # None
      seen   == funded /\ op[fund[of[i]]] \in {"mempool", "confirmed"}
  IN  [ state |-> IF seen THEN "approved" ELSE IF funded THEN "publishing"
                  ELSE IF i \in lapsed THEN "expired" ELSE "pending",
        tx    |-> IF funded THEN fund[of[i]] ELSE None,
        old   |-> FALSE ]

\* recoverFundingApprovalsLocked(): the ledger's requests the log does not have.
recover(l) ==
  [i \in Ids |-> IF l[i].state = "none" /\ i \in preview THEN spendFromFundingApproval(i) ELSE l[i]]

\* The log as the game's calls see it.
Current == expireLocked(recover(log))

Spent(l, S) == MapThenSumSet(LAMBDA i : Atoms[of[i]], S)
spentInDay(l, except) == Spent(l, {i \in Known(l) \ except : spendCountsOrPends(l[i])})
tableCommitted(l, except) ==
  Spent(l, {i \in Known(l) \ except : spendOutstanding(l[i]) \/ l[i].state = "approved"})

\* checkSpendAgainstDay, checkSpendAgainstTable.
Fits(d, cap, used) == cap = 0 \/ Atoms[d] <= cap - used

WithinCaps(l, d, except) ==
  /\ Fits(d, DayCap, spentInDay(l, except))
  /\ Fits(d, TableCap, tableCommitted(l, except))

-----------------------------------------------------------------------------
(* The ledger's rules                                                      *)

LiveOp(i) == op[i] \in {"publishing", "mempool", "confirmed"}    \* holdsInputs

\* No live operation spends this coin.
InputFree(i, c) == \A j \in Ids \ {i} : LiveOp(j) => coin[j] # c

\* A deposit that can be funded: reservePreview, CommitFunding, verifyGamingDeposit.
Fundable(d) == ~closed /\ fund[d] = None

\* The deposit was verified to be unfunded, and a failed request answers only for
\* one that is funded.
fundingSpendStands(l, i, d) == of[i] = d /\ l[i].state \notin {"none", "failed"}

-----------------------------------------------------------------------------
(* Calls of the game: RequestGamingDepositSpend, GamingSpendFor            *)

\* checkSpendRequest: one request, against the settings alone.
checkSpendRequest(d) == on /\ (TableCap = 0 \/ Atoms[d] <= TableCap)

\* Before the lock: the deposit is verified, the wallet builds a transaction, and
\* the settings are read.
Ask(d, c) ==
  /\ asked[d] = NoCall
  /\ Fundable(d) /\ coins[c] = "free"
  /\ asked' = [asked EXCEPT ![d] = [coin |-> c, may |-> checkSpendRequest(d)]]
  /\ UNCHANGED <<faults, settings, log, ledger, nature, phase, work>>

Answered(d) == asked[d] # NoCall /\ asked' = [asked EXCEPT ![d] = NoCall]

\* Looking at the log repairs it.
Repair == IF Current = log THEN UNCHANGED log ELSE writeSpendLog(Current)

\* A request that stands answers for the deposit: never a second charge.
RequestAgain(d, i) ==
  /\ Answered(d)
  /\ fundingSpendStands(Current, i, d)
  /\ Repair
  /\ UNCHANGED <<faults, settings, ledger, nature, phase, work>>

\* reservePreview: the deposit is still unfunded, no other approval is shown for
\* it (if one is, its request is the answer), and the coin is not spoken for.
Reserves(d, i, c) ==
  /\ Fundable(d)
  /\ \A j \in preview \ lapsed : of[j] # d /\ coin[j] # c
  /\ InputFree(i, c)

\* The ledger takes the preview first, then the log is written; without the
\* second the game gets no answer.
RequestNew(d, i) ==
  /\ Answered(d)
  /\ of[i] = None /\ asked[d].may
  /\ \A j \in Ids : ~fundingSpendStands(Current, j, d)
  /\ Cardinality({j \in Ids : spendOutstanding(Current[j])}) < MaxPending
  /\ WithinCaps(Current, d, {})
  /\ Reserves(d, i, asked[d].coin)
  /\ of' = [of EXCEPT ![i] = d]
  /\ coin' = [coin EXCEPT ![i] = asked[d].coin]
  /\ preview' = preview \cup {i}
  /\ Save([Current EXCEPT ![i] = Become(NoEntry, "pending")])
  /\ UNCHANGED <<settings, closed, op, fund, nature, phase, work>>

\* Over a cap, or refused by the ledger, or the caller went away.
Refuse(d) ==
  /\ Answered(d)
  /\ UNCHANGED <<faults, settings, log, ledger, nature, phase, work>>

\* GamingSpendFor, GamingSpendLedger.
Look ==
  /\ Current # log
  /\ Repair
  /\ UNCHANGED <<faults, settings, asked, ledger, nature, phase, work>>

-----------------------------------------------------------------------------
(* A person: DenyGamingSpend, ApproveGamingSpend, the settings             *)

Waiting(i) == expireLocked(log)[i].state = "pending" /\ phase[i] = "none"

DenyGamingSpend(i) ==
  /\ Waiting(i)
  /\ Save([expireLocked(log) EXCEPT ![i] = Become(@, "denied")])
  /\ UNCHANGED <<settings, asked, ledger, nature, phase, work>>

\* Policy is checked again, the request left out of its own totals.
Approve(i) ==
  /\ Waiting(i)
  /\ checkSpendRequest(of[i]) /\ WithinCaps(expireLocked(log), of[i], {i})
  /\ phase' = [phase EXCEPT ![i] = "approving"]
  /\ UNCHANGED <<faults, settings, asked, log, ledger, nature, work>>

\* Outside the lock: verifyGamingDeposit, the preview, the passphrase.
Sign(i) ==
  /\ phase[i] = "approving"
  /\ phase' = [phase EXCEPT ![i] = IF Fundable(of[i]) /\ i \in preview THEN "signed" ELSE "none"]
  /\ UNCHANGED <<faults, settings, asked, log, ledger, nature, work>>

\* A mistyped passphrase costs a retype.
Mistype(i) ==
  /\ phase[i] = "approving"
  /\ phase' = [phase EXCEPT ![i] = "none"]
  /\ UNCHANGED <<faults, settings, asked, log, ledger, nature, work>>

\* The last look at the clock and at the log before any money moves.
markSpendPublishing(i) ==
  /\ phase[i] = "signed"
  /\ LET l == expireLocked(log)
     IN  IF l[i].state = "pending"
         THEN /\ Save([l EXCEPT ![i] = Become(@, "publishing")])
              /\ phase' = [phase EXCEPT ![i] = IF Saved THEN "marked" ELSE "none"]
         ELSE /\ IF l = log \/ l[i].state = "none" THEN UNCHANGED <<log, faults>> ELSE Save(l)
              /\ phase' = [phase EXCEPT ![i] = "none"]
  /\ UNCHANGED <<settings, asked, ledger, nature, work>>

\* CommitFunding: the signed bytes and the expected output are on disk before
\* they are published.  When it refuses, the approval ends here.  (Its answer to
\* a retry of the same bytes is never used: what is marked is not yet on record.)
Commits(i) == Fundable(of[i]) /\ i \in preview \ lapsed /\ InputFree(i, coin[i])

CommitFunding(i) ==
  /\ phase[i] = "marked"
  /\ \/ /\ Commits(i)
        /\ op' = [op EXCEPT ![i] = "publishing"]
        /\ fund' = [fund EXCEPT ![of[i]] = i]
        /\ UNCHANGED faults \/ Fail
     \/ /\ IF Commits(i) THEN Fail ELSE UNCHANGED faults
        /\ UNCHANGED <<op, fund>>
  /\ phase' = [phase EXCEPT ![i] = IF Commits(i) /\ Saved THEN "committed" ELSE "none"]
  /\ UNCHANGED <<settings, asked, closed, log, of, coin, preview, nature, work>>

\* The node takes a transaction whose coin is unspent.
Broadcast(i) ==
  chain' = [chain EXCEPT ![i] = IF @ = "none" /\ coins[coin[i]] = "free" THEN "mempool" ELSE @]

\* An error says nothing about what the network did.
Publish(i) ==
  /\ phase[i] = "committed"
  /\ \/ /\ Broadcast(i)
        /\ phase' = [phase EXCEPT ![i] = IF chain'[i] = "none" THEN "unsure" ELSE "sent"]
        /\ UNCHANGED faults
     \/ /\ Fail
        /\ Broadcast(i) \/ UNCHANGED chain
        /\ phase' = [phase EXCEPT ![i] = "unsure"]
  /\ UNCHANGED <<settings, asked, log, ledger, lapsed, coins, work>>

Outcome(i) == [Become(log[i], IF phase[i] = "sent" THEN "approved" ELSE "publishing") EXCEPT !.tx = i]

\* Slip: the outcome goes over whatever the log says.
RecordOver(i) ==
  /\ phase[i] \in {"sent", "unsure"}
  /\ Save([log EXCEPT ![i] = Outcome(i)])
  /\ phase' = [phase EXCEPT ![i] = "none"]
  /\ UNCHANGED <<settings, asked, ledger, nature, work>>

\* Slip: an error of the broadcast is taken for its failure.
RecordFailure(i) ==
  /\ phase[i] \in {"sent", "unsure"}
  /\ IF log[i].state = "publishing"
     THEN Save([log EXCEPT ![i] = IF phase[i] = "sent" THEN Outcome(i) ELSE Become(@, "failed")])
     ELSE UNCHANGED <<log, faults>>
  /\ phase' = [phase EXCEPT ![i] = "none"]
  /\ UNCHANGED <<settings, asked, ledger, nature, work>>

\* recordSpendOutcome: only what the log holds as being paid takes an outcome.
Record(i) ==
  /\ phase[i] \in {"sent", "unsure"}
  /\ IF log[i].state = "publishing"
     THEN Save([log EXCEPT ![i] = Outcome(i)])
     ELSE UNCHANGED <<log, faults>>
  /\ phase' = [phase EXCEPT ![i] = "none"]
  /\ UNCHANGED <<settings, asked, ledger, nature, work>>

Change == changes < MaxChanges /\ changes' = changes + 1

\* WriteGamingSettings: gaming switched off, or the game removed.
SwitchOff ==
  /\ Change
  /\ on /\ ~retiring
  /\ on' = FALSE /\ retiring' = TRUE
  /\ UNCHANGED <<faults, asked, log, ledger, nature, phase, work>>

SwitchOn ==
  /\ ~on /\ ~retiring
  /\ on' = TRUE
  /\ UNCHANGED <<faults, changes, retiring, asked, log, ledger, nature, phase, work>>

\* RevokeGamingCredential: the game is cut off, its policy stays.
RevokeGamingCredential ==
  /\ Change
  /\ ~retiring
  /\ retiring' = TRUE
  /\ UNCHANGED <<faults, on, asked, log, ledger, nature, phase, work>>

\* The requests that wait are retired, one whose approval is running included.
invalidatePendingSpends ==
  /\ retiring
  /\ retiring' = FALSE
  /\ LET l == expireLocked(log)
         m == [i \in Ids |-> IF l[i].state = "pending" THEN Become(l[i], "expired") ELSE l[i]]
     IN  IF m = log THEN UNCHANGED <<log, faults>> ELSE Save(m)
  /\ UNCHANGED <<changes, on, asked, ledger, nature, phase, work>>

CloseTable ==
  /\ ~closed
  /\ closed' = TRUE
  /\ UNCHANGED <<faults, settings, asked, log, of, coin, preview, op, fund, nature, phase, work>>

-----------------------------------------------------------------------------
(* The financial worker: reconcileGamingFinance                            *)

ObservedState(i) ==
  IF chain[i] = "mined" THEN "confirmed" ELSE IF chain[i] = "mempool" THEN "mempool" ELSE "publishing"

\* Slip: what the node does not know is left to it.
OntoKnown(i, saved) == IF chain[i] # "none" THEN [at |-> "history", id |-> i] ELSE Idle

\* What the node knows is approved in the log; an operation it does not know is
\* broadcast again, if that was recorded and the table is still open.
Onto(i, saved) ==
  IF chain[i] # "none" THEN [at |-> "history", id |-> i]
  ELSE IF closed \/ ~saved THEN Idle ELSE [at |-> "broadcast", id |-> i]

\* observeGamingOperation, ObserveOperation.
Observe(i) ==
  /\ work = Idle /\ LiveOp(i)
  /\ \/ op' = [op EXCEPT ![i] = ObservedState(i)] /\ (UNCHANGED faults \/ Fail)
     \/ Fail /\ UNCHANGED op
  /\ work' = Onto(i, Saved)
  /\ UNCHANGED <<settings, asked, closed, log, of, coin, preview, fund, nature, phase>>

\* reconcileGamingFundingHistory: what the node knows was approved.
History(i) ==
  /\ work = [at |-> "history", id |-> i]
  /\ LET paid == {j \in Ids : of[j] # None /\ fund[of[j]] = i /\ spendOutstanding(log[j])}
     IN  IF paid = {} THEN UNCHANGED <<log, faults>>
         ELSE Save([j \in Ids |-> IF j \in paid THEN [Become(log[j], "approved") EXCEPT !.tx = i]
                                  ELSE log[j]])
  /\ work' = Idle
  /\ UNCHANGED <<settings, asked, ledger, nature, phase>>

\* Broadcast again, or no answer from the node.
Rebroadcast(i) ==
  /\ work = [at |-> "broadcast", id |-> i]
  /\ coins[coin[i]] = "free" \/ chain[i] # "none"
  /\ \/ Broadcast(i) /\ UNCHANGED faults
     \/ Fail /\ UNCHANGED chain
  /\ work' = Idle
  /\ UNCHANGED <<settings, asked, log, ledger, lapsed, coins, phase>>

\* Slip: one confirmation of another spend is taken for the end.
DeadAtOnce(i) == coins[coin[i]] \in {"taken", "gone"}

\* fundingSpentElsewhere: another transaction spent the coin, gamingAbandonDepth deep.
Dead(i) == coins[coin[i]] = "gone"

\* AbandonFunding: its deposit is free, the previews shown for it are gone.
AbandonFunding(i) ==
  /\ op' = [op EXCEPT ![i] = "abandoned"]
  /\ fund' = [d \in Deposits |-> IF fund[d] = i THEN None ELSE fund[d]]
  /\ preview' = {j \in preview : of[j] = None \/ fund[of[j]] # i}

\* The node rejects it.  One that can never confirm is abandoned; any other, and
\* one the chain could not be asked about or the ledger not written, waits.
Rejected(i) ==
  /\ work = [at |-> "broadcast", id |-> i]
  /\ coins[coin[i]] # "free" /\ chain[i] = "none"
  /\ \/ /\ Dead(i)
        /\ AbandonFunding(i)
        /\ UNCHANGED faults \/ Fail
     \/ /\ IF Dead(i) THEN Fail ELSE UNCHANGED faults
        /\ UNCHANGED <<op, fund, preview>>
  /\ work' = IF Dead(i) /\ Saved THEN [at |-> "fail", id |-> i] ELSE Idle
  /\ UNCHANGED <<settings, asked, closed, log, of, coin, nature, phase>>

\* failAbandonedFundingSpend: the request it answered is closed.
FailSpend(i) ==
  /\ work = [at |-> "fail", id |-> i]
  /\ LET ended == {j \in Ids : /\ of[j] = of[i]
                               /\ \/ spendOutstanding(log[j])
                                  \/ log[j].state = "approved" /\ log[j].tx = i}
     IN  IF ended = {} THEN UNCHANGED <<log, faults>>
         ELSE Save([j \in Ids |-> IF j \in ended THEN Become(log[j], "failed") ELSE log[j]])
  /\ work' = Idle
  /\ UNCHANGED <<settings, asked, ledger, nature, phase>>

-----------------------------------------------------------------------------
(* Crash, clock and chain                                                  *)

Crash ==
  /\ Fail
  /\ phase' = [i \in Ids |-> "none"]
  /\ asked' = [d \in Deposits |-> NoCall]
  /\ retiring' = FALSE
  /\ work' = Idle
  /\ UNCHANGED <<changes, on, log, ledger, nature>>

\* The approval window of a request ends.
Lapse(i) ==
  /\ of[i] # None /\ i \notin lapsed
  /\ lapsed' = lapsed \cup {i}
  /\ UNCHANGED <<faults, settings, asked, log, ledger, coins, chain, phase, work>>

\* A day passes since it was approved.
Age(i) ==
  /\ log[i].state = "approved" /\ ~log[i].old
  /\ log' = [log EXCEPT ![i].old = TRUE]
  /\ UNCHANGED <<faults, settings, asked, ledger, nature, phase, work>>

Mine(i) ==
  /\ chain[i] = "mempool"
  /\ chain' = [chain EXCEPT ![i] = "mined"]
  /\ UNCHANGED <<faults, settings, asked, log, ledger, lapsed, coins, phase, work>>

\* A node may drop what it has not mined.
Evict(i) ==
  /\ chain[i] = "mempool" /\ Fail
  /\ chain' = [chain EXCEPT ![i] = "none"]
  /\ UNCHANGED <<settings, asked, log, ledger, lapsed, coins, phase, work>>

\* Somebody with the same wallet spends the coin, and blocks follow; a reorg may
\* undo it until it is gamingAbandonDepth deep.
TakeCoin(c) ==
  /\ coins[c] = "free" /\ Fail
  /\ \A i \in Ids : coin[i] = c => chain[i] # "mined"
  /\ coins' = [coins EXCEPT ![c] = "taken"]
  /\ chain' = [i \in Ids |-> IF coin[i] = c THEN "none" ELSE chain[i]]
  /\ UNCHANGED <<settings, asked, log, ledger, lapsed, phase, work>>

Settle(c) ==
  /\ coins[c] = "taken"
  /\ \E s \in {"free", "gone"} : coins' = [coins EXCEPT ![c] = s]
  /\ UNCHANGED <<faults, settings, asked, log, ledger, lapsed, chain, phase, work>>

\* Any game, at any time.
Game ==
  \/ \E d \in Deposits :
       \/ Refuse(d)
       \/ \E c \in Coins : Ask(d, c)
       \/ \E i \in Ids : RequestAgain(d, i) \/ RequestNew(d, i)
  \/ Look

Bridge ==
  \/ \E i \in Ids :
       \/ DenyGamingSpend(i) \/ Approve(i) \/ Sign(i) \/ Mistype(i) \/ markSpendPublishing(i)
       \/ CommitFunding(i) \/ Publish(i) \/ Record(i)
       \/ Observe(i) \/ History(i) \/ Rebroadcast(i) \/ Rejected(i) \/ FailSpend(i)
       \/ Lapse(i) \/ Age(i) \/ Mine(i) \/ Evict(i)
  \/ \E c \in Coins : TakeCoin(c) \/ Settle(c)
  \/ SwitchOff \/ SwitchOn \/ RevokeGamingCredential \/ invalidatePendingSpends
  \/ CloseTable \/ Crash

Next == Game \/ Bridge

Spec == Init /\ [][Next]_vars

Fairness ==
  \A i \in Ids :
    /\ WF_vars(Sign(i)) /\ WF_vars(markSpendPublishing(i)) /\ WF_vars(CommitFunding(i))
    /\ WF_vars(Publish(i)) /\ WF_vars(Record(i))
    /\ SF_vars(Observe(i)) /\ WF_vars(History(i)) /\ WF_vars(FailSpend(i))
    /\ WF_vars(Rebroadcast(i) \/ Rejected(i))
    /\ \A c \in Coins : WF_vars(Settle(c))

FairSpec == Spec /\ Fairness

-----------------------------------------------------------------------------
(* What must hold                                                          *)

\* The node has it, or its signed bytes are on record and may still confirm.
Payable(i) == chain[i] # "none" \/ (op[i] # "none" /\ coins[coin[i]] # "gone")

\* One funding obligation, never a second charge: at any time one transaction at
\* most can still pay a deposit (CommitFunding, AbandonFunding).
NeverTwice ==
  \A i, j \in Ids : Payable(i) /\ Payable(j) /\ of[i] = of[j] => i = j

\* No coin is committed to two operations (reservePreview, CommitFunding).
InputsOnce ==
  \A i, j \in Ids : LiveOp(i) /\ LiveOp(j) /\ coin[i] = coin[j] => i = j

\* What the log calls denied or expired is not paid, now or ever: no transaction
\* is on record and no approval is past the point where it is written.  This is
\* of a log that is not full.
RefusedIsUnpaid ==
  \A i \in Ids : log[i].state \in {"denied", "expired"} =>
    op[i] = "none" /\ phase[i] \notin {"marked", "committed", "sent", "unsure"}

\* A payment that may still confirm is shown as approved or on its way, never as
\* waiting for a person or ended.  This is of a log that is not full.
PayableIsShown ==
  \A i \in Ids : LiveOp(i) => Current[i].state \in {"publishing", "approved"}

\* All a game has pending, publishing or approved within the day stays under the
\* day cap, and all it committed to a table under the table cap, whatever was
\* lost between ledger and log.
CapsHold ==
  /\ DayCap > 0 => spentInDay(Current, {}) <= DayCap
  /\ TableCap > 0 => tableCommitted(Current, {}) <= TableCap

\* The ledger and the chain, seen as OneCharge.
Charges == INSTANCE OneCharge WITH
  Payments <- Ids, due <- fund,
  lost <- {i \in Ids : coin[i] # None /\ coins[coin[i]] = "gone"},
  paid <- {i \in Ids : chain[i] = "mined"}

\* The bridge keeps OneCharge's promise: a deposit is let go only by a payment whose
\* coin is gone, and what was mined stays its payment (AbandonFunding).
ChargesOnce == Charges!Spec

\* An approved request may only age, or fail with its funding; a denied or expired
\* one is not shown as anything else.
Stands(i) ==
  LET e == log[i]
      f == Current'[i]
  IN  e.state \in {"approved", "denied", "expired"} =>
        \/ f = e
        \/ e.state = "approved" /\ (f = [e EXCEPT !.old = TRUE] \/ f.state = "failed")

\* A decision stands, whatever paths interleave (recordSpendOutcome).  This is of a
\* log that is not full.
DecidedStands == [][\A i \in Ids : Stands(i)]_vars

\* The log, seen as Requests.
Told(state) == IF state = "publishing" THEN "pending" ELSE state

Asked == INSTANCE Requests WITH answer <- [i \in Ids |-> Told(Current[i].state)]

\* What the bridge tells a game is what Requests promises: one standing request
\* for a deposit, and answers that are final.  This is of a log that is not full.
AnswersStand == Asked!Spec

\* A payment the log has as being broadcast, and the ledger on record, gets its
\* outcome by itself, or the ledger gives it up (reconcileGamingFinance).
PublishingEnds ==
  \A i \in Ids :
    log[i].state = "publishing" /\ LiveOp(i) /\ ~closed
      ~> log[i].state \in {"approved", "failed"} \/ op[i] = "abandoned" \/ closed

-----------------------------------------------------------------------------
(* What the repository says of the code                                    *)

\* sweepPublishingLocked: "An entry still publishing long after its window, with no
\* approval running in this process, is a payment whose answer was lost: it fails".
InterruptedFails ==
  \A i \in Ids :
    log[i].state = "publishing" /\ phase[i] = "none" /\ i \in lapsed /\ ~LiveOp(i)
      ~> log[i].state = "failed"

\* abandonDeadFunding: "frees its deposit, so the game can ask for it again".
AbandonedCanBeAsked ==
  \A i \in Ids :
    op[i] = "abandoned" /\ work # [at |-> "fail", id |-> i] => ~fundingSpendStands(Current, i, of[i])

=============================================================================
