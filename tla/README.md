# dcrgaming-sdk: a TLA+ verification project

dcrgaming-sdk lets strangers sit down to a game for money with no referee. Each
player runs a *game* (a program built on `pkg/runtime`) and a *bridge* (a trusted
process that holds the wallet and the chat account, `pkg/gaming/bridge`). Games
speak to each other only through a group chat; money moves only through the
bridge, and only when a person approves. This directory models the parts of that
system whose correctness depends on the order of things: who is bound to which
table, what survives a crash, what is sent, and what is paid, once and only once.

Every definition that models code is listed with its source lines in
`PROJECT.json` (`map`); what can go wrong in the code, line by line, with the
properties that would notice, is listed there too (`hazards`). Definitions whose
comment begins with "Slip:" are mutated forms of a definition; they stand for a
mistake one could make in that code, and are used only to show that a property
notices it.

Contents: 1 inventory, 2 modules and how they follow the code, 3 runs, bounds and
fairness, 4 where the code and its documentation disagree, 5 proofs, 6 what is
only model-checked, 7 what is not modelled, 8 what is left.

## 1. Inventory

| Part | State | Operations | What is hard, and what must hold |
|---|---|---|---|
| Table formation, `pkg/membership/formation.go` | joins, assertions, commits, closed window, state, membership, proof of a contradiction, beacon | AddJoin, AddAssertion, AddCommit, Bind, CloseWindow, SetBeacon, Abandon | any order of messages; more answers than seats; a signer with two words. Two settled tables never share an honest member; nobody honest is accused |
| Seating runtime, `pkg/runtime/{seating,announce,tablestore,bondscope,admission}.go` | tables, table record on disk, latched storage fault, recovery-only mark | acceptInvite, joinWhenBonded, formAndJoin, frame handlers, advance, seatIfReady, giveRoster, Tick, lapseIfUnfunded, keep, resume | handlers interleave with the follower; a crash between a write and a send; replay after a restart. A commit is on disk before it is heard; a settled table stands |
| Spend book, `pkg/spend` | one record per payment attempt, in memory and on disk, latched fault | Reserve, Adopt, Note, Locate, Retry | a request whose answer is lost must not be made twice; never two attempts that may both be paid |
| Runtime funding, `pkg/runtime/{fund,bridgefunds,lifecycle}.go` | the calls, a lock per obligation, where each deposit landed | Fund, FundSeatBond, askFor, dispatchSpend, awaitAnswer, findOutput, landDeposit, ReconcileSpend, RetryFunding | crashes and cancelled waits, late answers, retries of what was already paid. What the bridge paid is found, kept, and never moved |
| Bridge approval log, `bridge/gaming_spend.go` | spends by id and state, approvals in progress | request, approve, deny, expire, publish, sweep | a person, a clock, two stores and a node; a crash between log and ledger; daily, table and pending limits |
| Bridge funds ledger, `bridge/funds`, `gaming_financial_worker.go` | deposits, previews, operations, reserved inputs | reservePreview, CommitFunding, AbandonFunding, ObserveOperation, CloseTable | a deposit is charged by one live transaction; a coin is used once; a double spend frees the deposit |
| Durable wire out, `bridge/gaming_wire_outbox.go` | claims in memory and in an append-only file | claim, reconcile, send, mark, release | no answer from the chat, a failed append, a crash, two calls. A frame goes out at most once |
| Framing, `pkg/gaming/wire`, the router, the publisher | partial messages, a byte count | Encode, Add, gcLocked | parts late, repeated, disagreeing, too many. Whole messages only; the limits hold |
| Durable wire in, `bridge/gaming_frame_journal.go`, `gaming_wire_inbox.go`, history recovery, pruning; `bridge/listener`, `pkg/gaming/transport` | journal, numbered inbox, recovery lock, stream queue, the client's cursor | receiveGroupMessage, deliverGamingMessage, RecoverHistory, SubscribeFrom, broadcast, streamOnce, both prunes | intake and recovery interleave; the switch from backlog to live; failed writes, restarts on both sides. Nothing acknowledged is lost; a number names one frame for good |
| Financial roster, `bridge/gaming_financial_{authority,wire}.go`, `funds/roster.go` | announced keys, bound seats, commitments, key proof | GamingFinancialKey, BindGamingRoster, RecordParticipant, BindSeats, CommitRoster | announcements before or after the seats are bound, refused sends, outsiders. All bridges hold one roster |
| Settlement and co-signing, `bridge/gaming_settlement.go`, `funds/settlement.go` | proposals, signatures, operations | propose, expire, reject, approve, add signatures, resend | signatures before the proposal, twice, or late; approvals that race. A payout has every seat's approval and a stake is signed once |
| Refund and recovery, `bridge/gaming_recovery.go`, `funds/{refund,reconcile,prune}.go` | quotes, refund operations, what the ledger says of a stake | quote, confirm, ObserveOperation, ObserveDeposit | another bridge's publication, evictions, reorganisations. The ledger comes to read what spent the stake |
| Payout arithmetic, `pkg/finance`, `runtime` Settle | none | BuildPayout, Terms.Canonical, sharesFor | every game lists the outcome in its own way; all bridges must build one transaction, and value is conserved |
| Game log and its key, `pkg/gamelog`, `pkg/forfeit` | a chain per seat, a book of what a key signed | Next, Sign, Append, AttestHead, Checkpoint, the proofs of equivocation | a seat told two things; a restart with and without the book. A straight key stays secret; a liar's is given up |
| Scripts, identities, encodings (`pkg/escrow`, `pkg/identity`, `pkg/gaming/schema`) | none | pure functions | byte layout and cryptography: outside what this project can say |

How they interact: an invitation in the chat is accepted by `acceptInvite`; an
admission worker has the bridge fund a seat bond and, when the output is found,
joins. Joins, roster assertions and commits travel by chat through the durable
wire. When a table is seated the runtime hands its roster to its bridge, whose
financial worker exchanges keys and commitments with the other bridges; from then
on the bridges fund stakes, co-sign payouts and refunds for that roster only.
While a match is on, the games keep a signed log among themselves; its outcome is
what the runtime proposes for settlement.

## 2. Modules

| Module | Models | Kind |
|---|---|---|
| `Formation` | `formation.go`: one operator per method of `*Formation`, from the value before to the value after | operators |
| `Seating` | the runtimes of all peers, the chat, the chain, each peer's disk and each bridge's roster | state machine over `Formation` |
| `OneRoster` | what forming a table promises: one word per key, a held table rests on everyone's word | abstract specification of `Seating` |
| `Approvals` | the bridge's side of a payment: approval log, funding ledger and financial worker of one game and one table, with the person, the wallet's coins and the chain | state machine |
| `OneCharge` | what that promises of a deposit: one payment charges it at a time, and it is let go only when the payment can never confirm | abstract specification of `Approvals` |
| `Requests` | what a game is told of its payment requests | abstract specification of `Approvals`, and the bridge that `Funding` is composed with |
| `Funding` | the game's side of a payment: spend book, funding calls, lifecycle | state machine over `Requests` |
| `Outbox` | claim, send and mark of one bridge's frames | state machine |
| `Assembly` | a message's parts, through the outbox, to a peer's router and assembler | state machine that composes `Outbox` |
| `Inbox` | journal, numbered inbox, history recovery, pruning, the stream and the client that reads it | state machine |
| `Roster` | keys, seats and commitments of the bridges of one table | state machine |
| `Payout` | payouts, signatures, refunds and their reconciliation with the chain, over the roster | state machine that composes `Roster` |
| `Finance` | which transaction a payout proposal is | operators and one property |
| `GameLog` | chains, log keys and books of every straight seat, beside cheaters | state machine |
| `MCSeating`, `MCApprovals`, `MCAssembly`, `MCPayout`, `MCFinance`, `MCGameLog` | values of constants, symmetry, starts | instances |
| `SeatingProofs`, `ApprovalsProofs`, `FundingProofs`, `OutboxProofs`, `InboxProofs`, `PayoutProofs`, `GameLogProofs` | theorems, each about the module it is named for; `SeatingProofs` also about `Formation` and `OneRoster`, `OutboxProofs` also about `Assembly`, `PayoutProofs` also about `Finance` | proofs |
| `Sums` | sums over finite sets, for the caps of `Approvals`, the byte counts of `Assembly` and the atoms of `Finance` | lemmas |

The three layers of a payment meet in `Requests`: `Approvals` is shown to keep it
(`AnswersStand`, `Approvals_answers.cfg`), and `Funding` takes its bridge to be
`INSTANCE Requests` and nothing more.

### Formation and Seating against the code

A *peer* is the session key it joins with. A roster is a set of keys:
`RosterHash` is taken to be injective and signatures to be sound, so a hash and
the membership it came from are one value. `NoRoster` (the empty set) is Go's
`nil` or a missing map entry.

The methods of `Formation` hold `f.mu` for their whole body, hence one operator
each. The runtime's handlers do not hold one lock, and are cut where they write
to disk or send:

| Action | Code |
|---|---|
| `AskBond`, `BondLands`, `FormAndJoin`, `PublishJoin` | `joinWhenBonded`, `FundSeatBond`, `formAndJoin`, `publishJoin` |
| `Receive` (fold the frame in, keep), `DropEarly`, `RefuseBond` | `handleOurs` with `addJoin`, `adoptRoster`, `addCommit`; a frame for a table that has not joined; a bond that is not found |
| `Announce`, `BindStep`, `SayCommit`, `SeatStep` | the rest of the handler: `publishRoster`, then `advance()` |
| `Tick(p, h)` | one turn of the follower for a table: close the window, `seatIfReady`, `giveRoster`, `lapseIfUnfunded` and its `keep` |
| `StakesRecorded` | the last `funded` announcement is recorded |
| `Restart` | the process dies; `resume()` rebuilds from the table record |
| `Equivocate` | a key that keeps no rule signs any join, claim or commit |

`Tick` takes the height it read; `seatIfReady` reads the tip again, so the height
it sees may be one more. `Keep` and `Send` contain their failures: a failed write
latches the fault, after which nothing is written or sent by that process; a send
the bridge refuses is lost, because no caller tries again.

The relay keeps every frame ever sent (`net`). With `Redelivery = TRUE` a frame
may be handled any number of times in any order, which is more than the bridge
does and therefore sound for safety. With `FALSE` a process handles each frame
once, which is what it does between restarts, and what the liveness runs use.

### Approvals against the code

The approval log (`gaming-spends.json`, under `spendMu`) and the ledger
(`authority.json`, under the store's mutex) are read from disk at every access
and written whole, so each access is one action and a crash loses nothing but
how far an approval (`phase`), a call (`asked`), the worker (`work`) or a
settings change (`retiring`) had come.

| Action | Code |
|---|---|
| `Ask` | `RequestGamingDepositSpend` up to the lock: the deposit is verified, the wallet builds a transaction, the settings are read |
| `RequestAgain`, `RequestNew`, `Refuse` | `requestGamingSpend` under the lock: a request that stands answers, or the ledger takes the preview and then the log the request, or neither |
| `Look` | `GamingSpendFor`, `GamingSpendLedger` and every other read that repairs the log |
| `DenyGamingSpend`; `Approve`, `Sign`, `Mistype`, `markSpendPublishing`, `CommitFunding`, `Publish`, `Record` | a person's answer; `ApproveGamingSpend`, cut where it takes or leaves a lock or calls out |
| `SwitchOff`, `SwitchOn`, `RevokeGamingCredential`, `invalidatePendingSpends` | `WriteGamingSettings` and `RevokeGamingCredential`, then the requests they retire |
| `CloseTable` | `Store.CloseTable` |
| `Observe`, `History`, `Rebroadcast`, `Rejected`, `FailSpend` | one operation's turn in `reconcileGamingFinance` |
| `Lapse`, `Age`, `Mine`, `Evict`, `TakeCoin`, `Settle`, `Crash` | the clock, the chain, other spenders of the wallet, the process |

A request id pins one unsigned transaction, and a Decred transaction id does not
cover signatures, so one id names request, preview, operation and transaction.
Every transaction spends one coin. A coin is `free`, `taken` by another
transaction of the wallet that may still be reorganised away, or `gone`, which is
`gamingAbandonDepth` blocks deep. The model takes that depth as final: deeper
reorganisations are not modelled, nor is a mined funding undone. `old` says that
a day has passed since the decision; `lapsed` that an approval window is over. A
trim drops any droppable entries where the code drops the oldest. `Save` and the
ledger's writes fail before or after the rename (`atomicWriteJSON`, `Store.save`).

### Funding against the code

The spend book is one file, written whole and renamed; a write that fails latches
`fault`, after which the process accepts nothing and ends. A call is a record of
what it is at (`call`), because it holds its obligation's lock from `askFor` to
the last answer and lets it go while it looks for the output.

| Action | Code |
|---|---|
| `Ask`, `TakeUp` | `askFor`, `Reserve`: a new attempt is written before the bridge is asked; a call after a restart takes up the record there is, or is answered from it |
| `Dispatch`, `DispatchRefused`, `Adopt`, `NoteFirst` | `dispatchSpend`: the bridge's answer may be lost, refused, or come from an earlier request; the id is adopted by the one record that has none |
| `Poll`, `PollUnreachable`, `Hear`, `Cancel` | `awaitAnswer`, `Note`; the caller's context may end |
| `Locate`, `NotFound`, `Land` | `findOutput`, `Book.Locate`, `landDeposit` with the table's record |
| `Reconcile`, `ReconcileAdopt`, `ReconcileNote` | `ReconcileSpend` with an id the operator gives |
| `Retry`, `RetryNote`, `RetryAgain` | `RetryFunding`: the refusal is asked for anew and noted, then a new attempt is reserved |
| `DeadlinePasses`, `Recover` | the admission deadline of a bond; the table kept for recovery only |
| `Restart` | a crash, or the end that a latched fault brings; `spend.Open` |

A deposit stands for everything its request binds (script, address, amount,
terms); an approved request's transaction stands under its id. Looking for the
output (`Locate`) cannot find a transaction the bridge did not approve; that it
may not find one the bridge did is `NotFound`.

### Outbox and Assembly against the code

`Outbox` cuts `SendGamingFrame` and the financial messages at the claim, the send
and the mark; `AppendClaim` is `appendGamingSendClaimLocked`, whose failure may leave
the line in the file (`claimFile` is what a reader of the file would find). Bison
Relay takes the frame, refuses it (`ErrNotSent`), or does not answer. An open
claim nobody knows the outcome of is never sent again but looked up in the
relay's own log of the group (`Reconcile`).

`Assembly` runs on top: its parts are the outbox's frames, and what was `posted`
arrives at a peer any number of times, late, or never, mixed with other members'
parts. `Handle` is the whole of `HandleGCMessage` and `Assembler.Add`: expiry,
the collection of stale messages, the limit per sender, a cut that disagrees, a
repeated part, the limits of bytes, completion. A part's text is not modelled;
its number, its total, its size and its deadline are.

### Inbox against the code

| Action | Code |
|---|---|
| `Receive`, `Finish` | `receiveGroupMessage`: journal, deliver, acknowledge; what is not acknowledged is repeated by the relay |
| `Deliver`, `Enqueue`, `Broadcast` | `deliverGamingMessage`, `persistGamingFrame`, `broadcast`: number and store under one lock, offer to the stream after it |
| `Recover`, `RecoverNext` | `RecoverHistory`: a copy of the journal delivered frame by frame beside the intake |
| `PruneJournal`, `PruneInbox` | `pruneSettledGamingHistory`, `pruneGamingGroup` |
| `Replay` | `financialReplay` |
| `Open`, `Pull`, `Handle`, `Hangup` | `SubscribeFrom` with the backlog, `streamOnce`, `handleFrame`, the end of a stream |
| `Accept`, `Seat`, `Settle` | what the ledger comes to say of the table |
| `GameRestarts`, `Crash` | the game's cursor is lost; the bridge's memory is, and its host recovers the history |

Journal and inbox are append-only files which memory mirrors. An append that
reported an error is taken to have written nothing: a failed sync after the bytes
reached the file, which would number two frames alike after a restart, is outside
the model. `overtaken` is bookkeeping of the model: the numbers that were offered
to the stream after a higher one.

### Roster, Payout and Finance against the code

A bridge, its chat identity and its key at the table are one value, because
`verifyKeyProof` takes no other pair; a roster's hash is the roster. `Outsiders`
are group members who announced a key, hold no seat and claim any roster.

| Action | Code |
|---|---|
| `Announce`, `BindRoster`, `Receive` | `GamingFinancialKey` and the bond's approval, `BindGamingRoster`, `receiveFinancialFrame` with `RecordParticipant`, `CommitRoster` and the announcement that follows |
| `Restart`, `CloseTable` | what was applied is applied again; `Store.CloseTable` |
| `Stake` | the stake is paid and mined (the way there is `Approvals` and `Funding`) |
| `Propose`, `Expire`, `Reject`, `Approve`, `AddOwn`, `Resend`, `ReceiveSignatures` | `ProposeGamingPayout`, `expireSettlements`, `RejectSettlement`, `ApproveGamingPayout` in its two writes, `SendGamingPayoutSignatures`, `AddSettlementSignatures` |
| `Quote`, `Confirm` | `QuoteGamingRecovery`, `ConfirmGamingRecovery` |
| `ReconcileOperation`, `ReconcileDeposit` | `ObserveOperation` and `ObserveDeposit` in `reconcileGamingFinance` |
| `Mine`, `Unmine`, `LockRunsOut` | the chain: blocks, evictions and reorganisations, the refund's relative lock |

A payout is the transaction every bridge of the table builds from the game's
proposal; that they all build the same one is `Finance`. There, keys are numbers
in the order of their hexadecimal form, written in either case; stake, script
and descriptor fields that a game cannot vary are one flag (`foreign`).
`BuildPayout` is the code's chain of refusals, then the ordering, the fee and the
dust rule; `Settle` and `Divides` are the runtime's `Settle` and `sharesFor`.

### GameLog against the code

A digest is the content it is taken over, and a signature the content signed.
Nonces are derived from the position (`Domain`, number), or from the content where
the domain is committed, so `Recover` - one key, one nonce, two messages - is what
gives a key away. `Sign` asks the book, records, then signs; `RecordOnly` is the
process that ends in between. `Act`, `Receive`, `AttestHead`, `SignCheckpoint` and
`SignShuffle` are `Next`/`Sign`/`Append`, `Append` of an arrived entry,
`AttestHead`, `Checkpoint` and the committed shuffle; `Restart` goes back to any
transcript saved earlier and keeps the book only for a seat whose game called
`Remember`. A cheater signs any entry, in any seat's name, over any history a
seat holds, but with this package's nonces. Whose turn it is belongs to the game,
which is not in this repository: `Turn` is a constant, and entries out of turn are
refused by every seat.

## 3. Runs

Each listed run asks one question of the system. Deadlock checking is off in all
of them, because every instance may really stop: a table that is over at the last
block, requests all decided, nothing left in flight and the faults spent.
Invariants and action properties hold with symmetry where the configuration says
so; no liveness property is checked under symmetry.

| Run | Bounds | Shows |
|---|---|---|
| `seating_pair` | 2 keys, 2 seats, 4 blocks, 2 failures | from invitation to lapse: a healthy process has on disk all it knows (`DurableWhenHealthy`), seats once drawn keep the membership (`SeatedKeepsMembership`), a settled table stays settled (`SettledStands`) |
| `seating_crash` | 3 bonded keys, 2 seats, 1 block, 2 failures | a race through restarts, failed writes and refused sends: no key is heard to bind twice (`SingleCommit`); `OneRoster` is implemented (`KeepsPromise`) |
| `seating_equivocator` | 3 bonded keys, one of which signs anything, 2 seats, 2 blocks | `Agreement`, `NoFalseConflict`, no overlapping seatings although seats are drawn before commits are in (`OneSeating`), and a bridge takes only a roster its honest members are durably bound to (`FinancialRosterIsBound`) |
| `seating_live` | 2 keys, each frame once, no failure | what everyone agreed on is seated and taken by every bridge (`AgreedIsSeated`) |
| `approvals_caps` | deposits of 1 and 2 atoms, 2 ids, 2 coins, caps of 2, log of 3, 2 failures | what is refused is unpaid, what may confirm is shown, the caps hold whatever was lost between log and ledger, decisions stand |
| `approvals_worker` | 1 deposit, 2 ids, 1 coin, a log of one entry, so that trimming happens, 2 failures, a settings change | `NeverTwice`, `OneCharge` is implemented (`ChargesOnce`), and a payment on record gets an outcome or is given up (`PublishingEnds`) |
| `funding` | 1 bond, 2 ids, 2 callers, 5 failures | no payment is unwatched (`Watched`), never two attempts that may be paid (`NeverAmbiguous`), the place of a deposit is decided once (`LandsOnce`), what the bridge paid is found and kept (`PaymentLands`) |
| `outbox` | a message in 2 parts, 2 calls, 2 failures; 6 parts of other members; limits of 1 message, 2 bytes, 2 bytes, timeout 1 | nothing goes out twice, claims say what happened, what is handed up is whole and the limits hold (`Reassembly`) |
| `inbox` | 2 game frames and a financial one, 2 tables, a stream buffer of 1, 1 failure | nothing acknowledged is lost (`KeptOnceAcked`), numbers are for good (`Numbering`), the game misses no frame but one that was overtaken (`OnlyOvertakenAreLost`, `NothingWaits`) |
| `payout` | 2 bridges, 1 payout, 2 quotes of one owner, 1 failure | a payout has every seat's approval (`PaidTogether`), a stake is signed once (`SignedOnce`), what is assembled stands (`AssembledStands`) |
| `payout_live` | some 15 000 proposals of 2 and 3 seats; then 2 bridges, an outsider, 1 payout, 1 quote, no failure | every proposal builds one transaction that adds up, or none (`PayoutsAddUp`); rosters agree and complete (`OneRoster`, `RosterCompletes`), what all signed is paid (`SignedIsPaid`), every ledger comes to read what spent its stake (`SpendIsSeen`) |
| `gamelog` | 3 seats, one of which lies, 2 moves, 2 decks, one height, 2 heads or checkpoints or shuffles, 2 lies, 1 failure | straight keys stay secret, lies prove themselves and give the liar's key away, a table nobody lies at finishes |

Why these bounds. Two keys are enough for a table and its crashes; three keys for
two seats are the least that overlap; four the least for two disjoint tables
(`Seating_two_tables`). One block stands for each deadline: `Until = 1`, beacon at
2, funding deadline at 3, `MaxHeight = 4` in the run that includes the lapse. Two
failures allow one in the recovery from another. Two requests are what a second
charge takes, two coins what a replacement on other money takes, and a log of one
entry is the least that trims. The game gets one id for a deposit, whatever it does
(`AskedOnce`): a second one is there for a mistake to take. Five failures are a
lost answer, a failed write, a crash and a cancelled wait in one run, and one more. A
buffer of one is the least a stream overruns. Two bridges are the least that
exchange signatures; two quotes of one owner are what a double refund takes.

`RefusedIsUnpaid`, `PayableIsShown` and `DecidedStands` are claimed of a log that
is not full (`MaxLog` above the number of requests): with a log of one entry, a
trimmed failed entry lets a whole new approval run between `AbandonFunding` and
`failAbandonedFundingSpend`, which then ends the new request. The real bound is
500 entries. `FinancialRosterIsBound` is about the *other* honest members, whose
commitments were heard and so are on disk whatever fails: `seatIfReady` and
`giveRoster` do not look at the storage fault, so a process whose own disk has
failed may hand its bridge a roster that its own record does not have.
`SeatedKeepsMembership` is claimed where no key equivocates and no more keys than
seats hold the invitation (see `Seating_forgotten` and section 5),
`RosterCompletes` without a refused send (see
`Roster_unannounced`).

`StraightTablesFinish` is checked with one height. With two it fails: a straight
seat whose view of the chain went back signs an entry below the height of the one
before it, `Append` refuses the entry after its position is in the book, and the
position cannot be signed again. Entry heights that never go back are thus
something the game has to see to.

### Fairness

*Seating*: the chain grows; each handler step, admission step and follower tick
that stays possible is taken, because each is a goroutine with nothing to wait for
but its own call; a frame that stays deliverable is delivered, because the
bridge's inbox is durable and replays. `BondLands` has none: a person approves the
bond, or does not.

*Approvals*: an approval that a person started runs to its end; the worker
finishes an operation's turn; a coin taken by somebody else is sooner or later
buried or free again. `Observe` has strong fairness for each operation: a pass of
the worker goes through all of them and it is disabled only while it is busy with
another.

*Funding*: a call takes its steps, and one poll and one look for the output in the
end get through (strong: a cancelled call is taken up again); a process that
latched a fault is started again; the game calls until its deposit has landed, as
the documentation asks of it. The person decides when they like, or never.

*Inbox* (`Inbox_replay`, `Inbox_readback`): intake and recovery run on, a message
that was not acknowledged is repeated, the financial worker's ticker ticks.

*Roster and Payout*: whoever has a seat approved its bond; the tick that binds the
roster and the financial worker's replay go on; a call that began ends; the worker
goes over its operations and deposits; a transaction in the mempool is mined.
Nobody has to propose, approve, reject, quote or close.

*GameLog*: a straight seat takes its turn, what was sent arrives in the end.

In no module have faults, equivocation, lies, people or the end of a lock any
fairness.

### Configurations beside the listed runs

| Configuration (module) | Checks |
|---|---|
| `Approvals_answers` (`MCApprovals`) | `AnswersStand`: what a game is told by `Approvals` is what `Requests` promises; 480 000 states |
| `Inbox_replay` (`Inbox`) | `Applies`: a stored financial frame of a seated table is applied in the end |

The `TypeOK` of every state machine, and `PayoutTypeOK`, hold under the configurations
of the runs; where they are not among a run's properties they are proved (section 5) or have
been checked apart.

## 4. Where the code and its documentation disagree

Each configuration below checks a sentence of a comment or a document, and TLC
finds it violated by what the code does. They are kept beside the project, each
with its one property, and are not among the listed runs.

| Configuration (module) | Property | The sentence, and what happens |
|---|---|---|
| `Seating_settled_not_seated` (`MCSeating`) | `SettledIsSeated` | building-a-game.md:242, an agreed roster is seated once the block is there: the assertions are not in the table record and are ignored once settled, so a restart between settling and that block leaves a table that is never seated |
| `Seating_forgotten` (`MCSeating`) | `SeatedKeepsMembership` | an equivocator's second commit aborts a table that is committed and already seated, and its membership is forgotten |
| `Seating_bind_at_close` (`MCSeating`) | `BindsAtClose` | seating.go:584, "or when admission shuts, whichever comes first": the follower shuts the window but only `advance()` binds, and only a frame calls it |
| `Seating_foreign_commit` (`MCSeating`) | `SettledIsTaken` | formation.go:591, "Anyone else's commit is somebody else's table": a held commit to another roster does not stop a table from settling, but makes the bridge refuse its roster |
| `Seating_two_tables` (`MCSeating`) | `OneTable` | seating.go:592, "a race that resolves to no game, never to two tables": four answers to a two-seat invitation can settle as two disjoint tables |
| `Seating_late_join` (`MCSeating`) | `NoLateJoin` | seating-recovery.md:21, "leaves a recovery record, not a late join": a bond approved in time and found after the deadline still leads to a join |
| `Approvals_interrupted` (`MCApprovals`) | `InterruptedFails` | an approval that ends between the mark and `CommitFunding` is to fail: `sweepPublishingLocked` does nothing, so the request stays publishing, counts against the caps and answers for its deposit for good; no failure is needed |
| `Approvals_abandoned` (`MCApprovals`) | `AbandonedCanBeAsked` | a crash, or a write error after the rename, between `AbandonFunding` and `failAbandonedFundingSpend` leaves a freed deposit that cannot be asked for again |
| `Funding_retry` (`Funding`) | `RetryIsAnswered` | seating-recovery.md, "RetryFunding(ctx, id) permits an explicit new attempt only after a fresh bridge response proves the previous request denied or expired": permitted, but the bridge answers it with the same refused request, whose id the new attempt cannot adopt |
| `Inbox_skipped` (`Inbox`) | `LosesNoFrame` | gaming_bridge.go:159 (and :150), "closed rather than allowed to lose a frame": intake and recovery number their frames under a lock and offer them to the stream after it, so a lower number can come second, and is passed over |
| `Inbox_readback` (`Inbox`) | `ReadBack` | gaming_financial_authority.go, on acceptance, "Frames from this group were dropped until now; the journal has them": a recovery asked for while another runs is not run, and the one under way may be past the group |
| `Roster_unannounced` (`Roster`) | `RosterCompletes` | gaming_financial_worker.go:573, failed frames are retried: a frame completes the roster, our commitment is recorded, the announcement is refused (gaming_financial_wire.go:325); the retry finds nothing changed and announces nothing |
| `Payout_lost_signatures` (`MCPayout`) | `EarlySignaturesCount` | gaming_settlement.go, "Peers' signatures that arrived before this proposal can apply now": an expired payout proposed again drops the signatures it had, and their messages count as applied |
| `Payout_reorg` (`MCPayout`) | `ReorgNeedsAPerson` | spend_pending_test.go, "A reorg takes the confirmation back. That needs a person": `ObserveOperation` says so, and `ObserveDeposit` writes over it in the same pass |
| `Assembly_retry` (`MCAssembly`) | `ArrivedIsDelivered` | assembler.go:241, only "a message missing a part simply never completes": a part of a retry that meets the part of the first attempt is dropped as a repeat, and goes with it when the first deadline passes |
| `GameLog_forgetful` (`MCGameLog`) | `EveryStraightKeyStaysSecret` | a seat whose game does not call `Remember` has its book in memory; after a restart, signing another entry at an old position gives its key away. No code in this repository calls `Remember` |

## 5. Proofs

TLAPS proves what follows for every finite set of peers, bridges, requests,
frames or seats, every number of failures, and every value of the other
constants, from the named `ASSUME`s of the modules and no others. The leaves are
small enough that a module is proved with a tenth of the provers' default time
as well (`tlapm --stretch 0.1`), so a slow machine proves it too.

| Module | Theorems |
|---|---|
| `SeatingProofs` | `TypeCorrect`, `Durable`, `OneWord`, `NobodyFramed`, `RecordsResume`, `SettledDurable`, `Agree`; of the draws, `DrawsBacked`, `BridgeRosterBound`, `SeatedOnce`, `SeatedForgets`, `SeatedKeeps` (no equivocator, no more keys than seats), `SettledStays`; `Implements` (`Seating` implements `OneRoster`), `PromiseSafe` (that suffices for one table per key) and, from both, `TablesSeparate` |
| `ApprovalsProofs` | `TypeCorrect`, `LedgerSound`, `NoSecondCharge`, `CoinsOnce`, `OneChargeKept` (`Approvals` implements `OneCharge`), and, with room in the log, `RefusedUnpaid`, `PaymentsShown`, `DecisionsStand`, `CapsKept`, `AnswersKept` (`Approvals` implements `Requests`) |
| `FundingProofs` | `TypeCorrect`, `AskedOnce`, `PaymentsAreWatched`, `AttemptsAreClear`, `DepositsLandOnce` |
| `OutboxProofs` | `OutboxIsExact`, `ClaimsSayWhatHappened`, `FileReadsBack`; of the peers' assemblers, `MessagesAreWhole`, `SentOnceForAll` |
| `InboxProofs` | `TypeCorrect`, `NothingAckedIsLost`, `NumbersAreForGood`, `TheGameMissesOnlyOvertaken`, `AnIdleGameHasEverything` |
| `PayoutProofs` | `CompleteRostersAgree`, `PayoutsAreApproved`, `StakesAreSignedOnce`, `AssembledPayoutsStand`, `PayoutsTyped`; of *Finance*, `PayoutsAreExact` |
| `GameLogProofs` | `BooksAreComplete`, `KeysStaySecret`, `SharedMovesShareThePast`, `LiarsAreCaught` |
| `Sums` | lemmas: totals of the subsets of a finite set exist, are unique, split and grow |

*Seating.* None of the properties is inductive: that a key is heard once says
nothing of the commit a process still has only in memory, or only on disk.
`IInv` adds, for each honest peer, what its formation may be (`FormOK`), where in
its handler it may stand with such a formation (`StepOK`), what its record holds
and that rebuilding it gives back the same commit (`RecordOK`); for the chat,
that an honest key's commit is on that key's disk and is the one its formation
holds (`SaidOK`); and that whatever commit one peer has filed under an honest
key's name is in the chat (`HeardOK`). Writing before sending is what makes
`SaidOK` survive `SayCommit`; the refusal to send under a latched fault is what
makes it survive a failed write; `Bind` refusing new joins afterwards is what
makes `RecordOK` survive `Receive` and `Restart`. Agreement then follows: two
settled tables with a common honest member both hold that member's only commit.
The refinement adds that a word is said once, in `SayCommit`, and that a table is
held in the step that makes it settled, when all other honest members' commits
are already in the chat.

*Seating: the draw.* Seats are drawn before commits are in, so `IInv` says nothing
of them. `DrawInv` follows the claims instead: a peer's joins never shrink and its
record holds none its formation does not; what an honest key claimed is a full set
of joins it has on disk, and the only one it ever claims (`ClaimOK`); a beacon, in
memory or on record, stands on such claims (`Drawn`); and a roster given to a bridge
stands on commits that were heard (`BridgeOK`). Two draws that share an honest
member then share its one claim (`SeatedOnce`). That a seated table keeps its
membership is true only with both hypotheses of `SeatedKeeps`. With an equivocator
`Seating_forgotten` refutes it. With three honest keys for two seats TLC refutes it
as well: a peer draws from claims while its own commit is still to be made, crashes,
resumes without claims and with its window open, and a third join overfills the
table. `SeatedForgets` says that nothing else forgets it.

*Approvals.* `NeverTwice` does not say why an operation that is given up cannot
come back. `LedgerInv` does, and is proved first (`LedgerSound`): ids that were
not issued are nowhere on record (`Issued`); the live operations and the
`FundingTx` of the deposits are the same relation (`Due`); an abandoned operation
has lost its coin for good and has no preview, so it is never committed again
(`GivenUp`); the node has only live operations (`OnChain`), because what is about
to be broadcast is on record (`OnRecord`); and no coin has two operations
(`InputsOnce`). From it follow `NoSecondCharge`, `CoinsOnce` and, step by step,
`OneChargeKept`: `CommitFunding` is a charge, `Rejected` a release of a lost
payment, `Mine` a confirmation, `Settle` (and a request built on a coin that is
already gone) a loss, and every other step leaves the abstract state alone. This
holds whatever the log says and however it is trimmed. The theorems about the log
assume room for every request (`RoomForAll`). What one access may do to one entry
is `Moves`, proved once for every action (`LogStep`, `EntryMoves`).
`RefusedUnpaid` rests on `PayingShown`: whatever is past its mark or on record
was marked publishing in the log. `PaymentsShown` adds `Shown` and `Closing`: while
the worker is about to close the request of a dead funding that request still
stands, so no new one can have been made for its deposit. `AnswersKept` needs `StandInv`: a
request the log has lost is the ledger's alone and its deposit unpaid, so it is shown
pending, or expired once its window is over, and never comes back as something else;
and of two requests for one deposit one has failed. For `CapsKept` each action either
adds nothing to what is counted, or is a new request that was checked against what
the log *and* the ledger hold; the amounts are compared by the totals of `Sums`,
where induction over the subsets of a finite set is the minimal element of a
well-founded order.

*Funding.* That a payment is watched says nothing of the request that was written
down and not yet asked for, nor of two ids for one deposit. `Sound` says of either
book, in memory or on disk, that what is not refused is the latest attempt, that
what is refused the bridge refused, and that every deposit the bridge has a request
for is on record under some attempt; `OneIdEach` that the bridge has one request
for a deposit. They hold each other up: a call about to ask (`CallOK`) asks for a
deposit that never was asked for, or whose request was denied or expired, and that
one the bridge answers with the same id. `Exclusive` is `fundingLock`: without it
the deposit could be asked for twice between `Reserve` and the answer. A failed
write leaves either book as it was or as it was to be, so each lemma about a write
(`Replaced`, `Added`, `SaveKeeps`) is about both. `DepositsLandOnce` needs that a
record, once located, is never lost or renamed (`Keeps`).

*Outbox.* `SentOnce` needs to know who may still send. `Alone`: a call between its
claim and its outcome is the only one at its frame, the claim is open in memory
and in the file, and nobody has the frame yet; `Marking`: what is being marked
sent was taken. Since a failed append may have reached the file, each action is
considered twice, and a crash makes memory what the file says.

*Assembly.* `AInv` says what is held: finitely many messages, one of a sender by one
name, each some but not all parts of one posted cut, each part once; the counter is
the sum of their sizes. A message is whole when the part that completes it arrives
only because the parts before agreed on the cut and none was a repeat. Each way
through `Add` either keeps or drops what was held (`LessHeld`), or puts a message
that grew in its old place or in a free one (`MoreHeld`); the eviction before it is
a split of the sum (`TotalSplit`). What was posted stays posted (`PostedLasts`), so
`IInv` of the outbox is carried along.

*Inbox.* The properties hold each other up through five parts of `IInv`. `Intake`:
what is being taken is in the journal, and nobody recovers while a prune holds the
lock. `Emptied`: once a prune has begun, nothing that is still to be stored is of
the table; so no frame the prune removed gets a second number. `Numbers`: numbers are
bounded by the counter, one frame's each, and whatever waits to be broadcast is in the
inbox. `Queue`: the stream's queue ascends, and whatever lies behind one of its
numbers was passed, is queued before it or was overtaken. `Cover`: an open stream has
everything up to its last number, and what is above that is still to be broadcast.
`NothingWaits` is `Cover` with an empty queue and nothing to broadcast.

*Payout.* `RInv` is about the rosters: each ledger is sane (a commitment counted
is one its sender holds the full roster for), and what is posted its sender stands
by for good, because a full roster does not change. It gives `CompleteRostersAgree`,
and that a proposal exists only on a full roster of the seats. `PInv` adds
`Booked`: the two records of a payout, settlement and operation, agree, no
signature is counted that nobody gave, and an assembled payout has them all; and
`Backed`: neither a message, a call under way nor the chain has more than that.
One lemma per action keeps `PInv`; `PaidTogether` and `SignedOnce` follow, and, since
an operation and its settlement are assembled together (`Together`), what any step
may do to an assembled payout (`AssembledPayoutsStand`). What no
signature depends on (deposits, quotes, the lock) is typed apart, in `RestOK`.

*Finance.* `PayoutsAreExact` is about one state, and all of it about every proposal of
`Proposals`: any stakes and payments of the right shape, or what `Settle` makes of an
outcome and of stakes the roster stands for. An ascending order of distinct keys exists
and is unique, because a member's place in it is its rank (`OrderExists`,
`OrderUnique`); so sorting a listing undoes whatever reordered it (`SortedAlike`), and
the checks, which see only what no listing changes, pass for all listings or for none
(`BuiltAlike`, `ListedAlike`). A sum is the same under a renaming of its terms
(`TotalRenamed`); a levy of `q` on each of `k` and of `r` on the first takes `k * q + r`
(`Levied`), which is the fee; and as many owners as members, no two alike, are all the
members (`OwnersAreMembers`). `Settle` leaves out seats that are due nothing, which
changes no sum (`RestIsNothing`). Sums and sorts are defined over sets, in
`Finance` and here alike: the library's folds and sorts of sequences take operators for
parameters, which the provers do not expand.

*GameLog.* A lasting book is complete (`IInv`): whatever its key signed by
position is in it, and it holds one message for each position. So the straight
key's nonces never meet two messages, and nothing convicts it. `CInv` says that
straight chains are lines of entries each over the one before, so that two chains
that share an entry share its past (`SharedMovesShareThePast`). `Attested` says
that a straight head or checkpoint was taken over a line of signed entries, even
if the chain it was taken from is lost. Wherever two chains, heads or stacks
differ, the first difference of the lines under them is two entries at one number
over one past: an equivocation, whose two signatures share a nonce
(`LiarsAreCaught`).

## 6. Only model-checked, and why

* Liveness (`AgreedIsSeated`, `PublishingEnds`, `PaymentLands`, `RosterCompletes`,
  `SpendIsSeen`, `SignedIsPaid`, `StraightTablesFinish`, `Applies`): outside this
  prover.
* `SeatedKeepsMembership` outside the hypotheses of `SeatedKeeps`, and what is proved
  under `RoomForAll` when the log overflows: false there, or not claimed.
* `Inbox`'s `ReadBack` and the other sentences of section 4 are refuted, not proved.

## 7. Not modelled, and why

* Keys, scripts, hashes, signatures and encodings (`pkg/escrow`, `pkg/identity`,
  `pkg/gaming/schema`, the arithmetic of `pkg/forfeit`) are taken to be sound: they
  are byte-level functions without state.
* The draw of the seats (`pkg/membership/seats.go`) is a shuffle by digests; only
  the heights at which it may happen are in `Seating`.
* Membership's payout and funding announcements are one event in `Seating`
  (`StakesRecorded`).
* Identity and game sessions of the bridge: enrolment and bookkeeping; state
  directory locks and file syncing: system calls every store takes as given.
* Of the ledger: registration, the backup and its restore, the bookkeeping of
  settled groups (`prune.go`); of the stream: operator requests, the limit of
  streams; of the worker: block scans. Reorganisations deeper than
  `gamingAbandonDepth` in `Approvals`.
* An append whose sync fails after the bytes reached the file (`Inbox`).
* The rules of the games, whose turn it is, and signatures that do not use this
  package's nonces (`GameLog`).
* Generated protocol code, the test bridge and the example.

## 8. What is left

In order of what it would add:

1. `Seating` with the stakes' announcements one by one, and `Funding` in the place
   of `StakesRecorded`.
2. The ledger's backup, restore and pruning beside `Payout`.
3. Entry heights that go back, in `GameLog`.
