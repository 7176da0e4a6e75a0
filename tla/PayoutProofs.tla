------------------------------ MODULE PayoutProofs ------------------------------
(***************************************************************************)
(* Rosters and payouts, for any number of bridges, payouts and quotes, and  *)
(* any number of restarts, refused sends and reorganisations: complete      *)
(* financial rosters are one, a stake is signed away once, a payout on the  *)
(* chain has every seat's approval, and an assembled one stays so; and all  *)
(* build one transaction of a proposal, to the atom.                        *)
(***************************************************************************)
EXTENDS Payout, Finance, Sums

-----------------------------------------------------------------------------
(* The ledger of one bridge                                                *)

Sane(l) ==
  /\ l \in Ledgers
  /\ l.peers \subseteq Bridges
  /\ ~l.bound => l.peers = {}
  /\ l.commits # {} => l.peers = Bridges

\* Peers are never taken back, and whoever has them all keeps them.
Grows(l, k) == Sane(k) /\ (l.peers = Bridges => k.peers = Bridges)

\* A roster of seats is full when it is all of them (RosterHash, CommitRoster).
LEMMA FullIsAll ==
  ASSUME NEW l, l.peers \subseteq Bridges
  PROVE  Full(l) <=> l.peers = Bridges
<1>1. /\ Cardinality(Bridges) = Cardinality(l.peers) => Bridges = l.peers
  BY FS_Subset, RosterAssumption
<1> QED
  BY <1>1 DEF Full

LEMMA RecordGrows ==
  ASSUME NEW l, Sane(l), NEW c \in Members, c \in Bridges \/ MayRecord(l, c)
  PROVE  Grows(l, Record(l, c)) /\ Record(l, c).commits = l.commits
<1>1. CASE c \in l.peers
  BY <1>1 DEF Record, Grows
<1>2. CASE c \notin l.peers /\ l.bound
  <2>1. c \in Bridges
    BY <1>2 DEF MayRecord
  <2> QED
    BY <1>2, <2>1 DEF Record, Grows, Sane, Ledgers, Members
<1>3. CASE c \notin l.peers /\ ~l.bound
  BY <1>3 DEF Record, Grows, Sane, Ledgers
<1> QED
  BY <1>1, <1>2, <1>3

LEMMA CommitGrows ==
  ASSUME NEW l, Sane(l), l.peers = Bridges, NEW c \in Bridges
  PROVE  Grows(l, Commit(l, c)) /\ Commit(l, c).commits = l.commits \cup {c}
BY DEF Commit, Grows, Sane, Ledgers, Members

LEMMA BindGrows ==
  ASSUME NEW l, Sane(l)
  PROVE  Grows(l, BindSeats(l)) /\ BindSeats(l).commits = l.commits
<1>1. CASE l.bound
  BY <1>1 DEF BindSeats, Grows
<1>2. CASE ~l.bound
  <2>1. Bridges # {}
    BY RosterAssumption
  <2>2. l.peers = {} /\ l.commits = {}
    BY <1>2, <2>1 DEF Sane
  <2> QED
    BY <1>2, <2>1, <2>2 DEF BindSeats, Grows, Sane, Ledgers, Members
<1> QED
  BY <1>1, <1>2

LEMMA OwnGrows ==
  ASSUME NEW l, Sane(l), NEW b \in Bridges
  PROVE  Grows(l, Own(l, b)) /\ Own(l, b).commits \subseteq l.commits \cup {b}
<1> DEFINE own == Record(l, b)
<1>1. b \in Members
  BY DEF Members
<1>2. Grows(l, own) /\ own.commits = l.commits
  BY <1>1, RecordGrows
<1>3. CASE Full(own)
  <2>1. own.peers = Bridges
    BY <1>2, <1>3, FullIsAll DEF Grows, Sane
  <2>2. Grows(own, Commit(own, b)) /\ Commit(own, b).commits = own.commits \cup {b}
    BY <1>2, <2>1, CommitGrows DEF Grows
  <2> QED
    BY <1>2, <1>3, <2>1, <2>2 DEF Own, Grows
<1>4. CASE ~Full(own)
  BY <1>2, <1>4 DEF Own
<1> QED
  BY <1>3, <1>4

-----------------------------------------------------------------------------
(* The rosters of all bridges                                              *)

\* What a bridge committed to, in its own ledger, in another's or in a message, it
\* holds: all the seats.
RInv ==
  /\ ledger \in [Bridges -> Ledgers]
  /\ \A b \in Bridges : Sane(ledger[b])
  /\ \A a, b \in Bridges : b \in ledger[a].commits => ledger[b].peers = Bridges
  /\ \A m \in posted : m.from \in Bridges /\ m.roster # {} => ledger[m.from].peers = Bridges

\* A roster once full stays so.
Rostered == \A b \in Bridges : ledger[b].peers = Bridges => ledger'[b].peers = Bridges

LEMMA LedgerStep ==
  ASSUME RInv, NEW b \in Bridges, NEW k, Grows(ledger[b], k),
         \A c \in k.commits : c \in ledger[b].commits \/ ledger[c].peers = Bridges \/ c = b,
         ledger' = [ledger EXCEPT ![b] = k],
         posted' \subseteq posted \cup {Announcement(k, b)}
  PROVE  RInv' /\ Rostered
<1>1. Sane(k) /\ k \in Ledgers
  BY DEF Grows, Sane
<1>2. ledger' \in [Bridges -> Ledgers] /\ \A c \in Bridges : Sane(ledger'[c])
  BY <1>1 DEF RInv
<1>3. \A c \in Bridges : ledger[c].peers = Bridges => ledger'[c].peers = Bridges
  BY DEF RInv, Grows
<1>4. \A a, c \in Bridges : c \in ledger'[a].commits => ledger'[c].peers = Bridges
  <2> SUFFICES ASSUME NEW a \in Bridges, NEW c \in Bridges, c \in ledger'[a].commits
               PROVE  ledger'[c].peers = Bridges
    OBVIOUS
  <2>1. CASE a # b
    <3>1. ledger[c].peers = Bridges
      BY <2>1 DEF RInv
    <3> QED
      BY <1>3, <3>1
  <2>2. CASE a = b
    <3>1. c \in k.commits /\ k.peers = Bridges
      BY <1>1, <2>2 DEF RInv, Sane
    <3>2. CASE c = b
      BY <3>1, <3>2 DEF RInv
    <3>3. CASE c # b
      <4>1. ledger[c].peers = Bridges
        BY <3>1, <3>3 DEF RInv
      <4> QED
        BY <1>3, <4>1
    <3> QED
      BY <3>2, <3>3
  <2> QED
    BY <2>1, <2>2
<1>5. \A m \in posted' : m.from \in Bridges /\ m.roster # {} => ledger'[m.from].peers = Bridges
  <2> SUFFICES ASSUME NEW m \in posted', m.from \in Bridges, m.roster # {}
               PROVE  ledger'[m.from].peers = Bridges
    OBVIOUS
  <2>1. CASE m \in posted
    BY <1>3, <2>1 DEF RInv
  <2>2. CASE m = Announcement(k, b)
    <3>1. m.from = b /\ Full(k)
      BY <2>2 DEF Announcement
    <3>2. k.peers = Bridges
      BY <1>1, <3>1, FullIsAll DEF Sane
    <3> QED
      BY <3>1, <3>2 DEF RInv
  <2> QED
    BY <2>1, <2>2
<1> QED
  BY <1>2, <1>3, <1>4, <1>5 DEF RInv, Rostered

-----------------------------------------------------------------------------
(* One lemma per action on a roster                                        *)

LEMMA AnnounceKeeps ==
  ASSUME RInv, NEW b \in Bridges, NEW proven \in BOOLEAN, Announce(b, proven)
  PROVE  RInv' /\ Rostered
<1> DEFINE l == [ledger[b] EXCEPT !.proven = @ \/ proven]
           k == Own(l, b)
<1>1. Sane(ledger[b])
  BY DEF RInv
<1>2. (ledger[b].proven \/ proven) \in BOOLEAN
  OBVIOUS
<1>3. Grows(ledger[b], l) /\ l.commits = ledger[b].commits
  BY <1>1, <1>2 DEF Grows, Sane, Ledgers
<1>4. /\ ledger' = [ledger EXCEPT ![b] = k]
      /\ posted' \subseteq posted \cup {Announcement(k, b)}
  BY DEF Announce, Announced, NotAnnounced
<1> HIDE DEF l
<1>5. Grows(l, k) /\ k.commits \subseteq l.commits \cup {b}
  BY <1>3, OwnGrows DEF Grows
<1>6. Grows(ledger[b], k)
  BY <1>3, <1>5 DEF Grows
<1> HIDE DEF k
<1> QED
  BY <1>3, <1>4, <1>5, <1>6, LedgerStep

LEMMA BindRosterKeeps ==
  ASSUME RInv, NEW b \in Bridges, BindRoster(b)
  PROVE  RInv' /\ Rostered
<1> DEFINE l == BindSeats(ledger[b])
           k == Own(l, b)
<1>1. Grows(ledger[b], l) /\ l.commits = ledger[b].commits
  BY BindGrows DEF RInv
<1>2. /\ ledger' = [ledger EXCEPT ![b] = k]
      /\ posted' \subseteq posted \cup {Announcement(k, b)}
  BY DEF BindRoster, Announced, NotAnnounced
<1> HIDE DEF l
<1>3. Grows(l, k) /\ k.commits \subseteq l.commits \cup {b}
  BY <1>1, OwnGrows DEF Grows
<1>4. Grows(ledger[b], k)
  BY <1>1, <1>3 DEF Grows
<1> HIDE DEF k
<1> QED
  BY <1>1, <1>2, <1>3, <1>4, LedgerStep

LEMMA CloseTableKeeps ==
  ASSUME RInv, NEW b \in Bridges, CloseTable(b)
  PROVE  RInv' /\ Rostered
<1> DEFINE k == [ledger[b] EXCEPT !.closed = TRUE]
<1>1. Grows(ledger[b], k) /\ k.commits = ledger[b].commits
  <2>1. Sane(ledger[b])
    BY DEF RInv
  <2> QED
    BY <2>1 DEF Grows, Sane, Ledgers
<1>2. ledger' = [ledger EXCEPT ![b] = k] /\ posted' = posted
  BY DEF CloseTable
<1> HIDE DEF k
<1> QED
  BY <1>1, <1>2, LedgerStep

LEMMA ReceiveKeeps ==
  ASSUME RInv, NEW b \in Bridges, NEW m \in Messages, Receive(b, m)
  PROVE  RInv' /\ Rostered
<1> DEFINE row    == Record(ledger[b], m.from)
           theirs == IF m.roster = {} THEN row ELSE Commit(row, m.from)
           ours   == IF Full(theirs) THEN Commit(theirs, b) ELSE theirs
<1>1. Sane(ledger[b]) /\ MayRecord(ledger[b], m.from) /\ m.from \in Members /\ m \in posted
  BY DEF Receive, RInv, Waiting, Messages
<1>2. Grows(ledger[b], row) /\ row.commits = ledger[b].commits
  BY <1>1, RecordGrows
<1>3. CASE m.roster # {} /\ ~MayCommit(row, m.from, m.roster)
  <2>1. ledger' = [ledger EXCEPT ![b] = row] /\ posted' = posted
    BY <1>3 DEF Receive
  <2> HIDE DEF row
  <2> QED
    BY <1>2, <2>1, LedgerStep
<1>4. CASE m.roster = {} \/ MayCommit(row, m.from, m.roster)
  <2>1. /\ ledger' = [ledger EXCEPT ![b] = ours]
        /\ posted' \subseteq posted \cup {Announcement(ours, b)}
    BY <1>4 DEF Receive, Announced, NotAnnounced
  <2> HIDE DEF row
  <2>2. /\ Grows(row, theirs)
        /\ \A c \in theirs.commits : c \in row.commits \/ ledger[c].peers = Bridges
    <3>1. CASE m.roster = {}
      BY <1>2, <3>1 DEF Grows
    <3>2. CASE m.roster # {}
      <4>1. Full(row) /\ m.from \in row.peers
        BY <1>4, <3>2 DEF MayCommit
      <4>2. row.peers = Bridges /\ m.from \in Bridges
        BY <1>2, <4>1, FullIsAll DEF Grows, Sane
      <4>3. ledger[m.from].peers = Bridges
        BY <1>1, <3>2, <4>2 DEF RInv
      <4>4. Grows(row, Commit(row, m.from)) /\ Commit(row, m.from).commits = row.commits \cup {m.from}
        BY <1>2, <4>2, CommitGrows DEF Grows
      <4> QED
        BY <3>2, <4>3, <4>4
    <3> QED
      BY <3>1, <3>2
  <2> HIDE DEF theirs
  <2>3. Grows(theirs, ours) /\ ours.commits \subseteq theirs.commits \cup {b}
    <3>1. CASE Full(theirs)
      <4>1. theirs.peers = Bridges
        BY <2>2, <3>1, FullIsAll DEF Grows, Sane
      <4>2. Grows(theirs, Commit(theirs, b)) /\ Commit(theirs, b).commits = theirs.commits \cup {b}
        BY <2>2, <4>1, CommitGrows DEF Grows
      <4> QED
        BY <3>1, <4>2
    <3>2. CASE ~Full(theirs)
      BY <2>2, <3>2 DEF Grows
    <3> QED
      BY <3>1, <3>2
  <2> HIDE DEF ours
  <2>4. Grows(ledger[b], ours)
    BY <1>2, <2>2, <2>3 DEF Grows
  <2>5. \A c \in ours.commits : c \in ledger[b].commits \/ ledger[c].peers = Bridges \/ c = b
    BY <1>2, <2>2, <2>3
  <2> QED
    BY <2>1, <2>4, <2>5, LedgerStep
<1> QED
  BY <1>3, <1>4

\* No step of a payout writes a roster or announces a key.
LEMMA PayoutLeavesRosters ==
  ASSUME PayoutStep \/ (\E b \in Bridges : PayoutRestart(b)) \/ UNCHANGED vars
  PROVE  ledger' = ledger /\ posted' = posted
<1>1. ASSUME NEW b \in Bridges, NEW p \in Payouts,
             Propose(b, p) \/ Expire(b, p) \/ Reject(b, p) \/ Approve(b, p)
      PROVE  ledger' = ledger /\ posted' = posted
  BY <1>1 DEF Propose, Expire, Reject, Approve, roster
<1>2. ASSUME NEW b \in Bridges, NEW p \in Payouts, AddOwn(b, p) \/ Resend(b, p)
      PROVE  ledger' = ledger /\ posted' = posted
  BY <1>2 DEF AddOwn, Resend, unfailed
<1>3. ASSUME NEW b \in Bridges, NEW c \in Bridges, NEW p \in Payouts, ReceiveSignatures(b, c, p)
      PROVE  ledger' = ledger /\ posted' = posted
  BY <1>3 DEF ReceiveSignatures, roster
<1>4. ASSUME NEW q \in Quotes, Quote(q) \/ Confirm(q)
      PROVE  ledger' = ledger /\ posted' = posted
  BY <1>4 DEF Quote, Confirm, roster
<1>5. ASSUME NEW b \in Bridges, Stake(b) \/ ReconcileDeposit(b)
      PROVE  ledger' = ledger /\ posted' = posted
  BY <1>5 DEF Stake, ReconcileDeposit, roster
<1>6. ASSUME NEW b \in Bridges, NEW t \in Tx, NEW reached \in BOOLEAN, ReconcileOperation(b, t, reached)
      PROVE  ledger' = ledger /\ posted' = posted
  BY <1>6 DEF ReconcileOperation, roster
<1>7. ASSUME NEW t \in Tx, Mine(t) \/ \E where \in {"mempool", "unknown"} : Unmine(t, where)
      PROVE  ledger' = ledger /\ posted' = posted
  BY <1>7 DEF Mine, Unmine, roster, unfailed
<1>8. ASSUME LockRunsOut PROVE ledger' = ledger /\ posted' = posted
  BY <1>8 DEF LockRunsOut, roster
<1>9. ASSUME NEW b \in Bridges, PayoutRestart(b) PROVE ledger' = ledger /\ posted' = posted
  BY <1>9 DEF PayoutRestart, Restart
<1>10. ASSUME UNCHANGED vars PROVE ledger' = ledger /\ posted' = posted
  BY <1>10 DEF vars, roster
<1> QED
  BY <1>1, <1>2, <1>3, <1>4, <1>5, <1>6, <1>7, <1>8, <1>9, <1>10 DEF PayoutStep

LEMMA RosterInit == PayoutInit => RInv
BY RosterAssumption DEF PayoutInit, Init, RInv, Sane, Ledgers, Members

LEMMA RosterStep == RInv /\ [PayoutNext]_vars => RInv' /\ Rostered
<1> SUFFICES ASSUME RInv, [PayoutNext]_vars PROVE RInv' /\ Rostered
  OBVIOUS
<1>1. CASE Next
  BY <1>1, AnnounceKeeps, BindRosterKeeps, CloseTableKeeps, ReceiveKeeps DEF Next
<1>2. CASE PayoutStep \/ (\E b \in Bridges : PayoutRestart(b)) \/ UNCHANGED vars
  <2>1. ledger' = ledger /\ posted' = posted
    BY <1>2, PayoutLeavesRosters
  <2> QED
    BY <2>1 DEF RInv, Rostered
<1> QED
  BY <1>1, <1>2 DEF PayoutNext

LEMMA RostersAreOne == RInv => OneRoster
<1> SUFFICES ASSUME RInv, NEW a \in Bridges, NEW b \in Bridges
             PROVE  /\ b \in ledger[a].commits =>
                         Full(ledger[b]) /\ ledger[b].peers = ledger[a].peers
                    /\ Complete(ledger[a]) /\ Complete(ledger[b]) =>
                         ledger[a].peers = ledger[b].peers /\ ledger[a].peers = Bridges
  BY DEF OneRoster
<1>1. \A c \in Bridges : Full(ledger[c]) <=> ledger[c].peers = Bridges
  BY FullIsAll DEF RInv, Sane
<1> QED
  BY <1>1 DEF RInv, Sane, Complete

\* Two complete financial rosters are the same, whatever was lost, came twice or
\* came early, and whoever else announced a key (BindSeats, CommitRoster).
THEOREM CompleteRostersAgree == PayoutSpec => []OneRoster
<1>1. PayoutSpec => []RInv
  BY RosterInit, RosterStep, PTL DEF PayoutSpec
<1> QED
  BY <1>1, RostersAreOne, PTL

-----------------------------------------------------------------------------
(* What is signed                                                          *)

Signs(b, t) == operations[b][t] # "none"

PTyping ==
  /\ settlements \in [Bridges -> [Payouts -> Settlements]]
  /\ operations \in [Bridges -> [Tx -> OperationStates]]
  /\ call \in [Bridges -> Payouts \cup {None}]
  /\ signed \subseteq Bridges \X Payouts
  /\ chain \in [Tx -> {"unknown", "mempool", "confirmed"}]

\* The two records a bridge keeps of a payout agree, and it counts no signature
\* nobody gave.
Booked ==
  \A b \in Bridges, p \in Payouts :
    /\ b \in settlements[b][p].signatures <=> Signs(b, p)
    /\ Signs(b, p) => settlements[b][p].state \in {"awaiting_signatures"} \cup Settled
    /\ \A c \in settlements[b][p].signatures : Signs(c, p)
    /\ settlements[b][p].state # "none" => ledger[b].peers = Bridges
    /\ Assembled(b, p) => \A c \in Bridges : Signs(c, p)

\* Neither does a message, a call under way or the chain.
Backed ==
  /\ \A b \in Bridges : call[b] \in Payouts => Signs(b, call[b])
  /\ \A b \in Bridges, p \in Payouts : <<b, p>> \in signed => Signs(b, p)
  /\ \A p \in Payouts : chain[p] # "unknown" => \A b \in Bridges : Signs(b, p)

PInv == PTyping /\ Booked /\ Backed /\ SignedOnce

\* Nothing is signed, and the chain gains nothing.
LEMMA QuietKeeps ==
  ASSUME PInv, Rostered, settlements' = settlements, operations' = operations,
         call' = call \/ \E b \in Bridges : call' = [call EXCEPT ![b] = None],
         \A b \in Bridges, p \in Payouts : <<b, p>> \in signed' => <<b, p>> \in signed \/ Signs(b, p),
         signed' \subseteq Bridges \X Payouts,
         chain' \in [Tx -> {"unknown", "mempool", "confirmed"}],
         \A t \in Tx : chain'[t] # "unknown" => chain[t] # "unknown"
  PROVE  PInv'
<1>1. PTyping'
  BY DEF PInv, PTyping
<1>2. Booked'
  BY DEF PInv, Booked, Rostered, Signs, Assembled
<1>3. \A b \in Bridges : call'[b] \in Payouts => call'[b] = call[b]
  BY PayoutAssumption DEF PInv, PTyping
<1>4. Backed'
  BY <1>3 DEF PInv, Backed, Signs, Tx
<1>5. SignedOnce'
  BY DEF PInv, SignedOnce
<1> QED
  BY <1>1, <1>2, <1>4, <1>5 DEF PInv

\* A payout's record at one bridge is written.
LEMMA RecordKeeps ==
  ASSUME PInv, ledger' = ledger,
         NEW b \in Bridges, NEW p \in Payouts, NEW st, NEW sigs,
         [state |-> st, signatures |-> sigs] \in Settlements,
         Set(b, p, st, sigs), operations' = operations,
         UNCHANGED <<call, signed, chain>>,
         b \in sigs <=> Signs(b, p),
         \A c \in sigs : Signs(c, p),
         Signs(b, p) => st \in {"awaiting_signatures"} \cup Settled,
         ledger[b].peers = Bridges
  PROVE  PInv'
<1> DEFINE rec == [state |-> st, signatures |-> sigs]
<1>1. /\ settlements' \in [Bridges -> [Payouts -> Settlements]]
      /\ settlements'[b][p] = rec
      /\ \A a \in Bridges, r \in Payouts :
           a # b \/ r # p => settlements'[a][r] = settlements[a][r]
  BY DEF Set, PInv, PTyping
<1>2. rec.state = st /\ rec.signatures = sigs
  OBVIOUS
<1> HIDE DEF rec
<1>3. Booked'
  <2> SUFFICES ASSUME NEW a \in Bridges, NEW r \in Payouts
               PROVE
    /\ a \in settlements'[a][r].signatures <=> Signs(a, r)'
    /\ Signs(a, r)' => settlements'[a][r].state \in {"awaiting_signatures"} \cup Settled
    /\ \A c \in settlements'[a][r].signatures : Signs(c, r)'
    /\ settlements'[a][r].state # "none" => ledger'[a].peers = Bridges
    /\ Assembled(a, r)' => \A c \in Bridges : Signs(c, r)'
    BY DEF Booked
  <2>1. CASE a = b /\ r = p
    BY <1>1, <1>2, <2>1 DEF PInv, Booked, Signs, Assembled
  <2>2. CASE a # b \/ r # p
    BY <1>1, <2>2 DEF PInv, Booked, Signs, Assembled
  <2> QED
    BY <2>1, <2>2
<1>4. PTyping' /\ Backed' /\ SignedOnce'
  BY <1>1 DEF PInv, PTyping, Backed, SignedOnce, Signs
<1> QED
  BY <1>3, <1>4 DEF PInv

\* What AddSettlementSignatures() does to the two records.
LEMMA AddedIsBooked ==
  ASSUME PInv, ledger' = ledger, NEW b \in Bridges, NEW c \in Bridges, NEW p \in Payouts,
         Signs(c, p), AddSignatures(b, p, c)
  PROVE  /\ settlements' \in [Bridges -> [Payouts -> Settlements]]
         /\ operations' \in [Bridges -> [Tx -> OperationStates]]
         /\ Booked' /\ SignedOnce'
         /\ \A a \in Bridges, t \in Tx : Signs(a, t) => Signs(a, t)'
<1>1. CASE Assembled(b, p)
  <2>1. UNCHANGED <<settlements, operations>>
    BY <1>1 DEF AddSignatures
  <2> QED
    BY <2>1 DEF PInv, PTyping, Booked, SignedOnce, Signs, Assembled
<1>2. CASE ~Assembled(b, p)
  <2> DEFINE old   == settlements[b][p]
             all   == old.signatures \cup {c}
             ready == all = ledger[b].peers /\ b \in all
             rec   == [state |-> IF ready THEN "publishing" ELSE old.state, signatures |-> all]
  <2>1. /\ settlements' = [settlements EXCEPT ![b][p] = rec]
        /\ operations' = IF ready THEN [operations EXCEPT ![b][p] = "publishing"] ELSE operations
        /\ old.state # "none"
    BY <1>2 DEF AddSignatures, Set, Settled
  <2>2. old \in Settlements
    BY DEF PInv, PTyping
  <2>3. ledger[b].peers = Bridges
    BY <2>1 DEF PInv, Booked
  <2>4. \A a \in all : Signs(a, p)
    BY DEF PInv, Booked
  <2>5. ready => \A a \in Bridges : Signs(a, p)
    BY <2>3, <2>4
  <2>6. rec \in Settlements /\ rec.signatures = all
        /\ rec.state = IF ready THEN "publishing" ELSE old.state
    BY <2>2 DEF Settlements, Settled
  <2>7. /\ b \in all <=> Signs(b, p)
        /\ Signs(b, p) => old.state \in {"awaiting_signatures"} \cup Settled
    BY <2>4 DEF PInv, Booked
  <2>8. p \in Tx
    BY DEF Tx
  <2> HIDE DEF old, all, ready, rec
  <2>9. /\ settlements' \in [Bridges -> [Payouts -> Settlements]]
        /\ settlements'[b][p] = rec
        /\ \A a \in Bridges, r \in Payouts :
             a # b \/ r # p => settlements'[a][r] = settlements[a][r]
    BY <2>1, <2>6 DEF PInv, PTyping
  <2>10. /\ operations' \in [Bridges -> [Tx -> OperationStates]]
         /\ operations'[b][p] = IF ready THEN "publishing" ELSE operations[b][p]
         /\ \A a \in Bridges, t \in Tx :
              a # b \/ t # p => operations'[a][t] = operations[a][t]
    <3>1. "publishing" \in OperationStates
      BY DEF OperationStates, Settled
    <3>2. operations \in [Bridges -> [Tx -> OperationStates]]
      BY DEF PInv, PTyping
    <3>3. CASE ready
      BY <2>1, <2>8, <3>1, <3>2, <3>3
    <3>4. CASE ~ready
      BY <2>1, <3>2, <3>4
    <3> QED
      BY <3>3, <3>4
  <2>11. \A a \in Bridges, t \in Tx : Signs(a, t)' <=> Signs(a, t)
    BY <2>5, <2>10 DEF Signs
  <2>12. Booked'
    <3> SUFFICES ASSUME NEW a \in Bridges, NEW r \in Payouts
                 PROVE
      /\ a \in settlements'[a][r].signatures <=> Signs(a, r)'
      /\ Signs(a, r)' => settlements'[a][r].state \in {"awaiting_signatures"} \cup Settled
      /\ \A d \in settlements'[a][r].signatures : Signs(d, r)'
      /\ settlements'[a][r].state # "none" => ledger'[a].peers = Bridges
      /\ Assembled(a, r)' => \A d \in Bridges : Signs(d, r)'
      BY DEF Booked
    <3>1. r \in Tx /\ settlements'[a][r].signatures \subseteq Bridges
      BY <2>9 DEF Tx, Settlements
    <3>2. CASE a = b /\ r = p
      <4>1. Assembled(a, r)' => ready \/ Assembled(a, r)
        BY <2>10, <3>2 DEF Assembled
      <4> QED
        BY <2>3, <2>4, <2>5, <2>6, <2>7, <2>8, <2>9, <2>11, <3>1, <3>2, <4>1
           DEF PInv, Booked, Settled
    <3>3. CASE a # b \/ r # p
      <4>1. settlements'[a][r] = settlements[a][r] /\ (Assembled(a, r)' <=> Assembled(a, r))
        BY <2>9, <2>10, <3>1, <3>3 DEF Assembled
      <4> QED
        BY <2>11, <3>1, <4>1 DEF PInv, Booked
    <3> QED
      BY <3>2, <3>3
  <2>13. SignedOnce'
    BY <2>11 DEF PInv, SignedOnce, Signs, Tx
  <2> QED
    BY <2>9, <2>10, <2>11, <2>12, <2>13
<1> QED
  BY <1>1, <1>2

-----------------------------------------------------------------------------
(* One lemma per action on a payout                                        *)

LEMMA FullRoster ==
  ASSUME RInv, NEW b \in Bridges, Complete(ledger[b])
  PROVE  ledger[b].peers = Bridges
BY FullIsAll DEF RInv, Sane, Complete

LEMMA ProposalKeeps ==
  ASSUME RInv, PInv, NEW b \in Bridges, NEW p \in Payouts,
         Propose(b, p) \/ Expire(b, p) \/ Reject(b, p)
  PROVE  PInv'
<1> DEFINE old == settlements[b][p]
<1>1. old \in Settlements
  BY DEF PInv, PTyping
<1>2. UNCHANGED <<operations, call, signed, chain, ledger>>
  BY DEF Propose, Expire, Reject, roster, node
<1>3. CASE Propose(b, p)
  <2>1. ledger[b].peers = Bridges /\ ~Signs(b, p)
    <3>1. Complete(ledger[b]) /\ old.state \in {"none", "expired"}
      BY <1>3 DEF Propose, MayPropose
    <3> QED
      BY <3>1, FullRoster DEF PInv, Booked, Settled
  <2>2. [state |-> "awaiting_approval", signatures |-> {}] \in Settlements
    BY DEF Settlements, Settled
  <2>3. Set(b, p, "awaiting_approval", {})
    BY <1>3 DEF Propose
  <2> QED
    BY <1>2, <2>1, <2>2, <2>3, RecordKeeps
<1>4. CASE Expire(b, p)
  <2>1. old.state = "awaiting_approval" /\ Set(b, p, "expired", old.signatures)
    BY <1>4 DEF Expire
  <2>2. ledger[b].peers = Bridges /\ ~Signs(b, p)
    BY <2>1 DEF PInv, Booked, Settled
  <2>3. [state |-> "expired", signatures |-> old.signatures] \in Settlements
    BY <1>1 DEF Settlements
  <2>4. /\ b \in old.signatures <=> Signs(b, p)
        /\ \A c \in old.signatures : Signs(c, p)
    BY DEF PInv, Booked
  <2> HIDE DEF old
  <2> QED
    BY <1>2, <2>1, <2>2, <2>3, <2>4, RecordKeeps
<1>5. CASE Reject(b, p)
  <2>1. old.state = "awaiting_approval" /\ Set(b, p, "rejected", {})
    BY <1>5 DEF Reject
  <2>2. ledger[b].peers = Bridges /\ ~Signs(b, p)
    BY <2>1 DEF PInv, Booked, Settled
  <2>3. [state |-> "rejected", signatures |-> {}] \in Settlements
    BY DEF Settlements
  <2> QED
    BY <1>2, <2>1, <2>2, <2>3, RecordKeeps
<1> QED
  BY <1>3, <1>4, <1>5

LEMMA ApproveKeeps ==
  ASSUME PInv, NEW b \in Bridges, NEW p \in Payouts, Approve(b, p)
  PROVE  PInv'
<1>1. /\ UNCHANGED <<signed, chain, ledger>>
      /\ call' = [call EXCEPT ![b] = p] /\ call[b] = None
  BY DEF Approve, roster, node
<1>2. p \in Tx
  BY DEF Tx
<1>3. CASE b \in settlements[b][p].signatures /\ UNCHANGED <<settlements, operations>>
  <2>1. Signs(b, p)
    BY <1>3 DEF PInv, Booked
  <2> QED
    BY <1>1, <1>3, <2>1 DEF PInv, PTyping, Booked, Backed, SignedOnce, Signs, Assembled
<1>4. CASE /\ b \notin settlements[b][p].signatures /\ MaySign(b, p)
           /\ Set(b, p, "awaiting_signatures", settlements[b][p].signatures \cup {b})
           /\ operations' = [operations EXCEPT ![b][p] = "awaiting_signatures"]
  <2> DEFINE rec == [state |-> "awaiting_signatures", signatures |-> settlements[b][p].signatures \cup {b}]
  <2>1. rec \in Settlements
    BY DEF PInv, PTyping, Settlements
  <2>2. rec.state = "awaiting_signatures" /\ rec.signatures = settlements[b][p].signatures \cup {b}
    OBVIOUS
  <2>3. settlements' = [settlements EXCEPT ![b][p] = rec]
    BY <1>4 DEF Set
  <2>4. \A t \in Tx : ~Signs(b, t)
    BY <1>4 DEF MaySign, Signs
  <2>5. ledger[b].peers = Bridges
    BY <1>4 DEF MaySign, PInv, Booked
  <2> HIDE DEF rec
  <2>6. /\ settlements' \in [Bridges -> [Payouts -> Settlements]]
        /\ settlements'[b][p] = rec
        /\ \A a \in Bridges, r \in Payouts :
             a # b \/ r # p => settlements'[a][r] = settlements[a][r]
    BY <2>1, <2>3 DEF PInv, PTyping
  <2>7. /\ operations' \in [Bridges -> [Tx -> OperationStates]]
        /\ operations'[b][p] = "awaiting_signatures"
        /\ \A a \in Bridges, t \in Tx :
             a # b \/ t # p => operations'[a][t] = operations[a][t]
    <3>1. "awaiting_signatures" \in OperationStates
      BY DEF OperationStates
    <3> QED
      BY <1>2, <1>4, <3>1 DEF PInv, PTyping
  <2>8. Signs(b, p)' /\ \A a \in Bridges, t \in Tx : a # b \/ t # p => (Signs(a, t)' <=> Signs(a, t))
    BY <2>7 DEF Signs
  <2>9. \A a \in Bridges, t \in Tx : Signs(a, t) => Signs(a, t)'
    BY <2>8
  <2>10. Booked'
    <3> SUFFICES ASSUME NEW a \in Bridges, NEW r \in Payouts
                 PROVE
      /\ a \in settlements'[a][r].signatures <=> Signs(a, r)'
      /\ Signs(a, r)' => settlements'[a][r].state \in {"awaiting_signatures"} \cup Settled
      /\ \A d \in settlements'[a][r].signatures : Signs(d, r)'
      /\ settlements'[a][r].state # "none" => ledger'[a].peers = Bridges
      /\ Assembled(a, r)' => \A d \in Bridges : Signs(d, r)'
      BY DEF Booked
    <3>1. r \in Tx
      BY DEF Tx
    <3>2. CASE a = b /\ r = p
      <4>1. \A d \in settlements[b][p].signatures : d \in Bridges /\ Signs(d, p)
        BY DEF PInv, PTyping, Booked, Settlements
      <4>2. ~Assembled(a, r)'
        BY <2>7, <3>2 DEF Assembled
      <4> QED
        BY <1>1, <1>2, <2>2, <2>5, <2>6, <2>8, <2>9, <3>2, <4>1, <4>2
    <3>3. CASE a # b \/ r # p
      <4>1. /\ settlements'[a][r] = settlements[a][r]
            /\ Signs(a, r)' <=> Signs(a, r)
            /\ Assembled(a, r)' <=> Assembled(a, r)
        BY <2>6, <2>7, <2>8, <3>1, <3>3 DEF Assembled
      <4>2. settlements[a][r].signatures \subseteq Bridges
        BY DEF PInv, PTyping, Settlements
      <4> QED
        BY <1>1, <2>9, <3>1, <4>1, <4>2 DEF PInv, Booked
    <3> QED
      BY <3>2, <3>3
  <2>11. Backed'
    BY <1>1, <1>2, <2>8, <2>9 DEF PInv, PTyping, Backed, Tx
  <2>12. SignedOnce'
    <3>1. \A r \in Payouts : Signs(b, r)' => r = p
      BY <2>4, <2>8 DEF Tx
    <3>2. \A a \in Bridges, q \in Quotes : Signs(a, q)' => Signs(a, q)
      BY <2>8, PayoutAssumption DEF Tx
    <3>3. \A a \in Bridges, r \in Payouts : a # b /\ Signs(a, r)' => Signs(a, r)
      BY <2>8 DEF Tx
    <3> QED
      BY <3>1, <3>2, <3>3 DEF PInv, SignedOnce, Signs
  <2>13. PTyping'
    BY <1>1, <2>6, <2>7 DEF PInv, PTyping
  <2> QED
    BY <2>10, <2>11, <2>12, <2>13 DEF PInv
<1> QED
  BY <1>3, <1>4 DEF Approve

LEMMA AddOwnKeeps ==
  ASSUME PInv, NEW b \in Bridges, NEW p \in Payouts, AddOwn(b, p)
  PROVE  PInv'
<1>1. UNCHANGED <<chain, ledger>> /\ call' = [call EXCEPT ![b] = None] /\ call[b] = p
  BY DEF AddOwn, unfailed, node
<1>2. Signs(b, p)
  BY <1>1 DEF PInv, Backed
<1>3. signed' \subseteq Bridges \X Payouts
  BY DEF AddOwn, Send, PInv, PTyping
<1>4. \A a \in Bridges, r \in Payouts :
        <<a, r>> \in signed' => <<a, r>> \in signed \/ Signs(a, r)
  BY <1>2 DEF AddOwn, Send
<1>5. CASE UNCHANGED <<settlements, operations>>
  <2>1. chain' \in [Tx -> {"unknown", "mempool", "confirmed"}]
    BY <1>1 DEF PInv, PTyping
  <2> QED
    BY <1>1, <1>3, <1>4, <1>5, <2>1, QuietKeeps DEF Rostered
<1>6. CASE AddSignatures(b, p, b)
  <2>1. /\ settlements' \in [Bridges -> [Payouts -> Settlements]]
        /\ operations' \in [Bridges -> [Tx -> OperationStates]]
        /\ Booked' /\ SignedOnce'
        /\ \A a \in Bridges, t \in Tx : Signs(a, t) => Signs(a, t)'
    BY <1>1, <1>2, <1>6, AddedIsBooked
  <2>2. call' \in [Bridges -> Payouts \cup {None}]
    BY <1>1 DEF PInv, PTyping
  <2>3. PTyping'
    BY <1>1, <1>3, <2>1, <2>2 DEF PInv, PTyping
  <2>4. \A a \in Bridges : call'[a] \in Payouts => call'[a] = call[a]
    BY <1>1, PayoutAssumption DEF PInv, PTyping
  <2>5. Backed'
    BY <1>1, <1>4, <2>1, <2>4 DEF PInv, Backed, Tx
  <2> QED
    BY <2>1, <2>3, <2>5 DEF PInv
<1> QED
  BY <1>5, <1>6 DEF AddOwn

LEMMA ReceiveSignaturesKeeps ==
  ASSUME PInv, NEW b \in Bridges, NEW c \in Bridges, NEW p \in Payouts, ReceiveSignatures(b, c, p)
  PROVE  PInv'
<1>1. UNCHANGED <<chain, ledger, call, signed>>
  BY DEF ReceiveSignatures, roster, node
<1>2. Signs(c, p) /\ AddSignatures(b, p, c)
  BY DEF ReceiveSignatures, PInv, Backed
<1>3. /\ settlements' \in [Bridges -> [Payouts -> Settlements]]
      /\ operations' \in [Bridges -> [Tx -> OperationStates]]
      /\ Booked' /\ SignedOnce'
      /\ \A a \in Bridges, t \in Tx : Signs(a, t) => Signs(a, t)'
  BY <1>1, <1>2, AddedIsBooked
<1> QED
  BY <1>1, <1>3 DEF PInv, PTyping, Backed, Tx

LEMMA ResendKeeps ==
  ASSUME PInv, NEW b \in Bridges, NEW p \in Payouts, Resend(b, p)
  PROVE  PInv'
<1>1. UNCHANGED <<settlements, operations, call, chain, ledger>>
  BY DEF Resend, unfailed, book, node
<1>2. Signs(b, p)
  BY DEF Resend, PInv, Booked
<1>3. signed' = signed \/ signed' = signed \cup {<<b, p>>}
  BY DEF Resend, Send
<1> QED
  BY <1>1, <1>2, <1>3, QuietKeeps DEF Rostered, PInv, PTyping

LEMMA ConfirmKeeps ==
  ASSUME PInv, NEW q \in Quotes, Confirm(q)
  PROVE  PInv'
<1>1. UNCHANGED <<settlements, call, signed, ledger>> /\ q \in Tx /\ Owner(q) \in Bridges
  BY PayoutAssumption DEF Confirm, roster, book, Tx, Owner
<1>2. /\ chain' \in [Tx -> {"unknown", "mempool", "confirmed"}]
      /\ \A p \in Payouts : chain'[p] = chain[p]
  BY <1>1, PayoutAssumption DEF Confirm, Broadcast, PInv, PTyping, Tx
<1>3. CASE UNCHANGED book
  BY <1>1, <1>2, <1>3 DEF book, PInv, PTyping, Booked, Backed, SignedOnce, Signs, Assembled
<1>4. CASE /\ MayRefund(q)
           /\ operations' = [operations EXCEPT ![Owner(q)][q] = "publishing"]
  <2>1. /\ operations' \in [Bridges -> [Tx -> OperationStates]]
        /\ \A a \in Bridges, t \in Tx :
             a # Owner(q) \/ t # q => operations'[a][t] = operations[a][t]
    <3>1. "publishing" \in OperationStates
      BY DEF OperationStates, Settled
    <3> QED
      BY <1>1, <1>4, <3>1 DEF PInv, PTyping
  <2>2. \A a \in Bridges, p \in Payouts : p \in Tx /\ operations'[a][p] = operations[a][p]
    BY <2>1, PayoutAssumption DEF Tx
  <2>3. \A r \in Quotes : operations[Owner(q)][r] = "none"
    BY <1>4 DEF MayRefund, Unreserved
  <2>4. SignedOnce'
    <3>1. \A r \in Quotes : operations'[Owner(q)][r] # "none" => r = q
      BY <1>1, <2>1, <2>3 DEF Tx
    <3>2. \A a \in Bridges, r \in Quotes : a # Owner(q) => operations'[a][r] = operations[a][r]
      BY <2>1 DEF Tx
    <3> QED
      BY <2>2, <3>1, <3>2 DEF PInv, SignedOnce
  <2>5. Booked'
    BY <1>1, <2>2 DEF PInv, PTyping, Settlements, Booked, Signs, Assembled
  <2>6. Backed'
    BY <1>1, <1>2, <2>2 DEF PInv, PTyping, Backed, Signs
  <2>7. PTyping'
    BY <1>1, <1>2, <2>1 DEF PInv, PTyping
  <2> QED
    BY <2>4, <2>5, <2>6, <2>7 DEF PInv
<1> QED
  BY <1>3, <1>4 DEF Confirm

LEMMA ReconcileOperationKeeps ==
  ASSUME PInv, NEW b \in Bridges, NEW t \in Tx, NEW reached \in BOOLEAN,
         ReconcileOperation(b, t, reached)
  PROVE  PInv'
<1> DEFINE state == IF chain[t] = "unknown" THEN "publishing" ELSE chain[t]
<1>1. UNCHANGED <<call, signed, ledger>> /\ operations[b][t] \notin {"none", "awaiting_signatures"}
  BY DEF ReconcileOperation, roster
<1>2. state \in {"publishing", "mempool", "confirmed"}
  BY DEF PInv, PTyping
<1>3. operations' = [operations EXCEPT ![b][t] = state]
  BY DEF ReconcileOperation
<1>4. IF t \in Payouts
      THEN settlements' = [settlements EXCEPT ![b][t] =
             [state |-> PayoutState(state), signatures |-> settlements[b][t].signatures]]
      ELSE UNCHANGED settlements
  BY DEF ReconcileOperation, Set
<1>5. /\ chain' \in [Tx -> {"unknown", "mempool", "confirmed"}]
      /\ \A r \in Tx : chain'[r] # "unknown" => chain[r] # "unknown" \/ r = t
  BY DEF ReconcileOperation, Broadcast, PInv, PTyping
<1> HIDE DEF state
<1>6. PayoutState(state) \in Settled
  BY <1>2 DEF PayoutState, Settled
<1>7. /\ operations' \in [Bridges -> [Tx -> OperationStates]]
      /\ \A a \in Bridges, r \in Tx : Signs(a, r)' <=> Signs(a, r)
      /\ \A a \in Bridges, r \in Payouts : Assembled(a, r)' <=> Assembled(a, r)
  <2>1. state \in OperationStates
    BY <1>2 DEF OperationStates, Settled
  <2>2. /\ operations' \in [Bridges -> [Tx -> OperationStates]]
        /\ operations'[b][t] = state
        /\ \A a \in Bridges, r \in Tx : a # b \/ r # t => operations'[a][r] = operations[a][r]
    BY <1>3, <2>1 DEF PInv, PTyping
  <2> QED
    BY <1>1, <1>2, <2>2 DEF Signs, Assembled, Tx
<1>8. /\ settlements' \in [Bridges -> [Payouts -> Settlements]]
      /\ \A a \in Bridges, r \in Payouts :
           /\ settlements'[a][r].signatures = settlements[a][r].signatures
           /\ \/ settlements'[a][r].state = settlements[a][r].state
              \/ a = b /\ r = t /\ settlements'[a][r].state \in Settled
  <2>1. CASE t \in Payouts
    <3> DEFINE rec == [state |-> PayoutState(state), signatures |-> settlements[b][t].signatures]
    <3>1. rec \in Settlements
      BY <1>6, <2>1 DEF PInv, PTyping, Settlements
    <3>2. rec.state = PayoutState(state) /\ rec.signatures = settlements[b][t].signatures
      OBVIOUS
    <3>3. settlements' = [settlements EXCEPT ![b][t] = rec]
      BY <1>4, <2>1
    <3> HIDE DEF rec
    <3> QED
      BY <1>6, <2>1, <3>1, <3>2, <3>3 DEF PInv, PTyping
  <2>2. CASE t \notin Payouts
    BY <1>4, <2>2 DEF PInv, PTyping
  <2> QED
    BY <2>1, <2>2
<1>9. t \in Payouts => ledger[b].peers = Bridges /\ \A a \in Bridges : Signs(a, t)
  BY <1>1 DEF PInv, Booked, Assembled, Signs, Settled
<1>10. Booked'
  <2> SUFFICES ASSUME NEW a \in Bridges, NEW r \in Payouts
               PROVE
    /\ a \in settlements'[a][r].signatures <=> Signs(a, r)'
    /\ Signs(a, r)' => settlements'[a][r].state \in {"awaiting_signatures"} \cup Settled
    /\ \A d \in settlements'[a][r].signatures : Signs(d, r)'
    /\ settlements'[a][r].state # "none" => ledger'[a].peers = Bridges
    /\ Assembled(a, r)' => \A d \in Bridges : Signs(d, r)'
    BY DEF Booked
  <2>1. r \in Tx /\ settlements[a][r].signatures \subseteq Bridges
    BY DEF Tx, PInv, PTyping, Settlements
  <2> QED
    BY <1>1, <1>7, <1>8, <1>9, <2>1 DEF PInv, Booked
<1>11. Backed'
  BY <1>1, <1>5, <1>7, <1>9 DEF PInv, PTyping, Backed, Tx
<1>12. SignedOnce'
  BY <1>7 DEF PInv, SignedOnce, Signs, Tx
<1>13. PTyping'
  BY <1>1, <1>5, <1>7, <1>8 DEF PInv, PTyping
<1> QED
  BY <1>10, <1>11, <1>12, <1>13 DEF PInv

LEMMA ChainKeeps ==
  ASSUME PInv,
         \/ \E t \in Tx : Mine(t) \/ \E where \in {"mempool", "unknown"} : Unmine(t, where)
         \/ \E b \in Bridges : Stake(b) \/ ReconcileDeposit(b)
         \/ \E q \in Quotes : Quote(q)
         \/ LockRunsOut
  PROVE  PInv'
<1>1. UNCHANGED <<settlements, operations, call, signed, ledger>>
  BY DEF Mine, Unmine, Stake, ReconcileDeposit, Quote, LockRunsOut, roster, unfailed, book
<1>2. /\ chain' \in [Tx -> {"unknown", "mempool", "confirmed"}]
      /\ \A t \in Tx : chain'[t] # "unknown" => chain[t] # "unknown"
  <2>1. ASSUME NEW t \in Tx, Mine(t) \/ \E where \in {"mempool", "unknown"} : Unmine(t, where)
        PROVE  \E where \in {"unknown", "mempool", "confirmed"} :
                 chain[t] # "unknown" /\ chain' = [chain EXCEPT ![t] = where]
    BY <2>1 DEF Mine, Unmine
  <2>2. CASE chain' = chain
    BY <2>2 DEF PInv, PTyping
  <2>3. CASE \E t \in Tx : \E where \in {"unknown", "mempool", "confirmed"} :
               chain[t] # "unknown" /\ chain' = [chain EXCEPT ![t] = where]
    BY <2>3 DEF PInv, PTyping
  <2> QED
    BY <2>1, <2>2, <2>3 DEF Stake, ReconcileDeposit, Quote, LockRunsOut, node
<1> QED
  BY <1>1, <1>2, QuietKeeps DEF Rostered, PInv, PTyping

-----------------------------------------------------------------------------
(* The theorems                                                            *)

LEMMA PayoutInits == PayoutInit => PInv
BY PayoutAssumption DEF PayoutInit, Init, PInv, PTyping, Booked, Backed, SignedOnce, Signs,
   Assembled, Settlements, OperationStates, Settled, Tx

LEMMA PayoutSteps == RInv /\ PInv /\ [PayoutNext]_vars => PInv'
<1> SUFFICES ASSUME RInv, PInv, [PayoutNext]_vars PROVE PInv'
  OBVIOUS
<1>1. Rostered
  BY RosterStep
<1>2. CASE (Next /\ UNCHANGED payout) \/ (\E b \in Bridges : PayoutRestart(b)) \/ UNCHANGED vars
  <2>1. UNCHANGED <<settlements, operations, signed, chain>>
    BY <1>2 DEF PayoutRestart, vars, payout, book, node
  <2>2. call' = call \/ \E b \in Bridges : call' = [call EXCEPT ![b] = None]
    BY <1>2 DEF PayoutRestart, vars, payout
  <2>3. signed' \subseteq Bridges \X Payouts /\ chain' \in [Tx -> {"unknown", "mempool", "confirmed"}]
    BY <2>1 DEF PInv, PTyping
  <2> QED
    BY <1>1, <2>1, <2>2, <2>3, QuietKeeps
<1>3. CASE PayoutStep
  <2>1. ASSUME NEW b \in Bridges, NEW p \in Payouts,
               \/ Propose(b, p) \/ Expire(b, p) \/ Reject(b, p) \/ Approve(b, p)
               \/ AddOwn(b, p) \/ Resend(b, p)
               \/ \E c \in Bridges : ReceiveSignatures(b, c, p)
        PROVE  PInv'
    BY <2>1, ProposalKeeps, ApproveKeeps, AddOwnKeeps, ResendKeeps, ReceiveSignaturesKeeps
  <2>2. ASSUME NEW q \in Quotes, Quote(q) \/ Confirm(q)
        PROVE  PInv'
    BY <2>2, ConfirmKeeps, ChainKeeps
  <2>3. ASSUME NEW b \in Bridges, NEW t \in Tx, NEW reached \in BOOLEAN,
               ReconcileOperation(b, t, reached)
        PROVE  PInv'
    BY <2>3, ReconcileOperationKeeps
  <2>4. CASE \/ \E b \in Bridges : Stake(b) \/ ReconcileDeposit(b)
             \/ \E t \in Tx : Mine(t) \/ \E where \in {"mempool", "unknown"} : Unmine(t, where)
             \/ LockRunsOut
    BY <2>4, ChainKeeps
  <2> QED
    BY <1>3, <2>1, <2>2, <2>3, <2>4 DEF PayoutStep
<1> QED
  BY <1>2, <1>3 DEF PayoutNext

\* What no signature depends on.
RestOK ==
  /\ deposit \in [Bridges ->
       [state : {"confirmed", "recovery_pending", "spend_pending", "spent", "needs_attention"},
        spendingTx : Tx \cup {None}]]
  /\ quotes \in [Quotes -> {"none", "open", "approved"}]
  /\ seen \in [Bridges -> SUBSET (Bridges \X Payouts)]
  /\ staked \subseteq Bridges
  /\ mature \in BOOLEAN

\* What ObserveDeposit() finds is a transaction of the table, or none.
LEMMA ObservedTyped ==
  ASSUME NEW b \in Bridges
  PROVE  Observed(b) \in
           [state : {"confirmed", "recovery_pending", "spend_pending", "spent", "needs_attention"},
            spendingTx : Tx \cup {None}]
<1>1. ASSUME NEW where, Spends(b, where) # {}
      PROVE  (CHOOSE t \in Spends(b, where) : TRUE) \in Tx
  <2>1. (CHOOSE t \in Spends(b, where) : TRUE) \in Spends(b, where)
    BY <1>1
  <2>2. Spends(b, where) \subseteq Tx
    BY DEF Spends
  <2> QED
    BY <2>1, <2>2
<1> QED
  BY <1>1 DEF Observed

LEMMA RestStep == PInv /\ RestOK /\ [PayoutNext]_vars => RestOK'
<1> SUFFICES ASSUME PInv, RestOK, [PayoutNext]_vars PROVE RestOK'
  OBVIOUS
<1>1. CASE (Next /\ UNCHANGED payout) \/ UNCHANGED vars
  BY <1>1 DEF RestOK, vars, payout, book, node, Tx
<1>2. CASE \E b \in Bridges : PayoutRestart(b)
  BY <1>2 DEF RestOK, PayoutRestart, book, node
<1>3. CASE PayoutStep
  <2>1. ASSUME NEW b \in Bridges, NEW p \in Payouts,
               \/ Propose(b, p) \/ Expire(b, p) \/ Reject(b, p) \/ Approve(b, p)
               \/ AddOwn(b, p) \/ Resend(b, p)
        PROVE  RestOK'
    BY <2>1 DEF RestOK, Propose, Expire, Reject, Approve, AddOwn, Resend, book, node
  <2>2. ASSUME NEW b \in Bridges, NEW p \in Payouts, NEW c \in Bridges,
               ReceiveSignatures(b, c, p)
        PROVE  RestOK'
    BY <2>2 DEF RestOK, ReceiveSignatures, node
  <2>3. ASSUME NEW q \in Quotes, Quote(q) \/ Confirm(q)
        PROVE  RestOK'
    <3>1. Owner(q) \in Bridges
      BY PayoutAssumption DEF Owner
    <3> QED
      BY <2>3, <3>1 DEF RestOK, Quote, Confirm, MayRefund, book, node
  <2>4. ASSUME NEW b \in Bridges, Stake(b) \/ ReconcileDeposit(b)
        PROVE  RestOK'
    BY <2>4, ObservedTyped DEF RestOK, Stake, ReconcileDeposit, book, node
  <2>5. ASSUME NEW b \in Bridges, NEW t \in Tx, NEW reached \in BOOLEAN,
               ReconcileOperation(b, t, reached)
        PROVE  RestOK'
    <3>1. DepositAfter(deposit[b], t, chain[t]) \in
            [state : {"confirmed", "recovery_pending", "spend_pending", "spent", "needs_attention"},
             spendingTx : Tx \cup {None}]
      BY DEF RestOK, DepositAfter
    <3> QED
      BY <2>5, <3>1 DEF RestOK, ReconcileOperation
  <2>6. CASE \/ \E t \in Tx : Mine(t) \/ \E where \in {"mempool", "unknown"} : Unmine(t, where)
             \/ LockRunsOut
    BY <2>6 DEF RestOK, Mine, Unmine, LockRunsOut, book
  <2> QED
    BY <1>3, <2>1, <2>2, <2>3, <2>4, <2>5, <2>6 DEF PayoutStep
<1> QED
  BY <1>1, <1>2, <1>3 DEF PayoutNext

LEMMA Inductive == PayoutSpec => [](RInv /\ PInv)
<1>1. PayoutInit => RInv /\ PInv
  BY RosterInit, PayoutInits
<1>2. RInv /\ PInv /\ [PayoutNext]_vars => (RInv /\ PInv)'
  BY RosterStep, PayoutSteps
<1> QED
  BY <1>1, <1>2, PTL DEF PayoutSpec

\* Nobody's stake is moved without them: a payout on the chain, or one any bridge could
\* put there, has the approval of every seat's operator, and none rejected it
\* (ApproveSettlement, RejectSettlement, AddSettlementSignatures).
THEOREM PayoutsAreApproved == PayoutSpec => []PaidTogether
<1>1. PInv => PaidTogether
  <2> SUFFICES ASSUME PInv, NEW p \in Payouts, NEW b \in Bridges,
                      chain[p] # "unknown" \/ \E a \in Bridges : Assembled(a, p)
               PROVE  /\ operations[b][p] # "none" /\ b \in settlements[b][p].signatures
                      /\ settlements[b][p].state # "rejected"
    BY DEF PaidTogether
  <2>1. Signs(b, p)
    BY DEF PInv, Booked, Backed
  <2> QED
    BY <2>1 DEF PInv, Booked, Signs, Settled
<1> QED
  BY <1>1, Inductive, PTL

\* However often proposals and quotes are renewed and the bridge restarts, it signs its
\* stake away to one payout and one refund (ApproveSettlement, ApproveRecovery).
THEOREM StakesAreSignedOnce == PayoutSpec => []SignedOnce
<1>1. PInv => SignedOnce
  BY DEF PInv
<1> QED
  BY <1>1, Inductive, PTL

\* Every state of the bridges' payouts and refunds, their messages and the chain is well
\* typed (funds.Settlement, funds.Operation, funds.Deposit, recoveryQuote).
THEOREM PayoutsTyped == PayoutSpec => []PayoutTypeOK
<1>1. PayoutInit => RestOK
  <2> SUFFICES ASSUME PayoutInit PROVE RestOK
    OBVIOUS
  <2> DEFINE none == [state |-> "confirmed", spendingTx |-> None]
  <2>1. none \in
          [state : {"confirmed", "recovery_pending", "spend_pending", "spent", "needs_attention"},
           spendingTx : Tx \cup {None}]
    OBVIOUS
  <2>2. deposit = [b \in Bridges |-> none]
    BY DEF PayoutInit
  <2> HIDE DEF none
  <2>3. seen \in [Bridges -> SUBSET (Bridges \X Payouts)]
    BY DEF PayoutInit
  <2>4. deposit \in [Bridges ->
          [state : {"confirmed", "recovery_pending", "spend_pending", "spent", "needs_attention"},
           spendingTx : Tx \cup {None}]]
    BY <2>1, <2>2
  <2> QED
    BY <2>3, <2>4 DEF PayoutInit, RestOK
<1>2. PInv /\ RestOK => PayoutTypeOK
  BY DEF PInv, PTyping, RestOK, PayoutTypeOK
<1> QED
  BY <1>1, <1>2, RestStep, Inductive, PTL DEF PayoutSpec

-----------------------------------------------------------------------------
(* What was assembled stays                                                *)

\* The payout and its operation are taken to be assembled together.
Together == \A b \in Bridges, p \in Payouts : Assembled(b, p) => settlements[b][p].state \in Settled

Stands(b, p) ==
  Assembled(b, p) =>
    /\ Assembled(b, p)' /\ settlements'[b][p].state \in Settled
    /\ operations[b][p] # operations'[b][p]
         => operations'[b][p] = IF chain[p] = "unknown" THEN "publishing" ELSE chain[p]

AllStand == (\A b \in Bridges, p \in Payouts : Stands(b, p)) /\ Together'

\* Nobody writes the two records.
LEMMA UnwrittenStands ==
  ASSUME Together, UNCHANGED <<settlements, operations>>
  PROVE  AllStand
BY DEF Together, AllStand, Stands, Assembled

\* A payout that is not assembled is written, and not taken to be.
LEMMA ProposalStands ==
  ASSUME PInv, Together, NEW b \in Bridges, NEW p \in Payouts, NEW st, NEW sigs,
         Set(b, p, st, sigs), ~Assembled(b, p),
         \/ operations' = operations
         \/ operations' = [operations EXCEPT ![b][p] = "awaiting_signatures"]
  PROVE  AllStand
<1>1. /\ \A a \in Bridges, r \in Payouts :
           a # b \/ r # p => settlements'[a][r] = settlements[a][r] /\ operations'[a][r] = operations[a][r]
      /\ ~Assembled(b, p)'
  BY DEF Set, PInv, PTyping, Assembled, Tx
<1> QED
  BY <1>1 DEF Together, AllStand, Stands, Assembled

LEMMA SignaturesStand ==
  ASSUME PInv, Together, NEW b \in Bridges, NEW p \in Payouts, NEW c, AddSignatures(b, p, c)
  PROVE  AllStand
<1>1. CASE UNCHANGED <<settlements, operations>>
  BY <1>1, UnwrittenStands
<1>2. CASE ~Assembled(b, p) /\ \E st, sigs : Set(b, p, st, sigs) /\ operations' = operations
  BY <1>2, ProposalStands
<1>3. CASE /\ ~Assembled(b, p)
           /\ \E sigs : Set(b, p, "publishing", sigs)
           /\ operations' = [operations EXCEPT ![b][p] = "publishing"]
  <2>1. /\ \A a \in Bridges, r \in Payouts :
             a # b \/ r # p => settlements'[a][r] = settlements[a][r] /\ operations'[a][r] = operations[a][r]
        /\ settlements'[b][p].state = "publishing"
    BY <1>3 DEF Set, PInv, PTyping, Tx
  <2> QED
    BY <1>3, <2>1 DEF Together, AllStand, Stands, Assembled, Settled
<1> QED
  BY <1>1, <1>2, <1>3 DEF AddSignatures

LEMMA ReconcileStands ==
  ASSUME PInv, Together, NEW b \in Bridges, NEW t \in Tx, NEW reached \in BOOLEAN,
         ReconcileOperation(b, t, reached)
  PROVE  AllStand
<1> DEFINE state == IF chain[t] = "unknown" THEN "publishing" ELSE chain[t]
<1>1. /\ operations[b][t] \notin {"none", "awaiting_signatures"}
      /\ operations' = [operations EXCEPT ![b][t] = state]
      /\ state \in {"publishing", "mempool", "confirmed"}
  BY DEF ReconcileOperation, PInv, PTyping
<1>2. /\ \A a \in Bridges, r \in Payouts : a # b \/ r # t => operations'[a][r] = operations[a][r]
      /\ operations'[b][t] = state
  BY <1>1 DEF PInv, PTyping, Tx
<1>3. /\ \A a \in Bridges, r \in Payouts : a # b \/ r # t => settlements'[a][r] = settlements[a][r]
      /\ t \in Payouts => settlements'[b][t].state = PayoutState(state)
  BY DEF ReconcileOperation, Set, PInv, PTyping
<1>4. PayoutState(state) \in Settled
  BY <1>1 DEF PayoutState, Settled
<1>5. \A a \in Bridges, r \in Payouts : (a = b /\ r = t) \/ a # b \/ r # t
  OBVIOUS
<1>6. state = IF chain[t] = "unknown" THEN "publishing" ELSE chain[t]
  OBVIOUS
<1> HIDE DEF state
<1> SUFFICES ASSUME NEW a \in Bridges, NEW r \in Payouts
             PROVE  Stands(a, r) /\ (Assembled(a, r)' => settlements'[a][r].state \in Settled)
  BY DEF AllStand, Together
<1>7. CASE a = b /\ r = t
  BY <1>1, <1>2, <1>3, <1>4, <1>6, <1>7 DEF Stands, Assembled
<1>8. CASE a # b \/ r # t
  BY <1>2, <1>3, <1>8 DEF Stands, Assembled, Together
<1> QED
  BY <1>7, <1>8

LEMMA StandsStep == RInv /\ PInv /\ Together /\ [PayoutNext]_vars => AllStand
<1> SUFFICES ASSUME RInv, PInv, Together, [PayoutNext]_vars PROVE AllStand
  OBVIOUS
<1>1. CASE (Next /\ UNCHANGED payout) \/ (\E b \in Bridges : PayoutRestart(b)) \/ UNCHANGED vars
  BY <1>1, UnwrittenStands DEF PayoutRestart, vars, payout, book
<1>2. CASE PayoutStep
  <2>1. ASSUME NEW b \in Bridges, NEW p \in Payouts,
               Propose(b, p) \/ Expire(b, p) \/ Reject(b, p) \/ Approve(b, p)
        PROVE  AllStand
    <3>1. CASE UNCHANGED <<settlements, operations>>
      BY <3>1, UnwrittenStands
    <3>2. CASE Propose(b, p) \/ Expire(b, p) \/ Reject(b, p)
      <4>1. /\ \E st, sigs : Set(b, p, st, sigs)
            /\ operations' = operations
            /\ settlements[b][p].state \in {"none", "expired", "awaiting_approval"}
        BY <3>2 DEF Propose, MayPropose, Expire, Reject
      <4>2. ~Assembled(b, p)
        BY <4>1 DEF Together, Settled
      <4> QED
        BY <4>1, <4>2, ProposalStands
    <3>3. CASE /\ MaySign(b, p)
               /\ Set(b, p, "awaiting_signatures", settlements[b][p].signatures \cup {b})
               /\ operations' = [operations EXCEPT ![b][p] = "awaiting_signatures"]
      <4>1. ~Assembled(b, p)
        BY <3>3 DEF MaySign, Assembled, Tx
      <4> QED
        BY <3>3, <4>1, ProposalStands
    <3> QED
      BY <2>1, <3>1, <3>2, <3>3 DEF Approve
  <2>2. ASSUME NEW b \in Bridges, NEW p \in Payouts,
               AddOwn(b, p) \/ Resend(b, p) \/ \E c \in Bridges : ReceiveSignatures(b, c, p)
        PROVE  AllStand
    BY <2>2, UnwrittenStands, SignaturesStand DEF AddOwn, Resend, ReceiveSignatures, book
  <2>3. ASSUME NEW q \in Quotes, Quote(q) \/ Confirm(q)
        PROVE  AllStand
    <3>1. CASE UNCHANGED <<settlements, operations>>
      BY <3>1, UnwrittenStands
    <3>2. CASE UNCHANGED settlements /\ operations' = [operations EXCEPT ![Owner(q)][q] = "publishing"]
      <4>1. \A a \in Bridges, r \in Payouts : operations'[a][r] = operations[a][r]
        BY <3>2, PayoutAssumption DEF PInv, PTyping, Tx
      <4> QED
        BY <3>2, <4>1 DEF AllStand, Stands, Together, Assembled
    <3> QED
      BY <2>3, <3>1, <3>2 DEF Quote, Confirm, book
  <2>4. ASSUME NEW b \in Bridges, NEW t \in Tx, NEW reached \in BOOLEAN,
               ReconcileOperation(b, t, reached)
        PROVE  AllStand
    BY <2>4, ReconcileStands
  <2>5. CASE \/ \E b \in Bridges : Stake(b) \/ ReconcileDeposit(b)
             \/ \E t \in Tx : Mine(t) \/ \E where \in {"mempool", "unknown"} : Unmine(t, where)
             \/ LockRunsOut
    BY <2>5, UnwrittenStands DEF Stake, ReconcileDeposit, Mine, Unmine, LockRunsOut, book
  <2> QED
    BY <1>2, <2>1, <2>2, <2>3, <2>4, <2>5 DEF PayoutStep
<1> QED
  BY <1>1, <1>2 DEF PayoutNext

\* No signature delivered again, no proposal and no expiry takes back what an assembled
\* payout has come to: only the chain does (AddSettlementSignatures, ObserveOperation).
THEOREM AssembledPayoutsStand == PayoutSpec => AssembledStands
<1>1. PayoutInit => Together
  BY DEF PayoutInit, Together, Assembled, Tx
<1>2. RInv /\ PInv /\ Together /\ [PayoutNext]_vars => AllStand
  BY StandsStep
<1>3. AllStand => Together'
  BY DEF AllStand
<1>4. AllStand =>
        [\A b \in Bridges, p \in Payouts :
           Assembled(b, p) =>
             /\ Assembled(b, p)' /\ settlements'[b][p].state \in Settled
             /\ operations[b][p] # operations'[b][p] => operations'[b][p] = IF chain[p] = "unknown" THEN "publishing" ELSE chain[p]]_vars
  BY DEF AllStand, Stands
<1> QED
  BY <1>1, <1>2, <1>3, <1>4, Inductive, PTL DEF PayoutSpec, AssembledStands
-----------------------------------------------------------------------------
(* Payouts to the atom (Finance)                                           *)

IsMap(f) == f = [x \in DOMAIN f |-> f[x]]

\* Total() takes one argument at a time, and so is a total of f's values.
LEMMA TotalIsTotal ==
  ASSUME NEW f, IsFiniteSet(DOMAIN f)
  PROVE  \E t : Totals(f, DOMAIN f, t) /\ Total(f) = t[DOMAIN f]
<1> DEFINE S == DOMAIN f
           Is(t) == t = [T \in SUBSET S |->
                           IF T = {} THEN 0
                           ELSE LET x == CHOOSE y \in T : TRUE IN f[x] + t[T \ {x}]]
           s == CHOOSE t : Is(t)
<1>1. PICK h : Totals(f, S, h)
  BY TotalsExist
<1>2. Is(h)
  <2>1. ASSUME NEW T \in SUBSET S
        PROVE  h[T] = IF T = {} THEN 0
                      ELSE LET x == CHOOSE y \in T : TRUE IN f[x] + h[T \ {x}]
    BY <1>1 DEF Totals, Any
  <2>2. h = [T \in SUBSET S |-> h[T]]
    BY <1>1 DEF Totals
  <2>3. h = [T \in SUBSET S |->
               IF T = {} THEN 0
               ELSE LET x == CHOOSE y \in T : TRUE IN f[x] + h[T \ {x}]]
    BY <2>1, <2>2
  <2> QED
    BY <2>3
<1>3. Is(s)
  BY <1>2
<1>4. Total(f) = s[S]
  BY DEF Total, MapThenSumSet, MapThenFoldSet
<1> HIDE DEF s
<1>5. Totals(f, S, s)
  <2>1. \A T \in SUBSET S : s[T] = IF T = {} THEN 0 ELSE f[Any(T)] + s[T \ {Any(T)}]
    BY <1>3 DEF Any
  <2>2. s = [T \in SUBSET S |-> s[T]]
    BY <1>3
  <2> QED
    BY <2>1, <2>2 DEF Totals
<1> QED
  BY <1>4, <1>5

\* What a function sums to over a part of its arguments.
LEMMA TotalOfPart ==
  ASSUME NEW S, IsFiniteSet(S), NEW w \in [S -> Nat], NEW g, Totals(w, S, g),
         NEW f, DOMAIN f \in SUBSET S, Alike(f, w, DOMAIN f)
  PROVE  Total(f) = g[DOMAIN f] /\ Total(f) \in Nat
<1> DEFINE D == DOMAIN f
<1>1. IsFiniteSet(D) /\ D \in SUBSET S /\ Alike(f, w, D)
  BY FS_Subset
<1>2. PICK t : Totals(f, D, t) /\ Total(f) = t[D]
  BY <1>1, TotalIsTotal
<1> HIDE DEF D
<1>3. t[D] = g[D]
  BY <1>1, <1>2, TotalsAgree
<1>4. g[D] \in Nat
  BY <1>1, TotalIsNat
<1> QED
  BY <1>2, <1>3, <1>4 DEF D

\* A sum does not depend on how its terms are named.
LEMMA TotalRenamed ==
  ASSUME NEW A, NEW B, IsFiniteSet(B), NEW f \in Bijection(A, B), NEW w \in [B -> Nat]
  PROVE  Total([a \in A |-> w[f[a]]]) = Total(w) /\ Total(w) \in Nat
<1> DEFINE v == [a \in A |-> w[f[a]]]
           Img(T) == {f[a] : a \in T}
<1>1. f \in [A -> B] /\ (\A a, b \in A : f[a] = f[b] => a = b) /\ \A y \in B : \E a \in A : f[a] = y
  BY DEF Bijection, Injection, Surjection, IsInjective
<1>2. IsFiniteSet(A)
  BY FS_Injection DEF Bijection
<1>3. PICK g : Totals(w, B, g)
  BY TotalsExist
<1>4. v \in [A -> Nat]
  BY <1>1
<1>5. PICK h : Totals(v, A, h)
  BY <1>2, TotalsExist
<1>6. \A x \in A : v[x] = w[f[x]]
  OBVIOUS
<1>7. DOMAIN v = A /\ DOMAIN w = B
  OBVIOUS
<1> HIDE DEF v
<1> DEFINE F == {T \in SUBSET A : h[T] = g[Img(T)]}
<1>8. ASSUME NEW T \in SUBSET A, \A U \in SUBSET T : U # T => U \in F
      PROVE  T \in F
  <2>1. CASE T = {}
    <3>1. Img(T) = {}
      BY <2>1
    <3>2. h[T] = 0 /\ g[{}] = 0
      BY <1>3, <1>5, <2>1 DEF Totals
    <3> QED
      BY <2>1, <3>1, <3>2
  <2>2. CASE T # {}
    <3>1. PICK x \in T : TRUE
      BY <2>2
    <3> DEFINE U == T \ {x}
    <3>2. U \in F /\ U \in SUBSET T
      BY <1>8, <3>1
    <3>3. Img(T) \in SUBSET B /\ f[x] \in Img(T) /\ Img(T) \ {f[x]} = Img(U)
      BY <1>1, <3>1
    <3>4. h[T] = h[U] + v[x]
      BY <1>2, <1>4, <1>5, <3>1, TotalWithout
    <3>5. h[U] = g[Img(U)]
      BY <3>2
    <3> HIDE DEF Img, U
    <3>6. g[Img(T)] = g[Img(T) \ {f[x]}] + w[f[x]]
      BY <1>3, <3>3, TotalWithout
    <3>7. g[Img(T)] = g[Img(U)] + w[f[x]]
      BY <3>3, <3>6
    <3>8. h[T] = g[Img(T)]
      BY <1>6, <3>1, <3>4, <3>5, <3>7
    <3> QED
      BY <3>8 DEF Img
  <2> QED
    BY <2>1, <2>2
<1> HIDE DEF F
<1>9. A \in F
  BY <1>2, <1>8, SubsetInduction
<1>10. Img(A) = B
  BY <1>1
<1>11. h[A] = g[B]
  BY <1>9, <1>10 DEF F
<1>12. Total(v) = h[A]
  BY <1>2, <1>4, <1>5, <1>7, TotalOfPart DEF Alike
<1>13. Total(w) = g[B] /\ Total(w) \in Nat
  BY <1>3, <1>7, TotalOfPart DEF Alike
<1> QED
  BY <1>11, <1>12, <1>13 DEF v

\* What one has is no more than what all have.
LEMMA PartOfTotal ==
  ASSUME NEW S, IsFiniteSet(S), NEW w \in [S -> Nat], NEW x \in S
  PROVE  w[x] <= Total(w) /\ Total(w) \in Nat
<1>1. PICK g : Totals(w, S, g)
  BY TotalsExist
<1>2. Total(w) = g[S] /\ Total(w) \in Nat
  BY <1>1, TotalOfPart DEF Alike
<1>3. g[S] = g[S \ {x}] + w[x]
  BY <1>1, TotalWithout
<1>4. g[S \ {x}] \in Nat /\ w[x] \in Nat
  BY <1>1, TotalIsNat
<1> QED
  BY <1>2, <1>3, <1>4

\* What is nothing outside T sums to what it does over T.
LEMMA RestIsNothing ==
  ASSUME NEW S, IsFiniteSet(S), NEW w \in [S -> Nat], NEW T \in SUBSET S,
         \A x \in S \ T : w[x] = 0
  PROVE  Total(w) = Total([x \in T |-> w[x]])
<1> DEFINE v == [x \in T |-> w[x]]
<1>1. PICK g : Totals(w, S, g)
  BY TotalsExist
<1>2. Total(w) = g[S]
  BY <1>1, TotalOfPart DEF Alike
<1>3. DOMAIN v = T /\ Alike(v, w, T)
  BY DEF Alike
<1> HIDE DEF v
<1>4. Total(v) = g[T]
  BY <1>1, <1>3, TotalOfPart
<1>5. g[S] = g[T] + g[S \ T]
  BY <1>1, TotalSplit
<1>6. g[T] \in Nat
  BY <1>1, TotalIsNat
<1> DEFINE F == {U \in SUBSET S : U \cap T = {} => g[U] = 0}
<1>7. ASSUME NEW U \in SUBSET S, \A V \in SUBSET U : V # U => V \in F
      PROVE  U \in F
  <2> SUFFICES ASSUME U \cap T = {} PROVE g[U] = 0
    OBVIOUS
  <2>1. CASE U = {}
    BY <1>1, <2>1 DEF Totals
  <2>2. CASE U # {}
    <3>1. PICK x \in U : TRUE
      BY <2>2
    <3>2. U \ {x} \in F /\ (U \ {x}) \cap T = {}
      BY <1>7, <3>1
    <3>3. w[x] = 0 /\ g[U \ {x}] = 0
      BY <3>1, <3>2
    <3>4. g[U] = g[U \ {x}] + w[x]
      BY <1>1, <3>1, TotalWithout
    <3> QED
      BY <3>3, <3>4
  <2> QED
    BY <2>1, <2>2
<1> HIDE DEF F
<1>8. S \ T \in F
  BY <1>7, SubsetInduction
<1>9. g[S \ T] = 0
  BY <1>8 DEF F
<1> QED
  BY <1>2, <1>4, <1>5, <1>6, <1>9 DEF v

-----------------------------------------------------------------------------
(* Ascending order                                                         *)

\* S can be put in the order of its keys.
Keyed(S, key) ==
  IsFiniteSet(S) /\ (\A x \in S : key[x] \in Nat) /\ \A x, y \in S : key[x] = key[y] => x = y

Ascends(f, S, key) ==
  f \in Bijection(1..Cardinality(S), S) /\ \A m, n \in 1..Cardinality(S) : m < n => key[f[m]] < key[f[n]]

Upto(S, key, x) == {y \in S : key[y] <= key[x]}
Rank(S, key, x) == Cardinality(Upto(S, key, x))

\* The rank of a member is one of its set's, and rises with its key.
LEMMA RankIs ==
  ASSUME NEW S, NEW key, Keyed(S, key), NEW x \in S
  PROVE  /\ IsFiniteSet(Upto(S, key, x)) /\ Rank(S, key, x) \in 1..Cardinality(S)
         /\ \A y \in S : key[x] < key[y] => Rank(S, key, x) < Rank(S, key, y)
<1>1. IsFiniteSet(S) /\ \A y \in S : key[y] \in Nat
  BY DEF Keyed
<1>2. \A y \in S : Upto(S, key, y) \subseteq S /\ IsFiniteSet(Upto(S, key, y))
  BY <1>1, FS_Subset DEF Upto
<1>3. \A y \in S : Rank(S, key, y) \in Nat /\ Rank(S, key, y) <= Cardinality(S)
  BY <1>1, <1>2, FS_Subset, FS_CardinalityType DEF Rank
<1>4. x \in Upto(S, key, x)
  BY <1>1 DEF Upto
<1>5. Rank(S, key, x) # 0
  BY <1>2, <1>4, FS_EmptySet DEF Rank
<1>6. ASSUME NEW y \in S, key[x] < key[y]
      PROVE  Rank(S, key, x) < Rank(S, key, y)
  <2>1. Upto(S, key, x) \subseteq Upto(S, key, y) /\ y \in Upto(S, key, y) /\ y \notin Upto(S, key, x)
    BY <1>1, <1>6 DEF Upto
  <2> DEFINE U == Upto(S, key, x) V == Upto(S, key, y)
  <2> HIDE DEF U, V
  <2>2. U \subseteq V /\ U # V /\ IsFiniteSet(V)
    BY <1>2, <2>1 DEF U, V
  <2>3. Cardinality(U) < Cardinality(V)
    BY <2>2, FS_Subset, FS_CardinalityType
  <2> QED
    BY <2>3 DEF U, V, Rank
<1>7. Cardinality(S) \in Nat
  BY <1>1, FS_CardinalityType
<1> QED
  BY <1>2, <1>3, <1>5, <1>6, <1>7

\* No two members share a rank, and none is left over.
LEMMA RankOnto ==
  ASSUME NEW S, NEW key, Keyed(S, key)
  PROVE  [x \in S |-> Rank(S, key, x)] \in Bijection(S, 1..Cardinality(S))
<1> DEFINE r == [x \in S |-> Rank(S, key, x)]
           n == Cardinality(S)
<1>1. IsFiniteSet(S) /\ n \in Nat
  BY FS_CardinalityType DEF Keyed
<1> HIDE DEF n
<1>2. r \in [S -> 1..n]
  BY RankIs DEF n
<1>3. \A x, y \in S : r[x] = r[y] => x = y
  <2> SUFFICES ASSUME NEW x \in S, NEW y \in S, x # y PROVE r[x] # r[y]
    OBVIOUS
  <2>1. key[x] \in Nat /\ key[y] \in Nat /\ key[x] # key[y]
    BY DEF Keyed
  <2>2. Rank(S, key, x) \in Nat /\ Rank(S, key, y) \in Nat
    BY <1>1, <1>2
  <2>3. CASE key[x] < key[y]
    BY <2>2, <2>3, RankIs
  <2>4. CASE key[y] < key[x]
    BY <2>2, <2>4, RankIs
  <2> QED
    BY <2>1, <2>3, <2>4
<1> HIDE DEF r
<1>4. r \in Injection(S, 1..n)
  BY <1>2, <1>3 DEF Injection, IsInjective
<1>5. IsFiniteSet(1..n) /\ Cardinality(1..n) = n
  BY <1>1, UpTo
<1>6. r \in Surjection(S, 1..n)
  BY <1>1, <1>4, <1>5, FS_Injection DEF n
<1> QED
  BY <1>4, <1>6 DEF Bijection, r, n

\* There is an ascending order,
LEMMA OrderExists ==
  ASSUME NEW S, NEW key, Keyed(S, key)
  PROVE  \E f : Ascends(f, S, key)
<1> DEFINE r == [x \in S |-> Rank(S, key, x)]
           n == Cardinality(S)
           f == [m \in 1..n |-> CHOOSE x \in S : r[x] = m]
<1>1. \A x, y \in S : key[x] < key[y] => r[x] < r[y]
  BY RankIs
<1>2. n \in Nat
  BY FS_CardinalityType DEF Keyed
<1>3. r \in Bijection(S, 1..n)
  BY RankOnto
<1> HIDE DEF r, n
<1>4. /\ r \in [S -> 1..n] /\ (\A x, y \in S : r[x] = r[y] => x = y)
      /\ \A m \in 1..n : \E x \in S : r[x] = m
  BY <1>3 DEF Bijection, Injection, Surjection, IsInjective
<1>5. \A m \in 1..n : f[m] \in S /\ r[f[m]] = m
  BY <1>4
<1>6. \A x \in S : r[x] \in 1..n /\ f[r[x]] = x
  BY <1>4, <1>5
<1>7. f \in [1..n -> S]
  BY <1>5
<1> HIDE DEF f
<1>8. f \in Bijection(1..n, S)
  BY <1>5, <1>6, <1>7 DEF Bijection, Injection, Surjection, IsInjective
<1>9. ASSUME NEW i \in 1..n, NEW j \in 1..n, i < j PROVE key[f[i]] < key[f[j]]
  <2>1. key[f[i]] \in Nat /\ key[f[j]] \in Nat
    BY <1>5 DEF Keyed
  <2>2. key[f[i]] # key[f[j]]
    BY <1>2, <1>5, <1>9 DEF Keyed
  <2>3. ~(key[f[j]] < key[f[i]])
    BY <1>1, <1>2, <1>5, <1>9
  <2> QED
    BY <2>1, <2>2, <2>3
<1> QED
  BY <1>8, <1>9 DEF Ascends, n

\* The place of a member in ascending order is how many are not above it.
LEMMA PlaceIsRank ==
  ASSUME NEW S, NEW key, Keyed(S, key), NEW f, Ascends(f, S, key), NEW m \in 1..Cardinality(S)
  PROVE  f[m] \in S /\ Rank(S, key, f[m]) = m
<1> DEFINE n == Cardinality(S)
<1>1. /\ f \in [1..n -> S] /\ (\A i, j \in 1..n : f[i] = f[j] => i = j)
      /\ \A x \in S : \E i \in 1..n : f[i] = x
  BY DEF Ascends, Bijection, Injection, Surjection, IsInjective
<1>2. n \in Nat /\ \A x \in S : key[x] \in Nat
  BY FS_CardinalityType DEF Keyed
<1>3. \A i, j \in 1..n : i < j => key[f[i]] < key[f[j]]
  BY DEF Ascends
<1> HIDE DEF n
<1> USE DEF n
<1>4. m \in Nat /\ 1..m \subseteq 1..n
  BY <1>2
<1> HIDE DEF n
<1> DEFINE up == Upto(S, key, f[m])
           h == [i \in 1..m |-> f[i]]
<1>5. m \in 1..n
  BY DEF n
<1>6. \A i \in 1..n : f[i] \in up <=> i <= m
  <2> SUFFICES ASSUME NEW i \in 1..n PROVE f[i] \in up <=> i <= m
    OBVIOUS
  <2>1. f[i] \in S /\ f[m] \in S /\ key[f[i]] \in Nat /\ key[f[m]] \in Nat
    BY <1>1, <1>2, <1>5
  <2>2. f[i] \in up <=> key[f[i]] <= key[f[m]]
    BY <2>1 DEF Upto
  <2>3. CASE i < m
    BY <1>2, <1>3, <1>5, <2>1, <2>2, <2>3
  <2>4. CASE i = m
    BY <2>1, <2>2, <2>4
  <2>5. CASE m < i
    BY <1>2, <1>3, <1>5, <2>1, <2>2, <2>5
  <2> QED
    BY <1>2, <1>4, <2>3, <2>4, <2>5
<1>7. up \subseteq S
  BY DEF Upto
<1> HIDE DEF up
<1>8. h \in [1..m -> up]
  BY <1>2, <1>4, <1>6
<1>9. \A i, j \in 1..m : h[i] = h[j] => i = j
  BY <1>1, <1>4
<1>10. \A x \in up : \E i \in 1..m : h[i] = x
  <2> SUFFICES ASSUME NEW x \in up PROVE \E i \in 1..m : h[i] = x
    OBVIOUS
  <2>1. PICK i \in 1..n : f[i] = x
    BY <1>1, <1>7
  <2>2. i \in 1..m
    BY <1>2, <1>4, <1>6, <2>1
  <2> QED
    BY <2>1, <2>2
<1> HIDE DEF h
<1>11. h \in Bijection(1..m, up)
  BY <1>8, <1>9, <1>10 DEF Bijection, Injection, Surjection, IsInjective
<1>12. IsFiniteSet(1..m) /\ Cardinality(1..m) = m
  BY <1>4, UpTo
<1>13. Cardinality(up) = Cardinality(1..m)
  BY <1>11, <1>12, FS_Bijection DEF ExistsBijection
<1> QED
  BY <1>1, <1>5, <1>12, <1>13 DEF Rank, up

\* so there is but one,
LEMMA OrderUnique ==
  ASSUME NEW S, NEW key, Keyed(S, key), NEW f, Ascends(f, S, key), NEW g, Ascends(g, S, key)
  PROVE  f = g
<1> DEFINE n == Cardinality(S)
<1>1. f \in [1..n -> S] /\ g \in [1..n -> S]
  BY DEF Ascends, Bijection, Injection
<1>2. \A m \in 1..n : Rank(S, key, f[m]) = m /\ Rank(S, key, g[m]) = m /\ f[m] \in S /\ g[m] \in S
  BY PlaceIsRank
<1>3. \A x, y \in S : Rank(S, key, x) = Rank(S, key, y) => x = y
  BY RankOnto DEF Bijection, Injection, IsInjective
<1> HIDE DEF n
<1>4. \A m \in 1..n : f[m] = g[m]
  BY <1>2, <1>3
<1>5. f = [m \in 1..n |-> f[m]] /\ g = [m \in 1..n |-> g[m]]
  BY <1>1
<1> QED
  BY <1>4, <1>5

\* and InOrder() is it.
LEMMA InOrderAscends ==
  ASSUME NEW S, NEW key, Keyed(S, key)
  PROVE  Ascends(InOrder(S, key), S, key)
<1> DEFINE n == Cardinality(S)
           Up(f) == \A i, j \in DOMAIN f : i < j => key[f[i]] < key[f[j]]
<1>1. \A f \in Bijection(1..n, S) : DOMAIN f = 1..n
  BY DEF Bijection, Injection
<1>2. \E f \in Bijection(1..n, S) : Up(f)
  BY <1>1, OrderExists DEF Ascends
<1>3. InOrder(S, key) \in Bijection(1..n, S) /\ Up(InOrder(S, key))
  BY <1>2 DEF InOrder
<1> QED
  BY <1>1, <1>3 DEF Ascends

\* q shares of a among k, and the remainder r.
Shares(a, k, q, r) == q = a \div k /\ r = a % k

\* What is divided is the shares and the remainder.
LEMMA Dividing ==
  ASSUME NEW a \in Nat, NEW k \in Nat, k > 0, NEW q, NEW r, Shares(a, k, q, r)
  PROVE  a = k * q + r /\ q \in Nat /\ r \in 0..(k - 1) /\ q + r <= a
<1>1. q \in Nat
  BY DEF Shares
<1>2. r \in 0..(k - 1)
  BY DEF Shares
<1>3. a = k * q + r
  BY DEF Shares
<1>4. ASSUME NEW n \in Nat PROVE k * n >= n /\ k * n \in Nat
  OBVIOUS
<1> QED
  BY <1>1, <1>2, <1>3, <1>4

\* Sorting what is listed in another order is sorting it.
LEMMA SortedAlike ==
  ASSUME NEW S, NEW key, Keyed(S, key), NEW f \in Bijection(S, S), NEW k, k = [x \in S |-> key[f[x]]]
  PROVE  \A n \in 1..Cardinality(S) : InOrder(S, k)[n] \in S /\ f[InOrder(S, k)[n]] = InOrder(S, key)[n]
<1> DEFINE n == Cardinality(S)
           o == InOrder(S, k)
           h == [m \in 1..n |-> f[o[m]]]
<1>1. f \in [S -> S] /\ (\A x, y \in S : f[x] = f[y] => x = y) /\ \A y \in S : \E x \in S : f[x] = y
  BY DEF Bijection, Injection, Surjection, IsInjective
<1>2. Keyed(S, k)
  BY <1>1 DEF Keyed
<1>3. Ascends(o, S, k)
  BY <1>2, InOrderAscends
<1>4. \A x \in S : k[x] = key[f[x]]
  OBVIOUS
<1> HIDE DEF n, o
<1>5. /\ o \in [1..n -> S] /\ (\A i, j \in 1..n : o[i] = o[j] => i = j)
      /\ (\A x \in S : \E i \in 1..n : o[i] = x)
      /\ \A i, j \in 1..n : i < j => k[o[i]] < k[o[j]]
  <2>1. o \in Bijection(1..n, S) /\ \A i, j \in 1..n : i < j => k[o[i]] < k[o[j]]
    BY <1>3 DEF Ascends, n
  <2>2. o \in Injection(1..n, S) /\ o \in Surjection(1..n, S)
    BY <2>1 DEF Bijection
  <2>3. o \in [1..n -> S] /\ \A i, j \in 1..n : o[i] = o[j] => i = j
    BY <2>2 DEF Injection, IsInjective
  <2>4. \A x \in S : \E i \in 1..n : o[i] = x
    BY <2>2 DEF Surjection
  <2> QED
    BY <2>1, <2>3, <2>4
<1>6. h \in [1..n -> S] /\ \A i \in 1..n : h[i] = f[o[i]]
  BY <1>1, <1>5
<1> HIDE DEF h
<1>7. \A i, j \in 1..n : h[i] = h[j] => i = j
  <2> SUFFICES ASSUME NEW i \in 1..n, NEW j \in 1..n, h[i] = h[j] PROVE i = j
    OBVIOUS
  <2>1. o[i] \in S /\ o[j] \in S
    BY <1>5
  <2>2. f[o[i]] = f[o[j]]
    BY <1>6
  <2>3. o[i] = o[j]
    BY <1>1, <2>1, <2>2
  <2> QED
    BY <1>5, <2>3
<1>8. \A y \in S : \E i \in 1..n : h[i] = y
  BY <1>1, <1>5, <1>6
<1>9. h \in Bijection(1..n, S)
  BY <1>6, <1>7, <1>8 DEF Bijection, Injection, Surjection, IsInjective
<1>10. \A i, j \in 1..n : i < j => key[h[i]] < key[h[j]]
  BY <1>4, <1>5, <1>6
<1>11. Ascends(h, S, key)
  BY <1>9, <1>10 DEF Ascends, n
<1>12. h = InOrder(S, key)
  BY <1>11, InOrderAscends, OrderUnique
<1> QED
  BY <1>5, <1>6, <1>12 DEF n, o

-----------------------------------------------------------------------------
(* What a game may propose                                                 *)

Input == [owner : Keys, members : {m \in SUBSET Nat : IsFiniteSet(m)}, outpoint : Nat,
          atoms : Int, foreign : BOOLEAN]
Payment == [key : Keys, atoms : Int]

\* The seats' stakes as they announced them.
SeatStakes == {s \in Seq(Input) : StakesStand(s) /\ \A n \in DOMAIN s : ~s[n].owner.upper}
Outcome(s) == [void : BOOLEAN, shares : UNION {[seats -> Int] : seats \in SUBSET (DOMAIN s)}]

Listed == [ours : BOOLEAN, inputs : Seq(Input), payments : Seq(Payment)]

Proposals ==
  {p \in Listed :
     p.ours => \E s \in SeatStakes : \E out \in Outcome(s) : Divides(s, out) /\ p = Settle(s, out)}

\* The same terms in the same places, but for the case of their owners.
Same(i, j) ==
  /\ i.owner.key = j.owner.key /\ i.members = j.members /\ i.outpoint = j.outpoint
  /\ i.atoms = j.atoms /\ i.foreign = j.foreign

Relists(t, s, f) ==
  /\ t \in Seq(Input) /\ s \in Seq(Input) /\ DOMAIN t = DOMAIN s /\ Len(t) = Len(s)
  /\ f \in Bijection(DOMAIN s, DOMAIN s)
  /\ \A n \in DOMAIN s : Same(t[n], s[f[n]])

\* A sequence, by its places and what is in them.
LEMMA SeqIs ==
  ASSUME NEW T, NEW s \in Seq(T)
  PROVE  /\ Len(s) \in Nat /\ DOMAIN s = 1..Len(s) /\ IsFiniteSet(DOMAIN s)
         /\ Cardinality(DOMAIN s) = Len(s) /\ \A n \in DOMAIN s : s[n] \in T
<1>1. Len(s) \in Nat /\ DOMAIN s = 1..Len(s) /\ \A n \in DOMAIN s : s[n] \in T
  OBVIOUS
<1>2. IsFiniteSet(1..Len(s)) /\ Cardinality(1..Len(s)) = Len(s)
  BY <1>1, UpTo
<1> QED
  BY <1>1, <1>2

\* A renaming of S renames each member, and each but once.
LEMMA BijectionIs ==
  ASSUME NEW S, NEW f \in Bijection(S, S)
  PROVE  /\ \A x \in S : f[x] \in S
         /\ \A x, y \in S : f[x] = f[y] => x = y
         /\ \A y \in S : \E x \in S : f[x] = y
BY DEF Bijection, Injection, Surjection, IsInjective

\* Atoms listed in another order come to the same.
LEMMA SameSum ==
  ASSUME NEW s, IsFiniteSet(DOMAIN s), \A n \in DOMAIN s : s[n].atoms \in Nat,
         NEW t, DOMAIN t = DOMAIN s, NEW f \in Bijection(DOMAIN s, DOMAIN s),
         \A n \in DOMAIN s : t[n].atoms = s[f[n]].atoms
  PROVE  Sum(t) = Sum(s) /\ Sum(s) \in Nat
<1> DEFINE w == [n \in DOMAIN s |-> s[n].atoms]
           D == DOMAIN s
<1>1. \A x \in D : f[x] \in D
  BY BijectionIs
<1>2. w \in [D -> Nat]
  OBVIOUS
<1>3. [n \in DOMAIN t |-> t[n].atoms] = [a \in D |-> w[f[a]]]
  BY <1>1
<1> HIDE DEF w
<1>4. Total([a \in D |-> w[f[a]]]) = Total(w) /\ Total(w) \in Nat
  BY <1>2, TotalRenamed
<1> QED
  BY <1>3, <1>4 DEF Sum, w

\* Each of two listings is one of the other.
LEMMA RelistsBack ==
  ASSUME NEW s, NEW t, NEW f, Relists(t, s, f)
  PROVE  \E g : Relists(s, t, g)
<1> DEFINE D == DOMAIN s
           g == [n \in D |-> CHOOSE m \in D : f[m] = n]
<1>1. /\ f \in Bijection(D, D) /\ t \in Seq(Input) /\ s \in Seq(Input) /\ DOMAIN t = D /\ Len(t) = Len(s)
      /\ \A n \in D : Same(t[n], s[f[n]])
  BY DEF Relists
<1> HIDE DEF D
<1>2. /\ \A x \in D : f[x] \in D
      /\ \A x, y \in D : f[x] = f[y] => x = y
      /\ \A y \in D : \E x \in D : f[x] = y
  BY <1>1, BijectionIs
<1>3. \A n \in D : g[n] \in D /\ f[g[n]] = n
  BY <1>2
<1>4. g \in [D -> D]
  BY <1>3
<1> HIDE DEF g
<1>5. g \in Bijection(D, D)
  BY <1>2, <1>3, <1>4 DEF Bijection, Injection, Surjection, IsInjective
<1>6. ASSUME NEW n \in D PROVE Same(s[n], t[g[n]])
  BY <1>1, <1>3 DEF Same
<1>7. Relists(s, t, g)
  BY <1>1, <1>5, <1>6 DEF Relists, D
<1> QED
  BY <1>7

\* Stakes listed in another order or case stand as they did, and are put in the same order.
LEMMA Relisted ==
  ASSUME NEW s, NEW t, NEW f, Relists(t, s, f), StakesStand(s)
  PROVE  /\ StakesStand(t) /\ Sum(t) = Sum(s) /\ Len(t) = Len(s)
         /\ t[1].members = s[1].members /\ Ordered(t) = Ordered(s)
<1> DEFINE D == DOMAIN s
           key == [n \in D |-> s[n].owner.key]
           kay == [n \in D |-> key[f[n]]]
<1>1. /\ t \in Seq(Input) /\ s \in Seq(Input) /\ DOMAIN t = D /\ Len(t) = Len(s)
      /\ f \in Bijection(D, D)
      /\ \A n \in D : Same(t[n], s[f[n]])
  BY DEF Relists
<1>2. /\ Len(s) \in Nat /\ D = 1..Len(s) /\ IsFiniteSet(D) /\ Cardinality(D) = Len(s)
      /\ \A n \in D : s[n] \in Input /\ t[n] \in Input
  BY <1>1, SeqIs
<1> HIDE DEF D
<1>3. /\ Len(s) \in 2..MaxMembers
      /\ \A n \in D : Acceptable(s[n]) /\ ~s[n].foreign
      /\ \A n, m \in D :
           /\ s[n].members = s[m].members
           /\ n # m => s[n].owner.key # s[m].owner.key /\ s[n].outpoint # s[m].outpoint
      /\ Len(s) = Cardinality(s[1].members) /\ Sum(s) <= MaxAtoms
  BY DEF StakesStand, D
<1>4. /\ \A x \in D : f[x] \in D
      /\ \A x, y \in D : f[x] = f[y] => x = y
  BY <1>1, BijectionIs
<1>5. \A n \in D : f[n] \in D /\ Same(t[n], s[f[n]])
  BY <1>1, <1>4
<1>6. Sum(t) = Sum(s)
  <2>1. \A n \in D : s[n].atoms \in Nat
    BY <1>2, <1>3, FinanceAssumption DEF Acceptable, Input
  <2>2. \A n \in D : t[n].atoms = s[f[n]].atoms
    BY <1>5 DEF Same
  <2> QED
    BY <1>1, <1>2, <2>1, <2>2, SameSum DEF D
<1>7. 1 \in D
  BY <1>2, <1>3, FinanceAssumption
<1>8. t[1].members = s[1].members
  BY <1>3, <1>5, <1>7 DEF Same
<1>9. \A n \in D : Acceptable(t[n]) /\ ~t[n].foreign
  BY <1>3, <1>5 DEF Same, Acceptable
<1>10. ASSUME NEW n \in D, NEW m \in D
       PROVE  /\ t[n].members = t[m].members
              /\ n # m => t[n].owner.key # t[m].owner.key /\ t[n].outpoint # t[m].outpoint
  <2>1. f[n] \in D /\ f[m] \in D /\ Same(t[n], s[f[n]]) /\ Same(t[m], s[f[m]]) /\ (n # m => f[n] # f[m])
    BY <1>4, <1>5
  <2> QED
    BY <1>3, <2>1 DEF Same
<1>11. StakesStand(t)
  BY <1>1, <1>3, <1>6, <1>8, <1>9, <1>10 DEF StakesStand, D
<1>12. Keyed(D, key)
  <2>1. \A n \in D : key[n] \in Nat
    BY <1>2 DEF Input, Keys
  <2>2. \A n, m \in D : key[n] = key[m] => n = m
    BY <1>3
  <2> QED
    BY <1>2, <2>1, <2>2 DEF Keyed
<1>13. [n \in DOMAIN t |-> t[n].owner.key] = kay
  BY <1>1, <1>5 DEF Same
<1> HIDE DEF key
<1>14. \A n \in D : InOrder(D, kay)[n] \in D /\ f[InOrder(D, kay)[n]] = InOrder(D, key)[n]
  <2>1. kay = [n \in D |-> key[f[n]]]
    OBVIOUS
  <2> HIDE DEF kay
  <2>2. f \in Bijection(D, D)
    BY <1>1
  <2>3. \A n \in 1..Cardinality(D) : InOrder(D, kay)[n] \in D /\ f[InOrder(D, kay)[n]] = InOrder(D, key)[n]
    BY <1>12, <2>1, <2>2, SortedAlike
  <2>4. D = 1..Cardinality(D)
    BY <1>2
  <2> QED
    BY <2>3, <2>4
<1> HIDE DEF kay
<1> DEFINE o == InOrder(D, kay)
           p == InOrder(D, key)
<1>15. Ordered(t) = [n \in D |-> Canonical(t[o[n]])]
  BY <1>1, <1>13 DEF Ordered
<1>16. Ordered(s) = [n \in D |-> Canonical(s[p[n]])]
  BY DEF Ordered, key, D
<1>17. \A n \in D : o[n] \in D /\ f[o[n]] = p[n]
  BY <1>14
<1> HIDE DEF o, p
<1>18. ASSUME NEW n \in D PROVE Canonical(t[o[n]]) = Canonical(s[p[n]])
  <2>1. Same(t[o[n]], s[p[n]]) /\ t[o[n]] \in Input /\ s[p[n]] \in Input
    BY <1>2, <1>5, <1>17
  <2> QED
    BY <2>1 DEF Same, Input, Canonical, Keys
<1> QED
  BY <1>1, <1>6, <1>8, <1>11, <1>15, <1>16, <1>18

\* The same payments in other places.
Repays(z, y, f) ==
  /\ z \in Seq(Payment) /\ y \in Seq(Payment) /\ DOMAIN z = DOMAIN y /\ Len(z) = Len(y)
  /\ f \in Bijection(DOMAIN y, DOMAIN y)
  /\ \A n \in DOMAIN y : z[n] = y[f[n]]

\* Each of two listings of payments is one of the other.
LEMMA RepaysBack ==
  ASSUME NEW y, NEW z, NEW f, Repays(z, y, f)
  PROVE  \E g : Repays(y, z, g)
<1> DEFINE D == DOMAIN y
           g == [n \in D |-> CHOOSE m \in D : f[m] = n]
<1>1. /\ f \in Bijection(D, D) /\ z \in Seq(Payment) /\ y \in Seq(Payment) /\ DOMAIN z = D /\ Len(z) = Len(y)
      /\ \A n \in D : z[n] = y[f[n]]
  BY DEF Repays
<1> HIDE DEF D
<1>2. /\ \A x \in D : f[x] \in D
      /\ \A x, w \in D : f[x] = f[w] => x = w
      /\ \A w \in D : \E x \in D : f[x] = w
  BY <1>1, BijectionIs
<1>3. \A n \in D : g[n] \in D /\ f[g[n]] = n
  BY <1>2
<1>4. g \in [D -> D]
  BY <1>3
<1> HIDE DEF g
<1>5. g \in Bijection(D, D)
  BY <1>2, <1>3, <1>4 DEF Bijection, Injection, Surjection, IsInjective
<1>6. \A n \in D : y[n] = z[g[n]]
  BY <1>1, <1>3
<1>7. Repays(y, z, g)
  BY <1>1, <1>5, <1>6 DEF Repays, D
<1> QED
  BY <1>7

\* Payments listed in another order stand as they did, and are made in the same order.
LEMMA Repaid ==
  ASSUME NEW s, NEW y, NEW z, NEW f, Repays(z, y, f), PaymentsStand(y, s)
  PROVE  PaymentsStand(z, s) /\ Len(z) = Len(y) /\ Paid(z) = Paid(y)
<1> DEFINE D == DOMAIN y
           key == [n \in D |-> y[n].key.key]
           kay == [n \in D |-> key[f[n]]]
<1>1. /\ f \in Bijection(D, D) /\ z \in Seq(Payment) /\ y \in Seq(Payment) /\ DOMAIN z = D /\ Len(z) = Len(y)
      /\ \A n \in D : z[n] = y[f[n]]
  BY DEF Repays
<1>2. /\ Len(y) \in Nat /\ D = 1..Len(y) /\ IsFiniteSet(D) /\ Cardinality(D) = Len(y)
      /\ \A n \in D : y[n] \in Payment
  BY <1>1, SeqIs
<1> HIDE DEF D
<1>3. /\ Len(y) \in 1..MaxMembers
      /\ \A n \in D : y[n].key.key \in s[1].members /\ ~y[n].key.upper /\ y[n].atoms > 0
      /\ \A n, m \in D : y[n].key = y[m].key => n = m
      /\ Sum(y) = Sum(s)
  BY DEF PaymentsStand, D
<1>4. /\ \A x \in D : f[x] \in D
      /\ \A x, w \in D : f[x] = f[w] => x = w
  BY <1>1, BijectionIs
<1>5. Sum(z) = Sum(y)
  <2>1. \A n \in D : y[n].atoms \in Nat
    BY <1>2, <1>3 DEF Payment
  <2>2. \A n \in D : z[n].atoms = y[f[n]].atoms
    BY <1>1
  <2> QED
    BY <1>1, <1>2, <2>1, <2>2, SameSum DEF D
<1>6. \A n \in D : z[n].key.key \in s[1].members /\ ~z[n].key.upper /\ z[n].atoms > 0
  BY <1>1, <1>3, <1>4
<1>7. \A n, m \in D : z[n].key = z[m].key => n = m
  BY <1>1, <1>3, <1>4
<1>8. PaymentsStand(z, s)
  BY <1>1, <1>3, <1>5, <1>6, <1>7 DEF PaymentsStand, D
<1>9. Keyed(D, key)
  <2>1. \A n \in D : key[n] \in Nat
    BY <1>2 DEF Payment, Keys
  <2>2. ASSUME NEW n \in D, NEW m \in D, key[n] = key[m] PROVE n = m
    <3>1. y[n].key = y[m].key
      BY <1>2, <1>3, <2>2 DEF Payment, Keys
    <3> QED
      BY <1>3, <3>1
  <2> QED
    BY <1>2, <2>1, <2>2 DEF Keyed
<1>10. [n \in DOMAIN z |-> z[n].key.key] = kay
  BY <1>1, <1>4
<1> HIDE DEF key
<1>11. \A n \in D : InOrder(D, kay)[n] \in D /\ f[InOrder(D, kay)[n]] = InOrder(D, key)[n]
  <2>1. kay = [n \in D |-> key[f[n]]]
    OBVIOUS
  <2> HIDE DEF kay
  <2>2. f \in Bijection(D, D)
    BY <1>1
  <2>3. \A n \in 1..Cardinality(D) : InOrder(D, kay)[n] \in D /\ f[InOrder(D, kay)[n]] = InOrder(D, key)[n]
    BY <1>9, <2>1, <2>2, SortedAlike
  <2>4. D = 1..Cardinality(D)
    BY <1>2
  <2> QED
    BY <2>3, <2>4
<1> HIDE DEF kay
<1> DEFINE o == InOrder(D, kay)
           p == InOrder(D, key)
<1>12. Paid(z) = [n \in D |-> z[o[n]]]
  BY <1>1, <1>10 DEF Paid
<1>13. Paid(y) = [n \in D |-> y[p[n]]]
  BY DEF Paid, key, D
<1>14. \A n \in D : z[o[n]] = y[p[n]]
  BY <1>1, <1>11
<1> HIDE DEF o, p
<1> QED
  BY <1>1, <1>8, <1>12, <1>13, <1>14

\* A total with an element less is less what that element weighs.
Weighs(w, S, g) == \A A \in SUBSET S : \A a \in A : g[A] = g[A \ {a}] + w[a]

LEMMA TotalsGrow ==
  ASSUME NEW S, IsFiniteSet(S), NEW w \in [S -> Nat], NEW g, Totals(w, S, g)
  PROVE  Weighs(w, S, g)
<1>1. ASSUME NEW T \in SUBSET S, NEW x \in T PROVE g[T] = g[T \ {x}] + w[x]
  BY TotalWithout
<1> QED
  BY <1>1 DEF Weighs

\* Each has given q of w to have v, and the first r more.
Levy(k, q, r, w, v) ==
  /\ k \in Nat /\ k > 0 /\ q \in Nat /\ r \in Nat
  /\ w \in [1..k -> Nat] /\ v \in [1..k -> Nat]
  /\ \A n \in 1..k : w[n] = v[n] + q + (IF n = 1 THEN r ELSE 0)

\* Together they have given k times q, and r.
LEMMA Levied ==
  ASSUME NEW k, NEW q, NEW r, NEW w, NEW v, Levy(k, q, r, w, v)
  PROVE  Total(w) = Total(v) + k * q + r /\ Total(w) \in Nat /\ Total(v) \in Nat
<1> DEFINE S == 1..k
           Extra(T) == IF 1 \in T THEN r ELSE 0
<1>1. IsFiniteSet(S) /\ Cardinality(S) = k /\ 1 \in S
  <2>1. k \in Nat /\ k > 0
    BY DEF Levy
  <2> QED
    BY <2>1, UpTo
<1>2. /\ q \in Nat /\ r \in Nat /\ k \in Nat
      /\ DOMAIN w = S /\ DOMAIN v = S /\ w \in [S -> Nat] /\ v \in [S -> Nat]
      /\ \A n \in S : w[n] = v[n] + q + (IF n = 1 THEN r ELSE 0)
  BY DEF Levy
<1> HIDE DEF S
<1>3. PICK g : Totals(w, S, g)
  BY <1>1, TotalsExist
<1>4. PICK h : Totals(v, S, h)
  BY <1>1, TotalsExist
<1>13. Weighs(w, S, g)
  BY <1>1, <1>2, <1>3, TotalsGrow
<1>14. Weighs(v, S, h)
  BY <1>1, <1>2, <1>4, TotalsGrow
<1>5. \A T \in SUBSET S : h[T] \in Nat /\ IsFiniteSet(T) /\ Cardinality(T) \in Nat
  <2>1. ASSUME NEW T \in SUBSET S PROVE h[T] \in Nat
    BY <1>1, <1>2, <1>4, TotalIsNat
  <2>2. ASSUME NEW T \in SUBSET S PROVE IsFiniteSet(T) /\ Cardinality(T) \in Nat
    BY <1>1, FS_Subset, FS_CardinalityType
  <2> QED
    BY <2>1, <2>2
<1> DEFINE F == {T \in SUBSET S : g[T] = h[T] + Cardinality(T) * q + Extra(T)}
<1>6. ASSUME NEW T \in SUBSET S, \A U \in SUBSET T : U # T => U \in F
      PROVE  T \in F
  <2>1. CASE T = {}
    <3>1. g[T] = 0 /\ h[T] = 0 /\ Cardinality(T) = 0
      BY <1>3, <1>4, <2>1, FS_EmptySet DEF Totals
    <3>2. Extra(T) = 0 /\ 0 * q = 0
      BY <1>2, <2>1
    <3>3. g[T] = h[T] + Cardinality(T) * q + Extra(T)
      BY <3>1, <3>2
    <3> QED
      BY <3>3
  <2>2. CASE T # {}
    <3>1. PICK x \in T : TRUE
      BY <2>2
    <3> DEFINE U == T \ {x}
               c == Cardinality(U)
    <3>2. U \in F /\ U \in SUBSET S
      BY <1>6, <3>1
    <3>3. g[U] = h[U] + c * q + Extra(U)
      BY <3>2
    <3>4. g[T] = g[U] + w[x]
      BY <1>13, <3>1 DEF Weighs
    <3>5. h[T] = h[U] + v[x]
      BY <1>14, <3>1 DEF Weighs
    <3>6. c \in Nat /\ h[U] \in Nat /\ IsFiniteSet(U)
      BY <1>5, <3>2
    <3>7. Cardinality(T) = c + 1
      <4>1. x \notin U /\ U \cup {x} = T
        BY <3>1
      <4> HIDE DEF U
      <4> QED
        BY <3>6, <4>1, FS_AddElement
    <3> DEFINE a == Extra(U)
               b == Extra(T)
               e == IF x = 1 THEN r ELSE 0
               cq == c * q
    <3>8. a \in Nat /\ e \in Nat /\ b = a + e
      BY <1>2, <3>1
    <3>9. w[x] = v[x] + q + e /\ v[x] \in Nat
      BY <1>2, <3>1
    <3>10. (c + 1) * q = cq + q /\ cq \in Nat
      BY <1>2, <3>6
    <3>11. g[U] = h[U] + cq + a
      BY <3>3
    <3> HIDE DEF U, c, a, b, e, cq
    <3>12. g[T] = h[T] + (cq + q) + b
      BY <1>2, <3>4, <3>5, <3>6, <3>8, <3>9, <3>10, <3>11
    <3>13. g[T] = h[T] + Cardinality(T) * q + b
      BY <3>7, <3>10, <3>12
    <3> QED
      BY <3>13 DEF b
  <2> QED
    BY <2>1, <2>2
<1> HIDE DEF F
<1>7. S \in F
  BY <1>1, <1>6, SubsetInduction
<1>8. g[S] = h[S] + k * q + r
  BY <1>1, <1>7 DEF F
<1>9. Total(w) = g[S] /\ Total(w) \in Nat
  BY <1>1, <1>2, <1>3, TotalOfPart DEF Alike
<1>10. Total(v) = h[S] /\ Total(v) \in Nat
  BY <1>1, <1>2, <1>4, TotalOfPart DEF Alike
<1> QED
  BY <1>8, <1>9, <1>10

\* k payments, each of which is more than what it is charged of the fee.
Charged(gross, k, fee) ==
  /\ DOMAIN gross = 1..k /\ Len(gross) = k
  /\ \A n \in 1..k : gross[n] \in Payment /\ gross[n].atoms \in Nat
  /\ \A n \in 1..k : Net(gross, fee)[n].atoms > 0

\* What each is charged of the fee comes to the fee.
LEMMA NetAddsUp ==
  ASSUME NEW gross, NEW k \in Nat, k > 0, NEW fee \in Nat, Charged(gross, k, fee)
  PROVE  Sum(Net(gross, fee)) + fee = Sum(gross)
<1> DEFINE q == fee \div k
           r == fee % k
           w == [n \in 1..k |-> gross[n].atoms]
           v == [n \in 1..k |-> Net(gross, fee)[n].atoms]
<1>1. fee = k * q + r /\ q \in Nat /\ r \in Nat
  <2>1. Shares(fee, k, q, r)
    BY DEF Shares
  <2> HIDE DEF q, r
  <2>2. fee = k * q + r /\ q \in Nat /\ r \in 0..(k - 1)
    BY <2>1, Dividing
  <2> QED
    BY <2>2
<1>2. DOMAIN Net(gross, fee) = 1..k
  BY DEF Net, Charged
<1> HIDE DEF q, r
<1>3. ASSUME NEW n \in 1..k
      PROVE  Net(gross, fee)[n].atoms = gross[n].atoms - q - (IF n = 1 THEN r ELSE 0)
  BY DEF Net, q, r, Payment, Charged
<1>4. w \in [1..k -> Nat]
  BY DEF Charged
<1>5. v \in [1..k -> Nat]
  <2> SUFFICES ASSUME NEW n \in 1..k PROVE Net(gross, fee)[n].atoms \in Nat
    OBVIOUS
  <2>1. Net(gross, fee)[n].atoms > 0 /\ gross[n].atoms \in Nat
    BY DEF Charged
  <2>2. Net(gross, fee)[n].atoms \in Int
    BY <1>1, <1>3, <2>1
  <2> QED
    BY <2>1, <2>2
<1>6. \A n \in 1..k : w[n] = v[n] + q + (IF n = 1 THEN r ELSE 0)
  <2> SUFFICES ASSUME NEW n \in 1..k
               PROVE gross[n].atoms = Net(gross, fee)[n].atoms + q + (IF n = 1 THEN r ELSE 0)
    OBVIOUS
  <2>1. gross[n].atoms \in Nat
    BY DEF Charged
  <2> QED
    BY <1>1, <1>3, <2>1
<1>7. Sum(gross) = Total(w) /\ Sum(Net(gross, fee)) = Total(v)
  BY <1>2 DEF Sum, Charged
<1> HIDE DEF w, v
<1>8. Total(w) = Total(v) + k * q + r /\ Total(v) \in Nat
  <2>1. Levy(k, q, r, w, v)
    BY <1>1, <1>4, <1>5, <1>6 DEF Levy
  <2> QED
    BY <2>1, Levied
<1>9. k * q \in Nat
  BY <1>1
<1> QED
  BY <1>1, <1>7, <1>8, <1>9

\* Payments in order are those that were listed.
LEMMA PaidIs ==
  ASSUME NEW y \in Seq(Payment), NEW s, PaymentsStand(y, s)
  PROVE  \E f \in Bijection(DOMAIN y, DOMAIN y) :
           /\ Paid(y) = [n \in DOMAIN y |-> y[f[n]]]
           /\ Sum(Paid(y)) = Sum(y) /\ Sum(y) \in Nat
           /\ Paid(y) \in Seq(Payment) /\ Len(Paid(y)) = Len(y) /\ DOMAIN Paid(y) = DOMAIN y
<1> DEFINE D == DOMAIN y
           key == [n \in D |-> y[n].key.key]
           f == InOrder(D, key)
<1>1. /\ Len(y) \in Nat /\ D = 1..Len(y) /\ IsFiniteSet(D) /\ Cardinality(D) = Len(y)
      /\ \A n \in D : y[n] \in Payment
  BY SeqIs
<1>2. /\ \A n \in D : ~y[n].key.upper /\ y[n].atoms > 0
      /\ \A n, m \in D : y[n].key = y[m].key => n = m
  BY DEF PaymentsStand
<1> HIDE DEF D
<1>3. Keyed(D, key)
  <2>1. \A n \in D : key[n] \in Nat
    BY <1>1 DEF Payment, Keys
  <2>2. ASSUME NEW n \in D, NEW m \in D, key[n] = key[m] PROVE n = m
    <3>1. y[n] \in Payment /\ y[m] \in Payment /\ ~y[n].key.upper /\ ~y[m].key.upper
      BY <1>1, <1>2
    <3>2. y[n].key.key = y[m].key.key
      BY <2>2
    <3>3. y[n].key \in Keys /\ y[m].key \in Keys
      BY <3>1 DEF Payment
    <3>4. y[n].key.upper = y[m].key.upper
      BY <3>1, <3>3 DEF Keys
    <3>5. y[n].key = y[m].key
      BY <3>2, <3>3, <3>4 DEF Keys
    <3> QED
      BY <1>2, <3>5
  <2> QED
    BY <1>1, <2>1, <2>2 DEF Keyed
<1>4. Paid(y) = [n \in D |-> y[f[n]]]
  BY DEF Paid, D
<1> HIDE DEF key
<1>5. Ascends(f, D, key)
  BY <1>3, InOrderAscends
<1>6. f \in Bijection(1..Cardinality(D), D)
  BY <1>5 DEF Ascends
<1> HIDE DEF f
<1>7. f \in Bijection(D, D)
  <2>1. 1..Cardinality(D) = D
    BY <1>1
  <2> QED
    BY <1>6, <2>1
<1>8. \A n \in D : f[n] \in D
  BY <1>7, BijectionIs
<1>9. Paid(y) \in Seq(Payment) /\ Len(Paid(y)) = Len(y) /\ DOMAIN Paid(y) = D
  <2> DEFINE l == Len(y)
             z == [n \in 1..l |-> y[f[n]]]
  <2>1. l \in Nat
    BY <1>1
  <2>2. z = Paid(y)
    BY <1>1, <1>4
  <2>3. \A n \in 1..l : y[f[n]] \in Payment
    BY <1>1, <1>8
  <2> HIDE DEF l
  <2>4. z \in Seq(Payment) /\ Len(z) = l /\ DOMAIN z = 1..l
    BY <2>1, <2>3
  <2> HIDE DEF z
  <2> QED
    BY <1>1, <2>2, <2>4 DEF l
<1>10. \A n \in D : y[n].atoms \in Nat
  BY <1>1, <1>2 DEF Payment
<1>11. \A n \in D : Paid(y)[n].atoms = y[f[n]].atoms
  BY <1>4
<1>12. Sum(Paid(y)) = Sum(y) /\ Sum(y) \in Nat
  BY <1>1, <1>7, <1>9, <1>10, <1>11, SameSum DEF D
<1> QED
  BY <1>4, <1>7, <1>9, <1>12 DEF D

\* A listing of a proposal lists its stakes and its payments again.
LEMMA ListingIs ==
  ASSUME NEW p \in Listed, NEW q \in Listings(p)
  PROVE  /\ \E f : Relists(q.inputs, p.inputs, f)
         /\ \E f : Repays(q.payments, p.payments, f)
<1> DEFINE s == p.inputs
           y == p.payments
<1>1. s \in Seq(Input) /\ y \in Seq(Payment)
  BY DEF Listed
<1>2. PICK t \in UNION {Recased(order) : order \in Reordered(s)}, z \in Reordered(y) :
        q = [inputs |-> t, payments |-> z]
  BY DEF Listings
<1> HIDE DEF s, y
<1>3. PICK order \in Reordered(s) : t \in Recased(order)
  BY <1>2
<1>4. PICK f \in Bijection(DOMAIN s, DOMAIN s) : order = [n \in DOMAIN s |-> s[f[n]]]
  BY <1>3 DEF Reordered
<1>5. PICK case \in [DOMAIN order -> BOOLEAN] :
        t = [n \in DOMAIN order |-> [order[n] EXCEPT !.owner.upper = case[n]]]
  BY <1>3 DEF Recased
<1>6. DOMAIN s = 1..Len(s) /\ Len(s) \in Nat /\ \A n \in DOMAIN s : s[n] \in Input /\ f[n] \in DOMAIN s
  BY <1>1, SeqIs, BijectionIs
<1>7. \A n \in DOMAIN s : t[n] = [s[f[n]] EXCEPT !.owner.upper = case[n]] /\ case[n] \in BOOLEAN
  BY <1>4, <1>5
<1>8. \A n \in DOMAIN s : t[n] \in Input /\ Same(t[n], s[f[n]])
  <2> SUFFICES ASSUME NEW n \in DOMAIN s PROVE t[n] \in Input /\ Same(t[n], s[f[n]])
    OBVIOUS
  <2>1. s[f[n]] \in Input /\ t[n] = [s[f[n]] EXCEPT !.owner.upper = case[n]] /\ case[n] \in BOOLEAN
    BY <1>6, <1>7
  <2> QED
    BY <2>1 DEF Input, Keys, Same
<1>9. t \in Seq(Input) /\ Len(t) = Len(s) /\ DOMAIN t = DOMAIN s
  <2> DEFINE l == Len(s)
             u == [n \in 1..l |-> t[n]]
  <2>1. l \in Nat /\ DOMAIN t = 1..l /\ t = u
    BY <1>4, <1>5, <1>6
  <2>2. \A n \in 1..l : t[n] \in Input
    BY <1>6, <1>8
  <2> HIDE DEF l
  <2>3. u \in Seq(Input) /\ Len(u) = l
    BY <2>1, <2>2
  <2> HIDE DEF u
  <2> QED
    BY <1>6, <2>1, <2>3 DEF l
<1>10. Relists(t, s, f)
  BY <1>1, <1>4, <1>8, <1>9 DEF Relists
<1>11. PICK g \in Bijection(DOMAIN y, DOMAIN y) : z = [n \in DOMAIN y |-> y[g[n]]]
  BY <1>2 DEF Reordered
<1>12. DOMAIN y = 1..Len(y) /\ Len(y) \in Nat /\ \A n \in DOMAIN y : y[n] \in Payment /\ g[n] \in DOMAIN y
  BY <1>1, <1>11, SeqIs, BijectionIs
<1>13. z \in Seq(Payment) /\ Len(z) = Len(y) /\ DOMAIN z = DOMAIN y
  <2> DEFINE l == Len(y)
             u == [n \in 1..l |-> y[g[n]]]
  <2>1. l \in Nat /\ z = u
    BY <1>11, <1>12
  <2>2. \A n \in 1..l : y[g[n]] \in Payment
    BY <1>12
  <2> HIDE DEF l
  <2>3. u \in Seq(Payment) /\ Len(u) = l /\ DOMAIN u = 1..l
    BY <2>1, <2>2
  <2> HIDE DEF u
  <2> QED
    BY <1>12, <2>1, <2>3 DEF l
<1>14. Repays(z, y, g)
  BY <1>1, <1>11, <1>13 DEF Repays
<1> QED
  BY <1>2, <1>10, <1>14 DEF s, y

\* What stands is built alike in whatever order and case it is listed.
LEMMA BuiltAlike ==
  ASSUME NEW p, NEW q, NEW rate, NEW f, NEW g,
         Relists(q.inputs, p.inputs, f), Repays(q.payments, p.payments, g),
         StakesStand(p.inputs), PaymentsStand(p.payments, p.inputs)
  PROVE  /\ StakesStand(q.inputs) /\ PaymentsStand(q.payments, q.inputs)
         /\ BuildPayout(q, rate) = BuildPayout(p, rate)
<1> DEFINE s == p.inputs
           t == q.inputs
           y == p.payments
           z == q.payments
<1>1. /\ StakesStand(t) /\ Sum(t) = Sum(s) /\ Len(t) = Len(s)
      /\ t[1].members = s[1].members /\ Ordered(t) = Ordered(s)
  BY Relisted
<1>2. PaymentsStand(z, s) /\ Len(z) = Len(y) /\ Paid(z) = Paid(y)
  BY Repaid
<1>3. PaymentsStand(z, t)
  BY <1>1, <1>2 DEF PaymentsStand
<1>4. \A gross : Fee(rate, t, gross) = Fee(rate, s, gross)
  BY <1>1 DEF Fee
<1>5. StakesStand(s) /\ PaymentsStand(y, s)
  OBVIOUS
<1> QED
  BY <1>1, <1>2, <1>3, <1>4, <1>5 DEF BuildPayout

\* What does not stand is refused however it is listed.
LEMMA ListedAlike ==
  ASSUME NEW p \in Listed, NEW q \in Listings(p), NEW rate
  PROVE  BuildPayout(q, rate) = BuildPayout(p, rate)
<1>1. PICK f, g : Relists(q.inputs, p.inputs, f) /\ Repays(q.payments, p.payments, g)
  BY ListingIs
<1>2. CASE StakesStand(p.inputs) /\ PaymentsStand(p.payments, p.inputs)
  BY <1>1, <1>2, BuiltAlike
<1>3. CASE StakesStand(q.inputs) /\ PaymentsStand(q.payments, q.inputs)
  <2>1. PICK h, k : Relists(p.inputs, q.inputs, h) /\ Repays(p.payments, q.payments, k)
    BY <1>1, RelistsBack, RepaysBack
  <2> QED
    BY <1>3, <2>1, BuiltAlike
<1>4. CASE /\ ~(StakesStand(p.inputs) /\ PaymentsStand(p.payments, p.inputs))
           /\ ~(StakesStand(q.inputs) /\ PaymentsStand(q.payments, q.inputs))
  BY <1>4 DEF BuildPayout
<1> QED
  BY <1>2, <1>3, <1>4

-----------------------------------------------------------------------------
(* What is built                                                           *)

\* The fee of stakes and payments that stand.
LEMMA FeeIs ==
  ASSUME NEW s \in Seq(Input), NEW y, NEW z, StakesStand(s), Len(z) = Len(y), Len(y) \in Nat, Len(y) > 0,
         NEW rate \in Nat
  PROVE  Fee(rate, s, z) = Fee(rate, s, y) /\ Fee(rate, s, y) \in Nat /\ (rate > 0 => Fee(rate, s, y) > 0)
<1> DEFINE l == Len(s)
           c == Cardinality(s[1].members)
           k == Len(y)
<1>1. l \in Nat /\ c = l /\ k \in Nat /\ k > 0 /\ Len(z) = k
  BY SeqIs DEF StakesStand
<1> HIDE DEF l, c, k
<1>2. l * c \in Nat
  BY <1>1
<1> DEFINE m == l * c + k
<1>3. m \in Nat /\ m > 0
  BY <1>1, <1>2
<1> HIDE DEF m
<1>4. rate * m \in Nat /\ (rate > 0 => rate * m > 0)
  BY <1>3
<1>5. Fee(rate, s, y) = rate * m /\ Fee(rate, s, z) = rate * m
  BY <1>1 DEF Fee, m, l, c, k
<1> QED
  BY <1>4, <1>5

\* So with payments.
LEMMA PartOfSum ==
  ASSUME NEW y, NEW k \in Nat, DOMAIN y = 1..k, \A n \in 1..k : y[n].atoms \in Nat, NEW n \in 1..k
  PROVE  y[n].atoms <= Sum(y) /\ Sum(y) \in Nat
<1> DEFINE w == [m \in 1..k |-> y[m].atoms]
<1>1. IsFiniteSet(1..k)
  BY UpTo, Zenon
<1>2. w \in [1..k -> Nat] /\ w[n] = y[n].atoms /\ Sum(y) = Total(w)
  BY DEF Sum
<1> HIDE DEF w
<1>3. w[n] <= Total(w) /\ Total(w) \in Nat
  BY <1>1, <1>2, PartOfTotal
<1> QED
  BY <1>2, <1>3

\* One payment sums to itself.
LEMMA SumOfOne ==
  ASSUME NEW y, NEW n, DOMAIN y = {n}, y[n].atoms \in Nat
  PROVE  Sum(y) = y[n].atoms
<1> DEFINE w == [m \in {n} |-> y[m].atoms]
<1>1. IsFiniteSet({n}) /\ w \in [{n} -> Nat] /\ w[n] = y[n].atoms /\ Sum(y) = Total(w) /\ DOMAIN w = {n}
  BY FS_Singleton DEF Sum
<1> HIDE DEF w
<1>2. PICK g : Totals(w, {n}, g)
  BY <1>1, TotalsExist
<1>3. Total(w) = g[{n}]
  BY <1>1, <1>2, TotalOfPart DEF Alike
<1>4. g[{n}] = g[{n} \ {n}] + w[n]
  BY <1>1, <1>2, TotalWithout
<1>5. g[{}] = 0 /\ {n} \ {n} = {}
  BY <1>2 DEF Totals
<1> QED
  BY <1>1, <1>3, <1>4, <1>5

\* The terms of what is charged to each.
LEMMA NetIs ==
  ASSUME NEW gross, NEW n \in DOMAIN gross, gross[n] \in Payment, NEW fee
  PROVE  /\ Net(gross, fee)[n].key = gross[n].key
         /\ Net(gross, fee)[n].atoms =
              gross[n].atoms - fee \div Len(gross) - (IF n = 1 THEN fee % Len(gross) ELSE 0)
BY DEF Net, Payment

\* The order a proposal's payments are made in, and what they are worth.
Placed(p, f) ==
  /\ f \in Bijection(DOMAIN p.payments, DOMAIN p.payments)
  /\ Paid(p.payments) = [n \in DOMAIN p.payments |-> p.payments[f[n]]]
  /\ Len(p.payments) \in Nat /\ Len(p.payments) > 0 /\ DOMAIN p.payments = 1..Len(p.payments)
  /\ Len(Paid(p.payments)) = Len(p.payments) /\ DOMAIN Paid(p.payments) = DOMAIN p.payments
  /\ \A n \in DOMAIN p.payments :
       /\ f[n] \in DOMAIN p.payments
       /\ p.payments[n] \in Payment /\ p.payments[n].atoms \in Nat
       /\ Paid(p.payments)[n] = p.payments[f[n]]
       /\ Paid(p.payments)[n] \in Payment /\ Paid(p.payments)[n].atoms \in Nat
  /\ Sum(Paid(p.payments)) = Sum(p.inputs) /\ Sum(p.inputs) \in Nat

\* What stands has such an order.
LEMMA PlacedIs ==
  ASSUME NEW p \in Listed, PaymentsStand(p.payments, p.inputs)
  PROVE  \E f : Placed(p, f)
<1> DEFINE y == p.payments
<1>1. y \in Seq(Payment) /\ PaymentsStand(y, p.inputs)
  BY DEF Listed
<1>2. PICK f \in Bijection(DOMAIN y, DOMAIN y) :
         /\ Paid(y) = [n \in DOMAIN y |-> y[f[n]]]
         /\ Sum(Paid(y)) = Sum(y) /\ Sum(y) \in Nat
         /\ Paid(y) \in Seq(Payment) /\ Len(Paid(y)) = Len(y) /\ DOMAIN Paid(y) = DOMAIN y
  BY <1>1, PaidIs
<1> HIDE DEF y
<1>3. Len(y) \in Nat /\ DOMAIN y = 1..Len(y) /\ \A n \in DOMAIN y : y[n] \in Payment
  BY <1>1, SeqIs
<1>4. Len(y) > 0 /\ Sum(y) = Sum(p.inputs) /\ \A n \in DOMAIN y : y[n].atoms > 0
  BY <1>1, <1>3, FinanceAssumption DEF PaymentsStand
<1>5. \A n \in DOMAIN y : f[n] \in DOMAIN y
  BY <1>2, BijectionIs
<1>6. ASSUME NEW n \in DOMAIN y
      PROVE  /\ y[n].atoms \in Nat /\ Paid(y)[n] = y[f[n]]
             /\ Paid(y)[n] \in Payment /\ Paid(y)[n].atoms \in Nat
  <2>1. \A m \in DOMAIN y : y[m] \in Payment /\ y[m].atoms \in Nat
    BY <1>3, <1>4 DEF Payment
  <2>2. Paid(y)[n] = y[f[n]]
    BY <1>2
  <2> QED
    BY <1>5, <2>1, <2>2
<1>7. Placed(p, f)
  BY <1>2, <1>3, <1>4, <1>5, <1>6 DEF Placed, y
<1> QED
  BY <1>7

\* A proposal that can bear its fee is built.
LEMMA PayableIsBuilt ==
  ASSUME NEW p \in Listed, NEW rate \in Nat, Payable(p, rate)
  PROVE  BuildPayout(p, rate) # Refused
<1> DEFINE s == p.inputs
           y == p.payments
           k == Len(y)
           gross == Paid(y)
           fee == Fee(rate, s, gross)
           net == Net(gross, fee)
<1>1. /\ rate > 0 /\ StakesStand(s) /\ PaymentsStand(y, s)
      /\ \A n \in DOMAIN y : y[n].atoms >= Fee(rate, s, y) + rate
      /\ s \in Seq(Input)
  BY DEF Payable, Listed
<1>2. PICK f : Placed(p, f)
  BY <1>1, PlacedIs
<1>3. /\ k \in Nat /\ k > 0 /\ DOMAIN y = 1..k /\ Len(gross) = k /\ DOMAIN gross = 1..k
      /\ \A n \in 1..k : /\ f[n] \in 1..k /\ gross[n] = y[f[n]]
                         /\ gross[n] \in Payment /\ gross[n].atoms \in Nat
  BY <1>2 DEF Placed
<1> HIDE DEF k
<1>4. fee = Fee(rate, s, y) /\ fee \in Nat /\ fee > 0
  BY <1>1, <1>3, FeeIs DEF k
<1>5. BuildPayout(p, rate) =
        IF fee \in 1..Sum(gross) /\ \A n \in DOMAIN net : net[n].atoms > 0 /\ ~Dust(rate, net[n].atoms)
        THEN [inputs |-> Ordered(s), payments |-> net, fee |-> fee]
        ELSE Refused
  BY <1>1 DEF BuildPayout
<1>6. DOMAIN net = 1..k
  BY <1>3 DEF Net
<1> HIDE DEF gross, fee
<1>7. \A n \in 1..k : gross[n].atoms >= fee + rate
  BY <1>1, <1>3, <1>4
<1>8. gross[1].atoms <= Sum(gross) /\ Sum(gross) \in Nat
  <2>1. \A n \in 1..k : gross[n].atoms \in Nat
    BY <1>3
  <2>2. k \in Nat /\ DOMAIN gross = 1..k /\ 1 \in 1..k
    BY <1>3
  <2> QED
    BY <2>1, <2>2, PartOfSum
<1>9. fee \in 1..Sum(gross)
  <2>1. gross[1].atoms >= fee + rate /\ gross[1].atoms \in Nat
    BY <1>3, <1>7
  <2> QED
    BY <1>4, <1>8, <2>1
<1>10. ASSUME NEW n \in 1..k PROVE net[n].atoms > 0 /\ ~Dust(rate, net[n].atoms)
  <2> DEFINE a == gross[n].atoms
             q == fee \div k
             r == fee % k
             e == IF n = 1 THEN r ELSE 0
  <2>1. net[n].atoms = a - q - e
    BY <1>3, NetIs
  <2>2. q \in Nat /\ r \in Nat /\ q + r <= fee /\ e \in Nat /\ e <= r
    <3>1. Shares(fee, k, q, r)
      BY DEF Shares
    <3>2. k \in Nat /\ k > 0
      BY <1>3
    <3> HIDE DEF q, r
    <3>3. q \in Nat /\ r \in 0..(k - 1) /\ q + r <= fee
      BY <1>4, <3>1, <3>2, Dividing
    <3> QED
      BY <3>2, <3>3
  <2>3. a \in Nat /\ a >= fee + rate
    BY <1>3, <1>7
  <2> HIDE DEF a, q, r, e
  <2>4. a - q - e >= rate
    BY <1>4, <2>2, <2>3
  <2> QED
    BY <1>1, <2>1, <2>2, <2>3, <2>4 DEF Dust
<1>11. BuildPayout(p, rate).fee = fee
  BY <1>5, <1>6, <1>9, <1>10
<1> QED
  BY <1>4, <1>11 DEF Refused

\* Each member of the roster has staked.
LEMMA OwnersAreMembers ==
  ASSUME NEW s \in Seq(Input), StakesStand(s)
  PROVE  {Ordered(s)[n].owner.key : n \in DOMAIN Ordered(s)} = s[1].members
<1> DEFINE D == DOMAIN s
           M == s[1].members
           key == [n \in D |-> s[n].owner.key]
           f == InOrder(D, key)
<1>1. /\ Len(s) \in Nat /\ D = 1..Len(s) /\ IsFiniteSet(D) /\ Cardinality(D) = Len(s)
      /\ \A n \in D : s[n] \in Input
  BY SeqIs
<1>2. /\ \A n \in D : s[n].owner.key \in s[n].members
      /\ \A n, m \in D : s[n].members = s[m].members /\ (n # m => s[n].owner.key # s[m].owner.key)
      /\ Len(s) = Cardinality(M) /\ Len(s) \in 2..MaxMembers
  BY DEF StakesStand, Acceptable
<1>3. Ordered(s) = [n \in D |-> Canonical(s[f[n]])]
  BY DEF Ordered
<1> HIDE DEF D
<1>4. 1 \in D
  BY <1>1, <1>2, FinanceAssumption
<1>5. IsFiniteSet(M)
  BY <1>1, <1>4 DEF Input
<1> HIDE DEF M
<1>6. \A n \in D : key[n] = s[n].owner.key /\ key[n] \in M /\ key[n] \in Nat
  BY <1>1, <1>2, <1>4 DEF M, Input, Keys
<1>7. \A n, m \in D : key[n] = key[m] => n = m
  BY <1>2
<1>8. key \in [D -> M]
  BY <1>6
<1> HIDE DEF key
<1>9. Keyed(D, key)
  BY <1>1, <1>6, <1>7 DEF Keyed
<1>10. Ascends(f, D, key)
  BY <1>9, InOrderAscends
<1> HIDE DEF f
<1>11. f \in Bijection(D, D)
  <2>1. 1..Cardinality(D) = D
    BY <1>1
  <2> QED
    BY <1>10, <2>1 DEF Ascends
<1>12. key \in Injection(D, M)
  BY <1>7, <1>8 DEF Injection, IsInjective
<1>13. key \in Surjection(D, M)
  BY <1>1, <1>2, <1>5, <1>12, FS_Injection
<1>14. \A a \in M : \E n \in D : key[n] = a
  BY <1>13 DEF Surjection
<1>15. \A n \in D : f[n] \in D /\ \E m \in D : f[m] = n
  BY <1>11, BijectionIs
<1>16. DOMAIN Ordered(s) = D /\ \A n \in D : Ordered(s)[n].owner.key = key[f[n]]
  <2> SUFFICES ASSUME NEW n \in D PROVE Ordered(s)[n].owner.key = key[f[n]]
    BY <1>3
  <2>1. Ordered(s)[n] = Canonical(s[f[n]]) /\ s[f[n]] \in Input /\ key[f[n]] = s[f[n]].owner.key
    BY <1>1, <1>3, <1>6, <1>15
  <2> QED
    BY <2>1 DEF Canonical, Input, Keys
<1>17. {key[f[n]] : n \in D} = M
  BY <1>6, <1>14, <1>15
<1> QED
  BY <1>16, <1>17 DEF M

\* What is built is the proposal, exactly.
LEMMA BuiltIsExact ==
  ASSUME NEW p \in Listed, NEW rate \in Nat, NEW built,
         built = BuildPayout(p, rate), built # Refused
  PROVE  /\ Sum(built.payments) + built.fee = Sum(p.inputs)
         /\ {built.inputs[n].owner.key : n \in DOMAIN built.inputs} = p.inputs[1].members
         /\ \A n \in DOMAIN built.payments :
              /\ built.payments[n].atoms > 0
              /\ Sum([m \in {m \in DOMAIN p.payments : p.payments[m].key = built.payments[n].key} |->
                        p.payments[m]])
                   - built.payments[n].atoms - built.fee \div Len(built.payments)
                 \in 0..(Len(built.payments) - 1)
<1> DEFINE s == p.inputs
           y == p.payments
           k == Len(y)
           gross == Paid(y)
           fee == Fee(rate, s, gross)
           net == Net(gross, fee)
<1>1. StakesStand(s) /\ PaymentsStand(y, s) /\ s \in Seq(Input) /\ y \in Seq(Payment)
  BY DEF BuildPayout, Listed
<1>2. PICK f : Placed(p, f)
  BY <1>1, PlacedIs
<1>3. /\ k \in Nat /\ k > 0 /\ DOMAIN y = 1..k /\ Len(gross) = k /\ DOMAIN gross = 1..k
      /\ f \in Bijection(1..k, 1..k)
      /\ \A n \in 1..k : /\ f[n] \in 1..k /\ gross[n] = y[f[n]] /\ y[n].atoms \in Nat
                         /\ gross[n] \in Payment /\ gross[n].atoms \in Nat
      /\ Sum(gross) = Sum(s) /\ Sum(s) \in Nat
  BY <1>2 DEF Placed
<1> HIDE DEF k
<1>4. fee \in Nat
  BY <1>1, <1>3, FeeIs DEF k
<1>5. BuildPayout(p, rate) =
        IF fee \in 1..Sum(gross) /\ \A n \in DOMAIN net : net[n].atoms > 0 /\ ~Dust(rate, net[n].atoms)
        THEN [inputs |-> Ordered(s), payments |-> net, fee |-> fee]
        ELSE Refused
  BY <1>1 DEF BuildPayout
<1>6. DOMAIN net = 1..k
  BY <1>3 DEF Net
<1> HIDE DEF gross, fee, net
<1>7. built = [inputs |-> Ordered(s), payments |-> net, fee |-> fee] /\ \A n \in 1..k : net[n].atoms > 0
  BY <1>5, <1>6
<1>8. built.inputs = Ordered(s) /\ built.payments = net /\ built.fee = fee
  BY <1>7
<1>9. Sum(net) + fee = Sum(s)
  <2>1. Charged(gross, k, fee)
    BY <1>3, <1>7 DEF net, Charged
  <2> QED
    BY <1>3, <1>4, <2>1, NetAddsUp DEF net
<1>10. {Ordered(s)[n].owner.key : n \in DOMAIN Ordered(s)} = s[1].members
  BY <1>1, OwnersAreMembers
<1>11. Len(net) = k
  BY <1>3, <1>6
<1>12. ASSUME NEW n \in 1..k
       PROVE  Sum([m \in {m \in DOMAIN y : y[m].key = net[n].key} |-> y[m]])
                - net[n].atoms - fee \div k \in 0..(k - 1)
  <2> DEFINE z == [m \in {m \in DOMAIN y : y[m].key = net[n].key} |-> y[m]]
             a == gross[n].atoms
             q == fee \div k
             r == fee % k
             e == IF n = 1 THEN r ELSE 0
  <2>1. net[n].key = y[f[n]].key /\ net[n].atoms = a - q - e
    <3>1. n \in DOMAIN gross /\ gross[n] \in Payment /\ gross[n] = y[f[n]] /\ Len(gross) = k
      BY <1>3
    <3>2. /\ net[n].key = gross[n].key
          /\ net[n].atoms = gross[n].atoms - fee \div Len(gross)
                              - (IF n = 1 THEN fee % Len(gross) ELSE 0)
      BY <3>1, NetIs DEF net
    <3> QED
      BY <3>1, <3>2
  <2>2. \A i, j \in 1..k : y[i].key = y[j].key => i = j
    BY <1>1, <1>3 DEF PaymentsStand
  <2>3. {m \in DOMAIN y : y[m].key = net[n].key} = {f[n]}
    BY <1>3, <2>1, <2>2
  <2>4. DOMAIN z = {f[n]} /\ z[f[n]] = y[f[n]] /\ z[f[n]].atoms = a /\ a \in Nat
    BY <1>3, <2>3
  <2>5. q \in Nat /\ r \in 0..(k - 1) /\ e \in 0..(k - 1)
    <3>1. Shares(fee, k, q, r)
      BY DEF Shares
    <3>2. k \in Nat /\ k > 0
      BY <1>3
    <3> HIDE DEF q, r
    <3>3. q \in Nat /\ r \in 0..(k - 1)
      BY <1>4, <3>1, <3>2, Dividing
    <3> QED
      BY <3>2, <3>3
  <2> HIDE DEF z, a, q, r, e
  <2>6. Sum(z) = a
    BY <2>4, SumOfOne
  <2>7. Sum(z) - net[n].atoms - q = e
    BY <2>1, <2>4, <2>5, <2>6
  <2> QED
    BY <2>5, <2>7 DEF z, q
<1> QED
  BY <1>6, <1>7, <1>8, <1>9, <1>10, <1>11, <1>12

-----------------------------------------------------------------------------
(* What Settle() proposes                                                  *)

\* What each seat is due, and that it comes to what all have staked.
LEMMA SharesAddUp ==
  ASSUME NEW s \in SeatStakes, NEW out \in Outcome(s), Divides(s, out)
  PROVE  /\ \A n \in DOMAIN s : Share(s, out, n) \in Nat
         /\ Total([n \in DOMAIN s |-> Share(s, out, n)]) = Sum(s)
         /\ Sum(s) \in Nat /\ Sum(s) > 0
<1> DEFINE D == DOMAIN s
           w == [n \in D |-> Share(s, out, n)]
           k == Len(s)
<1>1. k \in Nat /\ D = 1..k /\ IsFiniteSet(D) /\ \A n \in D : s[n] \in Input
  BY SeqIs DEF SeatStakes
<1>2. k > 0 /\ \A n \in D : s[n].atoms \in Nat /\ s[n].atoms > 0
  BY <1>1, FinanceAssumption DEF SeatStakes, StakesStand, Divides, Input
<1> HIDE DEF D, k
<1>3. 1 \in D
  BY <1>1, <1>2
<1>4. s[1].atoms <= Sum(s) /\ Sum(s) \in Nat
  BY <1>1, <1>2, PartOfSum DEF D
<1>5. Sum(s) > 0
  BY <1>2, <1>3, <1>4
<1>6. CASE out.void
  <2>1. \A n \in D : Share(s, out, n) = s[n].atoms
    BY <1>6 DEF Share
  <2>2. w = [n \in D |-> s[n].atoms]
    BY <2>1
  <2> QED
    BY <1>2, <1>4, <1>5, <2>1, <2>2 DEF Sum, D
<1>7. CASE ~out.void
  <2> DEFINE sh == out.shares
             T == DOMAIN sh
  <2>1. T \in SUBSET D /\ (\A n \in T : sh[n] \in Nat) /\ Total(sh) = Sum(s) /\ sh = [n \in T |-> sh[n]]
    BY <1>7 DEF Divides, Outcome, D
  <2> HIDE DEF T
  <2>2. \A n \in D : Share(s, out, n) = IF n \in T THEN sh[n] ELSE 0
    BY <1>7 DEF Share, T
  <2>3. w \in [D -> Nat] /\ (\A n \in D \ T : w[n] = 0) /\ [n \in T |-> w[n]] = sh
    BY <2>1, <2>2
  <2> HIDE DEF w, sh
  <2>4. Total(w) = Total([n \in T |-> w[n]])
    BY <1>1, <2>1, <2>3, RestIsNothing
  <2>5. Total(w) = Sum(s)
    BY <2>1, <2>3, <2>4 DEF sh
  <2>6. \A n \in D : Share(s, out, n) \in Nat
    BY <2>1, <2>2 DEF sh
  <2> QED
    BY <1>4, <1>5, <2>5, <2>6 DEF w, D
<1> QED
  BY <1>6, <1>7

\* Settle() proposes what the other seats' bridges will build.
LEMMA SettledStands ==
  ASSUME NEW s \in SeatStakes, NEW out \in Outcome(s), Divides(s, out)
  PROVE  PaymentsStand(Settle(s, out).payments, s)
<1> DEFINE D == DOMAIN s
           share == [n \in D |-> Share(s, out, n)]
           seats == {n \in D : Share(s, out, n) > 0}
           id == [n \in seats |-> n]
           paid == InOrder(seats, id)
           y == [n \in DOMAIN paid |-> [key |-> s[paid[n]].owner, atoms |-> Share(s, out, paid[n])]]
           k == Cardinality(seats)
<1>1. Len(s) \in Nat /\ D = 1..Len(s) /\ IsFiniteSet(D) /\ Cardinality(D) = Len(s)
      /\ \A n \in D : s[n] \in Input
  BY SeqIs DEF SeatStakes
<1>2. /\ Len(s) \in 2..MaxMembers
      /\ \A n \in D : ~s[n].owner.upper /\ s[n].owner.key \in s[1].members
      /\ \A n, m \in D : n # m => s[n].owner.key # s[m].owner.key
  BY <1>1, FinanceAssumption DEF SeatStakes, StakesStand, Acceptable
<1>3. /\ \A n \in D : Share(s, out, n) \in Nat
      /\ Total(share) = Sum(s) /\ Sum(s) > 0
  BY SharesAddUp
<1>4. Settle(s, out).payments = y
  BY DEF Settle
<1> HIDE DEF D
<1>5. seats \subseteq D /\ IsFiniteSet(seats) /\ k \in Nat /\ k <= Len(s)
  BY <1>1, FS_Subset, FS_CardinalityType
<1>6. \A n \in seats : share[n] = Share(s, out, n) /\ Share(s, out, n) > 0 /\ n \in D
  OBVIOUS
<1>7. share \in [D -> Nat] /\ \A n \in D \ seats : share[n] = 0
  BY <1>3
<1> HIDE DEF seats, share
<1>8. Keyed(seats, id)
  BY <1>1, <1>5 DEF Keyed
<1>9. Ascends(paid, seats, id)
  BY <1>8, InOrderAscends
<1> HIDE DEF paid, k
<1>10. paid \in Bijection(1..k, seats)
  BY <1>9 DEF Ascends, k
<1>11. /\ paid \in [1..k -> seats] /\ DOMAIN paid = 1..k
       /\ \A n, m \in 1..k : paid[n] = paid[m] => n = m
  BY <1>10 DEF Bijection, Injection, IsInjective
<1>12. y \in Seq([key : Keys, atoms : Nat]) /\ Len(y) = k /\ DOMAIN y = 1..k
  <2>1. ASSUME NEW n \in 1..k
        PROVE  [key |-> s[paid[n]].owner, atoms |-> Share(s, out, paid[n])] \in [key : Keys, atoms : Nat]
    <3>1. paid[n] \in seats
      BY <1>11
    <3>2. s[paid[n]] \in Input /\ Share(s, out, paid[n]) \in Nat
      BY <1>1, <1>3, <1>6, <3>1
    <3> QED
      BY <3>2 DEF Input
  <2> DEFINE P == [key : Keys, atoms : Nat]
             pay(n) == [key |-> s[paid[n]].owner, atoms |-> Share(s, out, paid[n])]
             z == [n \in 1..k |-> pay(n)]
  <2>2. y = z
    BY <1>11
  <2>3. \A n \in 1..k : pay(n) \in P
    BY <2>1
  <2> HIDE DEF y, P, pay
  <2>4. z \in Seq(P) /\ Len(z) = k /\ DOMAIN z = 1..k
    BY <1>5, <2>3
  <2> HIDE DEF z
  <2> QED
    BY <2>2, <2>4 DEF P
<1>13. \A n \in 1..k : /\ paid[n] \in seats /\ y[n].key = s[paid[n]].owner
                       /\ y[n].atoms = share[paid[n]] /\ y[n].atoms > 0
  BY <1>6, <1>11
<1> HIDE DEF y
<1>14. Sum(y) = Total([n \in seats |-> share[n]])
  <2> DEFINE v == [n \in seats |-> share[n]]
  <2>1. v \in [seats -> Nat] /\ \A n \in seats : v[n] = share[n]
    BY <1>5, <1>7
  <2>2. [n \in DOMAIN y |-> y[n].atoms] = [n \in 1..k |-> v[paid[n]]]
    BY <1>12, <1>13
  <2> HIDE DEF v
  <2>3. Total([n \in 1..k |-> v[paid[n]]]) = Total(v)
    BY <1>5, <1>10, <2>1, TotalRenamed
  <2> QED
    BY <2>2, <2>3 DEF Sum, v
<1>15. Sum(y) = Sum(s)
  BY <1>1, <1>3, <1>5, <1>7, <1>14, RestIsNothing
<1>16. k > 0
  <2>1. SUFFICES ASSUME k = 0 PROVE FALSE
    BY <1>5
  <2>2. seats = {}
    BY <1>5, <2>1, FS_EmptySet DEF k
  <2>3. Total([n \in seats |-> share[n]]) = 0
    <3> DEFINE e == [n \in seats |-> share[n]]
    <3>1. DOMAIN e = {} /\ IsFiniteSet(DOMAIN e)
      BY <1>5, <2>2
    <3> HIDE DEF e
    <3>2. PICK t : Totals(e, DOMAIN e, t) /\ Total(e) = t[DOMAIN e]
      BY <3>1, TotalIsTotal
    <3>3. t[{}] = 0
      BY <3>2 DEF Totals
    <3> QED
      BY <3>1, <3>2, <3>3 DEF e
  <2>4. Sum(y) = 0
    BY <1>14, <2>3
  <2>5. Sum(s) > 0
    BY <1>3
  <2> QED
    BY <1>15, <2>4, <2>5
<1>17. Len(y) \in 1..MaxMembers
  BY <1>1, <1>2, <1>5, <1>12, <1>16, FinanceAssumption
<1>18. \A n \in 1..k : y[n].key.key \in s[1].members /\ ~y[n].key.upper /\ y[n].atoms > 0
  BY <1>2, <1>5, <1>13
<1>19. ASSUME NEW n \in 1..k, NEW m \in 1..k, y[n].key = y[m].key PROVE n = m
  <2>1. s[paid[n]].owner.key = s[paid[m]].owner.key /\ paid[n] \in D /\ paid[m] \in D
    BY <1>5, <1>13, <1>19
  <2>2. paid[n] = paid[m]
    BY <1>2, <2>1
  <2> QED
    BY <1>11, <2>2
<1>20. PaymentsStand(y, s)
  BY <1>12, <1>15, <1>17, <1>18, <1>19 DEF PaymentsStand
<1> QED
  BY <1>4, <1>20

\* However the games of a table list an outcome, their bridges build the same
\* transaction or none, of all its stakes and to the atom (BuildPayout, Settle).
THEOREM PayoutsAreExact == proposal \in Proposals => PayoutsAddUp
<1> SUFFICES ASSUME proposal \in Proposals, NEW rate \in FeeRates
             PROVE  LET p     == proposal
                        built == BuildPayout(p, rate)
                        Gross(key) == Sum([n \in {m \in DOMAIN p.payments : p.payments[m].key = key} |-> p.payments[n]])
                    IN  /\ \A q \in Listings(p) : BuildPayout(q, rate) = built
                        /\ Payable(p, rate) => built # Refused
                        /\ p.ours => StakesStand(p.inputs) /\ PaymentsStand(p.payments, p.inputs)
                        /\ built # Refused =>
                             /\ Sum(built.payments) + built.fee = Sum(p.inputs)
                             /\ {built.inputs[n].owner.key : n \in DOMAIN built.inputs} = p.inputs[1].members
                             /\ \A n \in DOMAIN built.payments :
                                  LET pay   == built.payments[n]
                                      count == Len(built.payments)
                                  IN  /\ pay.atoms > 0
                                      /\ Gross(pay.key) - pay.atoms - built.fee \div count
                                           \in 0..(count - 1)
  BY DEF PayoutsAddUp
<1>1. rate \in Nat /\ proposal \in Listed
  BY FinanceAssumption DEF Proposals
<1>2. \A q \in Listings(proposal) : BuildPayout(q, rate) = BuildPayout(proposal, rate)
  BY <1>1, ListedAlike
<1>3. Payable(proposal, rate) => BuildPayout(proposal, rate) # Refused
  BY <1>1, PayableIsBuilt
<1>4. ASSUME proposal.ours
      PROVE  StakesStand(proposal.inputs) /\ PaymentsStand(proposal.payments, proposal.inputs)
  <2>1. PICK s \in SeatStakes : \E out \in Outcome(s) : Divides(s, out) /\ proposal = Settle(s, out)
    BY <1>4 DEF Proposals
  <2>2. PICK out \in Outcome(s) : Divides(s, out) /\ proposal = Settle(s, out)
    BY <2>1
  <2>3. proposal.inputs = s /\ StakesStand(s)
    BY <2>2 DEF Settle, SeatStakes
  <2> QED
    BY <2>2, <2>3, SettledStands
<1> QED
  BY <1>1, <1>2, <1>3, <1>4, BuiltIsExact
=============================================================================
