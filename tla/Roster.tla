-------------------------------- MODULE Roster --------------------------------
(***************************************************************************)
(* The financial roster of one table: the keys the bridges announce to the *)
(* group chat (announceGamingAuthority, receiveFinancialFrame), the seats  *)
(* the game binds (BindGamingRoster) and the commitments without which no  *)
(* stake is paid and no payout is signed (CommitRoster, checkRoster).      *)
(*                                                                         *)
(* A bridge, its Bison Relay identity and its key at the table are one     *)
(* value: verifyKeyProof() takes no other pair.  A roster's hash is the    *)
(* roster.  Frames wait in the durable inbox until they apply.             *)
(***************************************************************************)
EXTENDS FiniteSets, Integers

CONSTANTS Bridges,           \* those whose players hold the seats
          Outsiders,         \* group members who announced a key and hold no seat
          MaxFaults          \* bound on refused sends and restarts

ASSUME RosterAssumption ==
  /\ IsFiniteSet(Bridges) /\ Bridges # {} /\ Bridges \cap Outsiders = {}
  /\ MaxFaults \in Nat

VARIABLES
  ledger,        \* diskState of each bridge, of this table
  given,         \* bridges whose game has had its roster taken (rosterGiven)
  posted,        \* messages Bison Relay took
  applied,       \* financialDone of each bridge
  faults

roster == <<ledger, given, posted, applied, faults>>

Members == Bridges \cup Outsiders
Messages == [from : Members, roster : SUBSET Members]

Ledgers ==
  [candidates : SUBSET Members,   \* announced before the seats were bound
   bound      : BOOLEAN,          \* Seated: the keys of Bridges
   peers      : SUBSET Members,
   commits    : SUBSET Members,   \* who committed to these peers
   proven     : BOOLEAN,          \* our own key proof
   closed     : BOOLEAN]

TypeOK ==
  /\ ledger \in [Bridges -> Ledgers]
  /\ given \subseteq Bridges
  /\ posted \subseteq Messages
  /\ applied \in [Bridges -> SUBSET Messages]
  /\ faults \in 0..MaxFaults

Init ==
  /\ ledger = [b \in Bridges |->
       [candidates |-> {}, bound |-> FALSE, peers |-> {}, commits |-> {},
        proven |-> FALSE, closed |-> FALSE]]
  /\ given = {}
  /\ posted = [from : Outsiders, roster : SUBSET Members]   \* whatever they claim
  /\ applied = [b \in Bridges |-> {}]
  /\ faults = 0

Fault == faults < MaxFaults /\ faults' = faults + 1

Full(l) == Cardinality(l.peers) = Cardinality(Bridges)

-----------------------------------------------------------------------------
(* funds/roster.go, on the ledger of one bridge                            *)

\* Slip: a bound roster takes who is not seated.
MayRecordAnyone(l, c) == ~l.closed

\* RecordParticipant(): its refusals.
MayRecord(l, c) ==
  /\ ~l.closed
  /\ c \in l.peers \/ ~l.bound \/ (c \in Bridges /\ ~Full(l))

\* RecordParticipant(): before the seats are bound an announcement is kept.
Record(l, c) ==
  IF c \in l.peers THEN l
  ELSE IF l.bound THEN [l EXCEPT !.peers = @ \cup {c}]
  ELSE [l EXCEPT !.candidates = @ \cup {c}]

\* CommitRoster(): only to the very roster held here, and only once it is full.
MayCommit(l, c, hash) == ~l.closed /\ Full(l) /\ hash = l.peers /\ c \in l.peers

Commit(l, c) == [l EXCEPT !.commits = @ \cup {c}]

\* Slip: what was announced before the seats were bound is thrown away.
BindSeatsForgets(l) ==
  IF l.bound THEN l ELSE [l EXCEPT !.bound = TRUE, !.peers = {}, !.candidates = {}]

\* BindSeats(): written once; admits the waiting announcements of seated keys.
BindSeats(l) ==
  IF l.bound THEN l
  ELSE [l EXCEPT !.bound = TRUE, !.peers = l.candidates \cap Bridges, !.candidates = {}]

\* checkRoster(): full, and every one of its keys has committed to it.
Complete(l) == Full(l) /\ l.commits = l.peers

-----------------------------------------------------------------------------
(* gaming_financial_wire.go                                                *)

\* announceGamingAuthority(): our own row and our own commitment.
Own(l, b) ==
  LET own == Record(l, b) IN IF Full(own) THEN Commit(own, b) ELSE own

Announcement(l, b) == [from |-> b, roster |-> IF Full(l) THEN l.peers ELSE {}]

\* Nothing is announced before the key is proven, nor twice.  A send may be
\* refused, which fails the call.
Announced(l, b) ==
  /\ posted' = IF l.proven THEN posted \cup {Announcement(l, b)} ELSE posted
  /\ UNCHANGED faults
NotAnnounced(l, b) ==
  /\ l.proven /\ Announcement(l, b) \notin posted
  /\ Fault
  /\ UNCHANGED posted

\* announceGamingAuthority() for GamingFinancialKey, which the game asks as it
\* joins, and for the approval of the seat bond, which proves the key first
\* (signGamingKeyProof) and only logs a failure.
Announce(b, proven) ==
  /\ ~ledger[b].bound
  /\ LET l == Own([ledger[b] EXCEPT !.proven = @ \/ proven], b)
     IN  /\ MayRecord(ledger[b], b)
         /\ ledger' = [ledger EXCEPT ![b] = l]
         /\ Announced(l, b) \/ NotAnnounced(l, b)
  /\ UNCHANGED <<given, applied>>

\* BindGamingRoster(): called at each tick until it succeeds.
BindRoster(b) ==
  /\ b \notin given
  /\ ledger[b].proven /\ ~ledger[b].closed
  /\ LET l == Own(BindSeats(ledger[b]), b)
     IN  /\ ledger' = [ledger EXCEPT ![b] = l]
         /\ \/ Announced(l, b) /\ given' = given \cup {b}
            \/ NotAnnounced(l, b) /\ UNCHANGED given
  /\ UNCHANGED applied

Waiting(b, m) == m \in posted /\ m.from # b /\ m \notin applied[b]

\* receiveFinancialFrame(): the row, then the sender's commitment, then ours; a
\* roster that becomes complete here is announced.  A frame refused half way
\* stays to be retried, and the retry finds our commitment made.
Receive(b, m) ==
  /\ Waiting(b, m)
  /\ MayRecord(ledger[b], m.from)
  /\ LET row       == Record(ledger[b], m.from)
         theirs    == IF m.roster = {} THEN row ELSE Commit(row, m.from)
         ours      == IF Full(theirs) THEN Commit(theirs, b) ELSE theirs
         completes == Full(theirs) /\ b \notin theirs.commits
         Apply     == applied' = [applied EXCEPT ![b] = @ \cup {m}]
     IN  IF m.roster # {} /\ ~MayCommit(row, m.from, m.roster)
         THEN /\ ledger' = [ledger EXCEPT ![b] = row]
              /\ UNCHANGED <<posted, applied, faults>>
         ELSE /\ ledger' = [ledger EXCEPT ![b] = ours]
              /\ \/ completes /\ Announced(ours, b) /\ Apply
                 \/ completes /\ NotAnnounced(ours, b) /\ UNCHANGED applied
                 \/ ~completes /\ Apply /\ UNCHANGED <<posted, faults>>
  /\ UNCHANGED given

\* The bridge restarts: what it had applied is applied again.
Restart(b) ==
  /\ Fault
  /\ applied' = [applied EXCEPT ![b] = {}]
  /\ UNCHANGED <<ledger, given, posted>>

\* CloseTable(): the operator gives the table up.
CloseTable(b) ==
  /\ ~ledger[b].closed
  /\ ledger' = [ledger EXCEPT ![b].closed = TRUE]
  /\ UNCHANGED <<given, posted, applied, faults>>

Next ==
  \E b \in Bridges :
    \/ \E proven \in BOOLEAN : Announce(b, proven)
    \/ BindRoster(b) \/ CloseTable(b)
    \/ \E m \in Messages : Receive(b, m)

Spec == Init /\ [][Next \/ \E b \in Bridges : Restart(b)]_roster

\* Whoever has a seat approved its bond; the runtime's tick and the financial
\* worker's replay go on.
Fairness ==
  \A b \in Bridges :
    /\ WF_roster(Announce(b, TRUE)) /\ WF_roster(BindRoster(b))
    /\ \A m \in Messages : WF_roster(Receive(b, m))

FairSpec == Spec /\ Fairness

-----------------------------------------------------------------------------
\* A commitment a bridge counts is one its bridge stands by, whatever was lost, came
\* twice or came before the seats were bound: that bridge holds the same full roster
\* and cannot come to hold another.  So two complete financial rosters (checkRoster)
\* are the same one, that of the seats, and their escrows and payouts are the same.
OneRoster ==
  \A a, b \in Bridges :
    /\ b \in ledger[a].commits =>
         Full(ledger[b]) /\ ledger[b].peers = ledger[a].peers
    /\ Complete(ledger[a]) /\ Complete(ledger[b]) =>
         ledger[a].peers = ledger[b].peers /\ ledger[a].peers = Bridges

\* A table nobody gives up gets its roster: every seat's bridge comes to hold
\* the commitments of all (processFinancialFrame: failures are retried).
RosterCompletes ==
  <>(\/ \E b \in Bridges : ledger[b].closed
     \/ \A b \in Bridges : Complete(ledger[b]))
=============================================================================
