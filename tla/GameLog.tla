-------------------------------- MODULE GameLog --------------------------------
(***************************************************************************)
(* The signed, hash-chained log of one match (pkg/gamelog) and the key     *)
(* that signs it (pkg/forfeit).  Every seat holds its own copy of the      *)
(* chain; entries travel as one-to-one messages, so a seat can tell two    *)
(* players two different things.                                           *)
(*                                                                         *)
(* A digest is the content it is taken over.  A signature is the content   *)
(* signed, for its nonce is fixed by the content's position, or by the     *)
(* content: nobody signs with another seat's key, and every signature is   *)
(* made by this package's signer.  Whose turn it is is the game's own      *)
(* rule, and the game is outside this repository.                          *)
(***************************************************************************)
EXTENDS Integers, Sequences, FiniteSets

CONSTANTS Seats,        \* the roster: a seat and its log key are one value
          Cheaters,     \* seats that sign with Priv(), without the book
          Durable,      \* seats whose game called Remember()
          Turn,         \* the seat to act at each sequence number
          Moves, Heights, Decks,
          MaxLies,      \* bound on what the cheaters sign
          MaxSaid,      \* bound on heads, checkpoints and shuffles signed
          MaxFaults     \* bound on restarts and on signatures lost after Record

ASSUME GameLogAssumption ==
  /\ Cheaters \subseteq Seats /\ Durable \subseteq Seats
  /\ Turn \in Seq(Seats)
  /\ Heights \subseteq Nat
  /\ MaxLies \in Nat /\ MaxSaid \in Nat /\ MaxFaults \in Nat

VARIABLES
  chain,     \* Chain.entries at each seat
  book,      \* what each seat's Book remembers having signed
  signed,    \* every signature that left a process
  lies, faults

vars == <<chain, book, signed, lies, faults>>

Honest == Seats \ Cheaters

Init ==
  /\ chain = [s \in Honest |-> << >>]
  /\ book = [s \in Honest |-> {}]
  /\ signed = {}
  /\ lies = 0 /\ faults = 0

Room == Cardinality({m \in signed : m.domain # "entry"}) < MaxSaid

Fault == faults < MaxFaults /\ faults' = faults + 1

-----------------------------------------------------------------------------
(* What a seat signs                                                       *)

GenesisHash == [domain |-> "match"]

\* Chain.Head(): the digest of the last entry.
HeadOf(c) == IF c = << >> THEN GenesisHash ELSE c[Len(c)]

\* Next() and Entry.Sign(): an entry at the head of c.
Entry(seat, signer, c, move, height) ==
  [domain |-> "entry", seq |-> Len(c) + 1, seat |-> seat, signer |-> signer,
   prev |-> HeadOf(c), move |-> move, height |-> height]

HeadAttestation(s, c) ==
  [domain |-> "head", seq |-> Len(c), seat |-> s, signer |-> s, head |-> HeadOf(c)]

\* The stacks after a hand, which follow from the moves; a hand is one move.
Checkpoint(s, c) ==
  [domain |-> "checkpoint", seq |-> Len(c), seat |-> s, signer |-> s,
   stacks |-> [i \in DOMAIN c |-> c[i].move]]

Shuffle(s, hand, deck) ==
  [domain |-> "shuffle", seq |-> hand, seat |-> s, signer |-> s, deck |-> deck]

Position(m) == <<m.domain, m.seq>>

\* Domain.Committed(): content its position does not determine.
Committed(m) == m.domain = "shuffle"

\* nonce(), committedNonce(): the signer is part of both.
Nonce(m) == [at |-> Position(m), over |-> IF Committed(m) THEN {m} ELSE {}]

\* Recover(): two signatures of one key sharing a nonce, over two messages.
Recover(m, n) == m.signer = n.signer /\ Nonce(m) = Nonce(n) /\ m # n

\* EquivocationProof.Verify(): two entries of one seat at one number.
Equivocation(m, n) ==
  /\ m.domain = "entry" /\ n.domain = "entry"
  /\ m.seat = n.seat /\ m.signer = n.signer /\ m.seq = n.seq
  /\ m # n

\* ConflictingHeads(): two histories of one seat at one number.
ConflictingHeads(m, n) ==
  /\ m.domain = "head" /\ n.domain = "head"
  /\ m.seat = n.seat /\ m.signer = n.signer /\ m.seq = n.seq
  /\ m.head # n.head

\* ConflictingCheckpoints(): two sets of stacks of one seat for one hand.
ConflictingCheckpoints(m, n) ==
  /\ m.domain = "checkpoint" /\ n.domain = "checkpoint"
  /\ m.seat = n.seat /\ m.signer = n.signer /\ m.seq = n.seq
  /\ m # n

Convicts(m, n) ==
  Equivocation(m, n) \/ ConflictingHeads(m, n) \/ ConflictingCheckpoints(m, n)

-----------------------------------------------------------------------------
(* The key and its book                                                    *)

\* Slips: the book is not asked; a position once recorded is never signed again.
MaySignAgain(s, m) == ~Committed(m)
MaySignOnce(s, m) ==
  ~Committed(m) /\ \A was \in book[s] : Position(was) # Position(m)

\* LogKey.Sign(): its refusals.
MaySign(s, m) ==
  /\ ~Committed(m)
  /\ \A was \in book[s] : Position(was) = Position(m) => was = m

\* LogKey.Sign(): recorded before it is signed.  A Record that fails refuses the
\* signature and changes nothing.
Sign(s, m) ==
  /\ MaySign(s, m)
  /\ book' = [book EXCEPT ![s] = @ \cup {m}]
  /\ signed' = signed \cup {m}
  /\ UNCHANGED faults

\* The process ends, or Append refuses what was signed, after the Record.
RecordOnly(s, m) ==
  /\ MaySign(s, m) /\ Fault
  /\ book' = [book EXCEPT ![s] = @ \cup {m}]
  /\ UNCHANGED <<chain, signed, lies>>

-----------------------------------------------------------------------------
(* The chain                                                               *)

\* Slip: a signer the roster does not name.
FitsAnySigner(c, e) ==
  /\ e.seq = Len(c) + 1 /\ e.prev = HeadOf(c)
  /\ c # << >> => e.height >= c[Len(c)].height

\* Append(): its refusals.
Fits(c, e) ==
  /\ e.seat \in Seats /\ e.signer = e.seat
  /\ e.seq = Len(c) + 1
  /\ e.prev = HeadOf(c)
  /\ c # << >> => e.height >= c[Len(c)].height

\* The game's own check of who may act.
Entitled(e) == e.seq <= Len(Turn) /\ e.seat = Turn[e.seq]

\* A straight seat takes its turn: Next, Sign, Append, and the entry goes out.
Act(s, move, height) ==
  LET e == Entry(s, s, chain[s], move, height) IN
  /\ Entitled(e) /\ Fits(chain[s], e)
  /\ Sign(s, e)
  /\ chain' = [chain EXCEPT ![s] = Append(@, e)]
  /\ UNCHANGED lies

\* An entry arrives, late, twice or out of order.
Receive(s, e) ==
  /\ e.domain = "entry"
  /\ Entitled(e) /\ Fits(chain[s], e)
  /\ chain' = [chain EXCEPT ![s] = Append(@, e)]
  /\ UNCHANGED <<book, signed, lies, faults>>

AttestHead(s) ==
  /\ Room
  /\ Sign(s, HeadAttestation(s, chain[s]))
  /\ UNCHANGED <<chain, lies>>

SignCheckpoint(s) ==
  /\ Room
  /\ Sign(s, Checkpoint(s, chain[s]))
  /\ UNCHANGED <<chain, lies>>

\* SignCommitted(): no book, and the deck is drawn afresh each time.
SignShuffle(s, deck) ==
  LET m == Shuffle(s, Len(chain[s]) + 1, deck) IN
  /\ Committed(m) /\ Room
  /\ signed' = signed \cup {m}
  /\ UNCHANGED <<chain, book, lies, faults>>

\* The record outlives a signature that does not.
Interrupted(s) ==
  \/ \E move \in Moves, height \in Heights :
       LET e == Entry(s, s, chain[s], move, height) IN Entitled(e) /\ RecordOnly(s, e)
  \/ RecordOnly(s, HeadAttestation(s, chain[s]))
  \/ RecordOnly(s, Checkpoint(s, chain[s]))

\* LogKeyFrom() and Unmarshal(): the key is rebuilt, with an empty book in memory
\* unless Remember() gives it one, and the chain is that of the last transcript.
Restart(s, saved) ==
  /\ Fault
  /\ chain' = [chain EXCEPT ![s] = SubSeq(@, 1, saved)]
  /\ book' = IF s \in Durable THEN book ELSE [book EXCEPT ![s] = {}]
  /\ UNCHANGED <<signed, lies>>

\* A cheater signs any entry, in any seat's name, over any history a seat holds;
\* one out of turn, which every game turns down, is left out.
Lie(c, e) ==
  /\ Entitled(e)
  /\ lies < MaxLies /\ lies' = lies + 1
  /\ signed' = signed \cup {e}
  /\ UNCHANGED <<chain, book, faults>>

Next ==
  \/ \E s \in Honest :
       \/ \E move \in Moves, height \in Heights : Act(s, move, height)
       \/ \E e \in signed : Receive(s, e)
       \/ AttestHead(s)
       \/ SignCheckpoint(s)
       \/ \E deck \in Decks : SignShuffle(s, deck)
       \/ Interrupted(s)
       \/ \E saved \in 0..Len(chain[s]) : Restart(s, saved)
  \/ \E c \in Cheaters, seat \in Seats, s \in Honest, move \in Moves, height \in Heights :
       \E n \in 0..Len(chain[s]) :
         Lie(c, Entry(seat, c, SubSeq(chain[s], 1, n), move, height))

Spec == Init /\ [][Next]_vars

\* A straight seat takes its turn, and what was sent arrives in the end.
Fairness ==
  \A s \in Honest :
    /\ WF_vars(\E move \in Moves, height \in Heights : Act(s, move, height))
    /\ WF_vars(\E e \in signed : Receive(s, e))

FairSpec == Spec /\ Fairness

-----------------------------------------------------------------------------
(* Properties                                                              *)

TypeOK ==
  /\ DOMAIN chain = Honest /\ DOMAIN book = Honest
  /\ \A s \in Honest : \A i \in DOMAIN chain[s] :
       chain[s][i] \in signed /\ chain[s][i].seq = i
  /\ lies \in 0..MaxLies /\ faults \in 0..MaxFaults

\* The key of a straight seat whose book outlives the process never gets out, and no
\* proof convicts it, whatever it is sent, and through restarts, lost signatures and
\* re-dealt hands (forfeit.LogKey.Sign, "signing it again would publish this key").
StraightKeysStaySecret ==
  \A s \in Honest \cap Durable : \A m, n \in signed :
    m.signer = s => ~Recover(m, n) /\ ~Convicts(m, n)

\* The same of every straight seat, with a book in memory too.
EveryStraightKeyStaysSecret ==
  \A s \in Honest : \A m, n \in signed : m.signer = s => ~Recover(m, n)

\* Two straight seats whose chains part hold between them, at the entry where they
\* part, the two halves of a proof against whoever told them two things
\* (gamelog.EquivocationProof).
ForksArePunishable ==
  \A s, t \in Honest : \A n \in DOMAIN chain[s] \cap DOMAIN chain[t] :
    /\ chain[s][n] # chain[t][n]
    /\ \A i \in 1..(n - 1) : chain[s][i] = chain[t][i]
    => Equivocation(chain[s][n], chain[t][n])

\* Straight seats that share an entry share everything before it: the log is one
\* history, not a set of moves (Append's linkage to the head).
OneMoveOnePast ==
  \A s, t \in Honest : \A n \in DOMAIN chain[s] \cap DOMAIN chain[t] :
    chain[s][n] = chain[t][n] => \A i \in 1..n : chain[s][i] = chain[t][i]

\* Straight seats that attested different heads at one number, or different stacks
\* after one hand, in this life or an earlier one, were told two things by a seat
\* that a proof convicts (AttestHead, Checkpoint).
DisputesHaveACulprit ==
  \A m, n \in signed :
    /\ {m.signer, n.signer} \subseteq Honest
    /\ \/ m.domain = "head" /\ n.domain = "head" /\ m.seq = n.seq /\ m.head # n.head
       \/ /\ m.domain = "checkpoint" /\ n.domain = "checkpoint" /\ m.seq = n.seq
          /\ m.stacks # n.stacks
    => \E x, y \in signed : Equivocation(x, y)

\* No way of telling two seats two things, whatever hands were replayed, lost or
\* taken up again, goes without a proof, and a proof gives up the key
\* (EquivocationProof, "the proof carries its own evidence"; RecoverKey).
LiesGiveTheKeyAway ==
  /\ ForksArePunishable /\ OneMoveOnePast /\ DisputesHaveACulprit
  /\ \A m, n \in signed : Convicts(m, n) => Recover(m, n)

\* While nobody signs two entries at one number and every cheater takes its turns,
\* every straight seat gets to the end of the log, through restarts and lost
\* signatures: a position remembered and not signed costs nothing (LogKey.Sign).
Entries(n) == {e \in signed : e.domain = "entry" /\ e.seq = n}
OneStory == \A n \in DOMAIN Turn : Cardinality(Entries(n)) <= 1
CheatersAct ==
  \A n \in DOMAIN Turn : Turn[n] \in Cheaters =>
    \E e \in Entries(n) : Entitled(e) /\ e.signer = e.seat
StraightTablesFinish ==
  ([]OneStory /\ <>CheatersAct) =>
    <>(\A s \in Honest : Len(chain[s]) = Len(Turn))
=============================================================================
