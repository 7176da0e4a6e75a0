----------------------------- MODULE GameLogProofs -----------------------------
(***************************************************************************)
(* The key of a straight seat whose book outlives its process stays        *)
(* secret, straight chains that share an entry share its past, and those   *)
(* that part prove who lied: for every table, every set of cheaters, every *)
(* number of lies and restarts.                                            *)
(***************************************************************************)
EXTENDS GameLog, SequenceTheorems, TLAPS

Careful == Honest \cap Durable

(* Whatever a careful seat signed by position is in its book, and its book  *)
(* holds one message for each position.                                     *)
Shape == book = [s \in Honest |-> book[s]]
Remembered ==
  \A s \in Careful : \A m \in signed :
    m.signer = s /\ ~Committed(m) => m \in book[s]
OneEach ==
  \A s \in Careful : \A m, n \in book[s] : Position(m) = Position(n) => m = n

IInv == Shape /\ Remembered /\ OneEach

-----------------------------------------------------------------------------

\* Recording a message that MaySign allows keeps one message for each position,
\* and every other seat's book.
LEMMA RecordKeeps ==
  ASSUME IInv, NEW s \in Honest, NEW m, MaySign(s, m),
         book' = [book EXCEPT ![s] = @ \cup {m}]
  PROVE  /\ Shape' /\ OneEach'
         /\ m \in book'[s]
         /\ \A t \in Honest : book[t] \subseteq book'[t]
<1>1. /\ book'[s] = book[s] \cup {m}
      /\ \A t \in Honest : t # s => book'[t] = book[t]
  BY DEF IInv, Shape
<1>2. Shape'
  BY DEF IInv, Shape
<1>3. OneEach'
  <2> SUFFICES ASSUME NEW t \in Careful, NEW x \in book'[t], NEW y \in book'[t],
                      Position(x) = Position(y)
               PROVE  x = y
    BY DEF OneEach, Position
  <2>1. CASE t # s
    BY <1>1, <2>1 DEF IInv, OneEach, Careful
  <2>2. CASE t = s
    BY <1>1, <2>2 DEF IInv, OneEach, Careful, MaySign
  <2> QED
    BY <2>1, <2>2
<1> QED
  BY <1>1, <1>2, <1>3

\* LogKey.Sign records what it signs, so the invariant survives it.
LEMMA SignKeeps ==
  ASSUME IInv, NEW s \in Honest, NEW m, m.signer = s, Sign(s, m)
  PROVE  IInv'
<1>1. /\ Shape' /\ OneEach'
      /\ m \in book'[s]
      /\ \A t \in Honest : book[t] \subseteq book'[t]
  BY RecordKeeps DEF Sign
<1>2. Remembered'
  <2> SUFFICES ASSUME NEW t \in Careful, NEW x \in signed', x.signer = t, ~Committed(x)
               PROVE  x \in book'[t]
    BY DEF Remembered, Committed
  <2>1. CASE x \in signed
    BY <1>1, <2>1 DEF IInv, Remembered, Careful
  <2>2. CASE x = m
    BY <1>1, <2>2
  <2> QED
    BY <2>1, <2>2 DEF Sign
<1> QED
  BY <1>1, <1>2 DEF IInv

\* A message recorded and not signed.
LEMMA RecordOnlyKeeps ==
  ASSUME IInv, NEW s \in Honest, NEW m, RecordOnly(s, m)
  PROVE  IInv'
<1>1. /\ Shape' /\ OneEach'
      /\ \A t \in Honest : book[t] \subseteq book'[t]
  BY RecordKeeps DEF RecordOnly
<1>2. Remembered'
  BY <1>1 DEF RecordOnly, IInv, Remembered, Careful, Committed
<1> QED
  BY <1>1, <1>2 DEF IInv

\* A message that no careful seat signed by position leaves the books alone.
LEMMA ForeignKeeps ==
  ASSUME IInv, NEW m, m.signer \notin Honest \/ Committed(m),
         signed' = signed \cup {m}, book' = book
  PROVE  IInv'
<1>1. Shape' /\ OneEach'
  BY DEF IInv, Shape, OneEach, Position
<1>2. Remembered'
  <2> SUFFICES ASSUME NEW t \in Careful, NEW x \in signed', x.signer = t, ~Committed(x)
               PROVE  x \in book'[t]
    BY DEF Remembered, Committed
  <2>1. x # m
    BY DEF Careful
  <2> QED
    BY <2>1 DEF IInv, Remembered
<1> QED
  BY <1>1, <1>2 DEF IInv

\* A restart takes the book of nobody whose book outlives the process.
LEMMA RestartKeeps ==
  ASSUME IInv, NEW s \in Honest, NEW saved, Restart(s, saved)
  PROVE  IInv'
<1>1. \A t \in Careful : book'[t] = book[t]
  BY DEF Restart, Careful, IInv, Shape
<1>2. Shape'
  BY DEF Restart, IInv, Shape
<1>3. Remembered'
  BY <1>1 DEF Restart, IInv, Remembered, Committed
<1>4. OneEach'
  BY <1>1 DEF IInv, OneEach, Position
<1> QED
  BY <1>2, <1>3, <1>4 DEF IInv

LEMMA QuietKeeps ==
  ASSUME IInv, book' = book, signed' = signed
  PROVE  IInv'
BY DEF IInv, Shape, Remembered, OneEach, Position, Committed

-----------------------------------------------------------------------------

\* The books tell all that was signed by position, in every reachable state.
THEOREM BooksAreComplete == Spec => []IInv
<1>1. Init => IInv
  BY DEF Init, IInv, Shape, Remembered, OneEach, Careful
<1>2. ASSUME IInv, [Next]_vars
      PROVE  IInv'
  <2>1. ASSUME NEW s \in Honest, NEW move \in Moves, NEW height \in Heights,
               Act(s, move, height)
        PROVE  IInv'
    <3> DEFINE e == Entry(s, s, chain[s], move, height)
    <3>1. e.signer = s
      BY DEF Entry
    <3>2. Sign(s, e)
      BY <2>1 DEF Act
    <3> HIDE DEF e
    <3> QED
      BY <1>2, <3>1, <3>2, SignKeeps
  <2>2. ASSUME NEW s \in Honest, NEW e \in signed, Receive(s, e)
        PROVE  IInv'
    BY <1>2, <2>2, QuietKeeps DEF Receive
  <2>3. ASSUME NEW s \in Honest, AttestHead(s)
        PROVE  IInv'
    <3> DEFINE m == HeadAttestation(s, chain[s])
    <3>1. m.signer = s
      BY DEF HeadAttestation
    <3>2. Sign(s, m)
      BY <2>3 DEF AttestHead
    <3> HIDE DEF m
    <3> QED
      BY <1>2, <3>1, <3>2, SignKeeps
  <2>4. ASSUME NEW s \in Honest, SignCheckpoint(s)
        PROVE  IInv'
    <3> DEFINE m == Checkpoint(s, chain[s])
    <3>1. m.signer = s
      BY DEF Checkpoint
    <3>2. Sign(s, m)
      BY <2>4 DEF SignCheckpoint
    <3> HIDE DEF m
    <3> QED
      BY <1>2, <3>1, <3>2, SignKeeps
  <2>5. ASSUME NEW s \in Honest, NEW deck \in Decks, SignShuffle(s, deck)
        PROVE  IInv'
    <3> DEFINE m == Shuffle(s, Len(chain[s]) + 1, deck)
    <3>1. Committed(m) /\ signed' = signed \cup {m} /\ book' = book
      BY <2>5 DEF SignShuffle
    <3> HIDE DEF m
    <3> QED
      BY <1>2, <3>1, ForeignKeeps
  <2>6. ASSUME NEW s \in Honest, Interrupted(s)
        PROVE  IInv'
    BY <1>2, <2>6, RecordOnlyKeeps DEF Interrupted
  <2>7. ASSUME NEW s \in Honest, NEW saved \in 0..Len(chain[s]), Restart(s, saved)
        PROVE  IInv'
    BY <1>2, <2>7, RestartKeeps
  <2>8. ASSUME NEW c \in Cheaters, NEW seat \in Seats, NEW s \in Honest,
               NEW move \in Moves, NEW height \in Heights, NEW n \in 0..Len(chain[s]),
               Lie(c, Entry(seat, c, SubSeq(chain[s], 1, n), move, height))
        PROVE  IInv'
    <3> DEFINE e == Entry(seat, c, SubSeq(chain[s], 1, n), move, height)
    <3>1. e.signer \notin Honest
      BY DEF Entry, Honest
    <3>2. signed' = signed \cup {e} /\ book' = book
      BY <2>8 DEF Lie
    <3> HIDE DEF e
    <3> QED
      BY <1>2, <3>1, <3>2, ForeignKeeps
  <2>9. CASE UNCHANGED vars
    BY <1>2, <2>9, QuietKeeps DEF vars
  <2> QED
    BY <1>2, <2>1, <2>2, <2>3, <2>4, <2>5, <2>6, <2>7, <2>8, <2>9 DEF Next
<1> QED
  BY <1>1, <1>2, PTL DEF Spec

\* Each of the three proofs gives up the key of the seat it convicts.
LEMMA ConvictionsRecover ==
  ASSUME NEW m, NEW n, Convicts(m, n)
  PROVE  Recover(m, n)
<1>1. m # n /\ m.signer = n.signer /\ m.domain = n.domain /\ m.seq = n.seq
  BY DEF Convicts, Equivocation, ConflictingHeads, ConflictingCheckpoints
<1>2. ~Committed(m) /\ ~Committed(n)
  BY DEF Convicts, Equivocation, ConflictingHeads, ConflictingCheckpoints, Committed
<1> QED
  BY <1>1, <1>2 DEF Recover, Nonce, Position

\* The key of a straight seat whose book outlives the process never gets out
\* (forfeit.LogKey.Sign, forfeit.Recover).
THEOREM KeysStaySecret == Spec => []StraightKeysStaySecret
<1>1. IInv => StraightKeysStaySecret
  <2> SUFFICES ASSUME IInv, NEW s \in Careful, NEW m \in signed, NEW n \in signed,
                      m.signer = s, Recover(m, n)
               PROVE  FALSE
    BY ConvictionsRecover DEF StraightKeysStaySecret, Careful
  <2>1. n.signer = s /\ Nonce(m) = Nonce(n) /\ m # n
    BY DEF Recover
  <2>2. Position(m) = Position(n)
    BY <2>1 DEF Nonce
  <2>3. ~Committed(m) /\ ~Committed(n)
    BY <2>1 DEF Nonce
  <2>4. m \in book[s] /\ n \in book[s]
    BY <2>1, <2>3 DEF IInv, Remembered
  <2> QED
    BY <2>1, <2>2, <2>4 DEF IInv, OneEach
<1> QED
  BY <1>1, BooksAreComplete, PTL

-----------------------------------------------------------------------------
(* Straight chains hold entries that go out under the right key, at their   *)
(* number, each chained to the one before it.                               *)
Proper(c) ==
  \A i \in 1..Len(c) :
    /\ c[i].domain = "entry" /\ c[i].seq = i
    /\ c[i].signer = c[i].seat /\ c[i].seat = Turn[i]
    /\ i > 1 => c[i].prev = c[i - 1]

Lines ==
  /\ chain \in [Honest -> Seq(signed)]
  /\ \A s \in Honest : Proper(chain[s])

CInv == Lines /\ OneMoveOnePast

\* What Append accepts keeps a chain proper.
LEMMA AppendProper ==
  ASSUME NEW S, NEW c \in Seq(S), NEW e \in S, Proper(c),
         e.domain = "entry", Entitled(e), Fits(c, e)
  PROVE  Proper(Append(c, e))
<1> DEFINE d == Append(c, e)
<1>1. /\ Len(d) = Len(c) + 1 /\ Len(c) \in Nat
      /\ \A i \in 1..Len(c) : d[i] = c[i]
      /\ d[Len(c) + 1] = e
  BY AppendProperties
<1> HIDE DEF d
<1>2. e.seq = Len(c) + 1 /\ e.signer = e.seat /\ e.seat = Turn[e.seq] /\ e.prev = HeadOf(c)
  BY DEF Entitled, Fits
<1>3. ASSUME Len(c) > 0
      PROVE  HeadOf(c) = c[Len(c)]
  BY <1>3, EmptySeq DEF HeadOf
<1> SUFFICES ASSUME NEW i \in 1..Len(d)
             PROVE  /\ d[i].domain = "entry" /\ d[i].seq = i
                    /\ d[i].signer = d[i].seat /\ d[i].seat = Turn[i]
                    /\ i > 1 => d[i].prev = d[i - 1]
  BY DEF Proper, d
<1>4. CASE i \in 1..Len(c)
  <2>1. d[i] = c[i] /\ (i > 1 => d[i - 1] = c[i - 1])
    BY <1>1, <1>4
  <2> QED
    BY <1>4, <2>1 DEF Proper
<1>5. CASE i = Len(c) + 1
  <2>1. d[i] = e /\ (i > 1 => d[i - 1] = c[Len(c)] /\ Len(c) > 0)
    BY <1>1, <1>5
  <2> QED
    BY <1>2, <1>3, <1>5, <2>1
<1> QED
  BY <1>1, <1>4, <1>5

\* A seat takes an entry: its chain stays proper, and shares what it shared.
LEMMA GrowKeeps ==
  ASSUME CInv, NEW s \in Honest, NEW e \in signed', signed \subseteq signed',
         e.domain = "entry", Entitled(e), Fits(chain[s], e),
         chain' = [chain EXCEPT ![s] = Append(@, e)]
  PROVE  CInv'
<1>1. /\ \A t \in Honest : chain[t] \in Seq(signed')
      /\ \A t \in Honest : Len(chain[t]) \in Nat /\ DOMAIN chain[t] = 1..Len(chain[t])
  BY SeqMonotonic, LenProperties DEF CInv, Lines
<1>2. /\ chain'[s] = Append(chain[s], e)
      /\ \A t \in Honest : t # s => chain'[t] = chain[t]
  BY DEF CInv, Lines
<1>3. /\ chain'[s] \in Seq(signed')
      /\ Len(chain'[s]) = Len(chain[s]) + 1
      /\ DOMAIN chain'[s] = 1..(Len(chain[s]) + 1)
      /\ \A i \in 1..Len(chain[s]) : chain'[s][i] = chain[s][i]
      /\ chain'[s][Len(chain[s]) + 1] = e
  BY <1>1, <1>2, AppendProperties, LenProperties
<1>4. chain' \in [Honest -> Seq(signed')]
  BY <1>1, <1>2, <1>3 DEF CInv, Lines
<1>5. Proper(chain'[s])
  BY <1>1, <1>2, AppendProper DEF CInv, Lines
<1>6. \A t \in Honest : Proper(chain'[t])
  BY <1>2, <1>5 DEF CInv, Lines
<1>7. ASSUME NEW t \in Honest, t # s, NEW n \in DOMAIN chain'[s] \cap DOMAIN chain'[t],
             chain'[s][n] = chain'[t][n]
      PROVE  \A i \in 1..n : chain'[s][i] = chain'[t][i]
  <2>1. chain'[t] = chain[t] /\ n \in 1..Len(chain[t]) /\ n \in 1..(Len(chain[s]) + 1)
    BY <1>1, <1>2, <1>3, <1>7
  <2>2. CASE n \in 1..Len(chain[s])
    <3>1. \A i \in 1..n : chain[s][i] = chain[t][i]
      BY <1>1, <1>3, <1>7, <2>1, <2>2 DEF CInv, OneMoveOnePast
    <3> QED
      BY <1>1, <1>3, <2>1, <2>2, <3>1
  <2>3. CASE n = Len(chain[s]) + 1 /\ n > 1
    <3>1. chain'[s][n].prev = chain'[s][n - 1] /\ chain[t][n].prev = chain[t][n - 1]
      BY <1>1, <1>3, <1>5, <2>1, <2>3 DEF CInv, Lines, Proper
    <3>2. chain[s][n - 1] = chain[t][n - 1]
      BY <1>1, <1>3, <1>7, <2>1, <2>3, <3>1
    <3>3. n - 1 \in DOMAIN chain[s] \cap DOMAIN chain[t]
      BY <1>1, <2>1, <2>3
    <3>4. \A i \in 1..(n - 1) : chain[s][i] = chain[t][i]
      BY <3>2, <3>3 DEF CInv, OneMoveOnePast
    <3>5. ASSUME NEW i \in 1..n
          PROVE  chain'[s][i] = chain'[t][i]
      <4>1. CASE i = n
        BY <1>7, <4>1
      <4>2. CASE i \in 1..(n - 1)
        BY <1>1, <1>3, <2>1, <2>3, <3>4, <4>2
      <4> QED
        BY <2>1, <4>1, <4>2
    <3> QED
      BY <3>5
  <2>4. CASE n = 1
    BY <1>7, <2>4
  <2> QED
    BY <1>1, <2>1, <2>2, <2>3, <2>4
<1>8. OneMoveOnePast'
  <2> SUFFICES ASSUME NEW t \in Honest, NEW u \in Honest,
                      NEW n \in DOMAIN chain'[t] \cap DOMAIN chain'[u],
                      chain'[t][n] = chain'[u][n], NEW i \in 1..n
               PROVE  chain'[t][i] = chain'[u][i]
    BY DEF OneMoveOnePast
  <2>1. CASE t = u
    BY <2>1
  <2>2. CASE t = s /\ u # s
    BY <1>7, <2>2
  <2>3. CASE u = s /\ t # s
    BY <1>7, <2>3
  <2>4. CASE t # s /\ u # s
    BY <1>2, <2>4 DEF CInv, OneMoveOnePast
  <2> QED
    BY <2>1, <2>2, <2>3, <2>4
<1> QED
  BY <1>4, <1>6, <1>8 DEF CInv, Lines

\* A seat starts again from an earlier transcript.
LEMMA CutKeeps ==
  ASSUME CInv, NEW s \in Honest, NEW saved \in 0..Len(chain[s]), Restart(s, saved)
  PROVE  CInv'
<1>1. \A t \in Honest : Len(chain[t]) \in Nat /\ DOMAIN chain[t] = 1..Len(chain[t])
  BY LenProperties DEF CInv, Lines
<1>2. /\ signed' = signed
      /\ chain'[s] = SubSeq(chain[s], 1, saved)
      /\ \A t \in Honest : t # s => chain'[t] = chain[t]
  BY DEF CInv, Lines, Restart
<1>3. /\ chain'[s] \in Seq(signed) /\ Len(chain'[s]) = saved
      /\ \A i \in 1..saved : chain'[s][i] = chain[s][i]
  <2>1. \A i \in 1..saved : chain[s][i] \in signed
    BY <1>1, ElementOfSeq DEF CInv, Lines
  <2>2. saved \in Int /\ 1 \in Int
    BY <1>1
  <2>3. /\ SubSeq(chain[s], 1, saved) \in Seq(signed)
        /\ Len(SubSeq(chain[s], 1, saved)) = IF 1 <= saved THEN saved - 1 + 1 ELSE 0
        /\ \A i \in 1..(saved - 1 + 1) : SubSeq(chain[s], 1, saved)[i] = chain[s][1 + i - 1]
    BY <2>1, <2>2, SubSeqProperties
  <2> QED
    BY <1>1, <1>2, <2>3
<1>4. DOMAIN chain'[s] = 1..saved
  BY <1>3, LenProperties
<1>5. Lines'
  <2>1. Proper(chain'[s])
    <3> SUFFICES ASSUME NEW i \in 1..saved
                 PROVE  /\ chain'[s][i].domain = "entry" /\ chain'[s][i].seq = i
                        /\ chain'[s][i].signer = chain'[s][i].seat
                        /\ chain'[s][i].seat = Turn[i]
                        /\ i > 1 => chain'[s][i].prev = chain'[s][i - 1]
      BY <1>3 DEF Proper
    <3>1. chain'[s][i] = chain[s][i] /\ (i > 1 => chain'[s][i - 1] = chain[s][i - 1])
      BY <1>1, <1>3
    <3> QED
      BY <1>1, <3>1 DEF CInv, Lines, Proper
  <2>2. chain' \in [Honest -> Seq(signed')]
    BY <1>2, <1>3 DEF CInv, Lines, Restart
  <2> QED
    BY <1>2, <2>1, <2>2 DEF CInv, Lines
<1>6. \A t \in Honest : /\ DOMAIN chain'[t] \subseteq DOMAIN chain[t]
                        /\ DOMAIN chain'[t] = 1..Len(chain'[t]) /\ Len(chain'[t]) \in Nat
                        /\ \A i \in DOMAIN chain'[t] : chain'[t][i] = chain[t][i]
  <2> SUFFICES ASSUME NEW t \in Honest
               PROVE  /\ DOMAIN chain'[t] \subseteq DOMAIN chain[t]
                      /\ DOMAIN chain'[t] = 1..Len(chain'[t]) /\ Len(chain'[t]) \in Nat
                      /\ \A i \in DOMAIN chain'[t] : chain'[t][i] = chain[t][i]
    OBVIOUS
  <2>1. CASE t # s
    BY <1>1, <1>2, <2>1
  <2>2. CASE t = s
    <3>1. saved \in Nat /\ saved <= Len(chain[s])
      BY <1>1
    <3> QED
      BY <1>1, <1>3, <1>4, <2>2, <3>1
  <2> QED
    BY <2>1, <2>2
<1>7. OneMoveOnePast'
  <2> SUFFICES ASSUME NEW t \in Honest, NEW u \in Honest,
                      NEW n \in DOMAIN chain'[t] \cap DOMAIN chain'[u],
                      chain'[t][n] = chain'[u][n], NEW i \in 1..n
               PROVE  chain'[t][i] = chain'[u][i]
    BY DEF OneMoveOnePast
  <2>1. i \in DOMAIN chain'[t] /\ i \in DOMAIN chain'[u]
    BY <1>6
  <2>2. chain[t][n] = chain[u][n] /\ n \in DOMAIN chain[t] \cap DOMAIN chain[u]
    BY <1>6
  <2> QED
    BY <1>6, <2>1, <2>2 DEF CInv, OneMoveOnePast
<1> QED
  BY <1>5, <1>7 DEF CInv

LEMMA StillKeeps ==
  ASSUME CInv, chain' = chain, signed \subseteq signed'
  PROVE  CInv'
<1>1. Lines'
  BY SeqMonotonic DEF CInv, Lines, Proper
<1>2. OneMoveOnePast'
  BY DEF CInv, OneMoveOnePast
<1> QED
  BY <1>1, <1>2 DEF CInv

\* Straight chains are proper, and share the past of what they share.
THEOREM ChainsAreLines == Spec => []CInv
<1>1. Init => CInv
  <2> SUFFICES ASSUME Init PROVE CInv
    OBVIOUS
  <2>1. \A s \in Honest : chain[s] = << >> /\ Len(chain[s]) = 0 /\ chain[s] \in Seq(signed)
    BY EmptySeq DEF Init
  <2>2. Lines
    BY <2>1 DEF Init, Lines, Proper
  <2>3. OneMoveOnePast
    BY <2>1 DEF OneMoveOnePast
  <2> QED
    BY <2>2, <2>3 DEF CInv
<1>2. ASSUME CInv, [Next]_vars
      PROVE  CInv'
  <2>1. ASSUME NEW s \in Honest, NEW move \in Moves, NEW height \in Heights,
               Act(s, move, height)
        PROVE  CInv'
    <3> DEFINE e == Entry(s, s, chain[s], move, height)
    <3>1. e.domain = "entry"
      BY DEF Entry
    <3>2. /\ Entitled(e) /\ Fits(chain[s], e)
          /\ chain' = [chain EXCEPT ![s] = Append(@, e)]
          /\ signed' = signed \cup {e}
      BY <2>1 DEF Act, Sign
    <3> HIDE DEF e
    <3> QED
      BY <1>2, <3>1, <3>2, GrowKeeps
  <2>2. ASSUME NEW s \in Honest, NEW e \in signed, Receive(s, e)
        PROVE  CInv'
    BY <1>2, <2>2, GrowKeeps DEF Receive
  <2>3. ASSUME NEW s \in Honest, AttestHead(s) \/ SignCheckpoint(s)
        PROVE  CInv'
    BY <1>2, <2>3, StillKeeps DEF AttestHead, SignCheckpoint, Sign
  <2>4. ASSUME NEW s \in Honest, NEW deck \in Decks, SignShuffle(s, deck)
        PROVE  CInv'
    BY <1>2, <2>4, StillKeeps DEF SignShuffle
  <2>5. ASSUME NEW s \in Honest, Interrupted(s)
        PROVE  CInv'
    BY <1>2, <2>5, StillKeeps DEF Interrupted, RecordOnly
  <2>6. ASSUME NEW s \in Honest, NEW saved \in 0..Len(chain[s]), Restart(s, saved)
        PROVE  CInv'
    BY <1>2, <2>6, CutKeeps
  <2>7. ASSUME NEW c, NEW e, Lie(c, e)
        PROVE  CInv'
    BY <1>2, <2>7, StillKeeps DEF Lie
  <2>8. CASE UNCHANGED vars
    BY <1>2, <2>8, StillKeeps DEF vars
  <2> QED
    BY <1>2, <2>1, <2>2, <2>3, <2>4, <2>5, <2>6, <2>7, <2>8 DEF Next
<1> QED
  BY <1>1, <1>2, PTL DEF Spec

\* Straight seats that share an entry share everything before it (Chain.Append).
THEOREM SharedMovesShareThePast == Spec => []OneMoveOnePast
BY ChainsAreLines, PTL DEF CInv

-----------------------------------------------------------------------------
(* What a straight seat attests is the head, or the stacks, of a proper     *)
(* chain of signed entries: one it may have lost since.                     *)
Attests(m, c) == m = HeadAttestation(m.signer, c) \/ m = Checkpoint(m.signer, c)

Attested ==
  \A m \in signed :
    m.signer \in Honest /\ m.domain \in {"head", "checkpoint"} =>
      \E c \in Seq(signed) : Proper(c) /\ Attests(m, c)

\* More signatures leave what was attested.
LEMMA AttestedStays ==
  ASSUME Attested, signed \subseteq signed', NEW m \in signed,
         m.signer \in Honest, m.domain \in {"head", "checkpoint"}
  PROVE  \E c \in Seq(signed') : Proper(c) /\ Attests(m, c)
BY SeqMonotonic DEF Attested

\* A signature that attests nothing.
LEMMA SilentKeeps ==
  ASSUME Attested, NEW m, m.domain \notin {"head", "checkpoint"},
         signed' = signed \cup {m}
  PROVE  Attested'
<1> SUFFICES ASSUME NEW x \in signed', x.signer \in Honest, x.domain \in {"head", "checkpoint"}
             PROVE  \E c \in Seq(signed') : Proper(c) /\ Attests(x, c)
  BY DEF Attested, Proper, Attests, HeadAttestation, Checkpoint, HeadOf, GenesisHash
<1> QED
  BY AttestedStays

\* A signature over the chain of the seat that makes it.
LEMMA SaidKeeps ==
  ASSUME Attested, CInv, NEW s \in Honest, NEW m, m.signer = s, Attests(m, chain[s]),
         signed' = signed \cup {m}
  PROVE  Attested'
<1> SUFFICES ASSUME NEW x \in signed', x.signer \in Honest, x.domain \in {"head", "checkpoint"}
             PROVE  \E c \in Seq(signed') : Proper(c) /\ Attests(x, c)
  BY DEF Attested, Proper, Attests, HeadAttestation, Checkpoint, HeadOf, GenesisHash
<1>1. CASE x \in signed
  BY <1>1, AttestedStays
<1>2. CASE x = m
  <2>1. chain[s] \in Seq(signed') /\ Proper(chain[s])
    BY SeqMonotonic DEF CInv, Lines
  <2> QED
    BY <1>2, <2>1
<1> QED
  BY <1>1, <1>2

LEMMA AttestedKeeps ==
  ASSUME CInv, Attested, [Next]_vars
  PROVE  Attested'
<1>1. ASSUME NEW s \in Honest, NEW move \in Moves, NEW height \in Heights,
             Act(s, move, height)
      PROVE  Attested'
  <2> DEFINE e == Entry(s, s, chain[s], move, height)
  <2>1. e.domain \notin {"head", "checkpoint"} /\ signed' = signed \cup {e}
    BY <1>1 DEF Act, Sign, Entry
  <2> HIDE DEF e
  <2> QED
    BY <2>1, SilentKeeps
<1>2. ASSUME NEW s \in Honest, AttestHead(s)
      PROVE  Attested'
  <2> DEFINE m == HeadAttestation(s, chain[s])
  <2>1. m.signer = s /\ Attests(m, chain[s]) /\ signed' = signed \cup {m}
    BY <1>2 DEF AttestHead, Sign, Attests, HeadAttestation
  <2> HIDE DEF m
  <2> QED
    BY <2>1, SaidKeeps
<1>3. ASSUME NEW s \in Honest, SignCheckpoint(s)
      PROVE  Attested'
  <2> DEFINE m == Checkpoint(s, chain[s])
  <2>1. m.signer = s /\ Attests(m, chain[s]) /\ signed' = signed \cup {m}
    BY <1>3 DEF SignCheckpoint, Sign, Attests, Checkpoint
  <2> HIDE DEF m
  <2> QED
    BY <2>1, SaidKeeps
<1>4. ASSUME NEW s \in Honest, NEW deck \in Decks, SignShuffle(s, deck)
      PROVE  Attested'
  <2> DEFINE m == Shuffle(s, Len(chain[s]) + 1, deck)
  <2>1. m.domain \notin {"head", "checkpoint"} /\ signed' = signed \cup {m}
    BY <1>4 DEF SignShuffle, Shuffle
  <2> HIDE DEF m
  <2> QED
    BY <2>1, SilentKeeps
<1>5. ASSUME NEW c \in Cheaters, NEW seat \in Seats, NEW s \in Honest,
             NEW move \in Moves, NEW height \in Heights, NEW n \in 0..Len(chain[s]),
             Lie(c, Entry(seat, c, SubSeq(chain[s], 1, n), move, height))
      PROVE  Attested'
  <2> DEFINE e == Entry(seat, c, SubSeq(chain[s], 1, n), move, height)
  <2>1. e.domain \notin {"head", "checkpoint"} /\ signed' = signed \cup {e}
    BY <1>5 DEF Lie, Entry
  <2> HIDE DEF e
  <2> QED
    BY <2>1, SilentKeeps
<1>6. ASSUME signed' = signed
      PROVE  Attested'
  BY <1>6 DEF Attested, Proper, Attests, HeadAttestation, Checkpoint, HeadOf, GenesisHash
<1>7. ASSUME NEW s \in Honest, NEW e \in signed, Receive(s, e)
      PROVE  Attested'
  BY <1>6, <1>7 DEF Receive
<1>8. ASSUME NEW s \in Honest, Interrupted(s)
      PROVE  Attested'
  BY <1>6, <1>8 DEF Interrupted, RecordOnly
<1>9. ASSUME NEW s \in Honest, NEW saved \in 0..Len(chain[s]), Restart(s, saved)
      PROVE  Attested'
  BY <1>6, <1>9 DEF Restart
<1>10. CASE UNCHANGED vars
  BY <1>6, <1>10 DEF vars
<1> QED
  BY <1>1, <1>2, <1>3, <1>4, <1>5, <1>7, <1>8, <1>9, <1>10 DEF Next

\* Two proper chains of one length that differ hold the two halves of a proof.
LEMMA DifferingLines ==
  ASSUME NEW S, NEW c \in Seq(S), NEW d \in Seq(S), Proper(c), Proper(d),
         Len(c) = Len(d), c # d
  PROVE  \E x, y \in S : Equivocation(x, y)
<1>1. PICK i \in 1..Len(c) : c[i] # d[i]
  BY SeqEqual
<1>2. c[i] \in S /\ d[i] \in S
  BY ElementOfSeq
<1>3. /\ c[i].domain = "entry" /\ d[i].domain = "entry"
      /\ c[i].seq = i /\ d[i].seq = i
      /\ c[i].seat = Turn[i] /\ d[i].seat = Turn[i]
      /\ c[i].signer = c[i].seat /\ d[i].signer = d[i].seat
  BY DEF Proper
<1>4. Equivocation(c[i], d[i])
  BY <1>1, <1>3 DEF Equivocation
<1> QED
  BY <1>2, <1>4

\* Conflicting heads or stacks come from chains that differ.
LEMMA DisputesProve ==
  ASSUME Attested
  PROVE  DisputesHaveACulprit
<1> SUFFICES ASSUME NEW m \in signed, NEW n \in signed,
                    {m.signer, n.signer} \subseteq Honest,
                    \/ m.domain = "head" /\ n.domain = "head" /\ m.seq = n.seq /\ m.head # n.head
                    \/ /\ m.domain = "checkpoint" /\ n.domain = "checkpoint" /\ m.seq = n.seq
                       /\ m.stacks # n.stacks
             PROVE  \E x, y \in signed : Equivocation(x, y)
  BY DEF DisputesHaveACulprit
<1>1. PICK c \in Seq(signed) : Proper(c) /\ Attests(m, c)
  BY DEF Attested
<1>2. PICK d \in Seq(signed) : Proper(d) /\ Attests(n, d)
  BY DEF Attested
<1>3. Len(c) = Len(d) /\ c # d
  <2>1. CASE m.domain = "head" /\ n.domain = "head" /\ m.seq = n.seq /\ m.head # n.head
    <3>1. m = HeadAttestation(m.signer, c) /\ n = HeadAttestation(n.signer, d)
      BY <1>1, <1>2, <2>1 DEF Attests, Checkpoint
    <3>2. /\ m.seq = Len(c) /\ m.head = HeadOf(c)
          /\ n.seq = Len(d) /\ n.head = HeadOf(d)
      BY <3>1 DEF HeadAttestation
    <3> QED
      BY <2>1, <3>2
  <2>2. CASE m.domain = "checkpoint" /\ n.domain = "checkpoint" /\ m.seq = n.seq
             /\ m.stacks # n.stacks
    <3>1. m = Checkpoint(m.signer, c) /\ n = Checkpoint(n.signer, d)
      BY <1>1, <1>2, <2>2 DEF Attests, HeadAttestation
    <3>2. /\ m.seq = Len(c) /\ m.stacks = [i \in DOMAIN c |-> c[i].move]
          /\ n.seq = Len(d) /\ n.stacks = [i \in DOMAIN d |-> d[i].move]
      BY <3>1 DEF Checkpoint
    <3> QED
      BY <2>2, <3>2
  <2> QED
    BY <2>1, <2>2
<1> QED
  BY <1>1, <1>2, <1>3, DifferingLines

\* Where two straight chains part, the two entries give up the key of the seat that
\* signed both.
LEMMA ForksProve ==
  ASSUME CInv
  PROVE  ForksArePunishable
<1> SUFFICES ASSUME NEW s \in Honest, NEW t \in Honest,
                    NEW n \in DOMAIN chain[s] \cap DOMAIN chain[t],
                    chain[s][n] # chain[t][n]
             PROVE  Equivocation(chain[s][n], chain[t][n])
  BY DEF ForksArePunishable
<1>1. n \in 1..Len(chain[s]) /\ n \in 1..Len(chain[t])
  BY LenProperties DEF CInv, Lines
<1>2. /\ chain[s][n].domain = "entry" /\ chain[t][n].domain = "entry"
      /\ chain[s][n].seq = n /\ chain[t][n].seq = n
      /\ chain[s][n].seat = Turn[n] /\ chain[t][n].seat = Turn[n]
      /\ chain[s][n].signer = chain[s][n].seat /\ chain[t][n].signer = chain[t][n].seat
  BY <1>1 DEF CInv, Lines, Proper
<1> QED
  BY <1>2 DEF Equivocation

\* However two straight seats were told two things, somebody's key is out
\* (EquivocationProof, ConflictingHeads, ConflictingCheckpoints).
THEOREM LiarsAreCaught == Spec => []LiesGiveTheKeyAway
<1>1. Init => Attested
  BY DEF Init, Attested
<1>2. CInv /\ Attested /\ [Next]_vars => Attested'
  BY AttestedKeeps
<1>3. CInv /\ Attested => LiesGiveTheKeyAway
  BY ForksProve, DisputesProve, ConvictionsRecover DEF CInv, LiesGiveTheKeyAway
<1> QED
  BY <1>1, <1>2, <1>3, ChainsAreLines, PTL DEF Spec
=============================================================================
