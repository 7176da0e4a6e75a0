---------------------------- MODULE InboxProofs ----------------------------
(***************************************************************************)
(* Nothing that was acknowledged is lost, a number names one frame for     *)
(* good, and the game misses only what was overtaken, for any frames,      *)
(* buffers, interruptions and restarts.                                    *)
(***************************************************************************)
EXTENDS Inbox, FiniteSetTheorems, TLAPS

RecordOf(t) == [seq |-> step[t].seq, frame |-> step[t].frame]
Storing(t) == step[t].at = "stored"
Held == handled \cup inbox \cup ToSet(stream.queue) \cup ({hand} \ {None})

\* Once a prune has begun, nothing that is still to be stored is of the table.
Emptied ==
  /\ table = "settled"
  /\ \A f \in Table : ~Contains(journal, f) /\ ~Contains(todo, f)
  /\ \A t \in Takers : step[t] # Idle => step[t].frame \notin Table

\* What is being taken is in the journal, and nothing is sent to a settled table.
Intake ==
  /\ step["intake"] # Idle => Contains(journal, step["intake"].frame)
  /\ table = "settled" /\ step["intake"] # Idle => step["intake"].frame \notin Table
  /\ lock # "recovery" => todo = <<>> /\ step["recovery"] = Idle
  /\ lock = "prune" => Emptied

\* The numbers given, and the frames that wait to be broadcast under one.
Numbers ==
  /\ IsFiniteSet(inbox)
  /\ \A r \in Held : r.seq <= next
  /\ lastSeq <= next /\ stream.last <= next
  /\ \A r \in Held \ inbox : r.frame \in Table /\ Emptied
  /\ \A a, b \in Held : a.seq = b.seq <=> a.frame = b.frame
  /\ \A t \in Takers : Storing(t) => RecordOf(t) \in inbox
  /\ \A t, u \in Takers : Storing(t) /\ Storing(u) /\ t # u => step[t].seq # step[u].seq

Passed(r) == r \in handled \/ r = hand \/ r.seq \in overtaken

\* The stream's queue ascends, and whatever lies behind one of its numbers was
\* passed, is queued before it or was overtaken.
Queue ==
  /\ stream.at = "closed" => stream.queue = <<>>
  /\ \A i, j \in DOMAIN stream.queue : i < j => stream.queue[i].seq < stream.queue[j].seq
  /\ \A i \in DOMAIN stream.queue : stream.queue[i].seq <= stream.last
  /\ \A i \in DOMAIN stream.queue, r \in ToGame : r.seq <= stream.queue[i].seq =>
       Passed(r) \/ \E j \in 1..i : stream.queue[j] = r

\* An open stream has everything up to its last number; the rest is still to be
\* broadcast.
Cover ==
  /\ stream.at # "closed" =>
       \A r \in ToGame : r.seq <= stream.last => Passed(r) \/ r \in ToSet(stream.queue)
  /\ stream.at = "open" =>
       \A r \in ToGame : r.seq > stream.last => \E t \in Takers : Storing(t) /\ RecordOf(t) = r
  /\ hand # None => \A r \in ToGame : r.seq <= hand.seq => Passed(r)

IInv ==
  /\ TypeOK /\ KeptOnceAcked /\ Intake
  /\ Numbers
  /\ Queue /\ Cover /\ OnlyOvertakenAreLost

-----------------------------------------------------------------------------
(* Sequences of what a set has, and the larger of two numbers              *)

\* A listing of a finite set has every element of it, and no other.
LEMMA Listed ==
  ASSUME NEW S, IsFiniteSet(S), NEW s \in SetToSeqs(S)
  PROVE  /\ s \in Seq(S) /\ DOMAIN s = 1..Len(s)
         /\ ToSet(s) = S
         /\ \A i, j \in 1..Len(s) : i # j => s[i] # s[j]
<1> DEFINE n == Cardinality(S)
<1>1. n \in Nat /\ IsFiniteSet(1..n) /\ Cardinality(1..n) = n
  BY FS_CardinalityType, FS_Interval
<1> HIDE DEF n
<1>2. s \in [1..n -> S] /\ \A i, j \in 1..n : i # j => s[i] # s[j]
  BY DEF SetToSeqs, n
<1>3. s \in Seq(S) /\ Len(s) = n /\ DOMAIN s = 1..Len(s)
  BY <1>1, <1>2
<1>4. s \in Injection(1..n, S)
  BY <1>2 DEF Injection, IsInjective
<1>5. s \in Surjection(1..n, S)
  BY <1>1, <1>4, FS_Injection DEF n
<1>6. \A x \in S : \E i \in 1..n : s[i] = x
  BY <1>5 DEF Surjection
<1>7. ToSet(s) = S
  BY <1>2, <1>3, <1>6 DEF ToSet
<1>8. QED
  BY <1>2, <1>3, <1>7

LEMMA InSequence ==
  ASSUME NEW S, NEW s \in Seq(S)
  PROVE  /\ DOMAIN s = 1..Len(s) /\ Len(s) \in Nat
         /\ \A f : Contains(s, f) <=> f \in ToSet(s)
  BY DEF Contains, ToSet

\* What is read from the journal is a group's share of it.
LEMMA HistoryIsShare ==
  ASSUME TypeOK, NEW group \in SUBSET Frames, NEW s \in Histories(group)
  PROVE  /\ s \in Seq(Frames)
         /\ \A f : Contains(s, f) <=> f \in group /\ Contains(journal, f)
<1> DEFINE S == {f \in group : Contains(journal, f)}
           n == Len(journal)
           T == ToSet(journal)
           j == [i \in 1..n |-> journal[i]]
<1>1. journal \in Seq(Frames) /\ n \in Nat /\ DOMAIN journal = 1..n
  BY DEF TypeOK
<1>2. j \in Surjection(1..n, T)
  BY <1>1 DEF Surjection, ToSet
<1>3. IsFiniteSet(1..n)
  BY <1>1, FS_Interval
<1>4. IsFiniteSet(T)
  <2> HIDE DEF j, n, T
  <2> QED BY <1>2, <1>3, FS_Surjection
<1>5. S \subseteq T
  BY <1>1 DEF Contains, ToSet
<1>6. IsFiniteSet(S)
  <2> HIDE DEF S, T
  <2> QED BY <1>4, <1>5, FS_Subset
<1>7. s \in SetToSeqs(S)
  BY DEF Histories
<1>8. s \in Seq(S) /\ ToSet(s) = S
  <2> HIDE DEF S
  <2> QED BY <1>6, <1>7, Listed
<1>9. \A f : Contains(s, f) <=> f \in S
  <2> HIDE DEF S
  <2> QED BY <1>8, InSequence
<1>10. s \in Seq(Frames)
  <2>1. S \subseteq Frames
    OBVIOUS
  <2> HIDE DEF S
  <2> QED BY <2>1, <1>8
<1>11. QED
  BY <1>9, <1>10

LEMMA LargerOfTwo ==
  ASSUME NEW a \in Nat, NEW b \in Nat
  PROVE  Max({a, b}) = IF a >= b THEN a ELSE b
<1> DEFINE c == IF a >= b THEN a ELSE b
<1>1. c \in {a, b} /\ \A y \in {a, b} : c >= y
  OBVIOUS
<1>2. \A x \in {a, b} : (\A y \in {a, b} : x >= y) => x = c
  OBVIOUS
<1>3. QED
  BY <1>1, <1>2 DEF Max

-----------------------------------------------------------------------------
(* Steps                                                                   *)

\* Where intake and recovery may stand.
LEMMA StepFacts ==
  ASSUME TypeOK, NEW t \in Takers
  PROVE  /\ step[t].at \in {"idle", "deliver", "stored"}
         /\ step[t] = Idle <=> step[t].at = "idle"
         /\ step[t].at \in {"deliver", "stored"} => step[t].frame \in Frames
         /\ Storing(t) => step[t].seq \in Nat
  BY DEF TypeOK, Steps, Idle, Storing

LEMMA Recorded ==
  ASSUME TypeOK
  PROVE  /\ Held \subseteq Numbered
         /\ \A r \in Numbered : r.seq \in Nat /\ r.seq > 0 /\ r.frame \in Frames
         /\ ToGame \subseteq inbox /\ inbox \subseteq Held
         /\ stream.queue \in Seq(Numbered) /\ DOMAIN stream.queue = 1..Len(stream.queue)
         /\ \A i \in DOMAIN stream.queue :
              stream.queue[i] \in Numbered /\ stream.queue[i] \in Held
<1>1. /\ stream.queue \in Seq(Numbered) /\ inbox \subseteq Numbered /\ handled \subseteq Numbered
      /\ hand \in Numbered \cup {None}
  BY DEF TypeOK
<1>2. /\ DOMAIN stream.queue = 1..Len(stream.queue)
      /\ \A i \in DOMAIN stream.queue : stream.queue[i] \in Numbered
  BY <1>1
<1>3. Held \subseteq Numbered
  BY <1>1, <1>2 DEF Held, ToSet
<1>4. \A r \in Numbered : r.seq \in Nat /\ r.seq > 0 /\ r.frame \in Frames
  BY DEF Numbered
<1>5. \A i \in DOMAIN stream.queue : stream.queue[i] \in Held
  BY DEF Held, ToSet
<1>6. QED
  BY <1>1, <1>2, <1>3, <1>4, <1>5 DEF Held, ToGame

-----------------------------------------------------------------------------
(* What a step leaves alone                                                *)

\* What still waits to be broadcast, or stands in an open stream, is what it was.
LEMMA Untouched ==
  ASSUME IInv, UNCHANGED <<inbox, next, stream, hand, lastSeq, handled, overtaken>>,
         \A t \in Takers : /\ Storing(t)' <=> Storing(t)
                           /\ Storing(t) => step'[t] = step[t],
         Emptied => Emptied'
  PROVE  Numbers' /\ Queue' /\ Cover' /\ OnlyOvertakenAreLost'
<1>1. Held' = Held /\ ToGame' = ToGame
  BY DEF Held, ToGame
<1>2. \A t \in Takers : /\ Storing(t)' <=> Storing(t)
                        /\ Storing(t) => RecordOf(t)' = RecordOf(t) /\ step'[t].seq = step[t].seq
  BY DEF RecordOf
<1>3. \A r : Passed(r)' <=> Passed(r)
  BY DEF Passed
<1>4. Numbers'
  BY <1>1, <1>2 DEF IInv, Numbers
<1>5. Queue'
  BY <1>1, <1>3 DEF IInv, Queue
<1>6. Cover'
  BY <1>1, <1>2, <1>3 DEF IInv, Cover
<1>7. QED
  BY <1>1, <1>4, <1>5, <1>6 DEF IInv, OnlyOvertakenAreLost

\* Only what the step adds to the journal, to what is read back, or to a taker's
\* hands can bring a frame of an emptied table back.
LEMMA StaysEmpty ==
  ASSUME Emptied, table' = table,
         \A f \in Table : Contains(journal', f) => Contains(journal, f),
         \A f \in Table : Contains(todo', f) => Contains(todo, f) \/ Contains(journal, f),
         \A t \in Takers : \/ step'[t] \in {step[t], Idle}
                           \/ step'[t].frame \notin Table
  PROVE  Emptied'
  BY DEF Emptied

LEMMA InitIInv == Init => IInv
<1> SUFFICES ASSUME Init PROVE IInv
  OBVIOUS
<1>1. TypeOK
  <2>1. Idle \in Steps /\ <<>> \in Seq(Frames) /\ <<>> \in Seq(Numbered)
    BY DEF Steps
  <2>2. Closed \in [at : {"closed", "open", "closing"}, queue : Seq(Numbered), last : Nat, room : Nat]
    BY <2>1 DEF Closed
  <2>3. QED
    BY <2>1, <2>2 DEF Init, TypeOK
<1>2. Held = {} /\ ToGame = {} /\ stream.queue = <<>>
  BY DEF Init, Held, ToGame, Closed, ToSet
<1>3. \A t \in Takers : step[t] = Idle /\ ~Storing(t)
  BY DEF Init, Storing, Idle
<1>4. KeptOnceAcked /\ Intake
  BY <1>3 DEF Init, KeptOnceAcked, Intake, Takers
<1>5. Numbers
  BY <1>2, <1>3, FS_EmptySet DEF Init, Numbers, Closed
<1>6. Queue /\ Cover /\ OnlyOvertakenAreLost
  BY <1>2 DEF Init, Queue, Cover, OnlyOvertakenAreLost, Closed
<1>7. QED
  BY <1>1, <1>4, <1>5, <1>6 DEF IInv

-----------------------------------------------------------------------------
(* Intake                                                                  *)

LEMMA JournaledFacts ==
  ASSUME TypeOK, NEW f \in Frames
  PROVE  /\ Journaled(f) \in Seq(Frames)
         /\ \A g : Contains(Journaled(f), g) <=> g = f \/ Contains(journal, g)
<1>1. journal \in Seq(Frames)
  BY DEF TypeOK
<1>2. CASE Contains(journal, f)
  BY <1>1, <1>2 DEF Journaled
<1>3. CASE ~Contains(journal, f)
  <2>1. Journaled(f) = Append(journal, f)
    BY <1>3 DEF Journaled
  <2>2. /\ Append(journal, f) \in Seq(Frames)
        /\ Len(Append(journal, f)) = Len(journal) + 1
        /\ \A i \in 1..Len(journal) : Append(journal, f)[i] = journal[i]
        /\ Append(journal, f)[Len(journal) + 1] = f
    BY <1>1
  <2>3. \A g : Contains(Append(journal, f), g) <=> g = f \/ Contains(journal, g)
    BY <1>1, <2>2 DEF Contains
  <2>4. QED
    BY <2>1, <2>2, <2>3
<1>4. QED
  BY <1>2, <1>3

LEMMA ReceiveIInv ==
  ASSUME IInv, NEW f \in Frames, Receive(f)
  PROVE  IInv'
<1>1. TypeOK
  BY DEF IInv
<1>2. CASE /\ journal' = Journaled(f) /\ UNCHANGED faults
           /\ step' = [step EXCEPT !["intake"] = [at |-> "deliver", frame |-> f]]
  <2>1. /\ step["intake"] = Idle /\ ~Storing("intake")
        /\ f \in Table => table # "settled"
    BY DEF Receive, Repeated, Idle, Storing
  <2>2. /\ journal' \in Seq(Frames)
        /\ \A g : Contains(journal', g) <=> g = f \/ Contains(journal, g)
    BY <1>1, <1>2, JournaledFacts
  <2>3. /\ \A t \in Takers : t # "intake" => step'[t] = step[t]
        /\ step'["intake"] = [at |-> "deliver", frame |-> f]
        /\ step'["intake"].at = "deliver" /\ step'["intake"].frame = f
    BY <1>1, <1>2 DEF TypeOK, Takers
  <2>4. [at |-> "deliver", frame |-> f] \in Steps
    BY DEF Steps
  <2>5. TypeOK'
    BY <1>1, <1>2, <2>2, <2>4 DEF TypeOK, Receive, game, recovery
  <2>6. Emptied => Emptied'
    <3> SUFFICES ASSUME Emptied PROVE Emptied'
      OBVIOUS
    <3>1. f \notin Table
      BY <2>1 DEF Emptied
    <3>2. QED
      BY <2>2, <2>3, <3>1, StaysEmpty DEF Receive, recovery
  <2>7. Numbers' /\ Queue' /\ Cover' /\ OnlyOvertakenAreLost'
    BY <2>1, <2>3, <2>6, Untouched DEF Receive, game, Storing
  <2>8. KeptOnceAcked'
    BY <2>2 DEF IInv, KeptOnceAcked, Receive
  <2>9. Intake'
    BY <2>1, <2>2, <2>3, <2>6 DEF IInv, Intake, Receive, recovery, Takers
  <2>10. QED
    BY <2>5, <2>7, <2>8, <2>9 DEF IInv
<1>3. CASE Fail /\ UNCHANGED <<journal, step>>
  <2>1. UNCHANGED <<acked, journal, inbox, next, table, step, recovery, pruned, done, game, overtaken>>
    BY <1>3 DEF Receive
  <2>2. TypeOK'
    BY <1>1, <1>3, <2>1 DEF TypeOK, Fail, game, recovery
  <2>3. Emptied' <=> Emptied
    BY <2>1 DEF Emptied, recovery
  <2>4. Numbers' /\ Queue' /\ Cover' /\ OnlyOvertakenAreLost'
    BY <2>1, <2>3, Untouched DEF game, Storing
  <2>5. KeptOnceAcked' /\ Intake'
    BY <2>1, <2>3 DEF IInv, KeptOnceAcked, Intake, recovery
  <2>6. QED
    BY <2>2, <2>4, <2>5 DEF IInv
<1>4. QED
  BY <1>2, <1>3 DEF Receive

\* A call that returned acknowledges what is in the journal, or was settled with.
LEMMA Finished ==
  ASSUME IInv, NEW t \in Takers, NEW f \in Frames, step[t] # Idle, step[t].frame = f,
         Finish(t, f), UNCHANGED <<journal, table, recovery>>
  PROVE  /\ acked' \subseteq Frames /\ step' \in [Takers -> Steps]
         /\ step'[t] = Idle /\ ~Storing(t)' /\ \A u \in Takers : u # t => step'[u] = step[u]
         /\ KeptOnceAcked' /\ Intake'
         /\ Emptied => Emptied'
<1>1. TypeOK /\ KeptOnceAcked /\ Intake
  BY DEF IInv
<1>2. Idle \in Steps /\ Idle.at = "idle"
  BY DEF Steps, Idle
<1>3. /\ step' \in [Takers -> Steps]
      /\ step'[t] = Idle /\ \A u \in Takers : u # t => step'[u] = step[u]
  BY <1>1, <1>2 DEF TypeOK, Finish
<1>4. acked' \subseteq Frames /\ acked' \subseteq acked \cup {f}
  BY <1>1 DEF TypeOK, Finish
<1>5. ~Storing(t)'
  BY <1>2, <1>3 DEF Storing
<1>6. KeptOnceAcked'
  <2>1. CASE t = "intake"
    BY <2>1, <1>1, <1>4 DEF KeptOnceAcked, Intake
  <2>2. CASE t # "intake"
    BY <2>2, <1>1 DEF KeptOnceAcked, Finish
  <2>3. QED
    BY <2>1, <2>2
<1>7. Emptied => Emptied'
  BY <1>3, StaysEmpty DEF recovery
<1>8. Intake'
  <2>1. "intake" \in Takers /\ "recovery" \in Takers
    BY DEF Takers
  <2>2. step'["intake"] \in {step["intake"], Idle} /\ step'["recovery"] \in {step["recovery"], Idle}
    BY <2>1, <1>3
  <2>3. QED
    BY <1>1, <1>7, <2>2 DEF Intake, recovery
<1>9. QED
  BY <1>3, <1>4, <1>5, <1>6, <1>7, <1>8

\* A new number is beyond everything the game or the stream has seen, and what it
\* stands for was nowhere yet.
LEMMA Fresh ==
  ASSUME IInv, NEW t \in Takers, step[t].at = "deliver", ~Stored(step[t].frame)
  PROVE  /\ step[t].frame \in Frames
         /\ \A r \in Held : r.frame # step[t].frame /\ r.seq < next + 1
<1>1. TypeOK /\ Numbers
  BY DEF IInv
<1>2. step[t].frame \in Frames /\ step[t] # Idle
  BY <1>1, StepFacts DEF Idle
<1>3. ASSUME NEW r \in Held PROVE r.frame # step[t].frame
  <2>1. CASE r \in inbox
    BY <2>1 DEF Stored
  <2>2. CASE r \notin inbox
    BY <2>2, <1>1, <1>2 DEF Numbers, Emptied
  <2>3. QED
    BY <2>1, <2>2
<1>4. \A r \in Held : r.seq \in Nat /\ r.seq <= next
  BY <1>1, Recorded DEF Numbers
<1>5. next \in Nat
  BY <1>1 DEF TypeOK
<1>6. QED
  BY <1>2, <1>3, <1>4, <1>5

\* A frame that is stored gets the next number, and waits to be broadcast.
LEMMA StoreIInv ==
  ASSUME IInv, NEW t \in Takers, step[t].at = "deliver", ~Stored(step[t].frame),
         next' = Number,
         inbox' = inbox \cup {[seq |-> next', frame |-> step[t].frame]},
         step' = [step EXCEPT ![t] = [at |-> "stored", frame |-> step[t].frame, seq |-> next']],
         UNCHANGED <<acked, faults, journal, table, recovery, pruned, done, game, overtaken>>
  PROVE  IInv'
<1> DEFINE f == step[t].frame
           new == [seq |-> next + 1, frame |-> f]
<1>1. TypeOK /\ KeptOnceAcked /\ Intake /\ Numbers /\ Queue /\ Cover /\ OnlyOvertakenAreLost
  BY DEF IInv
<1>2. /\ f \in Frames /\ next \in Nat /\ next' = next + 1 /\ new \in Numbered
      /\ inbox' = inbox \cup {new}
  BY <1>1, Fresh DEF TypeOK, Numbered, Number
<1>3. /\ step' \in [Takers -> Steps]
      /\ step'[t] = [at |-> "stored", frame |-> f, seq |-> next + 1]
      /\ \A u \in Takers : u # t => step'[u] = step[u]
  <2>1. [at |-> "stored", frame |-> f, seq |-> next + 1] \in Steps
    BY <1>2 DEF Steps
  <2>2. QED
    BY <1>1, <1>2, <2>1 DEF TypeOK
<1>4. /\ step[t] # Idle /\ ~Storing(t) /\ Storing(t)' /\ RecordOf(t)' = new
      /\ \A u \in Takers : u # t => (Storing(u)' <=> Storing(u)) /\ RecordOf(u)' = RecordOf(u)
  BY <1>3 DEF Idle, Storing, RecordOf
<1>5. TypeOK'
  BY <1>1, <1>2, <1>3 DEF TypeOK, recovery, game
<1>6. KeptOnceAcked'
  BY <1>1 DEF KeptOnceAcked
<1>7. Emptied => Emptied'
  <2> SUFFICES ASSUME Emptied PROVE Emptied'
    OBVIOUS
  <2>1. f \notin Table
    BY <1>4 DEF Emptied
  <2>2. step'[t].frame \notin Table
    BY <1>3, <2>1
  <2>3. QED
    BY <1>3, <2>2, StaysEmpty DEF recovery
<1>8. Intake'
  <2>1. "intake" \in Takers /\ "recovery" \in Takers
    BY DEF Takers
  <2>2. \A u \in Takers : /\ step'[u] # Idle => step[u] # Idle /\ step'[u].frame = step[u].frame
                          /\ step[u] = Idle => step'[u] = Idle
    BY <1>3, <1>4
  <2>3. QED
    BY <1>1, <1>7, <2>1, <2>2 DEF Intake, recovery
<1>9. /\ Held' = Held \cup {new} /\ ToGame' \subseteq ToGame \cup {new} /\ inbox \subseteq Held
      /\ new \in ToGame' => new.frame \notin Financial
      /\ \A r : Passed(r)' <=> Passed(r)
  BY <1>2 DEF Held, ToGame, Passed, game
<1> HIDE DEF new
<1>10. new.seq = next + 1 /\ new.frame = f
  BY DEF new
<1>11. \A r \in Held : r.seq \in Nat /\ r.seq <= next /\ r.seq # new.seq /\ r.frame # new.frame
  BY <1>1, <1>2, <1>10, Fresh, Recorded DEF Numbers
<1>12. Numbers'
  <2>1. IsFiniteSet(inbox')
    BY <1>1, <1>2, FS_AddElement DEF Numbers
  <2>2. \A r \in Held' : r.seq <= next'
    BY <1>2, <1>9, <1>10, <1>11
  <2>3. lastSeq' <= next' /\ stream'.last <= next'
    BY <1>1, <1>2 DEF Numbers, TypeOK, game
  <2>4. \A r \in Held' \ inbox' : r.frame \in Table /\ Emptied'
    BY <1>1, <1>2, <1>7, <1>9 DEF Numbers
  <2>5. \A a, b \in Held' : a.seq = b.seq <=> a.frame = b.frame
    BY <1>1, <1>9, <1>11 DEF Numbers
  <2>6. \A u \in Takers : Storing(u)' => RecordOf(u)' \in inbox'
    BY <1>1, <1>2, <1>4 DEF Numbers
  <2>7. ASSUME NEW u \in Takers, Storing(u) PROVE step[u].seq # next + 1
    <3>1. RecordOf(u) \in inbox /\ RecordOf(u).seq = step[u].seq
      BY <1>1, <2>7 DEF Numbers, RecordOf
    <3>2. RecordOf(u) \in Held
      BY <1>9, <3>1
    <3> QED
      BY <1>10, <1>11, <3>1, <3>2
  <2>8. \A u, w \in Takers : Storing(u)' /\ Storing(w)' /\ u # w => step'[u].seq # step'[w].seq
    BY <1>1, <1>3, <1>4, <2>7 DEF Numbers
  <2>9. QED
    BY <2>1, <2>2, <2>3, <2>4, <2>5, <2>6, <2>8 DEF Numbers
<1>13. stream.last \in Nat /\ stream.last < new.seq /\ lastSeq < new.seq
  BY <1>1, <1>2, <1>10 DEF Numbers, TypeOK
<1>14. Queue'
  <2>1. \A i \in DOMAIN stream.queue : stream.queue[i].seq < new.seq
    BY <1>1, <1>2, <1>10, <1>11, Recorded
  <2>2. \A i \in DOMAIN stream.queue, r \in ToGame' : r.seq <= stream.queue[i].seq => r \in ToGame
    BY <1>9, <1>10, <1>2, <2>1, <1>1, Recorded
  <2>3. QED
    BY <1>1, <1>9, <2>2 DEF Queue, game
<1>15. Cover'
  <2>1. hand # None => hand \in Held
    BY DEF Held
  <2>2. \A r \in ToGame' : r.seq <= stream.last => r \in ToGame
    BY <1>9, <1>10, <1>13, <1>2
  <2>3. hand # None => \A r \in ToGame' : r.seq <= hand.seq => r \in ToGame
    BY <1>9, <1>10, <1>11, <2>1, <1>2
  <2>4. \A r \in ToGame : (\E u \in Takers : Storing(u) /\ RecordOf(u) = r)
                       => \E u \in Takers : Storing(u)' /\ RecordOf(u)' = r
    BY <1>4
  <2>5. QED
    BY <1>1, <1>4, <1>9, <2>2, <2>3, <2>4 DEF Cover, game
<1>16. OnlyOvertakenAreLost'
  <2>1. \A r \in ToGame' : r.seq <= lastSeq => r \in ToGame
    BY <1>1, <1>9, <1>10, <1>13, <1>2 DEF TypeOK
  <2>2. QED
    BY <1>1, <2>1 DEF OnlyOvertakenAreLost, game
<1>17. QED
  BY <1>5, <1>6, <1>8, <1>12, <1>14, <1>15, <1>16 DEF IInv

LEMMA DeliverIInv ==
  ASSUME IInv, NEW t \in Takers, Deliver(t)
  PROVE  IInv'
<1> DEFINE f == step[t].frame
<1>1. TypeOK
  BY DEF IInv
<1>2. f \in Frames /\ step[t] # Idle /\ ~Storing(t) /\ step[t].at = "deliver"
  BY <1>1, StepFacts DEF Deliver, Idle, Storing
<1>3. UNCHANGED <<journal, table, recovery, pruned, done, game, overtaken>>
  BY DEF Deliver
<1>4. CASE Finish(t, f) /\ UNCHANGED <<inbox, next>> /\ faults' \in Nat
  <2>1. /\ acked' \subseteq Frames /\ step' \in [Takers -> Steps]
        /\ step'[t] = Idle /\ ~Storing(t)' /\ \A u \in Takers : u # t => step'[u] = step[u]
        /\ KeptOnceAcked' /\ Intake'
        /\ Emptied => Emptied'
    BY <1>2, <1>3, <1>4, Finished
  <2>2. TypeOK'
    BY <1>1, <1>3, <1>4, <2>1 DEF TypeOK, recovery, game
  <2>3. Numbers' /\ Queue' /\ Cover' /\ OnlyOvertakenAreLost'
    BY <1>2, <1>3, <1>4, <2>1, Untouched DEF game, Storing
  <2>4. QED
    BY <2>1, <2>2, <2>3 DEF IInv
<1>5. CASE /\ ~Stored(f) /\ next' = Number
           /\ inbox' = inbox \cup {[seq |-> next', frame |-> f]}
           /\ step' = [step EXCEPT ![t] = [at |-> "stored", frame |-> f, seq |-> next']]
           /\ UNCHANGED <<acked, faults>>
  BY <1>2, <1>3, <1>5, StoreIInv
<1>6. faults \in Nat /\ (Fail => faults' \in Nat)
  BY <1>1 DEF TypeOK, Fail
<1>7. QED
  BY <1>4, <1>5, <1>6 DEF Deliver

LEMMA EnqueueIInv ==
  ASSUME IInv, NEW t \in Takers, Enqueue(t)
  PROVE  IInv'
<1> DEFINE f == step[t].frame
<1>1. TypeOK /\ Numbers /\ Queue /\ Cover /\ OnlyOvertakenAreLost
  BY DEF IInv
<1>2. f \in Frames /\ step[t] # Idle /\ Storing(t) /\ f \in Financial /\ RecordOf(t).frame = f
  BY <1>1, StepFacts DEF Enqueue, Idle, Storing, RecordOf
<1>3. UNCHANGED <<journal, inbox, next, table, recovery, pruned, done, game, faults, overtaken>>
      /\ Finish(t, f)
  BY DEF Enqueue, disk
<1>4. /\ acked' \subseteq Frames /\ step' \in [Takers -> Steps]
      /\ step'[t] = Idle /\ ~Storing(t)' /\ \A u \in Takers : u # t => step'[u] = step[u]
      /\ KeptOnceAcked' /\ Intake'
      /\ Emptied => Emptied'
  BY <1>2, <1>3, Finished
<1>5. TypeOK'
  BY <1>1, <1>3, <1>4 DEF TypeOK, recovery, game
<1>6. /\ Held' = Held /\ ToGame' = ToGame
      /\ \A r : Passed(r)' <=> Passed(r)
      /\ \A u \in Takers : u # t => (Storing(u)' <=> Storing(u)) /\ RecordOf(u)' = RecordOf(u)
  BY <1>3, <1>4 DEF Held, ToGame, Passed, game, Storing, RecordOf
<1>7. Numbers'
  BY <1>1, <1>3, <1>4, <1>6 DEF Numbers, game
<1>8. Queue' /\ OnlyOvertakenAreLost'
  BY <1>1, <1>3, <1>6 DEF Queue, OnlyOvertakenAreLost, game
<1>9. Cover'
  <2>1. \A r \in ToGame : r # RecordOf(t)
    BY <1>2 DEF ToGame
  <2>2. \A r \in ToGame : (\E u \in Takers : Storing(u) /\ RecordOf(u) = r)
                       => \E u \in Takers : Storing(u)' /\ RecordOf(u)' = r
    BY <1>6, <2>1
  <2>3. QED
    BY <1>1, <1>3, <1>6, <2>2 DEF Cover, game
<1>10. QED
  BY <1>4, <1>5, <1>7, <1>8, <1>9 DEF IInv

\* A frame is offered to the stream; those stored before it and not offered yet are
\* overtaken by it.
LEMMA BroadcastIInv ==
  ASSUME IInv, NEW t \in Takers, Broadcast(t)
  PROVE  IInv'
<1> DEFINE f == step[t].frame
           rec == RecordOf(t)
<1>1. TypeOK /\ Numbers /\ Queue /\ Cover /\ OnlyOvertakenAreLost
  BY DEF IInv
<1>2. /\ f \in Frames /\ step[t] # Idle /\ Storing(t) /\ f \notin Financial
      /\ rec.frame = f /\ rec.seq = step[t].seq
  BY <1>1, StepFacts DEF Broadcast, Idle, Storing, RecordOf
<1>3. /\ UNCHANGED <<journal, inbox, next, table, recovery, pruned, done, hand, lastSeq, handled, faults>>
      /\ stream' = Offered(rec) /\ Finish(t, f)
      /\ overtaken' = overtaken \cup {n \in Behind(t) : n < rec.seq}
  BY <1>2 DEF Broadcast, disk, RecordOf
<1>4. rec \in inbox /\ rec \in ToGame /\ rec \in Numbered /\ rec \in Held /\ rec.seq \in Nat /\ rec.seq <= next
  BY <1>1, <1>2, Recorded DEF Numbers, ToGame
<1>5. /\ acked' \subseteq Frames /\ step' \in [Takers -> Steps]
      /\ step'[t] = Idle /\ ~Storing(t)' /\ \A u \in Takers : u # t => step'[u] = step[u]
      /\ KeptOnceAcked' /\ Intake'
      /\ Emptied => Emptied'
  BY <1>2, <1>3, Finished
<1>6. \A u \in Takers : u # t => (Storing(u)' <=> Storing(u)) /\ RecordOf(u)' = RecordOf(u)
  BY <1>5 DEF Storing, RecordOf
<1>7. \A u \in Takers : Storing(u) /\ u # t => RecordOf(u).seq \in Behind(t) /\ RecordOf(u).seq \in Nat
  BY <1>1, StepFacts DEF Behind, Storing, RecordOf
<1>8. overtaken' \subseteq Nat
  BY <1>1, <1>3, StepFacts DEF Behind, Storing, TypeOK
<1> HIDE DEF rec, f
<1>9. ToGame' = ToGame /\ \A r : Passed(r) => Passed(r)'
  BY <1>3 DEF ToGame, Passed
<1>10. /\ stream \in [at : {"closed", "open", "closing"}, queue : Seq(Numbered), last : Nat, room : Nat]
       /\ stream.queue \in Seq(Numbered) /\ Len(stream.queue) \in Nat
       /\ DOMAIN stream.queue = 1..Len(stream.queue)
  BY <1>1 DEF TypeOK
<1>11. CASE stream.at = "open" /\ rec.seq > stream.last /\ Len(stream.queue) < stream.room
  <2> DEFINE q == stream.queue
             n == Len(stream.queue)
  <2>1. /\ stream' = [stream EXCEPT !.queue = Append(@, rec), !.last = rec.seq]
        /\ stream'.queue = Append(q, rec) /\ stream'.last = rec.seq /\ stream'.at = "open"
    BY <1>3, <1>4, <1>10, <1>11 DEF Offered
  <2>2. /\ Append(q, rec) \in Seq(Numbered) /\ DOMAIN Append(q, rec) = 1..(n + 1)
        /\ \A i \in 1..n : Append(q, rec)[i] = q[i]
        /\ Append(q, rec)[n + 1] = rec
    BY <1>4, <1>10
  <2>3. stream' \in [at : {"closed", "open", "closing"}, queue : Seq(Numbered), last : Nat, room : Nat]
    BY <1>4, <1>10, <2>1, <2>2
  <2>4. TypeOK'
    BY <1>1, <1>3, <1>5, <1>8, <2>3 DEF TypeOK, recovery
  <2>5. ToSet(Append(q, rec)) = ToSet(q) \cup {rec}
    BY <1>10, <2>2 DEF ToSet
  <2>6. Held' = Held \cup {rec} /\ Held' = Held
    BY <1>3, <1>4, <2>1, <2>5 DEF Held
  <2>7. Numbers'
    BY <1>1, <1>3, <1>4, <1>5, <1>6, <2>1, <2>6 DEF Numbers
  <2>8. \A r \in ToGame : r.seq <= rec.seq => Passed(r)' \/ r = rec \/ r \in ToSet(q)
    <3> SUFFICES ASSUME NEW r \in ToGame, r.seq <= rec.seq PROVE Passed(r)' \/ r = rec \/ r \in ToSet(q)
      OBVIOUS
    <3>0. r.seq \in Nat /\ stream.last \in Nat
      BY <1>1, <1>10, Recorded
    <3>1. CASE r.seq <= stream.last
      BY <3>1, <1>1, <1>9, <1>11 DEF Cover
    <3>2. CASE r.seq > stream.last
      <4>1. PICK u \in Takers : Storing(u) /\ RecordOf(u) = r
        BY <3>2, <1>1, <1>11 DEF Cover
      <4>2. CASE u = t
        BY <4>1, <4>2 DEF rec
      <4>3. CASE u # t
        <5>1. r.seq \in Behind(t) /\ r.seq # rec.seq
          BY <4>1, <4>3, <1>1, <1>2, <1>7 DEF Numbers, RecordOf, rec
        <5>2. r.seq \in overtaken'
          BY <5>1, <1>3, <1>4, <3>0
        <5>3. QED
          BY <5>2 DEF Passed
      <4>4. QED
        BY <4>2, <4>3
    <3>3. QED
      BY <3>0, <3>1, <3>2
  <2>9. \A r \in ToSet(q) : \E i \in 1..n : q[i] = r
    BY <1>10 DEF ToSet
  <2>10. \A i \in 1..n : q[i].seq \in Nat /\ q[i].seq <= stream.last /\ q[i].seq < rec.seq
    BY <1>1, <1>4, <1>10, <1>11, Recorded DEF Queue
  <2>11. Queue'
    <3>1. \A i, j \in 1..(n + 1) : i < j => Append(q, rec)[i].seq < Append(q, rec)[j].seq
      <4> SUFFICES ASSUME NEW i \in 1..(n + 1), NEW j \in 1..(n + 1), i < j
                   PROVE  Append(q, rec)[i].seq < Append(q, rec)[j].seq
        OBVIOUS
      <4>1. i \in 1..n /\ Append(q, rec)[i] = q[i]
        BY <1>10, <2>2
      <4>2. CASE j \in 1..n
        BY <4>1, <4>2, <1>1, <1>10, <2>2 DEF Queue
      <4>3. CASE j = n + 1
        BY <4>1, <4>3, <2>2, <2>10
      <4>4. QED
        BY <4>2, <4>3, <1>10
    <3>2. \A i \in 1..(n + 1) : Append(q, rec)[i].seq <= rec.seq
      BY <1>4, <1>10, <2>2, <2>10
    <3>3. ASSUME NEW i \in 1..(n + 1), NEW r \in ToGame, r.seq <= Append(q, rec)[i].seq
          PROVE  Passed(r)' \/ \E j \in 1..i : Append(q, rec)[j] = r
      <4>1. CASE i \in 1..n
        <5>1. Passed(r) \/ \E j \in 1..i : q[j] = r
          BY <1>1, <1>10, <2>2, <3>3, <4>1 DEF Queue
        <5>2. \A j \in 1..i : j \in 1..n
          BY <4>1, <1>10
        <5>3. QED
          BY <5>1, <5>2, <1>9, <2>2
      <4>2. CASE i = n + 1
        <5>1. Append(q, rec)[i] = rec /\ i \in 1..i
          BY <1>10, <2>2, <4>2
        <5>2. CASE r \in ToSet(q)
          <6>1. PICK k \in 1..n : q[k] = r
            BY <2>9, <5>2
          <6>2. k \in 1..i /\ Append(q, rec)[k] = r
            BY <1>10, <2>2, <4>2, <6>1
          <6> QED
            BY <6>2
        <5>3. Passed(r)' \/ r = rec \/ r \in ToSet(q)
          BY <2>8, <3>3, <5>1
        <5> QED
          BY <5>1, <5>2, <5>3
      <4>3. QED
        BY <4>1, <4>2, <1>10
    <3> DEFINE a == Append(q, rec)
    <3>4. stream'.queue = a /\ stream'.last = rec.seq /\ stream'.at # "closed" /\ DOMAIN a = 1..(n + 1)
      BY <2>1, <2>2
    <3>5. \A x \in 1..(n + 1), r \in ToGame : r.seq <= a[x].seq => Passed(r)' \/ \E j \in 1..x : a[j] = r
      BY <3>3
    <3> HIDE DEF a
    <3>6. \A x, j \in 1..(n + 1) : x < j => a[x].seq < a[j].seq
      BY <3>1 DEF a
    <3>7. \A x \in 1..(n + 1) : a[x].seq <= rec.seq
      BY <3>2 DEF a
    <3>8. QED
      BY <1>9, <3>4, <3>5, <3>6, <3>7 DEF Queue
  <2>12. Cover'
    <3>1. \A r \in ToGame : r.seq <= rec.seq => Passed(r)' \/ r \in ToSet(stream'.queue)
      BY <2>1, <2>5, <2>8
    <3>2. \A r \in ToGame : r.seq > rec.seq => \E u \in Takers : Storing(u)' /\ RecordOf(u)' = r
      <4> SUFFICES ASSUME NEW r \in ToGame, r.seq > rec.seq
                   PROVE  \E u \in Takers : Storing(u)' /\ RecordOf(u)' = r
        OBVIOUS
      <4>1. r.seq \in Nat /\ stream.last \in Nat
        BY <1>1, <1>10, Recorded
      <4>2. PICK u \in Takers : Storing(u) /\ RecordOf(u) = r
        BY <4>1, <1>1, <1>4, <1>11 DEF Cover
      <4>3. u # t
        BY <4>1, <4>2, <1>4 DEF rec
      <4>4. QED
        BY <4>2, <4>3, <1>6
    <3>3. QED
      BY <1>1, <1>3, <1>9, <2>1, <3>1, <3>2 DEF Cover
  <2>13. OnlyOvertakenAreLost'
    BY <1>1, <1>3, <1>9 DEF OnlyOvertakenAreLost
  <2>14. QED
    BY <1>5, <2>4, <2>7, <2>11, <2>12, <2>13 DEF IInv
<1>12. CASE \/ stream' = stream /\ (stream.at # "open" \/ rec.seq <= stream.last)
            \/ stream' = [stream EXCEPT !.at = "closing"] /\ stream.at = "open"
  <2>1. /\ stream'.queue = stream.queue /\ stream'.last = stream.last
        /\ stream' \in [at : {"closed", "open", "closing"}, queue : Seq(Numbered), last : Nat, room : Nat]
        /\ stream'.at = "closed" <=> stream.at = "closed"
        /\ stream'.at = "open" => stream.at = "open" /\ rec.seq <= stream.last
    BY <1>10, <1>12
  <2>2. TypeOK'
    BY <1>1, <1>3, <1>5, <1>8, <2>1 DEF TypeOK, recovery
  <2>3. Held' = Held
    BY <1>3, <2>1 DEF Held
  <2>4. Numbers'
    BY <1>1, <1>3, <1>5, <1>6, <2>1, <2>3 DEF Numbers
  <2>5. Queue' /\ OnlyOvertakenAreLost'
    BY <1>1, <1>3, <1>9, <2>1 DEF Queue, OnlyOvertakenAreLost
  <2>6. Cover'
    <3>1. stream'.at = "open" => \A r \in ToGame : r.seq > stream.last => r # rec
      BY <2>1, <1>1, <1>4, <1>10, Recorded
    <3>2. stream'.at = "open" => \A r \in ToGame : r.seq > stream.last =>
            \E u \in Takers : Storing(u)' /\ RecordOf(u)' = r
      BY <3>1, <2>1, <1>1, <1>6 DEF Cover, rec
    <3>3. QED
      BY <1>1, <1>3, <1>9, <2>1, <3>2 DEF Cover
  <2>7. QED
    BY <1>5, <2>2, <2>4, <2>5, <2>6 DEF IInv
<1>13. stream.last \in Nat /\ stream.room \in Nat
  BY <1>10
<1>14. QED
  BY <1>3, <1>4, <1>10, <1>11, <1>12, <1>13 DEF Offered

-----------------------------------------------------------------------------
(* The ledger's table, history recovery, pruning                           *)

\* Accept, Seat and Settle turn no frame that is gone into one that is to come.
LEMMA TableIInv ==
  ASSUME IInv, Accept \/ Seat \/ Settle
  PROVE  IInv'
<1>1. TypeOK /\ KeptOnceAcked /\ Intake
  BY DEF IInv
<1>2. /\ UNCHANGED <<acked, journal, inbox, next, step, lock, todo, pruned, done, game, faults, overtaken>>
      /\ table' \in {"accepted", "seated", "settled"} /\ recoverCalls' \in Nat
  BY <1>1 DEF Accept, Seat, Settle, TypeOK, disk, recovery
<1>3. TypeOK'
  BY <1>1, <1>2 DEF TypeOK, game
<1>4. table # "settled"
  BY DEF Accept, Seat, Settle
<1>5. ~Emptied
  BY <1>4 DEF Emptied
<1>6. Numbers' /\ Queue' /\ Cover' /\ OnlyOvertakenAreLost'
  BY <1>2, <1>5, Untouched DEF game, Storing
<1>7. KeptOnceAcked'
  BY <1>1, <1>2, <1>4 DEF KeptOnceAcked
<1>8. Intake'
  <2>1. table' = "settled" /\ step["intake"] # Idle => step["intake"].frame \notin Table
    BY DEF Accept, Seat, Settle, Takers
  <2>2. lock # "prune"
    BY <1>1, <1>5 DEF Intake
  <2>3. QED
    BY <1>1, <1>2, <2>1, <2>2 DEF Intake
<1>9. QED
  BY <1>3, <1>6, <1>7, <1>8 DEF IInv

LEMMA RecoverIInv ==
  ASSUME IInv, Recover
  PROVE  IInv'
<1>1. TypeOK /\ KeptOnceAcked /\ Intake
  BY DEF IInv
<1>2. /\ UNCHANGED <<acked, journal, inbox, next, table, step, pruned, done, game, faults, overtaken>>
      /\ recoverCalls' \in Nat
  BY <1>1 DEF Recover, TypeOK, disk
<1>3. CASE UNCHANGED <<lock, todo>>
  <2>1. TypeOK'
    BY <1>1, <1>2, <1>3 DEF TypeOK, game
  <2>2. Emptied' <=> Emptied
    BY <1>2, <1>3 DEF Emptied
  <2>3. Numbers' /\ Queue' /\ Cover' /\ OnlyOvertakenAreLost'
    BY <1>2, <2>2, Untouched DEF game, Storing
  <2>4. KeptOnceAcked' /\ Intake'
    BY <1>1, <1>2, <1>3, <2>2 DEF KeptOnceAcked, Intake
  <2>5. QED
    BY <2>1, <2>3, <2>4 DEF IInv
<1>4. ASSUME lock = "free", lock' = "recovery", NEW known \in Histories(Known), NEW rest \in Histories(Frames \ Table),
             todo' \in {known \o rest, rest \o known}
      PROVE  IInv'
  <2>1. Known \in SUBSET Frames /\ Frames \ Table \in SUBSET Frames
    BY FramesAssumption DEF Known
  <2>2. /\ known \in Seq(Frames) /\ rest \in Seq(Frames)
        /\ \A f : Contains(known, f) \/ Contains(rest, f) => Contains(journal, f)
    BY <1>1, <2>1, HistoryIsShare
  <2>3. todo' \in Seq(Frames) /\ \A f : Contains(todo', f) => Contains(known, f) \/ Contains(rest, f)
    <3>1. ASSUME NEW a \in Seq(Frames), NEW b \in Seq(Frames)
          PROVE  a \o b \in Seq(Frames) /\ \A f : Contains(a \o b, f) => Contains(a, f) \/ Contains(b, f)
      <4>1. /\ a \o b \in Seq(Frames) /\ Len(a \o b) = Len(a) + Len(b)
            /\ \A i \in 1..(Len(a) + Len(b)) : (a \o b)[i] = IF i <= Len(a) THEN a[i] ELSE b[i - Len(a)]
        OBVIOUS
      <4>2. ASSUME NEW f, NEW i \in 1..Len(a \o b), (a \o b)[i] = f PROVE Contains(a, f) \/ Contains(b, f)
        <5>1. CASE i <= Len(a)
          BY <4>1, <4>2, <5>1 DEF Contains
        <5>2. CASE ~(i <= Len(a))
          <6>1. i - Len(a) \in 1..Len(b) /\ b[i - Len(a)] = f
            BY <4>1, <4>2, <5>2
          <6>2. QED
            BY <6>1 DEF Contains
        <5>3. QED
          BY <5>1, <5>2
      <4>3. QED
        BY <4>1, <4>2 DEF Contains
    <3>2. QED
      BY <1>4, <2>2, <3>1
  <2>4. TypeOK'
    BY <1>1, <1>2, <1>4, <2>3 DEF TypeOK, game
  <2>5. Emptied => Emptied'
    BY <1>2, <2>2, <2>3, StaysEmpty
  <2>6. Numbers' /\ Queue' /\ Cover' /\ OnlyOvertakenAreLost'
    BY <1>2, <2>5, Untouched DEF game, Storing
  <2>7. KeptOnceAcked' /\ Intake'
    BY <1>1, <1>2, <1>4, <2>5 DEF KeptOnceAcked, Intake
  <2>8. QED
    BY <2>4, <2>6, <2>7 DEF IInv
<1>5. QED
  BY <1>3, <1>4 DEF Recover

LEMMA RecoverNextIInv ==
  ASSUME IInv, RecoverNext
  PROVE  IInv'
<1>1. TypeOK /\ KeptOnceAcked /\ Intake
  BY DEF IInv
<1>2. /\ UNCHANGED <<acked, journal, inbox, next, table, recoverCalls, pruned, done, game, faults, overtaken>>
      /\ lock = "recovery" /\ step["recovery"] = Idle /\ ~Storing("recovery")
      /\ "recovery" \in Takers /\ "intake" \in Takers
  BY DEF RecoverNext, disk, Storing, Idle, Takers
<1>3. CASE todo = <<>> /\ lock' = "free" /\ UNCHANGED <<todo, step>>
  <2>1. TypeOK'
    BY <1>1, <1>2, <1>3 DEF TypeOK, game
  <2>2. Emptied' <=> Emptied
    BY <1>2, <1>3 DEF Emptied
  <2>3. Numbers' /\ Queue' /\ Cover' /\ OnlyOvertakenAreLost'
    BY <1>2, <1>3, <2>2, Untouched DEF game, Storing
  <2>4. KeptOnceAcked' /\ Intake'
    BY <1>1, <1>2, <1>3, <2>2 DEF KeptOnceAcked, Intake
  <2>5. QED
    BY <2>1, <2>3, <2>4 DEF IInv
<1>4. CASE /\ todo # <<>> /\ todo' = Tail(todo) /\ lock' = lock
           /\ step' = [step EXCEPT !["recovery"] = [at |-> "deliver", frame |-> Head(todo)]]
  <2>1. todo \in Seq(Frames) /\ Len(todo) \in Nat /\ Len(todo) > 0
    BY <1>1, <1>4 DEF TypeOK
  <2>2. /\ Head(todo) = todo[1] /\ Head(todo) \in Frames
        /\ Tail(todo) \in Seq(Frames) /\ Len(Tail(todo)) = Len(todo) - 1
        /\ \A i \in 1..Len(Tail(todo)) : Tail(todo)[i] = todo[i + 1]
    BY <1>4, <2>1
  <2>3. Contains(todo, Head(todo)) /\ \A f : Contains(Tail(todo), f) => Contains(todo, f)
    <3>1. 1 \in 1..Len(todo) /\ \A i \in 1..(Len(todo) - 1) : i + 1 \in 1..Len(todo)
      BY <2>1
    <3>2. QED
      BY <2>2, <3>1 DEF Contains
  <2>4. [at |-> "deliver", frame |-> Head(todo)] \in Steps
    BY <2>2 DEF Steps
  <2>5. /\ step' \in [Takers -> Steps] /\ ~Storing("recovery")'
        /\ step'["recovery"].frame = Head(todo)
        /\ \A u \in Takers : u # "recovery" => step'[u] = step[u]
    BY <1>1, <1>2, <1>4, <2>4 DEF TypeOK, Storing
  <2>6. TypeOK'
    BY <1>1, <1>2, <1>4, <2>2, <2>5 DEF TypeOK, game
  <2>7. Emptied => Emptied'
    <3> SUFFICES ASSUME Emptied PROVE Emptied'
      OBVIOUS
    <3>1. Head(todo) \notin Table
      BY <2>3 DEF Emptied
    <3>2. QED
      BY <1>2, <1>4, <2>3, <2>5, <3>1, StaysEmpty
  <2>8. Numbers' /\ Queue' /\ Cover' /\ OnlyOvertakenAreLost'
    BY <1>2, <2>5, <2>7, Untouched DEF game, Storing
  <2>9. KeptOnceAcked'
    BY <1>1, <1>2 DEF KeptOnceAcked
  <2>10. Intake'
    BY <1>1, <1>2, <1>4, <2>5, <2>7 DEF Intake
  <2>11. QED
    BY <2>6, <2>8, <2>9, <2>10 DEF IInv
<1>5. QED
  BY <1>3, <1>4 DEF RecoverNext

\* The journal goes first, so nothing that a recovery reads afterwards is of the
\* table.
LEMMA PruneJournalIInv ==
  ASSUME IInv, PruneJournal
  PROVE  IInv'
<1>1. TypeOK /\ KeptOnceAcked /\ Intake
  BY DEF IInv
<1>2. /\ UNCHANGED <<acked, inbox, next, table, step, todo, recoverCalls, pruned, done, game, overtaken>>
      /\ table = "settled" /\ lock = "free"
  BY DEF PruneJournal, Prunable
<1>3. CASE Fail /\ UNCHANGED <<lock, journal>>
  <2>1. TypeOK'
    BY <1>1, <1>2, <1>3 DEF TypeOK, game, Fail
  <2>2. Emptied' <=> Emptied
    BY <1>2, <1>3 DEF Emptied
  <2>3. Numbers' /\ Queue' /\ Cover' /\ OnlyOvertakenAreLost'
    BY <1>2, <1>3, <2>2, Untouched DEF game, Storing
  <2>4. KeptOnceAcked' /\ Intake'
    BY <1>1, <1>2, <1>3, <2>2 DEF KeptOnceAcked, Intake
  <2>5. QED
    BY <2>1, <2>3, <2>4 DEF IInv
<1>4. CASE lock' = "prune" /\ journal' \in Histories(Frames \ Table) /\ UNCHANGED faults
  <2>1. /\ journal' \in Seq(Frames)
        /\ \A f : Contains(journal', f) <=> f \in Frames \ Table /\ Contains(journal, f)
    BY <1>1, <1>4, HistoryIsShare
  <2>2. TypeOK'
    BY <1>1, <1>2, <1>4, <2>1 DEF TypeOK, game
  <2>3. todo = <<>> /\ step["recovery"] = Idle
    BY <1>1, <1>2 DEF Intake
  <2>4. Emptied'
    <3>1. \A f : ~Contains(todo', f)
      BY <1>2, <2>3 DEF Contains
    <3>2. \A t \in Takers : step[t] # Idle => step[t].frame \notin Table
      BY <1>1, <1>2, <2>3 DEF Intake, Takers
    <3>3. QED
      BY <1>2, <2>1, <3>1, <3>2 DEF Emptied
  <2>5. Numbers' /\ Queue' /\ Cover' /\ OnlyOvertakenAreLost'
    BY <1>2, <2>4, Untouched DEF game, Storing
  <2>6. KeptOnceAcked'
    <3>1. acked \subseteq Frames
      BY <1>1 DEF TypeOK
    <3>2. QED
      BY <1>1, <1>2, <2>1, <3>1 DEF KeptOnceAcked
  <2>7. Intake'
    <3>1. step["intake"] # Idle => step["intake"].frame \in Frames
      BY <1>1, StepFacts DEF Takers
    <3>2. QED
      BY <1>1, <1>2, <1>4, <2>1, <2>3, <2>4, <3>1 DEF Intake
  <2>8. QED
    BY <2>2, <2>5, <2>6, <2>7 DEF IInv
<1>5. QED
  BY <1>3, <1>4 DEF PruneJournal

\* What is pruned from the inbox can only be of the emptied table.
LEMMA PruneInboxIInv ==
  ASSUME IInv, PruneInbox
  PROVE  IInv'
<1>1. TypeOK /\ KeptOnceAcked /\ Intake /\ Numbers /\ Queue /\ Cover /\ OnlyOvertakenAreLost
  BY DEF IInv
<1>2. /\ UNCHANGED <<acked, journal, next, table, step, todo, recoverCalls, done, game, overtaken>>
      /\ lock = "prune" /\ lock' = "free" /\ faults' \in Nat /\ pruned' \in BOOLEAN
      /\ inbox' \subseteq inbox /\ \A r \in inbox \ inbox' : r.frame \in Table
  <2>1. /\ UNCHANGED <<acked, journal, next, table, step, todo, recoverCalls, done, game, overtaken>>
        /\ lock = "prune" /\ lock' = "free"
        /\ \/ inbox' = {r \in inbox : ~OfTable(r)} /\ pruned' = TRUE /\ UNCHANGED faults
           \/ Fail /\ UNCHANGED <<inbox, pruned>>
    BY DEF PruneInbox
  <2>2. faults' \in Nat /\ pruned' \in BOOLEAN
    <3>1. faults \in Nat /\ pruned \in BOOLEAN
      BY <1>1 DEF TypeOK
    <3>2. faults' \in Nat
      BY <2>1, <3>1 DEF Fail
    <3>3. pruned' \in BOOLEAN
      BY <2>1, <3>1, Zenon
    <3>4. QED
      BY <3>2, <3>3
  <2>3. inbox' \subseteq inbox /\ \A r \in inbox \ inbox' : r.frame \in Table
    BY <2>1 DEF OfTable
  <2>4. QED
    BY <2>1, <2>2, <2>3
<1>3. Emptied /\ Emptied'
  BY <1>1, <1>2 DEF Emptied, Intake
<1>4. TypeOK'
  BY <1>1, <1>2 DEF TypeOK, game
<1>5. KeptOnceAcked' /\ Intake'
  BY <1>1, <1>2 DEF KeptOnceAcked, Intake
<1>6. /\ Held' \subseteq Held /\ ToGame' \subseteq ToGame /\ inbox \subseteq Held
      /\ \A r : Passed(r)' <=> Passed(r)
      /\ \A u \in Takers : (Storing(u)' <=> Storing(u)) /\ RecordOf(u)' = RecordOf(u)
  BY <1>2 DEF Held, ToGame, Passed, game, Storing, RecordOf
<1>7. Numbers'
  <2>1. \A t \in Takers : Storing(t) => step[t] # Idle /\ RecordOf(t).frame \notin Table
    BY <1>3 DEF Emptied, Storing, Idle, RecordOf
  <2>2. \A t \in Takers : Storing(t) => RecordOf(t) \in inbox'
    BY <1>1, <1>2, <2>1 DEF Numbers
  <2>3. IsFiniteSet(inbox')
    BY <1>1, <1>2, FS_Subset DEF Numbers
  <2>4. \A r \in Held' \ inbox' : r.frame \in Table
    BY <1>1, <1>2, <1>6 DEF Numbers
  <2>5. QED
    BY <1>1, <1>2, <1>3, <1>6, <2>2, <2>3, <2>4 DEF Numbers, game
<1>8. Queue' /\ OnlyOvertakenAreLost'
  BY <1>1, <1>2, <1>6 DEF Queue, OnlyOvertakenAreLost, game
<1>9. Cover'
  BY <1>1, <1>2, <1>6 DEF Cover, game
<1>10. QED
  BY <1>4, <1>5, <1>7, <1>8, <1>9 DEF IInv

LEMMA ReplayIInv ==
  ASSUME IInv, Replay
  PROVE  IInv'
<1>1. TypeOK /\ KeptOnceAcked /\ Intake
  BY DEF IInv
<1>2. /\ UNCHANGED <<acked, journal, inbox, next, table, step, lock, todo, recoverCalls, pruned, game, faults, overtaken>>
      /\ done' \subseteq Financial
  BY <1>1 DEF Replay, TypeOK, disk, recovery
<1>3. TypeOK'
  BY <1>1, <1>2 DEF TypeOK, game
<1>4. Emptied' <=> Emptied
  BY <1>2 DEF Emptied
<1>5. Numbers' /\ Queue' /\ Cover' /\ OnlyOvertakenAreLost'
  BY <1>2, <1>4, Untouched DEF game, Storing
<1>6. KeptOnceAcked' /\ Intake'
  BY <1>1, <1>2, <1>4 DEF KeptOnceAcked, Intake
<1>7. QED
  BY <1>3, <1>5, <1>6 DEF IInv

-----------------------------------------------------------------------------
(* The stream and the game                                                 *)

\* Nothing that a game or a stream forgets is needed for the numbers.
LEMMA LessHeld ==
  ASSUME IInv, UNCHANGED <<acked, journal, inbox, next, table, step, recovery, overtaken>>,
         TypeOK', Held' \subseteq Held, lastSeq' <= next, stream'.last <= next
  PROVE  KeptOnceAcked' /\ Intake' /\ Numbers'
<1>1. KeptOnceAcked /\ Intake /\ Numbers
  BY DEF IInv
<1>2. Emptied' <=> Emptied
  BY DEF Emptied, recovery
<1>3. \A u \in Takers : (Storing(u)' <=> Storing(u)) /\ RecordOf(u)' = RecordOf(u)
  BY DEF Storing, RecordOf
<1>4. KeptOnceAcked' /\ Intake'
  BY <1>1, <1>2 DEF KeptOnceAcked, Intake, recovery
<1>5. Numbers'
  BY <1>1, <1>2, <1>3 DEF Numbers
<1>6. QED
  BY <1>4, <1>5

\* The backlog is all that lies behind the game's number, in order.
LEMMA OpenIInv ==
  ASSUME IInv, Open
  PROVE  IInv'
<1> DEFINE missed == {r \in inbox : r.seq > lastSeq /\ r.frame \notin Financial}
<1>1. TypeOK /\ Numbers /\ Queue /\ Cover /\ OnlyOvertakenAreLost
  BY DEF IInv
<1>2. /\ UNCHANGED <<acked, journal, inbox, next, table, step, recovery, pruned, done, hand, lastSeq, handled, faults, overtaken>>
      /\ stream.at = "closed"
  BY DEF Open, disk
<1>3. PICK b \in SetToSeqs(missed) :
        /\ \A i, j \in DOMAIN b : i < j => b[i].seq < b[j].seq
        /\ stream' = [at |-> "open", queue |-> b, room |-> Buffer + Len(b),
                      last |-> IF b = <<>> THEN lastSeq ELSE b[Len(b)].seq]
  BY DEF Open
<1>4. IsFiniteSet(missed)
  BY <1>1, FS_Subset DEF Numbers
<1>5. missed \subseteq ToGame /\ missed \subseteq inbox /\ \A r \in ToGame : r.seq > lastSeq => r \in missed
  BY DEF ToGame
<1>6. \A r \in missed : r.seq > lastSeq /\ r.seq <= next /\ r.seq \in Nat /\ r \in Numbered /\ r \in Held
  BY <1>1, <1>5, Recorded DEF Numbers
<1> HIDE DEF missed
<1>7. /\ b \in Seq(missed) /\ DOMAIN b = 1..Len(b) /\ Len(b) \in Nat
      /\ ToSet(b) = missed
  BY <1>3, <1>4, Listed
<1>8. /\ b \in Seq(Numbered)
      /\ \A i \in 1..Len(b) : b[i] \in missed
      /\ \A r \in missed : \E i \in 1..Len(b) : b[i] = r
  BY <1>6, <1>7 DEF ToSet
<1>9. lastSeq \in Nat /\ next \in Nat /\ lastSeq <= next
  BY <1>1 DEF TypeOK, Numbers
<1> DEFINE last == IF b = <<>> THEN lastSeq ELSE b[Len(b)].seq
<1>10. last \in Nat /\ lastSeq <= last /\ last <= next /\ \A i \in 1..Len(b) : b[i].seq <= last
  <2>1. CASE b = <<>>
    BY <2>1, <1>9
  <2>2. CASE b # <<>>
    <3>1. Len(b) \in 1..Len(b)
      BY <2>2, <1>7
    <3>2. b[Len(b)] \in missed /\ last = b[Len(b)].seq
      BY <2>2, <3>1, <1>8
    <3>3. ASSUME NEW i \in 1..Len(b) PROVE b[i].seq <= b[Len(b)].seq
      <4>1. b[i].seq \in Nat
        BY <1>6, <1>8
      <4>2. i = Len(b) \/ i < Len(b)
        <5> DEFINE n == Len(b)
        <5>1. n \in Nat /\ i \in 1..n
          BY <1>7
        <5> HIDE DEF n
        <5>2. i = n \/ i < n
          BY <5>1
        <5>3. QED
          BY <5>2 DEF n
      <4>3. i < Len(b) => b[i].seq < b[Len(b)].seq
        BY <3>1, <1>3, <1>7
      <4>4. QED
        BY <4>1, <4>2, <4>3, <3>1, <1>6, <1>8
    <3>4. QED
      BY <3>2, <3>3, <1>6, <1>9
  <2>3. QED
    BY <2>1, <2>2
<1> HIDE DEF last
<1>11. stream' = [at |-> "open", queue |-> b, room |-> Buffer + Len(b), last |-> last]
  BY <1>3 DEF last
<1>12. Buffer + Len(b) \in Nat
  BY <1>7, SizesAssumption
<1>13. /\ stream'.at = "open" /\ stream'.queue = b /\ stream'.last = last
       /\ stream' \in [at : {"closed", "open", "closing"}, queue : Seq(Numbered), last : Nat, room : Nat]
  BY <1>8, <1>10, <1>11, <1>12
<1>14. TypeOK'
  BY <1>1, <1>2, <1>13 DEF TypeOK, recovery
<1>15. Held' \subseteq Held
  BY <1>2, <1>6, <1>7, <1>13 DEF Held
<1>16. KeptOnceAcked' /\ Intake' /\ Numbers'
  BY <1>2, <1>9, <1>10, <1>13, <1>14, <1>15, LessHeld
<1>17. ToGame' = ToGame /\ \A r : Passed(r)' <=> Passed(r)
  BY <1>2 DEF ToGame, Passed
<1>18. \A r \in ToGame : r.seq \in Nat
  BY <1>1, Recorded
<1>19. \A r \in ToGame : Passed(r) \/ r \in missed
  BY <1>1, <1>5, <1>9, <1>18 DEF OnlyOvertakenAreLost, Passed
<1>20. Queue'
  <2>1. ASSUME NEW i \in 1..Len(b), NEW r \in ToGame, r.seq <= b[i].seq
        PROVE  Passed(r) \/ \E j \in 1..i : b[j] = r
    <3>1. CASE Passed(r)
      BY <3>1
    <3>2. CASE r \in missed
      <4>1. PICK j \in 1..Len(b) : b[j] = r
        BY <3>2, <1>8
      <4>2. ~(i < j)
        <5>1. i < j => b[i].seq < b[j].seq
          BY <1>3, <1>7
        <5>2. b[i].seq \in Nat
          BY <1>6, <1>8
        <5>3. QED
          BY <2>1, <4>1, <5>1, <5>2, <1>18
      <4>3. j \in 1..i
        BY <4>2, <1>7
      <4>4. QED
        BY <4>1, <4>3
    <3>3. QED
      BY <3>1, <3>2, <1>19
  <2>2. QED
    BY <2>1, <1>3, <1>7, <1>10, <1>13, <1>17 DEF Queue
<1>21. Cover'
  <2>1. \A r \in ToGame : Passed(r) \/ r \in ToSet(b)
    BY <1>7, <1>19
  <2>2. \A r \in ToGame : ~(r.seq > last)
    <3> SUFFICES ASSUME NEW r \in ToGame, r.seq > last PROVE FALSE
      OBVIOUS
    <3>1. r \in missed
      BY <1>5, <1>9, <1>10, <1>18
    <3>2. PICK i \in 1..Len(b) : b[i] = r
      BY <3>1, <1>8
    <3>3. QED
      BY <3>2, <1>10, <1>18
  <2>3. QED
    BY <2>1, <2>2, <1>1, <1>2, <1>13, <1>17 DEF Cover
<1>22. OnlyOvertakenAreLost'
  BY <1>1, <1>2, <1>17 DEF OnlyOvertakenAreLost
<1>23. QED
  BY <1>14, <1>16, <1>20, <1>21, <1>22 DEF IInv

LEMMA PullIInv ==
  ASSUME IInv, Pull
  PROVE  IInv'
<1> DEFINE q == stream.queue
           n == Len(stream.queue)
           rest == Tail(stream.queue)
<1>1. TypeOK /\ Numbers /\ Queue /\ Cover /\ OnlyOvertakenAreLost
  BY DEF IInv
<1>2. /\ UNCHANGED <<acked, journal, inbox, next, table, step, recovery, pruned, done, lastSeq, handled, faults, overtaken>>
      /\ hand = None /\ hand' = Head(q) /\ q # <<>>
      /\ stream' = [stream EXCEPT !.queue = Tail(@)]
  BY DEF Pull, disk
<1>3. /\ q \in Seq(Numbered) /\ n \in Nat /\ n > 0 /\ DOMAIN q = 1..n
      /\ stream \in [at : {"closed", "open", "closing"}, queue : Seq(Numbered), last : Nat, room : Nat]
  BY <1>1, <1>2 DEF TypeOK
<1>4. /\ Head(q) = q[1] /\ rest \in Seq(Numbered) /\ DOMAIN rest = 1..(n - 1)
      /\ \A i \in 1..(n - 1) : rest[i] = q[i + 1]
      /\ 1 \in 1..n /\ \A i \in 1..(n - 1) : i + 1 \in 1..n
      /\ q[1] \in Numbered
  BY <1>2, <1>3
<1>5. /\ stream'.queue = rest /\ stream'.last = stream.last /\ stream'.at = stream.at
      /\ stream' \in [at : {"closed", "open", "closing"}, queue : Seq(Numbered), last : Nat, room : Nat]
  BY <1>2, <1>3, <1>4
<1> HIDE DEF n, rest
<1>6. TypeOK'
  BY <1>1, <1>2, <1>4, <1>5 DEF TypeOK, recovery
<1>7. ToSet(q) = ToSet(rest) \cup {q[1]}
  <2>1. \A i \in 1..n : i = 1 \/ (i - 1 \in 1..(n - 1) /\ rest[i - 1] = q[i])
    BY <1>3, <1>4
  <2>2. \A i \in 1..(n - 1) : rest[i] \in ToSet(q)
    BY <1>3, <1>4 DEF ToSet
  <2>3. ToSet(rest) \subseteq ToSet(q) /\ q[1] \in ToSet(q)
    BY <2>2, <1>3, <1>4 DEF ToSet
  <2>4. ToSet(q) \subseteq ToSet(rest) \cup {q[1]}
    BY <2>1, <1>3, <1>4 DEF ToSet
  <2>5. QED
    BY <2>3, <2>4
<1>8. Held' \subseteq Held
  BY <1>2, <1>4, <1>5, <1>7 DEF Held
<1>9. KeptOnceAcked' /\ Intake' /\ Numbers'
  BY <1>1, <1>2, <1>5, <1>6, <1>8, LessHeld DEF Numbers
<1>10. /\ ToGame' = ToGame
       /\ \A r \in ToGame : r \in Numbered /\ r # None
       /\ \A r \in ToGame : Passed(r)' <=> Passed(r) \/ r = q[1]
  <2>1. \A r \in ToGame : r \in Numbered /\ r.seq > 0
    BY <1>1, Recorded
  <2>2. \A r \in ToGame : r # None
    BY <2>1 DEF None
  <2>3. QED
    BY <2>1, <2>2, <1>2, <1>4 DEF ToGame, Passed
<1>11. Queue'
  <2>1. \A i \in 1..(n - 1), r \in ToGame : r.seq <= q[i + 1].seq =>
          Passed(r) \/ r = q[1] \/ \E j \in 1..i : q[j + 1] = r
    <3> SUFFICES ASSUME NEW i \in 1..(n - 1), NEW r \in ToGame, r.seq <= q[i + 1].seq, ~Passed(r), r # q[1]
                 PROVE  \E j \in 1..i : q[j + 1] = r
      OBVIOUS
    <3>1. PICK k \in 1..(i + 1) : q[k] = r
      BY <1>1, <1>3, <1>4 DEF Queue
    <3>2. k - 1 \in 1..i /\ q[(k - 1) + 1] = r
      BY <3>1, <1>3
    <3>3. QED
      BY <3>2
  <2>2. \A i \in 1..(n - 1) : \A j \in 1..i : j \in 1..(n - 1)
    BY <1>3
  <2>3. \A i \in DOMAIN rest, r \in ToGame : r.seq <= rest[i].seq =>
          Passed(r) \/ r = q[1] \/ \E j \in 1..i : rest[j] = r
    <3> SUFFICES ASSUME NEW i \in 1..(n - 1), NEW r \in ToGame, r.seq <= rest[i].seq
                 PROVE  Passed(r) \/ r = q[1] \/ \E j \in 1..i : rest[j] = r
      BY <1>4
    <3>1. rest[i] = q[i + 1] /\ \A j \in 1..i : rest[j] = q[j + 1]
      BY <2>2, <1>4
    <3>2. QED
      BY <2>1, <3>1
  <2>4. \A i, j \in DOMAIN rest : i < j => rest[i].seq < rest[j].seq
    <3> SUFFICES ASSUME NEW i \in 1..(n - 1), NEW j \in 1..(n - 1), i < j
                 PROVE  rest[i].seq < rest[j].seq
      BY <1>4
    <3>1. i + 1 \in 1..n /\ j + 1 \in 1..n /\ i + 1 < j + 1
      BY <1>3
    <3>2. q[i + 1].seq < q[j + 1].seq
      BY <3>1, <1>1, <1>3 DEF Queue
    <3>3. QED
      BY <3>2, <1>4
  <2>5. \A i \in DOMAIN rest : rest[i].seq <= stream.last
    BY <1>1, <1>3, <1>4 DEF Queue
  <2>6. stream.at # "closed"
    BY <1>2, <1>1 DEF Queue
  <2>7. QED
    BY <2>3, <2>4, <2>5, <2>6, <1>5, <1>10 DEF Queue
<1>12. Cover'
  <2>1. \A r \in ToGame : r.seq <= q[1].seq => Passed(r) \/ r = q[1]
    <3> SUFFICES ASSUME NEW r \in ToGame, r.seq <= q[1].seq PROVE Passed(r) \/ r = q[1]
      OBVIOUS
    <3>1. \A j \in 1..1 : j = 1
      OBVIOUS
    <3>2. 1 \in DOMAIN q
      BY <1>3
    <3>3. Passed(r) \/ \E j \in 1..1 : q[j] = r
      BY <1>1, <3>2 DEF Queue
    <3>4. QED
      BY <3>1, <3>3
  <2>2. \A u \in Takers : (Storing(u)' <=> Storing(u)) /\ RecordOf(u)' = RecordOf(u)
    BY <1>2 DEF Storing, RecordOf
  <2>3. stream.at # "closed" => \A r \in ToGame : r.seq <= stream.last => Passed(r)' \/ r \in ToSet(rest)
    BY <1>1, <1>7, <1>10 DEF Cover
  <2>4. \A r \in ToGame : r.seq <= hand'.seq => Passed(r)'
    BY <2>1, <1>2, <1>4, <1>10
  <2>5. stream.at = "open" =>
          \A r \in ToGame : r.seq > stream.last => \E u \in Takers : Storing(u)' /\ RecordOf(u)' = r
    BY <2>2, <1>1 DEF Cover
  <2>6. QED
    BY <2>3, <2>4, <2>5, <1>5, <1>10 DEF Cover
<1>13. OnlyOvertakenAreLost'
  BY <1>1, <1>2, <1>10 DEF OnlyOvertakenAreLost
<1>14. QED
  BY <1>6, <1>9, <1>11, <1>12, <1>13 DEF IInv

\* What was handled is passed, and the number says no more than that.
LEMMA HandleIInv ==
  ASSUME IInv, Handle
  PROVE  IInv'
<1>1. TypeOK /\ Numbers /\ Queue /\ Cover /\ OnlyOvertakenAreLost
  BY DEF IInv
<1>2. /\ UNCHANGED <<acked, journal, inbox, next, table, step, recovery, pruned, done, stream, faults, overtaken>>
      /\ hand # None /\ hand' = None /\ handled' = handled \cup {hand}
      /\ lastSeq' = Max({lastSeq, hand.seq})
  BY DEF Handle, disk
<1>3. hand \in Numbered /\ hand \in Held /\ hand.seq \in Nat /\ hand.seq <= next /\ lastSeq \in Nat
  <2>1. hand \in Numbered /\ hand \in Held /\ lastSeq \in Nat
    BY <1>1, <1>2 DEF TypeOK, Held
  <2>2. QED
    BY <2>1, <1>1, Recorded DEF Numbers
<1>4. lastSeq' = IF lastSeq >= hand.seq THEN lastSeq ELSE hand.seq
  BY <1>2, <1>3, LargerOfTwo
<1>5. /\ lastSeq' \in Nat /\ lastSeq' <= next
      /\ \A n \in Nat : n <= lastSeq' => n <= lastSeq \/ n <= hand.seq
  BY <1>1, <1>3, <1>4 DEF Numbers, TypeOK
<1>6. TypeOK'
  BY <1>1, <1>2, <1>3, <1>5 DEF TypeOK, recovery
<1>7. Held' \subseteq Held
  BY <1>2, <1>3 DEF Held
<1>8. KeptOnceAcked' /\ Intake' /\ Numbers'
  BY <1>1, <1>2, <1>5, <1>6, <1>7, LessHeld DEF Numbers
<1>9. /\ ToGame' = ToGame /\ \A r \in ToGame : r.seq \in Nat
      /\ \A r : Passed(r) => r \in handled' \/ r.seq \in overtaken'
  BY <1>1, <1>2, Recorded DEF ToGame, Passed
<1>10. \A r : Passed(r) => Passed(r)'
  BY <1>9 DEF Passed
<1>11. Queue'
  BY <1>1, <1>2, <1>9, <1>10 DEF Queue
<1>12. Cover'
  <2>1. \A u \in Takers : (Storing(u)' <=> Storing(u)) /\ RecordOf(u)' = RecordOf(u)
    BY <1>2 DEF Storing, RecordOf
  <2>2. QED
    BY <2>1, <1>1, <1>2, <1>9, <1>10 DEF Cover
<1>13. OnlyOvertakenAreLost'
  <2>1. \A r \in ToGame : r.seq <= hand.seq => Passed(r)
    BY <1>1, <1>2 DEF Cover
  <2>2. \A r \in ToGame : r.seq <= lastSeq => Passed(r)
    BY <1>1 DEF OnlyOvertakenAreLost, Passed
  <2>3. \A r \in ToGame : r.seq <= lastSeq' => Passed(r)
    BY <2>1, <2>2, <1>5, <1>9
  <2>4. QED
    BY <2>3, <1>9 DEF OnlyOvertakenAreLost
<1>14. QED
  BY <1>6, <1>8, <1>11, <1>12, <1>13 DEF IInv

\* A stream that ends, or a game that forgets everything, is owed no more than
\* lies behind its number.
LEMMA StreamEnds ==
  ASSUME IInv, UNCHANGED <<acked, journal, inbox, next, table, step, recovery, overtaken>>,
         TypeOK', stream' = Closed,
         \/ UNCHANGED <<hand, lastSeq, handled>>
         \/ hand' = None /\ lastSeq' = 0 /\ handled' = {}
  PROVE  IInv'
<1>1. TypeOK /\ Numbers /\ Cover /\ OnlyOvertakenAreLost
  BY DEF IInv
<1>2. stream'.at = "closed" /\ stream'.queue = <<>> /\ stream'.last = 0 /\ ToSet(stream'.queue) = {}
  BY DEF Closed, ToSet
<1>3. Held' \subseteq Held
  BY <1>2 DEF Held
<1>4. next \in Nat /\ lastSeq' <= next
  BY <1>1 DEF TypeOK, Numbers
<1>5. KeptOnceAcked' /\ Intake' /\ Numbers'
  BY <1>2, <1>3, <1>4, LessHeld
<1>6. ToGame' = ToGame /\ \A r \in ToGame : r.seq \in Nat /\ r.seq > 0
  BY <1>1, Recorded DEF ToGame
<1>7. Queue'
  BY <1>2 DEF Queue
<1>8. Cover'
  BY <1>1, <1>2, <1>6 DEF Cover, Passed
<1>9. OnlyOvertakenAreLost'
  BY <1>1, <1>6 DEF OnlyOvertakenAreLost
<1>10. QED
  BY <1>5, <1>7, <1>8, <1>9 DEF IInv

LEMMA ClosedIsTyped ==
  Closed \in [at : {"closed", "open", "closing"}, queue : Seq(Numbered), last : Nat, room : Nat]
<1>1. <<>> \in Seq(Numbered)
  OBVIOUS
<1>2. QED
  BY <1>1 DEF Closed

LEMMA HangupIInv ==
  ASSUME IInv, Hangup
  PROVE  IInv'
<1>1. TypeOK
  BY DEF IInv
<1>2. /\ UNCHANGED <<acked, journal, inbox, next, table, step, recovery, pruned, done, hand, lastSeq, handled, overtaken>>
      /\ stream' = Closed /\ faults' \in Nat
  BY <1>1 DEF Hangup, disk, TypeOK, Fail
<1>3. TypeOK'
  BY <1>1, <1>2, ClosedIsTyped DEF TypeOK, recovery
<1>4. QED
  BY <1>2, <1>3, StreamEnds

LEMMA GameRestartsIInv ==
  ASSUME IInv, GameRestarts
  PROVE  IInv'
<1>1. TypeOK
  BY DEF IInv
<1>2. /\ UNCHANGED <<acked, journal, inbox, next, table, step, recovery, pruned, done, overtaken>>
      /\ stream' = Closed /\ hand' = None /\ lastSeq' = 0 /\ handled' = {} /\ faults' \in Nat
  BY <1>1 DEF GameRestarts, disk, TypeOK, Fail
<1>3. TypeOK'
  BY <1>1, <1>2, ClosedIsTyped DEF TypeOK, recovery
<1>4. QED
  BY <1>2, <1>3, StreamEnds

\* A restart of the bridge loses what was on its way, not what was acknowledged.
LEMMA CrashIInv ==
  ASSUME IInv, Crash
  PROVE  IInv'
<1>1. TypeOK /\ KeptOnceAcked /\ Numbers /\ Cover /\ OnlyOvertakenAreLost
  BY DEF IInv
<1>2. /\ UNCHANGED <<acked, journal, inbox, next, table, hand, lastSeq, handled, overtaken>>
      /\ step' = [t \in Takers |-> Idle] /\ stream' = Closed
      /\ lock' = "free" /\ todo' = <<>> /\ recoverCalls' = 1 /\ pruned' = FALSE /\ done' = {}
      /\ faults' \in Nat
  BY <1>1 DEF Crash, disk, TypeOK, Fail
<1>3. TypeOK'
  <2>1. Idle \in Steps /\ <<>> \in Seq(Frames)
    BY DEF Steps
  <2>2. step' \in [Takers -> Steps]
    BY <1>2, <2>1
  <2>3. QED
    BY <1>1, <1>2, <2>1, <2>2, ClosedIsTyped DEF TypeOK
<1>4. \A t \in Takers : step'[t] = Idle /\ ~Storing(t)'
  BY <1>2 DEF Storing, Idle
<1>5. Emptied => Emptied'
  BY <1>2, <1>4 DEF Emptied, Contains
<1>6. KeptOnceAcked' /\ Intake'
  BY <1>1, <1>2, <1>4 DEF KeptOnceAcked, Intake, Takers
<1>7. stream'.at = "closed" /\ stream'.queue = <<>> /\ stream'.last = 0 /\ ToSet(stream'.queue) = {}
  BY <1>2 DEF Closed, ToSet
<1>8. Held' \subseteq Held /\ ToGame' = ToGame
  BY <1>2, <1>7 DEF Held, ToGame
<1>9. next \in Nat
  BY <1>1 DEF TypeOK
<1>10. Numbers'
  BY <1>1, <1>2, <1>4, <1>5, <1>7, <1>8, <1>9 DEF Numbers
<1>11. Queue' /\ Cover' /\ OnlyOvertakenAreLost'
  BY <1>1, <1>2, <1>7, <1>8 DEF Queue, Cover, OnlyOvertakenAreLost, Passed
<1>12. QED
  BY <1>3, <1>6, <1>10, <1>11 DEF IInv

-----------------------------------------------------------------------------
(* What follows                                                            *)

\* IInv holds throughout.
LEMMA Inductive == Spec => []IInv
<1>1. IInv /\ [Next]_vars => IInv'
  <2> SUFFICES ASSUME IInv, [Next]_vars PROVE IInv'
    OBVIOUS
  <2>1. ASSUME NEW f \in Frames, Receive(f) PROVE IInv'
    BY <2>1, ReceiveIInv
  <2>2. ASSUME NEW t \in Takers, Take(t) PROVE IInv'
    BY <2>2, DeliverIInv, EnqueueIInv, BroadcastIInv DEF Take
  <2>3. CASE Accept \/ Seat \/ Settle \/ Recover \/ RecoverNext \/ PruneJournal \/ PruneInbox \/ Replay
    BY <2>3, TableIInv, RecoverIInv, RecoverNextIInv, PruneJournalIInv, PruneInboxIInv, ReplayIInv
  <2>4. CASE Open \/ Pull \/ Handle \/ Hangup \/ GameRestarts \/ Crash
    BY <2>4, OpenIInv, PullIInv, HandleIInv, HangupIInv, GameRestartsIInv, CrashIInv
  <2>5. CASE UNCHANGED vars
    <3>1. UNCHANGED <<acked, journal, inbox, next, table, step, lock, todo, recoverCalls, pruned, done,
                      stream, hand, lastSeq, handled, faults, overtaken>>
      BY <2>5 DEF vars, disk, recovery, game
    <3>2. Emptied' <=> Emptied
      BY <3>1 DEF Emptied
    <3>3. Numbers' /\ Queue' /\ Cover' /\ OnlyOvertakenAreLost'
      BY <3>1, <3>2, Untouched DEF Storing
    <3>4. TypeOK' /\ KeptOnceAcked' /\ Intake'
      BY <3>1, <3>2 DEF IInv, TypeOK, KeptOnceAcked, Intake
    <3>5. QED
      BY <3>3, <3>4 DEF IInv
  <2>6. QED
    BY <2>1, <2>2, <2>3, <2>4, <2>5 DEF Next
<1>2. QED
  BY <1>1, InitIInv, PTL DEF Spec

\* Every reachable state is well typed.
THEOREM TypeCorrect == Spec => []TypeOK
<1>1. IInv => TypeOK
  BY DEF IInv
<1>2. QED
  BY <1>1, Inductive, PTL

\* What Bison Relay may forget stays in the journal until its table is settled:
\* receiveGroupMessage() writes before it acknowledges.
THEOREM NothingAckedIsLost == Spec => []KeptOnceAcked
<1>1. IInv => KeptOnceAcked
  BY DEF IInv
<1>2. QED
  BY <1>1, Inductive, PTL

\* persistGamingFrame() never gives a number, or a frame, twice: not after a prune,
\* an interrupted one, or a restart.
THEOREM NumbersAreForGood == Spec => []Numbering
<1>1. IInv => Numbering
  BY DEF IInv, Numbers, Numbering, Held
<1>2. QED
  BY <1>1, Inductive, PTL

\* SubscribeFrom() and broadcast() lose the game no frame but one that was overtaken.
THEOREM TheGameMissesOnlyOvertaken == Spec => []OnlyOvertakenAreLost
<1>1. IInv => OnlyOvertakenAreLost
  BY DEF IInv
<1>2. QED
  BY <1>1, Inductive, PTL

\* A game that is connected and idle has everything that was to reach it.
THEOREM AnIdleGameHasEverything == Spec => []NothingWaits
<1>1. IInv => NothingWaits
  <2> SUFFICES ASSUME IInv, stream.at = "open", stream.queue = <<>>, hand = None,
                      \A t \in Takers : step[t].at # "stored", NEW r \in ToGame
               PROVE  r \in handled \/ r.seq \in overtaken
    BY DEF NothingWaits
  <2>1. TypeOK /\ Cover
    BY DEF IInv
  <2>2. r.seq \in Nat /\ stream.last \in Nat /\ r \in Numbered
    BY <2>1, Recorded DEF TypeOK
  <2>3. r.seq > 0 /\ r # hand
    BY <2>1, <2>2, Recorded DEF None
  <2>4. ~(r.seq > stream.last)
    BY <2>1 DEF Cover, Storing
  <2>5. r \notin ToSet(stream.queue)
    BY DEF ToSet
  <2>6. Passed(r)
    BY <2>1, <2>2, <2>4, <2>5 DEF Cover
  <2>7. QED
    BY <2>3, <2>6 DEF Passed
<1>2. QED
  BY <1>1, Inductive, PTL

=============================================================================
