----------------------------- MODULE FundingProofs -----------------------------
(***************************************************************************)
(* The game's side of a payment, for any number of deposits, calls and     *)
(* failures: no payment is unwatched, no obligation has two attempts that  *)
(* may be paid, and a deposit lands once.                                  *)
(***************************************************************************)
EXTENDS Funding, FiniteSetTheorems, TLAPS

Issued == {i \in Ids : of[i] # None}

\* The bridge has one request for a deposit: a second is not asked for.
OneIdEach == \A i, j \in Issued : of[i] = of[j] => i = j

Answered == \A i \in Ids : of[i] = None <=> answer[i] = "none"

\* A book, in memory or on disk.  What is not refused is the latest attempt, and what
\* was asked of the bridge is there under some attempt.
Sound(b) ==
  /\ b \subseteq Record
  /\ \A r \in b : r.id = None => r.state = "requested"
  /\ \A r \in b : r.id # None => of[r.id] = r.for
  /\ \A r \in b : r.state \in Refused => r.id # None /\ answer[r.id] = r.state
  /\ \A r, s \in b : r.for = s.for /\ r.attempt = s.attempt => r = s
  /\ \A r, s \in b : r.id = s.id /\ r.id # None => r = s
  /\ \A r, s \in b : r.for = s.for /\ r.state \notin Refused => s.attempt <= r.attempt
  /\ \A i \in Issued : \E r \in b : r.for = of[i]

Synced == ~fault => book = disk /\ landed = kept

Has(b, d, i) == \E r \in b : r.for = d /\ r.id = i
HasLocated(b, d, i) == \E r \in b : r.for = d /\ r.id = i /\ r.state = "located"

Landed == \A d \in Deposits : kept[d] # None => HasLocated(disk, d, kept[d])

\* What a call may count on at each of its steps.
CallOK(c) ==
  LET d == call[c].for  i == call[c].id  h == call[c].heard IN
  /\ call[c] \in Calls
  /\ call[c] # Idle => d \in Deposits
  /\ At(c, "dispatch") =>
       /\ \E r \in book : r.for = d
       /\ \/ \A j \in Ids : of[j] # d
          \/ \E j \in Ids : of[j] = d /\ answer[j] \in {"denied", "expired"}
  /\ call[c].at \in Steps \ {"dispatch"} => i \in Ids /\ of[i] = d
  /\ call[c].at \in Steps \ {"dispatch", "adopt", "reconcile"} => Has(book, d, i)
  /\ call[c].at \in {"adopt", "note", "heard", "reconciled"} =>
       h # "none" /\ (h \in Refused => answer[i] = h)
  /\ At(c, "land") => HasLocated(disk, d, i)

\* fundingLock() keeps two calls for one deposit apart.
Locked(c) == call[c].at \in Steps \ {"locate", "land"}
Exclusive == \A c, e \in Callers : Locked(c) /\ Locked(e) /\ call[c].for = call[e].for => c = e

Books == Sound(book) /\ Sound(disk) /\ Synced /\ Landed

IInv == TypeOK /\ OneIdEach /\ Answered /\ Books /\ Exclusive /\ \A c \in Callers : CallOK(c)

-----------------------------------------------------------------------------
(* The book                                                                *)

\* No record goes, changes its deposit, loses its id or is un-located.
Keeps(b, n) ==
  \A r \in b : \E s \in n :
    /\ s.for = r.for
    /\ r.id # None => s.id = r.id
    /\ r.state = "located" => s.state = "located"

LEMMA Stays == ASSUME NEW b PROVE Keeps(b, b)
BY DEF Keeps

LEMMA KeptHas ==
  ASSUME NEW b, NEW n, Keeps(b, n), NEW d, NEW i, i # None
  PROVE  /\ Has(b, d, i) => Has(n, d, i)
         /\ HasLocated(b, d, i) => HasLocated(n, d, i)
BY DEF Keeps, Has, HasLocated

\* One record is replaced by what came of it.
LEMMA Replaced ==
  ASSUME Sound(book), NEW r \in book, NEW q \in Record,
         q.for = r.for, q.attempt = r.attempt,
         q.id = r.id \/ (r.id = None /\ \A s \in book : s.id # q.id),
         q.id = None => q.state = "requested",
         q.id # None => of[q.id] = q.for,
         q.state \in Refused => q.id # None /\ answer[q.id] = q.state,
         r.state \in Refused => q.state \in Refused,
         r.state = "located" => q.state = "located",
         NEW n, n = (book \ {r}) \cup {q}
  PROVE  Sound(n) /\ Keeps(book, n)
<1>1. \A s \in n : s = q \/ (s \in book /\ s # r)
  OBVIOUS
<1>2. q \in n /\ \A s \in book : s = r \/ s \in n
  OBVIOUS
<1>3. r \in Record /\ book \subseteq Record
  BY DEF Sound
<1>4. Keeps(book, n)
  <2> SUFFICES ASSUME NEW s \in book
               PROVE  \E t \in n : /\ t.for = s.for /\ (s.id # None => t.id = s.id)
                                   /\ (s.state = "located" => t.state = "located")
    BY DEF Keeps
  <2>1. CASE s = r
    BY <1>2, <2>1
  <2>2. CASE s # r
    BY <1>2, <2>2
  <2> QED
    BY <2>1, <2>2
<1>5. n \subseteq Record
  BY <1>1, <1>3
<1>6. \A s \in n :
        /\ s.id = None => s.state = "requested"
        /\ s.id # None => of[s.id] = s.for
        /\ s.state \in Refused => s.id # None /\ answer[s.id] = s.state
  BY <1>1 DEF Sound
<1>7. \A s, t \in n : s.for = t.for /\ s.attempt = t.attempt => s = t
  BY <1>1 DEF Sound
<1>8. \A s, t \in n : s.id = t.id /\ s.id # None => s = t
  BY <1>1 DEF Sound
<1>9. \A s, t \in n : s.for = t.for /\ s.state \notin Refused => t.attempt <= s.attempt
  <2> SUFFICES ASSUME NEW s \in n, NEW t \in n, s.for = t.for, s.state \notin Refused
               PROVE  t.attempt <= s.attempt
    OBVIOUS
  <2> DEFINE Was(x) == IF x = q THEN r ELSE x
  <2>1. /\ Was(s) \in book /\ Was(s).for = s.for /\ Was(s).attempt = s.attempt
        /\ Was(s).state \notin Refused
        /\ Was(t) \in book /\ Was(t).for = t.for /\ Was(t).attempt = t.attempt
    BY <1>1
  <2> HIDE DEF Was
  <2> QED
    BY <2>1 DEF Sound
<1>10. \A i \in Issued : \E s \in n : s.for = of[i]
  BY <1>2 DEF Sound
<1> QED
  BY <1>4, <1>5, <1>6, <1>7, <1>8, <1>9, <1>10 DEF Sound

\* An attempt is added after attempts that were all refused.
LEMMA Added ==
  ASSUME Sound(book), NEW d \in Deposits, NEW k \in Nat,
         \A s \in book : s.for = d => s.state \in Refused /\ s.attempt < k,
         NEW n, n = {Fresh(d, k)} \cup book
  PROVE  Sound(n) /\ Keeps(book, n) /\ Has(n, d, None)
<1> DEFINE q == Fresh(d, k)
<1>1. /\ q \in Record /\ q.for = d /\ q.attempt = k /\ q.id = None /\ q.state = "requested"
  BY DEF Fresh, Record, Open
<1> HIDE DEF q
<1>2. n = {q} \cup book
  BY DEF q
<1>3. q.state \notin Refused
  BY <1>1 DEF Refused
<1>4. book \subseteq Record
  BY DEF Sound
<1>5. \A s \in n : s = q \/ s \in book
  BY <1>2
<1>6. \A s \in n :
        /\ s.id = None => s.state = "requested"
        /\ s.id # None => of[s.id] = s.for
        /\ s.state \in Refused => s.id # None /\ answer[s.id] = s.state
  BY <1>1, <1>3, <1>5 DEF Sound
<1>7. \A s \in book : s.for = d => s.attempt \in Nat /\ s.attempt < k
  BY <1>4 DEF Record
<1>8. \A s, t \in n : s.for = t.for /\ s.attempt = t.attempt => s = t
  BY <1>1, <1>5, <1>7 DEF Sound
<1>9. \A s, t \in n : s.id = t.id /\ s.id # None => s = t
  BY <1>1, <1>5 DEF Sound
<1>10. \A s, t \in n : s.for = t.for /\ s.state \notin Refused => t.attempt <= s.attempt
  BY <1>1, <1>5, <1>7 DEF Sound
<1>11. \A i \in Issued : \E s \in n : s.for = of[i]
  BY <1>2 DEF Sound
<1>12. Keeps(book, n) /\ Has(n, d, None)
  BY <1>1, <1>2 DEF Keeps, Has
<1> QED
  BY <1>1, <1>2, <1>4, <1>6, <1>8, <1>9, <1>10, <1>11, <1>12 DEF Sound

\* What a step may do to the books.
Stored ==
  /\ Sound(book)' /\ Sound(disk)' /\ Synced'
  /\ Keeps(book, book') /\ Keeps(disk, disk')
  /\ fault' \in BOOLEAN /\ faults' \in Nat

\* saveLocked(): whatever became of the write, both books are sound and nothing is
\* lost, and without an error both are the new one.
LEMMA SaveKeeps ==
  ASSUME TypeOK, Books, UNCHANGED bridge, UNCHANGED table,
         NEW n, Sound(n), Keeps(book, n), Save(n)
  PROVE  Stored /\ (Saved => book' = n /\ disk' = n)
<1>1. /\ book' \in {book, n} /\ disk' \in {disk, n}
      /\ disk' = n => disk' = disk \/ ~fault
      /\ Saved => book' = n /\ disk' = n /\ ~fault
      /\ fault' \in BOOLEAN /\ faults' \in Nat
  <2>1. fault \in BOOLEAN /\ faults \in Nat
    BY DEF TypeOK
  <2>2. CASE ~fault /\ book' = n /\ disk' = n /\ UNCHANGED <<faults, fault>>
    BY <2>1, <2>2
  <2>3. CASE ~fault /\ Fail /\ fault' = TRUE /\ disk' \in {disk, n} /\ UNCHANGED book
    <3>1. faults' \in Nat
      BY <2>1, <2>3 DEF Fail
    <3> QED
      BY <2>3, <3>1 DEF Saved
  <2>4. CASE fault /\ UNCHANGED records
    BY <2>1, <2>4 DEF records, Saved
  <2> QED
    BY <2>2, <2>3, <2>4 DEF Save
<1>2. Sound(book') /\ Sound(disk')
  BY <1>1 DEF Books
<1>3. Sound(book)' /\ Sound(disk)'
  BY <1>2 DEF Sound, Issued, bridge
<1>4. Keeps(book, book') /\ Keeps(disk, disk')
  BY <1>1, Stays DEF Books, Synced
<1>5. Synced'
  BY <1>1 DEF Books, Synced, Saved, table
<1> QED
  BY <1>1, <1>3, <1>4, <1>5 DEF Stored

\* Note() of what was heard of a request, when what it says refused is so.
LEMMA NoteKeeps ==
  ASSUME TypeOK, Books, UNCHANGED bridge, UNCHANGED table,
         NEW i \in Ids, NEW h \in Heard \ {"none"}, h \in Refused => answer[i] = h,
         Note(i, h)
  PROVE  Stored
<1>1. PICK r \in Named(i) :
        IF r.state \in Terminal THEN UNCHANGED records
        ELSE Save(Written(i, NextState(r.state, h)))
  BY DEF Note
<1>2. r \in book /\ r.id = i /\ r \in Record /\ i # None
  BY NoneAssumption DEF Named, Books, Sound
<1>3. CASE r.state \in Terminal
  BY <1>1, <1>3, Stays DEF Stored, records, TypeOK, Books, Sound, Issued, bridge, Synced, table
<1>4. CASE r.state \notin Terminal
  <2> DEFINE st == NextState(r.state, h)
             q  == [r EXCEPT !.state = st]
  <2>1. st \in Open \cup Terminal /\ st # "located" /\ (st \in Refused => answer[i] = st)
    BY <1>2 DEF NextState, fromTransport, Heard, Bridge!Answers, Open, Terminal, Refused, Record
  <2> HIDE DEF st
  <2>2. /\ q \in Record /\ q.for = r.for /\ q.attempt = r.attempt /\ q.id = r.id /\ q.state = st
    BY <1>2, <2>1 DEF Record
  <2>3. Named(i) = {r}
    BY <1>2 DEF Named, Books, Sound
  <2>4. Written(i, st) = (book \ {r}) \cup {q}
    BY <2>3 DEF Written
  <2> HIDE DEF q
  <2>5. Sound(book) /\ of[i] = r.for
    BY <1>2 DEF Books, Sound
  <2>6. r.state \notin Refused /\ r.state # "located"
    BY <1>4 DEF Terminal
  <2>7. Sound(Written(i, st)) /\ Keeps(book, Written(i, st))
    BY <1>2, <2>1, <2>2, <2>4, <2>5, <2>6, Replaced
  <2>8. Save(Written(i, st))
    BY <1>1, <1>4 DEF st
  <2> QED
    BY <2>7, <2>8, SaveKeeps
<1> QED
  BY <1>3, <1>4

-----------------------------------------------------------------------------
(* The calls                                                               *)

LEMMA Gone ==
  ASSUME call \in [Callers -> Calls], NEW c \in Callers, Done(c)
  PROVE  /\ call' \in [Callers -> Calls] /\ call'[c] = Idle
         /\ \A e \in Callers \ {c} : call'[e] = call[e]
BY DEF Done, Calls

LEMMA Went ==
  ASSUME call \in [Callers -> Calls], NEW c \in Callers, call[c].at \in Steps,
         NEW step \in Steps, Go(c, step)
  PROVE  /\ call' \in [Callers -> Calls] /\ call'[c].at = step
         /\ call'[c].for = call[c].for /\ call'[c].id = call[c].id
         /\ call'[c].heard = call[c].heard /\ call'[c] # Idle
         /\ \A e \in Callers \ {c} : call'[e] = call[e]
<1>1. call[c] \in [at : Steps, for : Deposits, id : Ids \cup {None}, heard : Heard]
  BY DEF Calls, Idle, Steps
<1>2. call' = [call EXCEPT ![c] = [call[c] EXCEPT !.at = step]]
  BY DEF Go
<1> DEFINE now == [call[c] EXCEPT !.at = step]
<1>3. /\ now \in [at : Steps, for : Deposits, id : Ids \cup {None}, heard : Heard]
      /\ now.at = step /\ now.for = call[c].for /\ now.id = call[c].id
      /\ now.heard = call[c].heard /\ now # Idle
  BY <1>1 DEF Idle, Steps
<1> HIDE DEF now
<1> QED
  BY <1>2, <1>3 DEF now, Calls

LEMMA Learned ==
  ASSUME call \in [Callers -> Calls], NEW c \in Callers, call[c].at \in Steps,
         NEW step \in Steps, NEW i \in Ids, NEW h \in Heard, Learn(c, step, i, h)
  PROVE  /\ call' \in [Callers -> Calls] /\ call'[c].at = step
         /\ call'[c].for = call[c].for /\ call'[c].id = i
         /\ call'[c].heard = h /\ call'[c] # Idle
         /\ \A e \in Callers \ {c} : call'[e] = call[e]
<1>1. call[c] \in [at : Steps, for : Deposits, id : Ids \cup {None}, heard : Heard]
  BY DEF Calls, Idle, Steps
<1>2. call' = [call EXCEPT ![c] = [call[c] EXCEPT !.at = step, !.id = i, !.heard = h]]
  BY DEF Learn
<1> DEFINE now == [call[c] EXCEPT !.at = step, !.id = i, !.heard = h]
<1>3. /\ now \in [at : Steps, for : Deposits, id : Ids \cup {None}, heard : Heard]
      /\ now.at = step /\ now.for = call[c].for /\ now.id = i
      /\ now.heard = h /\ now # Idle
  BY <1>1 DEF Idle, Steps
<1> HIDE DEF now
<1> QED
  BY <1>2, <1>3 DEF now, Calls

LEMMA Entered ==
  ASSUME call \in [Callers -> Calls], NEW c \in Callers, NEW d \in Deposits,
         NEW step \in Steps, NEW i \in Ids \cup {None}, Enter(c, d, step, i)
  PROVE  /\ call' \in [Callers -> Calls] /\ call'[c].at = step
         /\ call'[c].for = d /\ call'[c].id = i /\ call'[c] # Idle
         /\ Lock(d)
         /\ \A e \in Callers \ {c} : call'[e] = call[e]
<1> DEFINE now == [at |-> step, for |-> d, id |-> i, heard |-> "none"]
<1>1. /\ now \in Calls /\ now.at = step /\ now.for = d /\ now.id = i /\ now # Idle
  BY DEF Calls, Heard, Bridge!Answers, Idle, Steps
<1>2. call' = [call EXCEPT ![c] = now] /\ Lock(d)
  BY DEF Enter
<1> HIDE DEF now
<1> QED
  BY <1>1, <1>2

\* What a step of another call leaves alone.
Onward ==
  /\ \A i \in Ids : of[i] # None => of'[i] = of[i]
  /\ \A i \in Ids : answer[i] \in Refused => answer'[i] = answer[i]
  /\ Keeps(book, book') /\ Keeps(disk, disk')

LEMMA OthersStand ==
  ASSUME IInv, Onward, NEW e \in Callers, call'[e] = call[e],
         At(e, "dispatch") => \A j \in Ids : of'[j] = call[e].for => of[j] = of'[j]
  PROVE  CallOK(e)'
<1> DEFINE d == call[e].for
           i == call[e].id
           h == call[e].heard
<1>1. CallOK(e)
  BY DEF IInv
<1>2. /\ call[e] \in Calls /\ (call[e] # Idle => d \in Deposits)
      /\ At(e, "dispatch") => \/ \A j \in Ids : of'[j] # d
                              \/ \E j \in Ids : of'[j] = d /\ answer'[j] \in {"denied", "expired"}
  <2>1. None \notin Deposits
    BY NoneAssumption
  <2>2. ASSUME At(e, "dispatch"), NEW j \in Ids, of[j] = d, answer[j] \in {"denied", "expired"}
        PROVE  of'[j] = d /\ answer'[j] \in {"denied", "expired"}
    <3>1. call[e] # Idle
      BY <2>2 DEF At, Idle
    <3> QED
      BY <1>1, <2>1, <2>2, <3>1 DEF CallOK, Onward, Refused
  <2> QED
    BY <1>1, <2>2 DEF CallOK
<1>3. call[e].at \in Steps \ {"dispatch"} => i \in Ids /\ of'[i] = d
  <2> SUFFICES ASSUME call[e].at \in Steps \ {"dispatch"} PROVE i \in Ids /\ of'[i] = d
    OBVIOUS
  <2>1. call[e] # Idle
    BY DEF Idle, Steps
  <2>2. i \in Ids /\ of[i] = d /\ d \in Deposits
    BY <1>1, <2>1 DEF CallOK
  <2> QED
    BY <2>2, NoneAssumption DEF Onward
<1>4. call[e].at \in Steps \ {"dispatch", "adopt", "reconcile"} => Has(book', d, i)
  BY <1>1, <1>3, KeptHas, NoneAssumption DEF CallOK, Onward
<1>5. call[e].at \in {"adopt", "note", "heard", "reconciled"} =>
        h # "none" /\ (h \in Refused => answer'[i] = h)
  BY <1>1, <1>3 DEF CallOK, Onward, Steps
<1>6. At(e, "land") => HasLocated(disk', d, i)
  BY <1>1, <1>3, KeptHas, NoneAssumption DEF CallOK, Onward, At, Steps
<1>7. At(e, "dispatch") => \E r \in book' : r.for = d
  BY <1>1 DEF CallOK, Onward, Keeps
<1> QED
  BY <1>2, <1>3, <1>4, <1>5, <1>6, <1>7 DEF CallOK, At, Has, HasLocated

\* A step of one call, whatever it did to the books.
LEMMA StepKeeps ==
  ASSUME IInv, TypeOK', OneIdEach', Answered', Books', Onward,
         NEW c \in Callers, \A e \in Callers \ {c} : call'[e] = call[e],
         \A e \in Callers \ {c} : At(e, "dispatch") =>
           \A j \in Ids : of'[j] = call[e].for => of[j] = of'[j],
         CallOK(c)',
         Locked(c)' => \/ Locked(c) /\ call'[c].for = call[c].for
                       \/ Lock(call'[c].for)
  PROVE  IInv'
<1>1. \A e \in Callers : CallOK(e)'
  BY OthersStand
<1>2. ASSUME NEW e \in Callers, e # c, Locked(c)', Locked(e)', call'[c].for = call'[e].for
      PROVE  FALSE
  <2>1. Locked(e) /\ call[e].for = call'[c].for
    BY <1>2 DEF Locked
  <2>2. CASE Locked(c) /\ call'[c].for = call[c].for
    BY <1>2, <2>1, <2>2 DEF IInv, Exclusive
  <2>3. CASE Lock(call'[c].for)
    BY <2>1, <2>3 DEF Lock, Locked
  <2> QED
    BY <1>2, <2>2, <2>3
<1>3. Exclusive'
  <2> SUFFICES ASSUME NEW x \in Callers, NEW y \in Callers, Locked(x)', Locked(y)',
                      call'[x].for = call'[y].for
               PROVE  x = y
    BY DEF Exclusive
  <2>1. CASE x = c \/ y = c
    BY <1>2, <2>1
  <2>2. CASE x # c /\ y # c
    BY <2>2 DEF IInv, Exclusive, Locked
  <2> QED
    BY <2>1, <2>2
<1> QED
  BY <1>1, <1>3 DEF IInv

LEMMA Untouched ==
  ASSUME IInv, UNCHANGED <<bridge, fault, book, disk, table>>, faults' \in Nat
  PROVE  Stored
BY Stays DEF Stored, IInv, TypeOK, Books, Sound, Issued, Synced, bridge, table

\* A step of one call that leaves the bridge and the table's record alone.
LEMMA BookStep ==
  ASSUME IInv, Stored, UNCHANGED <<bridge, nature, table>>,
         NEW c \in Callers, call' \in [Callers -> Calls],
         \A e \in Callers \ {c} : call'[e] = call[e],
         CallOK(c)',
         Locked(c)' => \/ Locked(c) /\ call'[c].for = call[c].for
                       \/ Lock(call'[c].for)
  PROVE  IInv'
<1>1. TypeOK'
  BY DEF IInv, Stored, Sound, TypeOK, bridge, nature, table
<1>2. OneIdEach' /\ Answered'
  BY DEF IInv, OneIdEach, Answered, Issued, bridge
<1>3. Landed'
  <2> SUFFICES ASSUME NEW d \in Deposits, kept[d] # None PROVE HasLocated(disk', d, kept[d])
    BY DEF Landed, table, HasLocated
  <2> QED
    BY KeptHas DEF IInv, Books, Landed, Stored
<1>4. Books'
  BY <1>3 DEF Books, Stored
<1>5. Onward
  BY DEF Onward, Stored, bridge
<1>6. \A j \in Ids : of[j] = of'[j]
  BY DEF bridge
<1> QED
  BY <1>1, <1>2, <1>4, <1>5, <1>6, StepKeeps

LEMMA DoneStep ==
  ASSUME IInv, Stored, UNCHANGED <<bridge, nature, table>>, NEW c \in Callers, Done(c)
  PROVE  IInv'
<1>1. /\ call' \in [Callers -> Calls] /\ call'[c] = Idle
      /\ \A e \in Callers \ {c} : call'[e] = call[e]
  BY Gone DEF IInv, TypeOK
<1>2. CallOK(c)' /\ ~Locked(c)'
  BY <1>1 DEF CallOK, Locked, At, Idle, Calls, Steps
<1> QED
  BY <1>1, <1>2, BookStep

\* A call goes on with the request it has.
LEMMA GoStep ==
  ASSUME IInv, Stored, UNCHANGED <<bridge, nature, table>>,
         NEW c \in Callers, call' \in [Callers -> Calls],
         \A e \in Callers \ {c} : call'[e] = call[e],
         call[c].at \in Steps \ {"dispatch"}, call'[c].at \in Steps \ {"dispatch"},
         call'[c].for = call[c].for, call'[c].id = call[c].id,
         Locked(c)' => Locked(c),
         call'[c].at \in Steps \ {"dispatch", "adopt", "reconcile"} =>
           Has(book, call[c].for, call[c].id) \/ Has(book', call[c].for, call[c].id),
         call'[c].at \in {"adopt", "note", "heard", "reconciled"} =>
           /\ call'[c].heard # "none"
           /\ call'[c].heard \in Refused => answer[call[c].id] = call'[c].heard,
         At(c, "land")' => HasLocated(disk', call[c].for, call[c].id)
  PROVE  IInv'
<1>1. /\ call[c] # Idle /\ call'[c] # Idle
      /\ call[c].for \in Deposits /\ call[c].id \in Ids /\ of[call[c].id] = call[c].for
  BY DEF IInv, CallOK, Idle, Steps
<1>2. call'[c].at \in Steps \ {"dispatch", "adopt", "reconcile"} =>
        Has(book', call[c].for, call[c].id)
  BY <1>1, KeptHas, NoneAssumption DEF Stored
<1>3. CallOK(c)'
  BY <1>1, <1>2 DEF CallOK, At, Has, HasLocated, bridge
<1> QED
  BY <1>3, BookStep

LEMMA NoteStep ==
  ASSUME IInv, NEW c \in Callers, call[c].at \in {"note", "heard"},
         Note(call[c].id, call[c].heard), Then(c, "wait"), UNCHANGED <<bridge, nature, table>>
  PROVE  IInv'
<1> DEFINE i == call[c].id
           h == call[c].heard
<1>1. /\ i \in Ids /\ Has(book, call[c].for, i) /\ h \in Heard \ {"none"}
      /\ h \in Refused => answer[i] = h
  BY DEF IInv, CallOK, Calls, Idle, Steps
<1>2. Stored
  BY <1>1, NoteKeeps DEF IInv
<1>3. CASE Done(c)
  BY <1>2, <1>3, DoneStep
<1>4. CASE Go(c, "wait")
  <2>1. /\ call' \in [Callers -> Calls] /\ call'[c].at = "wait"
        /\ call'[c].for = call[c].for /\ call'[c].id = i
        /\ \A e \in Callers \ {c} : call'[e] = call[e]
    BY <1>4, Went DEF IInv, TypeOK, Steps
  <2> QED
    BY <1>1, <1>2, <2>1, GoStep DEF Steps, Locked, At
<1> QED
  BY <1>3, <1>4 DEF Then

\* The one unnamed request of an obligation gets its id.
LEMMA AdoptKeeps ==
  ASSUME TypeOK, Books, UNCHANGED bridge, UNCHANGED table,
         NEW d \in Deposits, NEW i \in Ids, of[i] = d,
         Adoptable(d, i), Save(Adopted(d, i))
  PROVE  Stored /\ (Saved => Has(book', d, i))
<1>1. PICK r \in Unnamed(d) : TRUE
  BY FS_EmptySet DEF Adoptable
<1>2. r \in book /\ r.for = d /\ r.id = None /\ r.state = "requested" /\ r \in Record
  BY <1>1 DEF Unnamed, Of, Books, Sound
<1>3. Unnamed(d) = {r}
  <2> SUFFICES ASSUME NEW s \in Unnamed(d) PROVE s = r
    BY <1>1
  <2>1. s \in book /\ s.for = d /\ s.state = "requested" /\ s \in Record
    BY DEF Unnamed, Of, Books, Sound
  <2>2. r.attempt <= s.attempt /\ s.attempt <= r.attempt
    BY <1>2, <2>1 DEF Books, Sound, Refused
  <2>3. r.attempt = s.attempt
    BY <1>2, <2>1, <2>2 DEF Record
  <2> QED
    BY <1>2, <2>1, <2>3 DEF Books, Sound
<1> DEFINE q == [r EXCEPT !.id = i]
<1>4. /\ q \in Record /\ q.for = d /\ q.attempt = r.attempt /\ q.id = i /\ q.state = "requested"
  BY <1>2 DEF Record
<1>5. Adopted(d, i) = (book \ {r}) \cup {q}
  BY <1>3 DEF Adopted
<1> HIDE DEF q
<1>6. \A s \in book : s.id # i
  BY DEF Adoptable, Named
<1>7. Sound(Adopted(d, i)) /\ Keeps(book, Adopted(d, i))
  BY <1>2, <1>4, <1>5, <1>6, Replaced DEF Books, Refused
<1> QED
  BY <1>4, <1>5, <1>7, SaveKeeps DEF Has

-----------------------------------------------------------------------------
(* Steps of one call                                                       *)

LEMMA AskStep ==
  ASSUME IInv, NEW c \in Callers, NEW d \in Deposits, Ask(c, d)
  PROVE  IInv'
<1> DEFINE n == {Fresh(d, 0)} \cup book
<1>1. Sound(book) /\ \A s \in book : s.for # d
  BY DEF IInv, Books, Ask, Of
<1>2. Sound(n) /\ Keeps(book, n) /\ Has(n, d, None)
  BY <1>1, Added
<1> HIDE DEF n
<1>3. Save(n) /\ UNCHANGED <<bridge, nature, table>>
  BY DEF Ask, n
<1>4. Stored /\ (Saved => book' = n)
  BY <1>2, <1>3, SaveKeeps DEF IInv
<1>5. \A j \in Ids : of[j] # d
  BY <1>1, NoneAssumption DEF Sound, Issued
<1>6. CASE Saved
  <2>1. /\ call' \in [Callers -> Calls] /\ call'[c].at = "dispatch"
        /\ call'[c].for = d /\ call'[c] # Idle /\ Lock(d)
        /\ \A e \in Callers \ {c} : call'[e] = call[e]
    BY <1>6, Entered DEF IInv, TypeOK, Ask, Steps
  <2>2. CallOK(c)'
    BY <1>2, <1>4, <1>5, <1>6, <2>1, <1>3 DEF CallOK, At, Has, bridge
  <2> QED
    BY <1>3, <1>4, <2>1, <2>2, BookStep
<1>7. CASE ~Saved
  <2>1. call' = call /\ call'[c] = Idle /\ call \in [Callers -> Calls]
    BY <1>7 DEF Ask, IInv, TypeOK
  <2>2. CallOK(c)' /\ ~Locked(c)'
    BY <2>1 DEF CallOK, Locked, At, Idle, Calls, Steps
  <2> QED
    BY <1>3, <1>4, <2>1, <2>2, BookStep
<1> QED
  BY <1>6, <1>7

LEMMA TakeUpStep ==
  ASSUME IInv, NEW c \in Callers, NEW d \in Deposits, TakeUp(c, d)
  PROVE  IInv'
<1>1. PICK r \in Latest(d) :
        /\ r.id # None /\ r.state \notin Refused
        /\ Enter(c, d, IF r.state \in {"approved", "located"} THEN "locate" ELSE "wait", r.id)
  BY DEF TakeUp
<1>2. /\ UNCHANGED <<bridge, nature, table>> /\ Stored
  BY Untouched DEF TakeUp, records, IInv, TypeOK
<1>3. r \in book /\ r.for = d /\ r.id \in Ids /\ of[r.id] = d /\ Has(book, d, r.id)
  BY <1>1 DEF Latest, Of, IInv, Books, Sound, Record, Has
<1>4. PICK step \in {"locate", "wait"} : Enter(c, d, step, r.id)
  BY <1>1
<1>5. /\ call' \in [Callers -> Calls] /\ call'[c].at = step
      /\ call'[c].for = d /\ call'[c].id = r.id /\ call'[c] # Idle /\ Lock(d)
      /\ \A e \in Callers \ {c} : call'[e] = call[e]
  BY <1>3, <1>4, Entered DEF IInv, TypeOK, Steps
<1>6. CallOK(c)'
  BY <1>2, <1>3, <1>5 DEF CallOK, At, Has, bridge, TakeUp, records
<1> QED
  BY <1>2, <1>5, <1>6, BookStep

LEMMA DispatchRefusedStep ==
  ASSUME IInv, NEW c \in Callers, DispatchRefused(c)
  PROVE  IInv'
<1>1. Stored /\ Done(c) /\ UNCHANGED <<bridge, nature, table>>
  BY Untouched DEF DispatchRefused, records, IInv, TypeOK
<1> QED
  BY <1>1, DoneStep

LEMMA AdoptStep ==
  ASSUME IInv, NEW c \in Callers, Adopt(c)
  PROVE  IInv'
<1> DEFINE d == call[c].for
           i == call[c].id
<1>1. /\ d \in Deposits /\ i \in Ids /\ of[i] = d /\ call[c].at = "adopt"
      /\ call[c].heard # "none" /\ (call[c].heard \in Refused => answer[i] = call[c].heard)
  BY DEF IInv, CallOK, Adopt, At, Idle, Steps
<1>2. UNCHANGED <<bridge, nature, table>>
  BY DEF Adopt
<1>3. CASE Adoptable(d, i)
  <2>1. Save(Adopted(d, i)) /\ Then(c, "note")
    BY <1>3 DEF Adopt
  <2>2. Stored /\ (Saved => Has(book', d, i))
    BY <1>1, <1>2, <1>3, <2>1, AdoptKeeps DEF IInv
  <2>3. CASE Saved
    <3>1. /\ call' \in [Callers -> Calls] /\ call'[c].at = "note"
          /\ call'[c].for = d /\ call'[c].id = i /\ call'[c].heard = call[c].heard
          /\ \A e \in Callers \ {c} : call'[e] = call[e]
      BY <1>1, <2>1, <2>3, Went DEF Then, IInv, TypeOK, Steps
    <3> QED
      BY <1>1, <1>2, <2>2, <2>3, <3>1, GoStep DEF Steps, Locked, At
  <2>4. CASE ~Saved
    BY <1>2, <2>1, <2>2, <2>4, DoneStep DEF Then
  <2> QED
    BY <2>3, <2>4
<1>4. CASE ~Adoptable(d, i)
  <2>1. Stored /\ Done(c)
    BY <1>2, <1>4, Untouched DEF Adopt, records, IInv, TypeOK
  <2> QED
    BY <1>2, <2>1, DoneStep
<1> QED
  BY <1>3, <1>4

LEMMA NoteFirstStep ==
  ASSUME IInv, NEW c \in Callers, NoteFirst(c)
  PROVE  IInv'
BY NoteStep DEF NoteFirst, At

LEMMA HearStep ==
  ASSUME IInv, NEW c \in Callers, Hear(c)
  PROVE  IInv'
BY NoteStep DEF Hear, At

LEMMA PollStep ==
  ASSUME IInv, NEW c \in Callers, Poll(c) \/ PollUnreachable(c)
  PROVE  IInv'
<1> DEFINE i == call[c].id
<1>1. /\ call[c].at = "wait" /\ i \in Ids /\ of[i] = call[c].for /\ call[c].for \in Deposits
      /\ Has(book, call[c].for, i)
  BY DEF IInv, CallOK, Poll, PollUnreachable, At, Idle, Steps
<1>2. Stored /\ UNCHANGED <<bridge, nature, table>>
  BY Untouched DEF Poll, PollUnreachable, records, IInv, TypeOK
<1>3. CASE Done(c)
  BY <1>2, <1>3, DoneStep
<1>4. CASE Go(c, "locate")
  <2>1. /\ call' \in [Callers -> Calls] /\ call'[c].at = "locate"
        /\ call'[c].for = call[c].for /\ call'[c].id = i
        /\ \A e \in Callers \ {c} : call'[e] = call[e]
    BY <1>1, <1>4, Went DEF IInv, TypeOK, Steps
  <2> QED
    BY <1>1, <1>2, <2>1, GoStep DEF Steps, Locked, At
<1>5. ASSUME NEW h \in {"unreachable", answer[i]}, Learn(c, "heard", i, h) PROVE IInv'
  <2>1. h \in Heard \ {"none"} /\ (h \in Refused => answer[i] = h)
    BY <1>1, NoneAssumption DEF IInv, TypeOK, Answered, Heard, Refused, Bridge!Answers
  <2>2. /\ call' \in [Callers -> Calls] /\ call'[c].at = "heard"
        /\ call'[c].for = call[c].for /\ call'[c].id = i /\ call'[c].heard = h
        /\ \A e \in Callers \ {c} : call'[e] = call[e]
    BY <1>1, <1>5, <2>1, Learned DEF IInv, TypeOK, Steps
  <2> QED
    BY <1>1, <1>2, <2>1, <2>2, GoStep DEF Steps, Locked, At
<1> QED
  BY <1>3, <1>4, <1>5 DEF Poll, PollUnreachable, Named

LEMMA CancelStep ==
  ASSUME IInv, NEW c \in Callers, Cancel(c)
  PROVE  IInv'
<1>1. Stored /\ Done(c) /\ UNCHANGED <<bridge, nature, table>>
  BY Untouched DEF Cancel, Fail, IInv, TypeOK
<1> QED
  BY <1>1, DoneStep

LEMMA NotFoundStep ==
  ASSUME IInv, NEW c \in Callers, NotFound(c)
  PROVE  IInv'
<1>1. faults' \in Nat
  BY DEF NotFound, Fail, IInv, TypeOK
<1>2. Stored /\ Done(c) /\ UNCHANGED <<bridge, nature, table>>
  BY <1>1, Untouched DEF NotFound
<1> QED
  BY <1>2, DoneStep

LEMMA LocateStep ==
  ASSUME IInv, NEW c \in Callers, Locate(c)
  PROVE  IInv'
<1> DEFINE d == call[c].for
           i == call[c].id
           n == Written(i, "located")
<1>1. /\ call[c].at = "locate" /\ i \in Ids /\ of[i] = d /\ d \in Deposits /\ Has(book, d, i)
      /\ answer[i] = "approved" /\ UNCHANGED <<bridge, nature, table>>
      /\ Save(n) /\ Then(c, "land")
  BY DEF IInv, CallOK, Locate, At, Idle, Steps
<1>2. PICK r \in book : r.for = d /\ r.id = i
  BY <1>1 DEF Has
<1>3. Sound(book) /\ r \in Record /\ i # None /\ Named(i) = {r}
  BY <1>1, <1>2, NoneAssumption DEF IInv, Books, Sound, Named
<1> DEFINE q == [r EXCEPT !.state = "located"]
<1>4. /\ q \in Record /\ q.for = d /\ q.attempt = r.attempt /\ q.id = i /\ q.state = "located"
  BY <1>2, <1>3 DEF Record, Terminal
<1>5. n = (book \ {r}) \cup {q}
  BY <1>3 DEF Written
<1> HIDE DEF q, n
<1>6. r.state \notin Refused /\ q.state \notin Refused
  BY <1>1, <1>2, <1>3, <1>4 DEF Sound, Refused
<1>7. Sound(n) /\ Keeps(book, n)
  BY <1>1, <1>2, <1>3, <1>4, <1>5, <1>6, Replaced
<1>8. Stored /\ (Saved => book' = n /\ disk' = n)
  BY <1>1, <1>7, SaveKeeps DEF IInv
<1>9. CASE Saved
  <2>1. HasLocated(disk', d, i)
    BY <1>4, <1>5, <1>8, <1>9 DEF HasLocated
  <2>2. /\ call' \in [Callers -> Calls] /\ call'[c].at = "land"
        /\ call'[c].for = d /\ call'[c].id = i
        /\ \A e \in Callers \ {c} : call'[e] = call[e]
    BY <1>1, <1>9, Went DEF Then, IInv, TypeOK, Steps
  <2> QED
    BY <1>1, <1>8, <2>1, <2>2, GoStep DEF Steps, Locked, At
<1>10. CASE ~Saved
  BY <1>1, <1>8, <1>10, DoneStep DEF Then
<1> QED
  BY <1>9, <1>10

\* A new id is issued only for a deposit no request was made for: one that was
\* denied or expired is answered with that request again.
LEMMA TakeKeeps ==
  ASSUME IInv, NEW c \in Callers, At(c, "dispatch"), ~fault,
         NEW i \in Ids, Bridge!Take(i, call[c].for), UNCHANGED <<fault, book, disk, table>>
  PROVE  /\ of' \in [Ids -> Deposits \cup {None}] /\ answer' \in [Ids -> Bridge!Answers]
         /\ OneIdEach' /\ Answered' /\ Books' /\ Onward
         /\ of'[i] = call[c].for
         /\ \A j \in Ids : of'[j] # call[c].for => of[j] = of'[j]
<1> DEFINE d == call[c].for
<1>1. /\ d \in Deposits /\ d # None /\ (\E r \in book : r.for = d) /\ CallOK(c)
      /\ of \in [Ids -> Deposits \cup {None}] /\ answer \in [Ids -> Bridge!Answers]
      /\ Answered /\ OneIdEach /\ Books /\ book = disk
  BY NoneAssumption DEF IInv, CallOK, At, Idle, TypeOK, Books, Synced
<1>2. /\ of[i] = None /\ of' = [of EXCEPT ![i] = d]
      /\ answer' = [answer EXCEPT ![i] = "pending"]
      /\ \A j \in Ids : ~Bridge!Stands(j, d)
  BY DEF Bridge!Take
<1>3. \A j \in Ids : of[j] # d
  BY <1>1, <1>2 DEF CallOK, At, Bridge!Stands
<1>4. /\ of'[i] = d /\ answer'[i] = "pending"
      /\ \A j \in Ids \ {i} : of'[j] = of[j] /\ answer'[j] = answer[j]
      /\ of' \in [Ids -> Deposits \cup {None}] /\ answer' \in [Ids -> Bridge!Answers]
  BY <1>1, <1>2 DEF Bridge!Answers
<1>5. OneIdEach'
  <2> SUFFICES ASSUME NEW j \in Ids, NEW k \in Ids, of'[j] # None, of'[j] = of'[k] PROVE j = k
    BY DEF OneIdEach, Issued
  <2>1. CASE j = i \/ k = i
    BY <1>3, <1>4, <2>1
  <2>2. CASE j # i /\ k # i
    BY <1>1, <1>4, <2>2 DEF OneIdEach, Issued
  <2> QED
    BY <2>1, <2>2
<1>6. Answered'
  BY <1>1, <1>4 DEF Answered
<1>7. ASSUME NEW r \in book, r.id # None
      PROVE  r.id \in Ids \ {i} /\ of'[r.id] = of[r.id] /\ answer'[r.id] = answer[r.id]
  <2>1. r.id \in Ids /\ r.for \in Deposits /\ of[r.id] = r.for
    BY <1>1, <1>7 DEF Books, Sound, Record
  <2> QED
    BY <1>2, <1>4, <2>1, NoneAssumption
<1>8. Sound(book)'
  <2>1. /\ book \subseteq Record
        /\ \A r \in book : r.id = None => r.state = "requested"
        /\ \A r \in book : r.id # None => of[r.id] = r.for
        /\ \A r \in book : r.state \in Refused => r.id # None /\ answer[r.id] = r.state
        /\ \A r, s \in book : r.for = s.for /\ r.attempt = s.attempt => r = s
        /\ \A r, s \in book : r.id = s.id /\ r.id # None => r = s
        /\ \A r, s \in book : r.for = s.for /\ r.state \notin Refused => s.attempt <= r.attempt
        /\ \A j \in Issued : \E r \in book : r.for = of[j]
    BY <1>1 DEF Books, Sound
  <2>2. \A r \in book : r.id # None => of'[r.id] = r.for
    BY <1>7, <2>1
  <2>3. \A r \in book : r.state \in Refused => r.id # None /\ answer'[r.id] = r.state
    BY <1>7, <2>1
  <2>4. ASSUME NEW j \in Ids, of'[j] # None PROVE \E r \in book : r.for = of'[j]
    <3>1. CASE j = i
      BY <1>1, <1>4, <3>1
    <3>2. CASE j # i
      BY <1>4, <2>1, <2>4, <3>2 DEF Issued
    <3> QED
      BY <3>1, <3>2
  <2>5. book' = book
    OBVIOUS
  <2> QED
    BY <2>1, <2>2, <2>3, <2>4, <2>5 DEF Sound, Issued
<1>9. Books'
  BY <1>1, <1>8 DEF Books, Sound, Issued, Synced, Landed, HasLocated, table
<1>10. Onward
  BY <1>1, <1>2, <1>4, Stays DEF Onward, Answered, Refused
<1> QED
  BY <1>3, <1>4, <1>5, <1>6, <1>9, <1>10

LEMMA DispatchStep ==
  ASSUME IInv, NEW c \in Callers, Dispatch(c)
  PROVE  IInv'
<1> DEFINE d == call[c].for
<1>1. /\ call[c].at = "dispatch" /\ ~fault /\ d \in Deposits /\ Locked(c)
      /\ UNCHANGED <<nature, fault, book, disk, table>> /\ faults' \in Nat
  BY DEF Dispatch, Fail, At, IInv, CallOK, TypeOK, Locked, Idle, Steps
<1>2. PICK i \in Ids :
        /\ \/ Bridge!Stands(i, d) /\ UNCHANGED bridge
           \/ Bridge!Take(i, d)
        /\ \/ Learn(c, "adopt", i, answer'[i]) /\ UNCHANGED faults
           \/ Fail /\ Done(c)
  BY DEF Dispatch
<1>3. /\ of' \in [Ids -> Deposits \cup {None}] /\ answer' \in [Ids -> Bridge!Answers]
      /\ OneIdEach' /\ Answered' /\ Books' /\ Onward
      /\ of'[i] = d /\ answer'[i] # "none"
      /\ \A j \in Ids : of'[j] # d => of[j] = of'[j]
  <2>1. CASE Bridge!Take(i, d)
    <3>1. answer'[i] # "none"
      BY <2>1 DEF Bridge!Take, IInv, TypeOK
    <3> QED
      BY <1>1, <2>1, <3>1, TakeKeeps DEF At
  <2>2. CASE Bridge!Stands(i, d) /\ UNCHANGED bridge
    BY <1>1, <2>2, Stays
    DEF Bridge!Stands, bridge, table, IInv, TypeOK, OneIdEach, Answered, Issued, Books, Sound,
        Synced, Landed, HasLocated, Onward
  <2> QED
    BY <1>2, <2>1, <2>2
<1>4. /\ call' \in [Callers -> Calls] /\ CallOK(c)'
      /\ \A e \in Callers \ {c} : call'[e] = call[e]
      /\ Locked(c)' => call'[c].for = d
  <2>1. CASE Learn(c, "adopt", i, answer'[i])
    <3>1. answer'[i] \in Heard
      BY <1>3 DEF Heard
    <3>2. /\ call' \in [Callers -> Calls] /\ call'[c].at = "adopt"
          /\ call'[c].for = d /\ call'[c].id = i /\ call'[c].heard = answer'[i]
          /\ \A e \in Callers \ {c} : call'[e] = call[e]
      BY <1>1, <2>1, <3>1, Learned DEF IInv, TypeOK, Steps
    <3> QED
      BY <1>1, <1>3, <3>2 DEF CallOK, At
  <2>2. CASE Done(c)
    BY <2>2, Gone DEF IInv, TypeOK, CallOK, Locked, At, Idle, Calls, Steps
  <2> QED
    BY <1>2, <2>1, <2>2
<1>5. TypeOK'
  BY <1>1, <1>3, <1>4 DEF IInv, TypeOK, nature, table
<1>6. ASSUME NEW e \in Callers \ {c}, At(e, "dispatch"), NEW j \in Ids, of'[j] = call[e].for
      PROVE  of[j] = of'[j]
  <2>1. call[e].for # d
    BY <1>1, <1>6 DEF IInv, Exclusive, Locked, At, Steps
  <2> QED
    BY <1>3, <1>6, <2>1
<1>7. Locked(c)' => \/ Locked(c) /\ call'[c].for = call[c].for
                    \/ Lock(call'[c].for)
  BY <1>1, <1>4
<1>8. \A e \in Callers \ {c} : At(e, "dispatch") =>
        \A j \in Ids : of'[j] = call[e].for => of[j] = of'[j]
  BY <1>6
<1> QED
  BY <1>3, <1>4, <1>5, <1>7, <1>8, StepKeeps

LEMMA LandStep ==
  ASSUME IInv, NEW c \in Callers, Land(c)
  PROVE  IInv'
<1> DEFINE d == call[c].for
           i == call[c].id
<1>1. /\ d \in Deposits /\ i \in Ids /\ HasLocated(disk, d, i)
      /\ Done(c) /\ UNCHANGED <<bridge, nature, book, disk>>
      /\ landed' = [landed EXCEPT ![d] = i]
      /\ landed \in [Deposits -> Ids \cup {None}] /\ kept \in [Deposits -> Ids \cup {None}]
  BY DEF IInv, CallOK, TypeOK, Land, At, Idle, Steps
<1>2. /\ kept' = kept \/ (kept' = landed' /\ landed = kept)
      /\ ~fault' => ~fault /\ kept' = landed'
      /\ fault' \in BOOLEAN /\ faults' \in Nat
  <2>1. fault \in BOOLEAN /\ faults \in Nat /\ (~fault => landed = kept)
    BY DEF IInv, TypeOK, Books, Synced
  <2>2. CASE ~fault /\ kept' = landed' /\ UNCHANGED <<faults, fault>>
    BY <2>1, <2>2
  <2>3. CASE ~fault /\ Fail /\ fault' = TRUE /\ kept' \in {kept, landed'}
    BY <2>1, <2>3 DEF Fail
  <2>4. CASE fault /\ UNCHANGED <<faults, fault, kept>>
    BY <2>1, <2>4
  <2> QED
    BY <2>2, <2>3, <2>4 DEF Land
<1>3. landed' \in [Deposits -> Ids \cup {None}] /\ kept' \in [Deposits -> Ids \cup {None}]
  BY <1>1, <1>2
<1>4. Landed'
  <2> SUFFICES ASSUME NEW e \in Deposits, kept'[e] # None PROVE HasLocated(disk, e, kept'[e])
    BY <1>1 DEF Landed, HasLocated
  <2>1. kept'[e] = kept[e] \/ (e = d /\ kept'[e] = i)
    BY <1>1, <1>2
  <2> QED
    BY <1>1, <2>1 DEF IInv, Books, Landed
<1>5. Books'
  BY <1>1, <1>2, <1>4 DEF IInv, Books, Sound, Issued, Synced, bridge
<1>6. /\ call' \in [Callers -> Calls] /\ call'[c] = Idle
      /\ \A e \in Callers \ {c} : call'[e] = call[e]
  BY <1>1, Gone DEF IInv, TypeOK
<1>7. CallOK(c)' /\ ~Locked(c)'
  BY <1>6 DEF CallOK, Locked, At, Idle, Calls, Steps
<1>8. TypeOK' /\ OneIdEach' /\ Answered'
  BY <1>1, <1>2, <1>3, <1>6 DEF IInv, TypeOK, OneIdEach, Answered, Issued, bridge, nature
<1>9. Onward /\ \A j \in Ids : of[j] = of'[j]
  BY <1>1, Stays DEF Onward, bridge
<1> QED
  BY <1>5, <1>6, <1>7, <1>8, <1>9, StepKeeps

-----------------------------------------------------------------------------
(* Steps of the operator's calls                                           *)

LEMMA ReconcileStep ==
  ASSUME IInv, NEW c \in Callers, NEW d \in Deposits, NEW i \in Ids, Reconcile(c, d, i)
  PROVE  IInv'
<1>1. faults' \in Nat
  BY DEF Reconcile, Fail, IInv, TypeOK
<1>2. Stored /\ UNCHANGED <<bridge, nature, table>> /\ of[i] = d
  BY <1>1, Untouched DEF Reconcile
<1>3. /\ call' \in [Callers -> Calls] /\ call'[c].at = "reconcile"
      /\ call'[c].for = d /\ call'[c].id = i /\ call'[c] # Idle /\ Lock(d)
      /\ \A e \in Callers \ {c} : call'[e] = call[e]
  BY Entered DEF IInv, TypeOK, Reconcile, Steps
<1>4. CallOK(c)'
  BY <1>2, <1>3 DEF CallOK, At, bridge
<1> QED
  BY <1>2, <1>3, <1>4, BookStep

LEMMA ReconcileAdoptStep ==
  ASSUME IInv, NEW c \in Callers, ReconcileAdopt(c)
  PROVE  IInv'
<1> DEFINE d == call[c].for
           i == call[c].id
<1>1. /\ call[c].at = "reconcile" /\ d \in Deposits /\ i \in Ids /\ of[i] = d
      /\ UNCHANGED <<bridge, nature, table>>
  BY DEF IInv, CallOK, ReconcileAdopt, At, Idle, Steps
<1>2. Stored /\ (Saved => Has(book', d, i))
  <2>1. CASE Adoptable(d, i)
    BY <1>1, <2>1, AdoptKeeps DEF IInv, ReconcileAdopt
  <2>2. CASE ~Adoptable(d, i)
    BY <1>1, <2>2, Stays
    DEF ReconcileAdopt, Stored, Saved, IInv, TypeOK, Books, Sound, Issued, Synced, bridge
  <2> QED
    BY <2>1, <2>2
<1>3. CASE Saved
  <2>1. answer[i] \in Heard \ {"none"}
    BY <1>1, NoneAssumption DEF IInv, TypeOK, Answered, Heard
  <2>2. /\ call' \in [Callers -> Calls] /\ call'[c].at = "reconciled"
        /\ call'[c].for = d /\ call'[c].id = i /\ call'[c].heard = answer[i]
        /\ \A e \in Callers \ {c} : call'[e] = call[e]
    BY <1>1, <1>3, <2>1, Learned DEF ReconcileAdopt, IInv, TypeOK, Steps
  <2> QED
    BY <1>1, <1>2, <1>3, <2>1, <2>2, GoStep DEF Steps, Locked, At
<1>4. CASE ~Saved
  BY <1>1, <1>2, <1>4, DoneStep DEF ReconcileAdopt
<1> QED
  BY <1>3, <1>4

LEMMA ReconcileNoteStep ==
  ASSUME IInv, NEW c \in Callers, ReconcileNote(c)
  PROVE  IInv'
<1>1. /\ call[c].id \in Ids /\ call[c].heard \in Heard \ {"none"}
      /\ call[c].heard \in Refused => answer[call[c].id] = call[c].heard
  BY DEF IInv, CallOK, Calls, Idle, Steps, ReconcileNote, At
<1>2. Stored
  BY <1>1, NoteKeeps DEF IInv, ReconcileNote
<1> QED
  BY <1>2, DoneStep DEF ReconcileNote

LEMMA RetryStep ==
  ASSUME IInv, NEW c \in Callers, NEW i \in Ids, Retry(c, i)
  PROVE  IInv'
<1>1. PICK r \in book : r.id = i /\ Enter(c, r.for, "retry", i)
  BY DEF Retry, Named
<1>2. /\ r.for \in Deposits /\ of[i] = r.for /\ Has(book, r.for, i)
  BY <1>1, NoneAssumption DEF IInv, Books, Sound, Record, Has
<1>3. Stored /\ UNCHANGED <<bridge, nature, table, book>>
  BY Untouched DEF Retry, records, IInv, TypeOK
<1>4. /\ call' \in [Callers -> Calls] /\ call'[c].at = "retry"
      /\ call'[c].for = r.for /\ call'[c].id = i /\ call'[c] # Idle /\ Lock(r.for)
      /\ \A e \in Callers \ {c} : call'[e] = call[e]
  BY <1>1, <1>2, Entered DEF IInv, TypeOK, Steps
<1>5. CallOK(c)'
  BY <1>2, <1>3, <1>4 DEF CallOK, At, Has, bridge
<1> QED
  BY <1>3, <1>4, <1>5, BookStep

LEMMA RetryNoteStep ==
  ASSUME IInv, NEW c \in Callers, RetryNote(c)
  PROVE  IInv'
<1> DEFINE i == call[c].id
<1>1. /\ call[c].at = "retry" /\ i \in Ids /\ of[i] = call[c].for /\ call[c].for \in Deposits
      /\ Has(book, call[c].for, i) /\ UNCHANGED <<bridge, nature, table>>
  BY DEF IInv, CallOK, RetryNote, At, Idle, Steps
<1>2. answer[i] \in Heard \ {"none"}
  BY <1>1, NoneAssumption DEF IInv, TypeOK, Answered, Heard
<1>3. Stored
  BY <1>1, <1>2, NoteKeeps DEF IInv, RetryNote
<1>4. CASE Done(c)
  BY <1>1, <1>3, <1>4, DoneStep
<1>5. CASE Go(c, "again")
  <2>1. /\ call' \in [Callers -> Calls] /\ call'[c].at = "again"
        /\ call'[c].for = call[c].for /\ call'[c].id = i
        /\ \A e \in Callers \ {c} : call'[e] = call[e]
    BY <1>1, <1>5, Went DEF IInv, TypeOK, Steps
  <2> QED
    BY <1>1, <1>3, <2>1, GoStep DEF Steps, Locked, At
<1> QED
  BY <1>4, <1>5 DEF RetryNote, Then

LEMMA RetryAgainStep ==
  ASSUME IInv, NEW c \in Callers, RetryAgain(c)
  PROVE  IInv'
<1> DEFINE d == call[c].for
           i == call[c].id
<1>1. /\ call[c].at = "again" /\ i \in Ids /\ of[i] = d /\ d \in Deposits
      /\ UNCHANGED <<bridge, nature, table>>
  BY DEF IInv, CallOK, RetryAgain, At, Idle, Steps
<1>2. PICK r \in book :
        /\ r.id = i
        /\ IF MayRetry(r)
           THEN Save({Fresh(r.for, r.attempt + 1)} \cup book) /\ Then(c, "dispatch")
           ELSE UNCHANGED records /\ Done(c)
  BY DEF RetryAgain, Named
<1>3. r.for = d /\ r \in Record /\ Sound(book)
  BY <1>1, <1>2, NoneAssumption DEF IInv, Books, Sound
<1>4. CASE ~MayRetry(r)
  <2>1. Stored
    BY <1>1, <1>2, <1>4, Untouched DEF records, IInv, TypeOK
  <2> QED
    BY <1>1, <1>2, <1>4, <2>1, DoneStep
<1>5. CASE MayRetry(r)
  <2> DEFINE n == {Fresh(d, r.attempt + 1)} \cup book
  <2>1. /\ r.state \in {"denied", "expired"} /\ answer[i] = r.state
        /\ \A s \in book : s.for = d => s.attempt <= r.attempt
    BY <1>2, <1>3, <1>5 DEF MayRetry, Latest, Of, Sound, Refused
  <2>2. r.attempt \in Nat /\ \A s \in book : s.attempt \in Nat
    BY <1>3 DEF Sound, Record
  <2>3. ASSUME NEW s \in book, s.for = d PROVE s.state \in Refused /\ s.attempt < r.attempt + 1
    <3>1. s.attempt <= r.attempt
      BY <2>1, <2>3
    <3>2. CASE s.state \notin Refused
      <4>1. s.attempt = r.attempt
        BY <1>2, <1>3, <2>2, <2>3, <3>1, <3>2 DEF Sound
      <4> QED
        BY <1>3, <2>1, <2>3, <3>2, <4>1 DEF Sound, Refused
    <3> QED
      BY <2>2, <3>1, <3>2
  <2>4. Sound(n) /\ Keeps(book, n) /\ Has(n, d, None)
    BY <1>1, <1>3, <2>2, <2>3, Added
  <2> HIDE DEF n
  <2>5. Save(n) /\ Then(c, "dispatch")
    BY <1>2, <1>3, <1>5 DEF n
  <2>6. Stored /\ (Saved => book' = n)
    BY <1>1, <2>4, <2>5, SaveKeeps DEF IInv
  <2>7. CASE Saved
    <3>1. /\ call' \in [Callers -> Calls] /\ call'[c].at = "dispatch"
          /\ call'[c].for = d /\ call'[c] # Idle
          /\ \A e \in Callers \ {c} : call'[e] = call[e]
      BY <1>1, <2>5, <2>7, Went DEF Then, IInv, TypeOK, Steps
    <3>2. /\ \E s \in book' : s.for = d
          /\ \E j \in Ids : of'[j] = d /\ answer'[j] \in {"denied", "expired"}
      BY <1>1, <2>1, <2>4, <2>6, <2>7 DEF Has, bridge
    <3>3. CallOK(c)'
      BY <1>1, <3>1, <3>2 DEF CallOK, At
    <3> QED
      BY <1>1, <2>6, <3>1, <3>3, BookStep DEF Locked, Steps
  <2>8. CASE ~Saved
    BY <1>1, <2>5, <2>6, <2>8, DoneStep DEF Then
  <2> QED
    BY <2>7, <2>8
<1> QED
  BY <1>4, <1>5

-----------------------------------------------------------------------------
(* Steps of no call                                                        *)

LEMMA EveryoneStands ==
  ASSUME IInv, TypeOK', OneIdEach', Answered', Books', Onward, UNCHANGED <<of, call>>
  PROVE  IInv'
<1>1. \A e \in Callers : CallOK(e)'
  BY OthersStand
<1> QED
  BY <1>1 DEF IInv, Exclusive, Locked

LEMMA DecideStep ==
  ASSUME IInv, Decide
  PROVE  IInv'
<1>1. /\ UNCHANGED <<of, nature, records, table, call>> /\ answer' \in [Ids -> Bridge!Answers]
      /\ \A i \in Ids : answer'[i] \in Bridge!Follows(answer[i])
  BY DEF Decide, Bridge!Decide
<1>2. \A i \in Ids : /\ answer[i] \in Refused => answer'[i] = answer[i]
                     /\ answer[i] = "none" <=> answer'[i] = "none"
  BY <1>1 DEF IInv, TypeOK, Bridge!Follows, Bridge!Answers, Refused
<1>3. TypeOK' /\ OneIdEach' /\ Answered'
  BY <1>1, <1>2 DEF IInv, TypeOK, OneIdEach, Issued, Answered, nature, records, table
<1>4. Books'
  <2>1. ASSUME NEW b \in {book, disk}, NEW r \in b, r.state \in Refused
        PROVE  answer'[r.id] = r.state
    BY <1>2, <2>1 DEF IInv, Books, Sound, Record
  <2> QED
    BY <1>1, <2>1 DEF IInv, Books, Sound, Issued, Synced, Landed, HasLocated, records, table
<1>5. Onward
  BY <1>1, <1>2, Stays DEF Onward, records
<1> QED
  BY <1>1, <1>3, <1>4, <1>5, EveryoneStands

\* The time that passes and the closing of the table touch no book.
LEMMA NatureStep ==
  ASSUME IInv, UNCHANGED <<bridge, records, table, call>>, late' \in BOOLEAN, recovery' \in BOOLEAN
  PROVE  IInv'
<1>1. TypeOK' /\ OneIdEach' /\ Answered' /\ Books'
  BY DEF IInv, TypeOK, OneIdEach, Issued, Answered, Books, Sound, Synced, Landed, HasLocated,
         bridge, records, table
<1>2. Onward
  BY Stays DEF Onward, bridge, records
<1> QED
  BY <1>1, <1>2, EveryoneStands DEF bridge

LEMMA RestartStep ==
  ASSUME IInv, Restart
  PROVE  IInv'
<1>1. /\ UNCHANGED <<bridge, nature, disk, kept>> /\ fault' = FALSE
      /\ book' = disk /\ landed' = kept /\ call' = [c \in Callers |-> Idle] /\ faults' \in Nat
  BY DEF Restart, Fail, IInv, TypeOK
<1>2. TypeOK' /\ OneIdEach' /\ Answered'
  BY <1>1 DEF IInv, TypeOK, OneIdEach, Issued, Answered, bridge, nature, Calls
<1>3. Books'
  BY <1>1 DEF IInv, Books, Sound, Issued, Synced, Landed, HasLocated, bridge
<1>4. Exclusive' /\ \A c \in Callers : CallOK(c)'
  BY <1>1 DEF Exclusive, Locked, CallOK, At, Idle, Calls, Steps
<1> QED
  BY <1>2, <1>3, <1>4 DEF IInv

-----------------------------------------------------------------------------
(* What holds of every behaviour                                           *)

LEMMA InitOK == Init => IInv
<1> SUFFICES ASSUME Init PROVE IInv
  OBVIOUS
<1>1. /\ of = [i \in Ids |-> None] /\ answer = [i \in Ids |-> "none"]
      /\ late = FALSE /\ recovery = FALSE /\ fault = FALSE /\ faults = 0
      /\ book = {} /\ disk = {}
      /\ landed = [d \in Deposits |-> None] /\ kept = [d \in Deposits |-> None]
      /\ call = [c \in Callers |-> Idle]
  BY DEF Init, Bridge!Init
<1>2. TypeOK
  BY <1>1 DEF TypeOK, Bridge!Answers, Calls
<1>3. OneIdEach /\ Answered /\ Books
  BY <1>1 DEF OneIdEach, Answered, Issued, Books, Sound, Synced, Landed
<1>4. Exclusive /\ \A c \in Callers : CallOK(c)
  BY <1>1 DEF Exclusive, Locked, CallOK, At, Idle, Calls, Steps
<1> QED
  BY <1>2, <1>3, <1>4 DEF IInv

LEMMA NextOK == IInv /\ [Next]_vars => IInv'
<1> SUFFICES ASSUME IInv, [Next]_vars PROVE IInv'
  OBVIOUS
<1>1. CASE UNCHANGED vars
  BY <1>1, NatureStep DEF vars, bridge, records, table, IInv, TypeOK
<1>2. CASE Decide
  BY <1>2, DecideStep
<1>3. CASE DeadlinePasses \/ Recover
  BY <1>3, NatureStep DEF DeadlinePasses, Recover, IInv, TypeOK
<1>4. CASE Restart
  BY <1>4, RestartStep
<1>5. ASSUME NEW c \in Callers, Call(c) PROVE IInv'
  BY <1>5, DispatchStep, DispatchRefusedStep, AdoptStep, NoteFirstStep, PollStep, HearStep,
     CancelStep, LocateStep, NotFoundStep, LandStep, ReconcileAdoptStep, ReconcileNoteStep,
     RetryNoteStep, RetryAgainStep
  DEF Call
<1>6. ASSUME NEW c \in Callers, NEW d \in Deposits, Ask(c, d) \/ TakeUp(c, d) PROVE IInv'
  BY <1>6, AskStep, TakeUpStep
<1>7. ASSUME NEW c \in Callers, NEW d \in Deposits, NEW i \in Ids, Reconcile(c, d, i) PROVE IInv'
  BY <1>7, ReconcileStep
<1>8. ASSUME NEW c \in Callers, NEW i \in Ids, Retry(c, i) PROVE IInv'
  BY <1>8, RetryStep
<1> QED
  BY <1>1, <1>2, <1>3, <1>4, <1>5, <1>6, <1>7, <1>8 DEF Next

LEMMA Invariance == Spec => []IInv
BY InitOK, NextOK, PTL DEF Spec

\* Every variable keeps its type, whatever fails.
THEOREM TypeCorrect == Spec => []TypeOK
<1>1. IInv => TypeOK
  BY DEF IInv
<1> QED
  BY Invariance, <1>1, PTL

\* However a game asks, retries, reconciles and restarts, the bridge never holds two
\* requests of it for one deposit.
THEOREM AskedOnce == Spec => []OneIdEach
<1>1. IInv => OneIdEach
  BY DEF IInv
<1> QED
  BY Invariance, <1>1, PTL

LEMMA WatchedHolds == IInv => Watched
<1> SUFFICES ASSUME IInv PROVE Watched
  OBVIOUS
<1>1. Sound(book) /\ Sound(disk) /\ OneIdEach /\ Answered
  BY DEF IInv, Books
<1>2. ASSUME NEW i \in Ids, Pays(i)
      PROVE  \E r \in disk : /\ r.for = of[i]
                             /\ r.id = None \/ (r.id = i /\ r.state \notin Refused)
  <2>1. i \in Issued
    BY <1>1, <1>2 DEF Pays, Answered, Issued
  <2>2. PICK r \in disk : r.for = of[i]
    BY <1>1, <2>1 DEF Sound
  <2>3. CASE r.id = None
    BY <2>2, <2>3
  <2>4. CASE r.id # None
    <3>1. r.id \in Ids /\ of[r.id] = of[i]
      BY <1>1, <2>2, <2>4 DEF Sound, Record
    <3>2. r.id = i
      BY <1>1, <2>1, <3>1 DEF OneIdEach, Issued
    <3>3. r.state \notin Refused
      BY <1>1, <1>2, <3>2 DEF Sound, Pays, Refused
    <3> QED
      BY <2>2, <3>2, <3>3
  <2> QED
    BY <2>3, <2>4
<1>3. \A r \in book \cup disk : r.state \in Refused => r.id # None /\ answer[r.id] = r.state
  BY <1>1 DEF Sound
<1> QED
  BY <1>2, <1>3 DEF Watched

\* A request the bridge may still pay is on disk, with its id or as one whose id is not
\* known, and what the book calls refused the bridge refused: Reserve before
\* RequestDepositSpend, Adopt and Note after it, under one lock.
THEOREM PaymentsAreWatched == Spec => []Watched
BY Invariance, WatchedHolds, PTL

LEMMA AttemptsHold == IInv => NeverAmbiguous
<1> SUFFICES ASSUME IInv, NEW b \in {book, disk}, NEW r \in b, NEW s \in b
             PROVE  /\ r.for = s.for /\ r.state \notin Refused /\ s.state \notin Refused => r = s
                    /\ r.for = s.for /\ r.attempt = s.attempt => r = s
  BY DEF NeverAmbiguous
<1>1. Sound(b)
  BY DEF IInv, Books
<1>2. ASSUME r.for = s.for, r.state \notin Refused, s.state \notin Refused PROVE r = s
  <2>1. r.attempt <= s.attempt /\ s.attempt <= r.attempt /\ r.attempt \in Nat /\ s.attempt \in Nat
    BY <1>1, <1>2 DEF Sound, Record
  <2>2. r.attempt = s.attempt
    BY <2>1
  <2> QED
    BY <1>1, <1>2, <2>2 DEF Sound
<1> QED
  BY <1>1, <1>2 DEF Sound

\* No obligation has two attempts that may be paid, in memory or on disk: Retry adds one
\* only after a refusal, and saveLocked leaves either book whole.
THEOREM AttemptsAreClear == Spec => []NeverAmbiguous
BY Invariance, AttemptsHold, PTL

LEMMA LandsHold ==
  ASSUME IInv, IInv', [Next]_vars, NEW d \in Deposits
  PROVE  /\ kept[d] # None => kept'[d] = kept[d]
         /\ kept'[d] # None => \E r \in disk' : r.for = d /\ r.id = kept'[d] /\ r.state = "located"
<1>1. kept'[d] # None => HasLocated(disk', d, kept'[d])
  BY DEF IInv, Books, Landed, HasLocated
<1>2. ASSUME kept[d] # None PROVE kept'[d] = kept[d]
  <2>1. HasLocated(disk, d, kept[d])
    BY <1>2 DEF IInv, Books, Landed
  <2>2. PICK r \in disk : r.for = d /\ r.id = kept[d]
    BY <2>1 DEF HasLocated
  <2>3. kept[d] \in Issued
    BY <1>2, <2>2, NoneAssumption DEF IInv, Books, Sound, Record, Issued
  <2>4. CASE UNCHANGED kept
    BY <2>4
  <2>5. ASSUME NEW c \in Callers, Land(c) PROVE kept'[d] = kept[d]
    <3>1. /\ call[c].id \in Ids /\ of[call[c].id] = call[c].for /\ call[c].for \in Deposits
      BY <2>5 DEF IInv, CallOK, Land, At, Idle, Steps
    <3>2. kept' = kept \/ (kept' = [landed EXCEPT ![call[c].for] = call[c].id] /\ landed = kept)
      BY <2>5 DEF Land, IInv, Books, Synced
    <3>3. call[c].for = d => call[c].id = kept[d]
      BY <2>2, <2>3, <3>1, NoneAssumption DEF IInv, OneIdEach, Issued, Books, Sound
    <3> QED
      BY <3>1, <3>2, <3>3 DEF IInv, TypeOK
  <2> QED
    BY <2>4, <2>5
    DEF Next, Call, Ask, TakeUp, Dispatch, DispatchRefused, Adopt, NoteFirst, Poll, PollUnreachable,
        Hear, Cancel, Locate, NotFound, Reconcile, ReconcileAdopt, ReconcileNote, Retry, RetryNote,
        RetryAgain, Decide, DeadlinePasses, Recover, Restart, vars, table
<1> QED
  BY <1>1, <1>2 DEF HasLocated

\* Where a deposit landed (landDeposit) is decided once, by the request Book.Locate has
\* written down.
THEOREM DepositsLandOnce == Spec => LandsOnce
<1>1. IInv /\ IInv' /\ [Next]_vars =>
        [\A d \in Deposits :
           /\ kept[d] # None => kept'[d] = kept[d]
           /\ kept'[d] # None =>
                \E r \in disk' : r.for = d /\ r.id = kept'[d] /\ r.state = "located"]_vars
  BY LandsHold
<1> QED
  BY Invariance, <1>1, PTL DEF Spec, LandsOnce
=============================================================================
