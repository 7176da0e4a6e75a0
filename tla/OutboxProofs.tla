---------------------------- MODULE OutboxProofs ----------------------------
(***************************************************************************)
(* A frame is sent at most once, for any number of frames, calls and       *)
(* failures; and what a peer puts together of the frames it got is whole   *)
(* messages, within its limits, for any parts, limits and clock.           *)
(***************************************************************************)
EXTENDS Assembly, Sums

\* Between claim and outcome a call is alone with its frame, and nobody has it yet.
Alone ==
  \A s \in Senders, f \in Frames : At(s, "send", f) \/ At(s, "release", f) =>
    /\ claims[f] = "claimed" /\ claimFile[f] = "claimed" /\ posted[f] = 0
    /\ \A t \in Senders : At(t, "send", f) \/ At(t, "release", f) => t = s

\* What is marked sent was.
Marking == \A s \in Senders, f \in Frames : At(s, "mark", f) => posted[f] = 1

IInv == TypeOK /\ SentOnce /\ ClaimsAreTrue /\ Alone /\ Marking

\* A process starts with nothing sent and nothing claimed.
LEMMA InitIInv == Init => IInv
<1> SUFFICES ASSUME Init PROVE IInv
  OBVIOUS
<1>1. TypeOK
  BY DEF Init, TypeOK, States, Sending
<1>2. SentOnce /\ ClaimsAreTrue
  BY DEF Init, SentOnce, ClaimsAreTrue
<1>3. Alone /\ Marking
  BY DEF Init, Alone, Marking, At, Ready
<1>4. QED
  BY <1>1, <1>2, <1>3 DEF IInv

\* Where a call stands is a step with its frame.
LEMMA WhereItStands ==
  ASSUME TypeOK, NEW s \in Senders, NEW f \in Frames,
         NEW at \in {"send", "mark", "release", "reconcile"}, Go(s, at, f)
  PROVE  /\ sender' \in [Senders -> Sending]
         /\ \A t \in Senders, a \in {"send", "mark", "release", "reconcile"}, g \in Frames :
              At(t, a, g)' <=> IF t = s THEN a = at /\ g = f ELSE At(t, a, g)
<1>1. [at |-> at, frame |-> f] \in Sending
  BY DEF Sending
<1>2. sender' \in [Senders -> Sending]
  BY <1>1 DEF TypeOK, Go
<1>3. ASSUME NEW t \in Senders, NEW a \in {"send", "mark", "release", "reconcile"}, NEW g \in Frames
      PROVE  At(t, a, g)' <=> IF t = s THEN a = at /\ g = f ELSE At(t, a, g)
  BY <1>3 DEF TypeOK, Go, At
<1>4. QED
  BY <1>2, <1>3

\* A call that returned stands nowhere.
LEMMA Returned ==
  ASSUME TypeOK, NEW s \in Senders, Return(s)
  PROVE  /\ sender' \in [Senders -> Sending]
         /\ \A t \in Senders, a \in {"send", "mark", "release", "reconcile"}, g \in Frames :
              At(t, a, g)' <=> t # s /\ At(t, a, g)
<1>1. sender' \in [Senders -> Sending]
  BY DEF TypeOK, Return, Sending
<1>2. ASSUME NEW t \in Senders, NEW a \in {"send", "mark", "release", "reconcile"}, NEW g \in Frames
      PROVE  At(t, a, g)' <=> t # s /\ At(t, a, g)
  BY <1>2 DEF TypeOK, Return, At, Ready
<1>3. QED
  BY <1>1, <1>2

\* An append leaves the file and the map as they were, or writes the state.
LEMMA Appended ==
  ASSUME TypeOK, NEW f \in Frames, NEW state \in States, AppendClaim(f, state)
  PROVE  /\ claims' \in [Frames -> States] /\ claimFile' \in [Frames -> States]
         /\ sendFaults' \in Nat
         /\ \A g \in Frames : g # f => claims'[g] = claims[g] /\ claimFile'[g] = claimFile[g]
         /\ \/ claims'[f] = state /\ claimFile'[f] = state
            \/ claims'[f] = claims[f] /\ claimFile'[f] \in {claimFile[f], state}
  BY SendBoundsAssumption DEF TypeOK, AppendClaim, Fail

\* Claim, reconcile, send, mark, release: each step of a call keeps IInv.
LEMMA ClaimIInv ==
  ASSUME IInv, NEW s \in Senders, NEW f \in Frames, Claim(s, f)
  PROVE  IInv'
<1> USE DEF IInv
<1> "claimed" \in States
  BY DEF States
<1>a. /\ posted' = posted /\ sender[s] = Ready
      /\ \A a \in {"send", "mark", "release", "reconcile"}, g \in Frames : ~At(s, a, g)
  BY DEF Claim, At, Ready
<1>1. CASE AppendClaim(f, "claimed") /\ claims[f] \in {"none", "released"} /\ claims'[f] = "claimed" /\ Go(s, "send", f)
  <2>1. /\ claims'[f] = "claimed" /\ claimFile'[f] = "claimed" /\ posted[f] = 0
        /\ \A g \in Frames : g # f => claims'[g] = claims[g] /\ claimFile'[g] = claimFile[g]
    BY <1>1, Appended DEF ClaimsAreTrue
  <2>2. \A t \in Senders : ~At(t, "send", f) /\ ~At(t, "release", f)
    BY <1>1 DEF Alone
  <2>3. \A t \in Senders, a \in {"send", "mark", "release", "reconcile"}, g \in Frames :
          At(t, a, g)' <=> IF t = s THEN a = "send" /\ g = f ELSE At(t, a, g)
    BY <1>1, WhereItStands
  <2>4. TypeOK'
    BY <1>1, <1>a, Appended, WhereItStands DEF TypeOK
  <2>5. SentOnce' /\ ClaimsAreTrue'
    BY <2>1, <1>a DEF SentOnce, ClaimsAreTrue
  <2>6. Alone'
    BY <2>1, <2>2, <2>3, <1>a DEF Alone
  <2>7. Marking'
    BY <2>3, <1>a DEF Marking
  <2>8. QED
    BY <2>4, <2>5, <2>6, <2>7
<1>2. CASE AppendClaim(f, "claimed") /\ claims[f] \in {"none", "released"} /\ claims'[f] # "claimed" /\ Return(s)
  <2>1. /\ claims'[f] = claims[f] /\ claimFile'[f] \in {claimFile[f], "claimed"} /\ posted[f] = 0
        /\ \A g \in Frames : g # f => claims'[g] = claims[g] /\ claimFile'[g] = claimFile[g]
    BY <1>2, Appended DEF ClaimsAreTrue
  <2>2. \A t \in Senders : ~At(t, "send", f) /\ ~At(t, "release", f)
    BY <1>2 DEF Alone
  <2>3. \A t \in Senders, a \in {"send", "mark", "release", "reconcile"}, g \in Frames :
          At(t, a, g)' <=> t # s /\ At(t, a, g)
    BY <1>2, Returned
  <2>4. TypeOK'
    BY <1>2, <1>a, Appended, Returned DEF TypeOK
  <2>5. SentOnce' /\ ClaimsAreTrue'
    BY <2>1, <1>a, <1>2 DEF SentOnce, ClaimsAreTrue
  <2>6. Alone'
    BY <2>1, <2>2, <2>3, <1>a DEF Alone
  <2>7. Marking'
    BY <2>3, <1>a DEF Marking
  <2>8. QED
    BY <2>4, <2>5, <2>6, <2>7
<1>3. CASE Go(s, "reconcile", f) /\ UNCHANGED <<claims, claimFile, sendFaults>>
  <2>1. \A t \in Senders, a \in {"send", "mark", "release", "reconcile"}, g \in Frames :
          At(t, a, g)' <=> IF t = s THEN a = "reconcile" /\ g = f ELSE At(t, a, g)
    BY <1>3, WhereItStands
  <2>2. TypeOK'
    BY <1>3, <1>a, WhereItStands DEF TypeOK
  <2>3. SentOnce' /\ ClaimsAreTrue'
    BY <1>3, <1>a DEF SentOnce, ClaimsAreTrue
  <2>4. Alone' /\ Marking'
    BY <1>3, <1>a, <2>1 DEF Alone, Marking
  <2>5. QED
    BY <2>2, <2>3, <2>4
<1>4. QED
  BY <1>1, <1>2, <1>3 DEF Claim

LEMMA ReconcileIInv ==
  ASSUME IInv, NEW s \in Senders, NEW f \in Frames, Reconcile(s, f)
  PROVE  IInv'
<1> USE DEF IInv
<1>a. UNCHANGED <<claims, claimFile, posted, sendFaults>> /\ posted[f] \in Nat
  BY DEF Reconcile, TypeOK
<1>1. CASE posted[f] > 0 /\ Go(s, "mark", f)
  <2>1. \A t \in Senders, a \in {"send", "mark", "release", "reconcile"}, g \in Frames :
          At(t, a, g)' <=> IF t = s THEN a = "mark" /\ g = f ELSE At(t, a, g)
    BY <1>1, WhereItStands
  <2>2. posted[f] = 1
    BY <1>1, <1>a DEF SentOnce
  <2>3. TypeOK'
    BY <1>1, <1>a, WhereItStands DEF TypeOK
  <2>4. SentOnce' /\ ClaimsAreTrue' /\ Alone'
    BY <2>1, <1>a DEF SentOnce, ClaimsAreTrue, Alone
  <2>5. Marking'
    BY <2>1, <2>2, <1>a DEF Marking
  <2>6. QED
    BY <2>3, <2>4, <2>5
<1>2. CASE Return(s)
  <2>1. \A t \in Senders, a \in {"send", "mark", "release", "reconcile"}, g \in Frames :
          At(t, a, g)' <=> t # s /\ At(t, a, g)
    BY <1>2, Returned
  <2>2. TypeOK'
    BY <1>2, <1>a, Returned DEF TypeOK
  <2>3. SentOnce' /\ ClaimsAreTrue' /\ Alone' /\ Marking'
    BY <2>1, <1>a DEF SentOnce, ClaimsAreTrue, Alone, Marking
  <2>4. QED
    BY <2>2, <2>3
<1>3. QED
  BY <1>1, <1>2 DEF Reconcile

\* Whatever Bison Relay says of a send, the frame goes from not sent to sent once.
LEMMA SendIInv ==
  ASSUME IInv, NEW s \in Senders, NEW f \in Frames, Send(s, f)
  PROVE  IInv'
<1> USE DEF IInv
<1>a. /\ At(s, "send", f) /\ UNCHANGED <<claims, claimFile>>
      /\ claims[f] = "claimed" /\ claimFile[f] = "claimed" /\ posted[f] = 0
      /\ \A t \in Senders : At(t, "send", f) \/ At(t, "release", f) => t = s
      /\ \A t \in Senders : ~At(t, "mark", f)
  BY DEF Send, Alone, Marking
<1>b. \A a \in {"mark", "release", "reconcile"} : ~At(s, a, f)
  BY <1>a DEF At
<1>c. \A g \in Frames : g # f => ~At(s, "send", g) /\ ~At(s, "release", g) /\ ~At(s, "mark", g)
  BY <1>a DEF At
<1>d. sendFaults' \in Nat
  BY DEF Send, Fail, TypeOK
<1>1. CASE posted' = [posted EXCEPT ![f] = @ + 1] /\ Go(s, "mark", f)
  <2>1. \A t \in Senders, a \in {"send", "mark", "release", "reconcile"}, g \in Frames :
          At(t, a, g)' <=> IF t = s THEN a = "mark" /\ g = f ELSE At(t, a, g)
    BY <1>1, WhereItStands
  <2>2. posted' \in [Frames -> Nat] /\ posted'[f] = 1 /\ \A g \in Frames : g # f => posted'[g] = posted[g]
    BY <1>1, <1>a DEF TypeOK
  <2>3. TypeOK'
    BY <1>1, <1>a, <1>d, <2>2, WhereItStands DEF TypeOK
  <2>4. SentOnce' /\ ClaimsAreTrue'
    BY <2>2, <1>a DEF SentOnce, ClaimsAreTrue
  <2>5. Alone'
    BY <2>1, <2>2, <1>a DEF Alone
  <2>6. Marking'
    BY <2>1, <2>2 DEF Marking
  <2>7. QED
    BY <2>3, <2>4, <2>5, <2>6
<1>2. CASE posted' = posted /\ Go(s, "release", f)
  <2>1. \A t \in Senders, a \in {"send", "mark", "release", "reconcile"}, g \in Frames :
          At(t, a, g)' <=> IF t = s THEN a = "release" /\ g = f ELSE At(t, a, g)
    BY <1>2, WhereItStands
  <2>2. TypeOK'
    BY <1>2, <1>a, <1>d, WhereItStands DEF TypeOK
  <2>3. SentOnce' /\ ClaimsAreTrue' /\ Marking'
    BY <1>2, <2>1, <1>a DEF SentOnce, ClaimsAreTrue, Marking
  <2>4. Alone'
    BY <1>2, <2>1, <1>a, <1>c DEF Alone
  <2>5. QED
    BY <2>2, <2>3, <2>4
<1>3. CASE posted' \in {posted, [posted EXCEPT ![f] = @ + 1]} /\ Return(s)
  <2>1. \A t \in Senders, a \in {"send", "mark", "release", "reconcile"}, g \in Frames :
          At(t, a, g)' <=> t # s /\ At(t, a, g)
    BY <1>3, Returned
  <2>2. posted' \in [Frames -> Nat] /\ posted'[f] \in {0, 1} /\ \A g \in Frames : g # f => posted'[g] = posted[g]
    BY <1>3, <1>a DEF TypeOK
  <2>3. TypeOK'
    BY <1>3, <1>a, <1>d, <2>2, Returned DEF TypeOK
  <2>4. SentOnce' /\ ClaimsAreTrue'
    BY <2>2, <1>a DEF SentOnce, ClaimsAreTrue
  <2>5. Alone' /\ Marking'
    BY <2>1, <2>2, <1>a DEF Alone, Marking
  <2>6. QED
    BY <2>3, <2>4, <2>5
<1>4. QED
  BY <1>1, <1>2, <1>3 DEF Send

LEMMA MarkIInv ==
  ASSUME IInv, NEW s \in Senders, NEW f \in Frames, Mark(s, f)
  PROVE  IInv'
<1> USE DEF IInv
<1> "sent" \in States
  BY DEF States
<1>a. /\ At(s, "mark", f) /\ posted[f] = 1 /\ posted' = posted /\ Return(s)
      /\ \A t \in Senders : ~At(t, "send", f) /\ ~At(t, "release", f)
  BY DEF Mark, Alone, Marking
<1>1. \A t \in Senders, a \in {"send", "mark", "release", "reconcile"}, g \in Frames :
        At(t, a, g)' <=> t # s /\ At(t, a, g)
  BY <1>a, Returned
<1>2. /\ claims' \in [Frames -> States] /\ claimFile' \in [Frames -> States] /\ sendFaults' \in Nat
      /\ claims'[f] \in {claims[f], "sent"} /\ claimFile'[f] \in {claimFile[f], "sent"}
      /\ \A g \in Frames : g # f => claims'[g] = claims[g] /\ claimFile'[g] = claimFile[g]
  <2>1. CASE UNCHANGED <<claims, claimFile, sendFaults>>
    BY <2>1 DEF TypeOK
  <2>2. CASE AppendClaim(f, "sent")
    BY <2>2, Appended
  <2>3. QED
    BY <2>1, <2>2 DEF Mark
<1>3. TypeOK'
  BY <1>a, <1>2, Returned DEF TypeOK
<1>4. SentOnce' /\ ClaimsAreTrue'
  BY <1>a, <1>2 DEF SentOnce, ClaimsAreTrue
<1>5. Alone' /\ Marking'
  BY <1>a, <1>1, <1>2 DEF Alone, Marking
<1>6. QED
  BY <1>3, <1>4, <1>5

LEMMA ReleaseIInv ==
  ASSUME IInv, NEW s \in Senders, NEW f \in Frames, Release(s, f)
  PROVE  IInv'
<1> USE DEF IInv
<1> "released" \in States
  BY DEF States
<1>a. /\ At(s, "release", f) /\ posted[f] = 0 /\ posted' = posted /\ Return(s)
      /\ \A t \in Senders : At(t, "send", f) \/ At(t, "release", f) => t = s
      /\ AppendClaim(f, "released")
  BY DEF Release, Alone
<1>1. \A t \in Senders, a \in {"send", "mark", "release", "reconcile"}, g \in Frames :
        At(t, a, g)' <=> t # s /\ At(t, a, g)
  BY <1>a, Returned
<1>2. /\ claims' \in [Frames -> States] /\ claimFile' \in [Frames -> States] /\ sendFaults' \in Nat
      /\ claims'[f] \in {claims[f], "released"} /\ claimFile'[f] \in {claimFile[f], "released"}
      /\ \A g \in Frames : g # f => claims'[g] = claims[g] /\ claimFile'[g] = claimFile[g]
  BY <1>a, Appended
<1>3. TypeOK'
  BY <1>a, <1>2, Returned DEF TypeOK
<1>4. SentOnce' /\ ClaimsAreTrue'
  BY <1>a, <1>2 DEF SentOnce, ClaimsAreTrue
<1>5. Alone' /\ Marking'
  BY <1>a, <1>1, <1>2 DEF Alone, Marking
<1>6. QED
  BY <1>3, <1>4, <1>5

\* A restart takes the file at its word, and no call survives it.
LEMMA CrashIInv ==
  ASSUME IInv, Crash
  PROVE  IInv'
<1> USE DEF IInv
<1>1. TypeOK'
  BY DEF TypeOK, Crash, Fail, Sending
<1>2. SentOnce' /\ ClaimsAreTrue'
  BY DEF SentOnce, ClaimsAreTrue, Crash
<1>3. \A s \in Senders, a \in {"send", "mark", "release"}, f \in Frames : ~At(s, a, f)'
  BY DEF Crash, At, Ready
<1>4. QED
  BY <1>1, <1>2, <1>3 DEF Alone, Marking

LEMMA NextIInv == IInv /\ [Next]_outbox => IInv'
<1> SUFFICES ASSUME IInv, [Next]_outbox PROVE IInv'
  OBVIOUS
<1>1. CASE Crash
  BY <1>1, CrashIInv
<1>2. ASSUME NEW s \in Senders, NEW f \in Frames, Step(s, f) PROVE IInv'
  BY <1>2, ClaimIInv, ReconcileIInv, SendIInv, MarkIInv, ReleaseIInv DEF Step
<1>3. CASE UNCHANGED outbox
  BY <1>3 DEF outbox, IInv, TypeOK, SentOnce, ClaimsAreTrue, Alone, Marking, At
<1>4. QED
  BY <1>1, <1>2, <1>3 DEF Next

\* IInv holds throughout.
LEMMA Inductive == Spec => []IInv
BY InitIInv, NextIInv, PTL DEF Spec

\* A frame is never sent twice, whatever fails, is retried or is restarted.
THEOREM OutboxIsExact == Spec => [](TypeOK /\ SentOnce)
<1>1. IInv => TypeOK /\ SentOnce
  BY DEF IInv
<1>2. QED
  BY <1>1, Inductive, PTL

\* What the claims say of a frame happened: what they call sent Bison Relay took, and
\* what they let a call send (again) it did not take, in memory and on disk.
THEOREM ClaimsSayWhatHappened == Spec => []ClaimsAreTrue
<1>1. IInv => ClaimsAreTrue
  BY DEF IInv
<1>2. QED
  BY <1>1, Inductive, PTL

\* The claims file never takes back that a frame was sent, so it can be read after
\* every restart.
THEOREM FileReadsBack == Spec => NeverBackwards
<1>1. IInv /\ [Next]_outbox => [\A f \in Frames : claimFile[f] = "sent" => claimFile'[f] = "sent"]_outbox
  <2> SUFFICES ASSUME IInv, Next, NEW f \in Frames, claimFile[f] = "sent"
               PROVE  claimFile'[f] = "sent"
    BY DEF outbox
  <2> USE DEF IInv
  <2>1. /\ posted[f] = 1 /\ claims[f] \notin {"none", "released"}
        /\ \A s \in Senders : ~At(s, "release", f)
    BY DEF ClaimsAreTrue, Alone
  <2>2. CASE Crash
    BY <2>2 DEF Crash
  <2>3. ASSUME NEW s \in Senders, NEW g \in Frames, Step(s, g) PROVE claimFile'[f] = "sent"
    <3> {"claimed", "released", "sent"} \subseteq States
      BY DEF States
    <3>1. CASE Claim(s, g)
      BY <3>1, <2>1, Appended DEF Claim
    <3>2. CASE Reconcile(s, g)
      BY <3>2 DEF Reconcile
    <3>3. CASE Send(s, g)
      BY <3>3 DEF Send
    <3>4. CASE Mark(s, g)
      BY <3>4, Appended DEF Mark
    <3>5. CASE Release(s, g)
      BY <3>5, <2>1, Appended DEF Release
    <3>6. QED
      BY <2>3, <3>1, <3>2, <3>3, <3>4, <3>5 DEF Step
  <2>4. QED
    BY <2>2, <2>3 DEF Next
<1>2. QED
  BY <1>1, Inductive, PTL DEF Spec, NeverBackwards

-----------------------------------------------------------------------------
(* The assembler: the inductive invariant                                  *)

\* What can be held of a message.
Fitting == [from : {p.from : p \in Parts}, mid : {p.mid : p \in Parts}, total : Nat \ {0},
            exp : Nat, first : Nat, parts : SUBSET Parts]

\* Parts of one cut of one message, each once, all of them posted.
OneCut(parts) ==
  /\ \A p, q \in parts : p.from = q.from /\ p.mid = q.mid /\ p.total = q.total
  /\ \A p, q \in parts : p.seq = q.seq => p = q
  /\ \A p \in parts : Arrives(p)

Held(m) ==
  /\ m \in Fitting
  /\ IsFiniteSet(m.parts)
  /\ Cardinality(m.parts) < m.total
  /\ OneCut(m.parts)
  /\ \A p \in m.parts : p.from = m.from /\ p.mid = m.mid /\ p.total = m.total

\* One message of a sender by one name.
Distinct(messages) == \A m, n \in messages : m.from = n.from /\ m.mid = n.mid => m = n

\* What is held is consistent, and what was handed up and the counter follow it.
AInv ==
  /\ now \in Nat
  /\ IsFiniteSet(pending)
  /\ \A m \in pending : Held(m)
  /\ Distinct(pending)
  /\ Reassembly
-----------------------------------------------------------------------------
(* What is held: its sizes are totals                                       *)

Weights(S) == [p \in S |-> p.size]
Weighed(S) == [m \in S |-> Size(m.parts)]

\* MapThenSumSet takes one part at a time, and so is a total.
LEMMA SizeIsTotal ==
  ASSUME NEW S, IsFiniteSet(S)
  PROVE  \E t : Totals(Weights(S), S, t) /\ Size(S) = t[S]
<1> DEFINE Is(t) == t = [T \in SUBSET S |->
                           IF T = {} THEN 0
                           ELSE LET x == CHOOSE y \in T : TRUE IN x.size + t[T \ {x}]]
           s == CHOOSE t : Is(t)
<1>1. \A T \in SUBSET S : T # {} => Any(T) \in S
  BY AnyIn
<1>2. \A x \in S : Weights(S)[x] = x.size
  BY DEF Weights
<1>3. PICK h : Totals(Weights(S), S, h)
  BY TotalsExist
<1>4. Is(h)
  <2>1. ASSUME NEW T \in SUBSET S
        PROVE  h[T] = IF T = {} THEN 0
                      ELSE LET x == CHOOSE y \in T : TRUE IN x.size + h[T \ {x}]
    BY <1>1, <1>2, <1>3 DEF Totals, Any
  <2>2. h = [T \in SUBSET S |-> h[T]]
    BY <1>3 DEF Totals
  <2>3. h = [T \in SUBSET S |->
               IF T = {} THEN 0
               ELSE LET x == CHOOSE y \in T : TRUE IN x.size + h[T \ {x}]]
    BY <2>1, <2>2
  <2> QED
    BY <2>3
<1>5. Is(s)
  BY <1>4
<1>6. Size(S) = s[S]
  BY DEF Size, MapThenSumSet, MapThenFoldSet
<1> HIDE DEF s
<1>7. Totals(Weights(S), S, s)
  <2>1. \A T \in SUBSET S :
          s[T] = IF T = {} THEN 0 ELSE Weights(S)[Any(T)] + s[T \ {Any(T)}]
    BY <1>1, <1>2, <1>5 DEF Any
  <2>2. s = [T \in SUBSET S |-> s[T]]
    BY <1>5
  <2> QED
    BY <2>1, <2>2 DEF Totals
<1> QED
  BY <1>6, <1>7

\* And one message at a time.
LEMMA SizesAreTotal ==
  ASSUME NEW S, IsFiniteSet(S)
  PROVE  \E t : Totals(Weighed(S), S, t) /\ Sizes(S) = t[S]
<1> DEFINE Is(t) == t = [T \in SUBSET S |->
                           IF T = {} THEN 0
                           ELSE LET x == CHOOSE y \in T : TRUE IN Size(x.parts) + t[T \ {x}]]
           s == CHOOSE t : Is(t)
<1>1. \A T \in SUBSET S : T # {} => Any(T) \in S
  BY AnyIn
<1>2. \A x \in S : Weighed(S)[x] = Size(x.parts)
  BY DEF Weighed
<1>3. PICK h : Totals(Weighed(S), S, h)
  BY TotalsExist
<1>4. Is(h)
  <2>1. ASSUME NEW T \in SUBSET S
        PROVE  h[T] = IF T = {} THEN 0
                      ELSE LET x == CHOOSE y \in T : TRUE IN Size(x.parts) + h[T \ {x}]
    BY <1>1, <1>2, <1>3 DEF Totals, Any
  <2>2. h = [T \in SUBSET S |-> h[T]]
    BY <1>3 DEF Totals
  <2>3. h = [T \in SUBSET S |->
               IF T = {} THEN 0
               ELSE LET x == CHOOSE y \in T : TRUE IN Size(x.parts) + h[T \ {x}]]
    BY <2>1, <2>2
  <2> QED
    BY <2>3
<1>5. Is(s)
  BY <1>4
<1>6. Sizes(S) = s[S]
  BY DEF Sizes, MapThenSumSet, MapThenFoldSet
<1> HIDE DEF s
<1>7. Totals(Weighed(S), S, s)
  <2>1. \A T \in SUBSET S :
          s[T] = IF T = {} THEN 0 ELSE Weighed(S)[Any(T)] + s[T \ {Any(T)}]
    BY <1>1, <1>2, <1>5 DEF Any
  <2>2. s = [T \in SUBSET S |-> s[T]]
    BY <1>5
  <2> QED
    BY <2>1, <2>2 DEF Totals
<1> QED
  BY <1>6, <1>7

LEMMA PartSizes == \A p \in Parts : p.size \in Nat /\ p.seq \in 1..p.total /\ p.total \in Nat \ {0} /\ p.exp \in Nat
BY PartsAssumption

LEMMA SizeIsNat ==
  ASSUME NEW S \in SUBSET Parts, IsFiniteSet(S)
  PROVE  Size(S) \in Nat
<1>1. PICK t : Totals(Weights(S), S, t) /\ Size(S) = t[S]
  BY SizeIsTotal
<1>2. Weights(S) \in [S -> Nat]
  BY PartSizes DEF Weights
<1>3. t[S] \in Nat
  BY <1>1, <1>2, TotalIsNat
<1> QED
  BY <1>1, <1>3

LEMMA NoSize == Size({}) = 0
<1>1. PICK t : Totals(Weights({}), {}, t) /\ Size({}) = t[{}]
  BY SizeIsTotal, FS_EmptySet
<1> QED
  BY <1>1 DEF Totals

\* One part more.
LEMMA SizeGrows ==
  ASSUME NEW S \in SUBSET Parts, IsFiniteSet(S), NEW p \in Parts \ S
  PROVE  Size(S \cup {p}) = Size(S) + p.size
<1> DEFINE B == S \cup {p}
<1>1. IsFiniteSet(B) /\ p \in B /\ B \ {p} = S /\ S \subseteq B /\ B \subseteq Parts
  BY FS_AddElement
<1> HIDE DEF B
<1>2. PICK t : Totals(Weights(B), B, t) /\ Size(B) = t[B]
  BY <1>1, SizeIsTotal
<1>3. PICK r : Totals(Weights(S), S, r) /\ Size(S) = r[S]
  BY SizeIsTotal
<1>4. Weights(B) \in [B -> Nat] /\ Weights(B)[p] = p.size
  BY <1>1, PartSizes DEF Weights
<1>5. t[B] = t[B \ {p}] + Weights(B)[p]
  <2> DEFINE w == Weights(B)
  <2>1. IsFiniteSet(B) /\ w \in [B -> Nat] /\ Totals(w, B, t)
    BY <1>1, <1>2, <1>4
  <2>2. B \in SUBSET B /\ p \in B
    BY <1>1
  <2> HIDE DEF w
  <2>3. t[B] = t[B \ {p}] + w[p]
    BY <2>1, <2>2, TotalLess
  <2> QED
    BY <2>3 DEF w
<1>6. Alike(Weights(S), Weights(B), S)
  BY <1>1 DEF Alike, Weights
<1>7. r[S] = t[S]
  <2> DEFINE v == Weights(S)
             w == Weights(B)
  <2>1. Totals(v, S, r) /\ Totals(w, B, t) /\ S \subseteq B /\ Alike(v, w, S)
    BY <1>1, <1>2, <1>3, <1>6
  <2>2. S \in SUBSET S
    OBVIOUS
  <2> HIDE DEF v, w
  <2> QED
    BY <2>1, <2>2, TotalsAgree
<1> QED
  BY <1>1, <1>2, <1>3, <1>4, <1>5, <1>7 DEF B

\* What the sizes of messages are taken of.
Sized(S) == IsFiniteSet(S) /\ \A m \in S : m.parts \in SUBSET Parts /\ IsFiniteSet(m.parts)

LEMMA SizesAreNat == ASSUME NEW S, Sized(S) PROVE Sizes(S) \in Nat /\ Weighed(S) \in [S -> Nat]
<1>1. PICK t : Totals(Weighed(S), S, t) /\ Sizes(S) = t[S]
  BY SizesAreTotal DEF Sized
<1>2. \A m \in S : Size(m.parts) \in Nat
  BY SizeIsNat DEF Sized
<1>3. Weighed(S) \in [S -> Nat]
  BY <1>2 DEF Weighed
<1>4. t[S] \in Nat
  BY <1>1, <1>3, TotalIsNat DEF Sized
<1> QED
  BY <1>1, <1>3, <1>4

LEMMA NoSizes == Sizes({}) = 0
<1>1. PICK t : Totals(Weighed({}), {}, t) /\ Sizes({}) = t[{}]
  BY SizesAreTotal, FS_EmptySet
<1> QED
  BY <1>1 DEF Totals

\* A part of the messages, taken alone.
LEMMA SizesWithin ==
  ASSUME NEW S, Sized(S), NEW R \in SUBSET S, NEW t, Totals(Weighed(S), S, t)
  PROVE  Sized(R) /\ Sizes(R) = t[R]
<1>1. Sized(R)
  BY FS_Subset DEF Sized
<1>2. PICK r : Totals(Weighed(R), R, r) /\ Sizes(R) = r[R]
  BY <1>1, SizesAreTotal DEF Sized
<1>3. Alike(Weighed(R), Weighed(S), R)
  BY DEF Alike, Weighed
<1>4. r[R] = t[R]
  BY <1>1, <1>2, <1>3, TotalsAgree DEF Sized
<1> QED
  BY <1>1, <1>2, <1>4

LEMMA SizesSplit ==
  ASSUME NEW S, Sized(S), NEW R \in SUBSET S
  PROVE  Sized(R) /\ Sized(S \ R) /\ Sizes(S) = Sizes(R) + Sizes(S \ R)
<1>1. PICK t : Totals(Weighed(S), S, t)
  BY TotalsExist DEF Sized
<1>2. t[S] = t[R] + t[S \ R]
  BY <1>1, SizesAreNat, TotalSplit DEF Sized
<1>3. Sizes(S) = t[S] /\ Sizes(R) = t[R] /\ Sizes(S \ R) = t[S \ R] /\ Sized(R) /\ Sized(S \ R)
  BY <1>1, SizesWithin
<1> QED
  BY <1>2, <1>3

\* One message less.
LEMMA SizesWithout ==
  ASSUME NEW S, Sized(S), NEW m \in S
  PROVE  Sized(S \ {m}) /\ Sizes(S) = Sizes(S \ {m}) + Size(m.parts)
<1>1. PICK t : Totals(Weighed(S), S, t)
  BY TotalsExist DEF Sized
<1>2. t[S] = t[S \ {m}] + Weighed(S)[m]
  BY <1>1, SizesAreNat, TotalWithout DEF Sized
<1>3. Weighed(S)[m] = Size(m.parts)
  BY DEF Weighed
<1>4. Sizes(S) = t[S] /\ Sizes(S \ {m}) = t[S \ {m}] /\ Sized(S \ {m})
  BY <1>1, SizesWithin
<1> QED
  BY <1>2, <1>3, <1>4

-----------------------------------------------------------------------------
(* Putting messages together                                               *)

\* What was posted stays posted.
Lasting == \A p \in Parts : Arrives(p) => Arrives(p)'

LEMMA PostedLasts == TypeOK /\ [Next]_outbox => Lasting
<1> SUFFICES ASSUME TypeOK, [Next]_outbox, NEW f \in Frames, posted[f] > 0
             PROVE  posted'[f] > 0
  BY DEF Lasting, Arrives
<1>1. CASE UNCHANGED outbox
  BY <1>1 DEF outbox
<1>2. CASE Crash
  BY <1>2 DEF Crash
<1>3. ASSUME NEW s \in Senders, NEW g \in Frames, Step(s, g)
      PROVE  posted'[f] > 0
  <2>1. CASE Send(s, g)
    BY <2>1 DEF Send, TypeOK
  <2>2. CASE ~Send(s, g)
    BY <1>3, <2>2 DEF Step, Claim, Reconcile, Mark, Release
  <2> QED
    BY <2>1, <2>2
<1> QED
  BY <1>1, <1>2, <1>3 DEF Next

LEMMA StillWhole == ASSUME WholeMessages, Lasting, delivered' = delivered PROVE WholeMessages'
BY DEF WholeMessages, Lasting, Arrives, Parts

\* What is held of the messages of S, when that is all there is.
LEMMA LessHeld ==
  ASSUME AInv, Lasting, NEW S \in SUBSET pending, pending' = S, bytes' = Sizes(S),
         WholeMessages', now' \in Nat
  PROVE  AInv'
<1>1. Sized(pending)
  BY DEF AInv, Held, Fitting, Sized
<1>2. Sizes(pending) = Sizes(S) + Sizes(pending \ S) /\ Sized(S) /\ Sized(pending \ S)
  BY <1>1, SizesSplit
<1>3. Sizes(S) \in Nat /\ Sizes(pending \ S) \in Nat
  BY <1>2, SizesAreNat
<1>4. bytes = Sizes(pending) /\ bytes <= MaxTotalBytes /\ MaxTotalBytes \in Nat
  BY LimitsAssumption DEF AInv, Reassembly, BytesAreHeld
<1>5. Sizes(S) <= MaxTotalBytes
  BY <1>2, <1>3, <1>4
<1>6. ASSUME NEW m \in S
      PROVE  Cardinality({x \in S : x.from = m.from}) <= MaxPendingPerSender
  <2> DEFINE mine == {x \in pending : x.from = m.from}
             left == {x \in S : x.from = m.from}
  <2>1. IsFiniteSet(mine) /\ left \subseteq mine
    BY <1>1, FS_Subset DEF Sized
  <2>2. Cardinality(mine) <= MaxPendingPerSender
    BY DEF AInv, Reassembly, BytesAreHeld
  <2> HIDE DEF mine, left
  <2>3. IsFiniteSet(left) /\ Cardinality(left) <= Cardinality(mine)
    BY <2>1, FS_Subset
  <2>4. Cardinality(left) \in Nat /\ Cardinality(mine) \in Nat
    BY <2>1, <2>3, FS_CardinalityType
  <2>5. Cardinality(left) <= MaxPendingPerSender
    BY <2>2, <2>3, <2>4, LimitsAssumption
  <2> QED
    BY <2>5 DEF left
<1>7. BytesAreHeld'
  BY <1>5, <1>6 DEF AInv, Reassembly, BytesAreHeld
<1>8. \A m \in S : Held(m)'
  BY DEF AInv, Held, OneCut, Lasting, Fitting
<1>9. IsFiniteSet(S) /\ Distinct(S)
  BY <1>2 DEF Sized, AInv, Distinct
<1> QED
  BY <1>7, <1>8, <1>9 DEF AInv, Reassembly

\* The message Add() puts a part into.
Meant(p, held) == IF Started(p, held) = {} THEN Start(p) ELSE CHOOSE x \in Started(p, held) : TRUE

LEMMA MeantFits ==
  ASSUME AInv, NEW held \in SUBSET pending, NEW p \in Parts
  PROVE  LET m == Meant(p, held) IN
         /\ Held(m) /\ m.from = p.from /\ m.mid = p.mid
         /\ Started(p, held) = {} => m \notin held /\ m.parts = {}
         /\ Started(p, held) # {} => m \in held
         /\ \A x \in held : x.from = p.from /\ x.mid = p.mid => x = m
<1> DEFINE m == Meant(p, held)
<1>1. CASE Started(p, held) = {}
  <2>1. m = [from |-> p.from, mid |-> p.mid, total |-> p.total, exp |-> p.exp,
             first |-> now, parts |-> {}]
    BY <1>1 DEF Meant, Start
  <2>2. m \in Fitting
    BY <2>1, PartSizes DEF Fitting, AInv
  <2>3. m.parts = {} /\ m.from = p.from /\ m.mid = p.mid /\ m.total = p.total
    BY <2>1
  <2> HIDE DEF m
  <2>4. Held(m)
    BY <2>2, <2>3, PartSizes, FS_EmptySet DEF Held, OneCut
  <2> QED
    BY <1>1, <2>3, <2>4 DEF Started, m
<1>2. CASE Started(p, held) # {}
  <2>1. m \in Started(p, held)
    BY <1>2 DEF Meant
  <2> HIDE DEF m
  <2>2. m \in held /\ m.from = p.from /\ m.mid = p.mid
    BY <2>1 DEF Started
  <2> QED
    BY <1>2, <2>2 DEF AInv, Distinct, m
<1> QED
  BY <1>1, <1>2

LEMMA HeldApart ==
  ASSUME AInv, NEW held \in SUBSET pending, NEW p \in Parts
  PROVE  LET m == Meant(p, held)
             others == held \ {m}
         IN  /\ Sized(held) /\ Sized(others)
             /\ Freed(held) = Sizes(held)
             /\ Sizes(held) = Sizes(others) + Size(m.parts)
             /\ Sizes(others) \in Nat /\ Size(m.parts) \in Nat
<1> DEFINE m == Meant(p, held)
           others == held \ {m}
<1>1. /\ Held(m)
      /\ Started(p, held) = {} => m \notin held /\ m.parts = {}
      /\ Started(p, held) # {} => m \in held
  BY MeantFits
<1> HIDE DEF m
<1>2. Sized(pending)
  BY DEF AInv, Held, Fitting, Sized
<1>3. Sizes(pending) = Sizes(held) + Sizes(pending \ held) /\ Sized(held) /\ Sized(pending \ held)
  BY <1>2, SizesSplit
<1>4. Sizes(held) \in Nat /\ Sizes(pending \ held) \in Nat /\ bytes = Sizes(pending)
  BY <1>3, SizesAreNat DEF AInv, Reassembly, BytesAreHeld
<1>5. Freed(held) = Sizes(held)
  BY <1>3, <1>4 DEF Freed
<1>6. m.parts \in SUBSET Parts /\ IsFiniteSet(m.parts)
  BY <1>1 DEF Held, Fitting
<1>7. Size(m.parts) \in Nat
  BY <1>6, SizeIsNat
<1>8. CASE Started(p, held) = {}
  <2>1. others = held /\ Size(m.parts) = 0
    BY <1>1, <1>8, NoSize
  <2> HIDE DEF others
  <2>2. Sizes(held) = Sizes(others) + Size(m.parts) /\ Sizes(others) \in Nat /\ Sized(others)
    BY <2>1, <1>3, <1>4
  <2> QED
    BY <2>2, <1>3, <1>5, <1>7 DEF others, m
<1>9. CASE Started(p, held) # {}
  <2>1. Sized(others) /\ Sizes(held) = Sizes(others) + Size(m.parts)
    BY <1>1, <1>3, <1>9, SizesWithout
  <2>2. Sizes(others) \in Nat
    BY <2>1, SizesAreNat
  <2> QED
    BY <2>1, <2>2, <1>3, <1>5, <1>7 DEF m
<1> QED
  BY <1>8, <1>9

\* The message with the part added.
Grown(m, p) == [m EXCEPT !.parts = @ \cup {p}]

\* A part of a message that is not there yet, of a cut that agrees.
LEMMA GrownFits ==
  ASSUME NEW m, Held(m), NEW p \in Parts, Arrives(p), m.from = p.from, m.mid = p.mid,
         ~Disagrees(p, m), ~\E q \in m.parts : q.seq = p.seq
  PROVE  LET g == Grown(m, p) IN
         /\ g \in Fitting /\ g.parts = m.parts \cup {p} /\ IsFiniteSet(g.parts)
         /\ g.from = m.from /\ g.mid = m.mid /\ g.total = m.total
         /\ OneCut(g.parts) /\ \A q \in g.parts : q.from = g.from /\ q.mid = g.mid /\ q.total = g.total
         /\ Cardinality(g.parts) = Cardinality(m.parts) + 1 /\ Cardinality(m.parts) \in Nat
         /\ p \notin m.parts /\ Size(g.parts) = Size(m.parts) + p.size
<1> DEFINE g == Grown(m, p)
<1>1. m \in Fitting /\ IsFiniteSet(m.parts) /\ OneCut(m.parts) /\ m.parts \in SUBSET Parts
      /\ \A q \in m.parts : q.from = m.from /\ q.mid = m.mid /\ q.total = m.total
  BY DEF Held, Fitting
<1>2. g = [from |-> m.from, mid |-> m.mid, total |-> m.total, exp |-> m.exp,
           first |-> m.first, parts |-> m.parts \cup {p}]
  <2> DEFINE F == {q.from : q \in Parts}  M == {q.mid : q \in Parts}
  <2>1. m \in [from : F, mid : M, total : Nat \ {0}, exp : Nat, first : Nat, parts : SUBSET Parts]
    BY <1>1 DEF Fitting
  <2> HIDE DEF F, M
  <2>2. m = [from |-> m.from, mid |-> m.mid, total |-> m.total, exp |-> m.exp,
             first |-> m.first, parts |-> m.parts]
    BY <2>1
  <2> DEFINE up == m.parts \cup {p}
  <2> HIDE DEF up
  <2>3. [m EXCEPT !.parts = up] = [from |-> m.from, mid |-> m.mid, total |-> m.total, exp |-> m.exp,
             first |-> m.first, parts |-> up]
    BY <2>1, <2>2
  <2> QED
    BY <2>3 DEF Grown, up
<1>3. g.parts = m.parts \cup {p} /\ g.from = m.from /\ g.mid = m.mid /\ g.total = m.total
  BY <1>2
<1>4. g \in Fitting
  BY <1>1, <1>2 DEF Fitting
<1> HIDE DEF g
<1>5. p \notin m.parts /\ m.total = p.total
  BY DEF Disagrees
<1>6. IsFiniteSet(g.parts) /\ Cardinality(g.parts) = Cardinality(m.parts) + 1 /\ Cardinality(m.parts) \in Nat
  BY <1>1, <1>3, <1>5, FS_AddElement, FS_CardinalityType
<1>7. \A q \in g.parts : q.from = g.from /\ q.mid = g.mid /\ q.total = g.total
  BY <1>1, <1>3, <1>5
<1>8. OneCut(g.parts)
  <2>1. \A q, r \in g.parts : q.seq = r.seq => q = r
    BY <1>1, <1>3 DEF OneCut
  <2>2. \A q \in g.parts : Arrives(q)
    BY <1>1, <1>3 DEF OneCut
  <2>3. \A q, r \in g.parts : q.from = r.from /\ q.mid = r.mid /\ q.total = r.total
    BY <1>7
  <2> QED
    BY <2>1, <2>2, <2>3 DEF OneCut
<1>9. Size(g.parts) = Size(m.parts) + p.size
  BY <1>1, <1>3, <1>5, SizeGrows
<1> QED
  BY <1>3, <1>4, <1>5, <1>6, <1>7, <1>8, <1>9 DEF g

\* A message that grew takes the place it had, or one that was free.
LEMMA MoreHeld ==
  ASSUME AInv, Lasting, now' = now, NEW p \in Parts, Arrives(p), NEW held \in SUBSET pending,
         LET m == Meant(p, held) IN
         /\ ~Disagrees(p, m) /\ ~\E q \in m.parts : q.seq = p.seq
         /\ Started(p, held) = {} => Cardinality({x \in held : x.from = p.from}) < MaxPendingPerSender
         /\ Size(Grown(m, p).parts) <= MaxMessageBytes
         /\ Freed(held) + p.size <= MaxTotalBytes
         /\ Cardinality(Grown(m, p).parts) < m.total
         /\ pending' = (held \ {m}) \cup {Grown(m, p)}
         /\ bytes' = Freed(held) + p.size,
         WholeMessages'
  PROVE  AInv'
<1> DEFINE m == Meant(p, held)
           others == held \ {m}
           g == Grown(m, p)
<1>1. /\ Held(m) /\ m.from = p.from /\ m.mid = p.mid
      /\ Started(p, held) = {} => m \notin held /\ m.parts = {}
      /\ Started(p, held) # {} => m \in held
      /\ \A x \in held : x.from = p.from /\ x.mid = p.mid => x = m
  BY MeantFits
<1>2. /\ Sized(held) /\ Sized(others)
      /\ Freed(held) = Sizes(held)
      /\ Sizes(held) = Sizes(others) + Size(m.parts)
      /\ Sizes(others) \in Nat /\ Size(m.parts) \in Nat
  BY HeldApart
<1>3. /\ ~Disagrees(p, m) /\ ~\E q \in m.parts : q.seq = p.seq
      /\ Started(p, held) = {} => Cardinality({x \in held : x.from = p.from}) < MaxPendingPerSender
      /\ Size(g.parts) <= MaxMessageBytes
      /\ Freed(held) + p.size <= MaxTotalBytes
      /\ Cardinality(g.parts) < m.total
      /\ pending' = others \cup {g}
      /\ bytes' = Freed(held) + p.size
  OBVIOUS
<1> HIDE DEF m
<1>4. /\ g \in Fitting /\ g.parts = m.parts \cup {p} /\ IsFiniteSet(g.parts)
      /\ g.from = m.from /\ g.mid = m.mid /\ g.total = m.total
      /\ OneCut(g.parts) /\ \A q \in g.parts : q.from = g.from /\ q.mid = g.mid /\ q.total = g.total
      /\ Size(g.parts) = Size(m.parts) + p.size
  BY <1>1, <1>3, GrownFits
<1> HIDE DEF g
<1>5. g \notin others
  BY <1>1, <1>4
<1>6. Sized(others \cup {g}) /\ (others \cup {g}) \ {g} = others
  <2>1. (others \cup {g}) \ {g} = others
    BY <1>5
  <2>2. IsFiniteSet(others) /\ g.parts \in SUBSET Parts
    BY <1>2, <1>4 DEF Sized, Fitting
  <2>3. IsFiniteSet(others \cup {g})
    BY <2>2, FS_AddElement
  <2> QED
    BY <1>2, <1>4, <2>1, <2>2, <2>3 DEF Sized
<1>7. bytes' = Sizes(others \cup {g})
  <2>1. Sizes(others \cup {g}) = Sizes(others) + Size(g.parts)
    <3> DEFINE all == others \cup {g}
    <3>1. g \in all /\ Sized(all) /\ all \ {g} = others
      BY <1>6
    <3> HIDE DEF all, others
    <3>2. Sizes(all) = Sizes(all \ {g}) + Size(g.parts)
      BY <3>1, SizesWithout
    <3> QED
      BY <3>1, <3>2 DEF all
  <2>2. p.size \in Nat
    BY PartSizes
  <2> QED
    BY <1>2, <1>3, <1>4, <2>1, <2>2
<1>8. ASSUME NEW n \in others \cup {g}
      PROVE  Held(n)' /\ Size(n.parts) <= MaxMessageBytes
  <2>1. CASE n = g
    <3>1. Held(n)
      BY <1>3, <1>4, <2>1 DEF Held
    <3> QED
      BY <3>1, <1>3, <2>1 DEF Held, OneCut, Lasting, Fitting
  <2>2. CASE n \in others
    <3>1. Held(n) /\ Size(n.parts) <= MaxMessageBytes
      BY <2>2 DEF AInv, Reassembly, BytesAreHeld
    <3> QED
      BY <3>1 DEF Held, OneCut, Lasting, Fitting
  <2> QED
    BY <2>1, <2>2
<1>9. Distinct(others \cup {g})
  BY <1>1, <1>4 DEF Distinct, AInv
<1>10. ASSUME NEW n \in others \cup {g}
       PROVE  Cardinality({x \in others \cup {g} : x.from = n.from}) <= MaxPendingPerSender
  <2> DEFINE f == n.from
             was == {x \in held : x.from = f}
             is == {x \in others \cup {g} : x.from = f}
             rest == {x \in others : x.from = f}
  <2>1. IsFiniteSet(was) /\ IsFiniteSet(rest)
    BY <1>2, FS_Subset DEF Sized
  <2>2. was # {} => Cardinality(was) <= MaxPendingPerSender
    <3> DEFINE all == {x \in pending : x.from = f}
    <3>1. IsFiniteSet(all) /\ was \subseteq all
      BY FS_Subset DEF AInv
    <3>2. was # {} => Cardinality(all) <= MaxPendingPerSender
      BY DEF AInv, Reassembly, BytesAreHeld
    <3> HIDE DEF all, was
    <3>3. Cardinality(was) <= Cardinality(all) /\ Cardinality(was) \in Nat /\ Cardinality(all) \in Nat
      BY <3>1, <2>1, FS_Subset, FS_CardinalityType
    <3> QED
      BY <3>2, <3>3, LimitsAssumption
  <2>3. CASE f # g.from
    <3>1. is = rest /\ rest \subseteq was /\ was # {}
      BY <1>4, <2>3
    <3> HIDE DEF is, rest, was
    <3>2. Cardinality(rest) <= Cardinality(was) /\ Cardinality(rest) \in Nat /\ Cardinality(was) \in Nat
      BY <3>1, <2>1, FS_Subset, FS_CardinalityType
    <3>3. Cardinality(is) <= MaxPendingPerSender
      BY <3>1, <3>2, <2>2, LimitsAssumption
    <3> QED
      BY <3>3 DEF is
  <2>4. CASE f = g.from
    <3>1. is = rest \cup {g} /\ g \notin rest
      BY <1>5, <2>4
    <3>2. CASE Started(p, held) = {}
      <4>1. rest = was /\ f = p.from
        BY <1>1, <1>4, <2>4, <3>2
      <4>2. Cardinality(was) < MaxPendingPerSender
        BY <1>3, <3>2, <4>1
      <4> HIDE DEF is, rest, was
      <4>3. Cardinality(is) = Cardinality(was) + 1 /\ Cardinality(was) \in Nat
        BY <3>1, <4>1, <2>1, FS_AddElement, FS_CardinalityType
      <4> QED
        BY <4>2, <4>3, LimitsAssumption DEF is
    <3>3. CASE Started(p, held) # {}
      <4>1. was = rest \cup {m} /\ m \notin rest /\ was # {}
        BY <1>1, <1>4, <2>4, <3>3
      <4> HIDE DEF is, rest, was
      <4>2. Cardinality(is) = Cardinality(rest) + 1 /\ Cardinality(was) = Cardinality(rest) + 1
        BY <3>1, <4>1, <2>1, FS_AddElement
      <4> QED
        BY <4>1, <4>2, <2>2 DEF is
    <3> QED
      BY <3>2, <3>3
  <2> QED
    BY <2>3, <2>4
<1>11. BytesAreHeld'
  BY <1>3, <1>7, <1>8, <1>10 DEF BytesAreHeld
<1> QED
  BY <1>3, <1>6, <1>8, <1>9, <1>11 DEF AInv, Sized, Reassembly

\* Add(), whichever way it takes.
LEMMA HoldStep ==
  ASSUME AInv, Lasting, now' = now, NEW p \in Parts, Arrives(p), NEW held \in SUBSET pending,
         Hold(p, held)
  PROVE  AInv'
<1> DEFINE m == Meant(p, held)
           others == held \ {m}
           g == Grown(m, p)
<1>1. Held(m) /\ m.from = p.from /\ m.mid = p.mid
  BY MeantFits
<1>2. /\ Freed(held) = Sizes(held)
      /\ Sizes(held) = Sizes(others) + Size(m.parts)
      /\ Sizes(others) \in Nat /\ Size(m.parts) \in Nat
  BY HeldApart
<1>3. \/ pending' = held /\ bytes' = Freed(held) /\ delivered' = delivered
      \/ pending' = others /\ bytes' = Freed(held) - Size(m.parts) /\ delivered' = delivered
      \/ /\ ~Disagrees(p, m) /\ ~\E q \in m.parts : q.seq = p.seq
         /\ ~(Size(g.parts) > MaxMessageBytes \/ Freed(held) + p.size > MaxTotalBytes)
         /\ \/ /\ Cardinality(g.parts) < m.total
               /\ ~(Started(p, held) = {} /\ Cardinality({x \in held : x.from = p.from}) >= MaxPendingPerSender)
               /\ pending' = others \cup {g} /\ bytes' = Freed(held) + p.size /\ delivered' = delivered
            \/ /\ ~(Cardinality(g.parts) < m.total)
               /\ pending' = others /\ bytes' = Freed(held) - Size(m.parts)
               /\ delivered' = delivered \cup {g.parts}
  BY DEF Hold, Meant, Grown
<1>4. now' \in Nat
  BY DEF AInv
<1>5. WholeMessages
  BY DEF AInv, Reassembly
<1>6. CASE pending' = held /\ bytes' = Freed(held) /\ delivered' = delivered
  BY <1>2, <1>4, <1>5, <1>6, StillWhole, LessHeld
<1>7. CASE pending' = others /\ bytes' = Freed(held) - Size(m.parts) /\ WholeMessages'
  <2>1. bytes' = Sizes(others)
    BY <1>2, <1>7
  <2> QED
    BY <1>4, <1>7, <2>1, LessHeld
<1>8. ASSUME ~Disagrees(p, m), ~\E q \in m.parts : q.seq = p.seq
      PROVE  /\ g.parts = m.parts \cup {p} /\ g.total = m.total /\ m.total \in Nat
             /\ OneCut(g.parts) /\ \A q \in g.parts : q.from = m.from /\ q.mid = m.mid /\ q.total = m.total
             /\ Cardinality(g.parts) = Cardinality(m.parts) + 1 /\ Cardinality(m.parts) \in Nat
             /\ Cardinality(m.parts) < m.total /\ Size(g.parts) = Size(m.parts) + p.size
  <2> HIDE DEF m
  <2>1. m \in Fitting /\ Cardinality(m.parts) < m.total
    BY <1>1 DEF Held
  <2>2. m.total \in Nat
    BY <2>1 DEF Fitting
  <2> QED
    BY <1>1, <1>8, <2>1, <2>2, GrownFits
<1> HIDE DEF m
<1>9. CASE /\ ~Disagrees(p, m) /\ ~\E q \in m.parts : q.seq = p.seq
           /\ ~(Size(g.parts) > MaxMessageBytes \/ Freed(held) + p.size > MaxTotalBytes)
           /\ Cardinality(g.parts) < m.total
           /\ ~(Started(p, held) = {} /\ Cardinality({x \in held : x.from = p.from}) >= MaxPendingPerSender)
           /\ pending' = others \cup {g} /\ bytes' = Freed(held) + p.size /\ delivered' = delivered
  <2>1. Size(g.parts) <= MaxMessageBytes /\ Freed(held) + p.size <= MaxTotalBytes
    <3>1. Size(g.parts) \in Nat /\ Freed(held) + p.size \in Nat
      BY <1>2, <1>8, <1>9, PartSizes
    <3> QED
      BY <3>1, <1>9, LimitsAssumption
  <2>2. Started(p, held) = {} => Cardinality({x \in held : x.from = p.from}) < MaxPendingPerSender
    <3> DEFINE mine == {x \in held : x.from = p.from}
    <3>1. IsFiniteSet(mine)
      BY FS_Subset DEF AInv
    <3>2. Cardinality(mine) \in Nat
      BY <3>1, FS_CardinalityType
    <3> QED
      BY <3>2, <1>9, LimitsAssumption
  <2>3. WholeMessages'
    BY <1>5, <1>9, StillWhole
  <2> QED
    BY <1>9, <2>1, <2>2, <2>3, MoreHeld DEF m
<1>10. CASE /\ ~Disagrees(p, m) /\ ~\E q \in m.parts : q.seq = p.seq
            /\ ~(Cardinality(g.parts) < m.total)
            /\ pending' = others /\ bytes' = Freed(held) - Size(m.parts)
            /\ delivered' = delivered \cup {g.parts}
  <2> DEFINE payload == g.parts
  <2>1. OneCut(payload) /\ \A q \in payload : q.total = m.total
    BY <1>8, <1>10
  <2>2. Cardinality(payload) = m.total
    BY <1>8, <1>10
  <2> HIDE DEF payload, g
  <2>3. \A q \in payload : Arrives(q)'
    BY <2>1 DEF OneCut, Lasting, Arrives, Parts
  <2>4. WholeMessages'
    BY <2>1, <2>2, <2>3, <1>5, <1>10 DEF WholeMessages, OneCut, Lasting, Arrives, Parts, payload
  <2> QED
    BY <1>7, <1>10, <2>4
<1>11. CASE pending' = others /\ bytes' = Freed(held) - Size(m.parts) /\ delivered' = delivered
  BY <1>5, <1>7, <1>11, StillWhole
<1> HIDE DEF g, others
<1> QED
  BY <1>3, <1>6, <1>9, <1>10, <1>11

\* Nothing but the outbox or the clock moved.
LEMMA NothingHeld ==
  ASSUME AInv, Lasting, now' \in Nat, UNCHANGED <<pending, bytes, delivered>>
  PROVE  AInv'
<1>1. bytes' = Sizes(pending) /\ pending' = pending /\ WholeMessages
  BY DEF AInv, Reassembly, BytesAreHeld
<1> QED
  BY <1>1, StillWhole, LessHeld

LEMMA HandleStep ==
  ASSUME AInv, Lasting, NEW p \in Parts, Arrives(p), Handle(p)
  PROVE  AInv'
<1>1. now' = now /\ now' \in Nat
  BY DEF Handle, AInv
<1>2. CASE p.total = 1
  <2>1. UNCHANGED <<pending, bytes>> /\ delivered' = delivered \cup {{p}} /\ WholeMessages
    BY <1>2 DEF Handle, AInv, Reassembly
  <2>2. Cardinality({p}) = 1
    BY FS_Singleton
  <2>3. WholeMessages'
    BY <1>2, <2>1, <2>2 DEF WholeMessages, Lasting, Arrives, Parts
  <2>4. bytes' = Sizes(pending) /\ pending' = pending
    BY <2>1 DEF AInv, Reassembly, BytesAreHeld
  <2> QED
    BY <1>1, <2>3, <2>4, LessHeld
<1>3. CASE p.total # 1
  <2>1. Hold(p, {m \in pending : ~Stale(m)})
    BY <1>3 DEF Handle
  <2> QED
    BY <1>1, <2>1, HoldStep
<1> QED
  BY <1>2, <1>3

LEMMA AssemblyStep == IInv /\ AInv /\ [AssemblyNext]_<<outbox, assembler>> => IInv' /\ AInv'
<1> SUFFICES ASSUME IInv, AInv, [AssemblyNext]_<<outbox, assembler>>
             PROVE  IInv' /\ AInv'
  OBVIOUS
<1>1. [Next]_outbox
  BY DEF AssemblyNext, Handle, Tick, outbox
<1>2. IInv'
  BY <1>1, NextIInv
<1>3. Lasting
  BY <1>1, PostedLasts DEF IInv
<1>4. ASSUME UNCHANGED assembler PROVE AInv'
  BY <1>3, <1>4, NothingHeld DEF assembler, AInv
<1>5. ASSUME NEW p \in Parts, Arrives(p), Handle(p) PROVE AInv'
  BY <1>3, <1>5, HandleStep
<1>6. ASSUME Tick PROVE AInv'
  <2>1. now' \in Nat /\ UNCHANGED <<pending, bytes, delivered>>
    BY <1>6 DEF Tick, AInv
  <2> QED
    BY <1>3, <2>1, NothingHeld
<1> QED
  BY <1>2, <1>4, <1>5, <1>6 DEF AssemblyNext, assembler

LEMMA InitAInv == AssemblyInit => AInv
<1> SUFFICES ASSUME AssemblyInit PROVE AInv
  OBVIOUS
<1>1. pending = {} /\ bytes = 0 /\ delivered = {} /\ now = 0
  BY DEF AssemblyInit
<1>2. BytesAreHeld
  BY <1>1, NoSizes, LimitsAssumption DEF BytesAreHeld
<1> QED
  BY <1>1, <1>2, FS_EmptySet DEF AInv, Distinct, Reassembly, WholeMessages

\* What a peer's router hands up is one sender's message, whole, posted and cut once; and
\* the counter its limits are checked against is what it holds, within them: whatever
\* expired, overflowed, disagreed or was repeated, for any parts and any limits.
THEOREM MessagesAreWhole == AssemblySpec => []Reassembly
<1>1. AssemblyInit => IInv
  BY InitIInv DEF AssemblyInit
<1>2. AInv => Reassembly
  BY DEF AInv
<1> QED
  BY <1>1, <1>2, InitAInv, AssemblyStep, PTL DEF AssemblySpec

\* The claims are as exact with the peers and their clock in view.
THEOREM SentOnceForAll == AssemblySpec => [](SentOnce /\ ClaimsAreTrue)
<1>1. AssemblyInit => IInv
  BY InitIInv DEF AssemblyInit
<1>2. IInv => SentOnce /\ ClaimsAreTrue
  BY DEF IInv
<1> QED
  BY <1>1, <1>2, InitAInv, AssemblyStep, PTL DEF AssemblySpec

=============================================================================
