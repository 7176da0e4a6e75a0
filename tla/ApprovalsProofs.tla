--------------------------- MODULE ApprovalsProofs ---------------------------
(***************************************************************************)
(* What holds of Approvals for every number of deposits, requests, coins   *)
(* and failures.  The argument is about the ledger: the operation a        *)
(* deposit is charged with and the operations that may still confirm are   *)
(* the same ones (Due), an operation is given up only when its coin is     *)
(* gone for good (GivenUp), and the node has only what the ledger holds    *)
(* (OnChain).  The log follows it as long as none of its entries is        *)
(* trimmed (RoomForAll); then what a game is told keeps the promise of     *)
(* Requests, and what it is shown to have asked for stays under its caps.  *)
(***************************************************************************)
EXTENDS Approvals, Sums, FiniteSetTheorems, TLAPS

-----------------------------------------------------------------------------
(* Types                                                                   *)

LogType == [Ids -> Entry]

\* Whatever is trimmed, each entry of a written log is as given, or gone; and one
\* that is gone fed no total.
LEMMA Written ==
  ASSUME NEW l \in LogType, writeSpendLog(l)
  PROVE  /\ log' \in LogType
         /\ \A i \in Ids : log'[i] = l[i] \/ (log'[i] = NoEntry /\ ~spendCountsOrPends(l[i]))
<1>1. PICK D \in SUBSET Droppable(l) : log' = [i \in Ids |-> IF i \in D THEN NoEntry ELSE l[i]]
  BY DEF writeSpendLog
<1>2. NoEntry \in Entry
  BY DEF NoEntry, Entry, SpendStates
<1> QED BY <1>1, <1>2 DEF LogType, Droppable

\* A write ends, or fails; either way the log is what it was or what was written.
LEMMA SavedType ==
  ASSUME TypeOK, NEW l \in LogType, Save(l)
  PROVE  log' \in LogType /\ faults' \in Nat
<1>1. log \in LogType /\ faults \in Nat
  BY DEF TypeOK, LogType
<1>2. faults' \in Nat
  BY <1>1 DEF Save, Fail
<1>3. writeSpendLog(l) \/ log' = log
  BY DEF Save
<1> QED BY <1>1, <1>2, <1>3, Written

LEMMA BecomeType ==
  ASSUME NEW e \in Entry, NEW s \in SpendStates
  PROVE  Become(e, s) \in Entry /\ Become(e, s).state = s /\ Become(e, s).tx = e.tx
BY DEF Become, Entry

LEMMA PaidType ==
  ASSUME NEW e \in Entry, NEW i \in Ids
  PROVE  [e EXCEPT !.tx = i] \in Entry /\ [e EXCEPT !.tx = i].state = e.state
BY DEF Entry

LEMMA ExpireType ==
  ASSUME NEW l \in LogType
  PROVE  LET m == expireLocked(l)
         IN  /\ m \in LogType
             /\ \A i \in Ids : m[i] = l[i] \/ (l[i].state = "pending" /\ m[i].state = "expired")
<1>1. \A i \in Ids : Become(l[i], "expired") \in Entry /\ Become(l[i], "expired").state = "expired"
  BY BecomeType DEF LogType, SpendStates
<1> QED BY <1>1 DEF expireLocked, LogType

LEMMA RecoverType ==
  ASSUME TypeOK, NEW l \in LogType
  PROVE  LET m == recover(l)
         IN  /\ m \in LogType
             /\ \A i \in Ids : m[i] = l[i] \/ l[i].state = "none"
<1>1. \A i \in Ids : spendFromFundingApproval(i) \in Entry
  BY DEF TypeOK, spendFromFundingApproval, Entry, SpendStates
<1> QED BY <1>1 DEF recover, LogType

\* What the game's calls see: the log, with what was lost put back and what ran
\* out of time ended.
LEMMA CurrentType ==
  ASSUME TypeOK
  PROVE  /\ Current \in LogType
         /\ \A i \in Ids : \/ Current[i] = log[i]
                           \/ log[i].state = "none"
                           \/ log[i].state = "pending" /\ Current[i].state = "expired"
<1>1. log \in LogType
  BY DEF TypeOK, LogType
<1> DEFINE m == recover(log)
<1>2. m \in LogType /\ \A i \in Ids : m[i] = log[i] \/ log[i].state = "none"
  BY <1>1, RecoverType
<1>3. Current = expireLocked(m)
  BY DEF Current
<1> HIDE DEF m
<1> QED BY <1>2, <1>3, ExpireType

LEMMA InitType == ASSUME Init PROVE TypeOK
BY IdsAssumption DEF Init, TypeOK, NoEntry, Entry, SpendStates, OpStates, Phases, Jobs, Idle, Calls, NoCall

\* Looking at the log leaves one.
LEMMA RepairType == ASSUME TypeOK, Repair PROVE log' \in LogType
<1>1. log \in LogType
  BY DEF TypeOK, LogType
<1>2. Current \in LogType
  BY CurrentType
<1>3. log' = log \/ writeSpendLog(Current)
  BY DEF Repair
<1> QED BY <1>1, <1>2, <1>3, Written

LEMMA GameType == ASSUME TypeOK, Game PROVE TypeOK'
<1> USE DEF TypeOK, ledger, settings, nature
<1>0. log \in LogType /\ Current \in LogType
  BY CurrentType DEF LogType
<1>1. ASSUME NEW d \in Deposits, Refuse(d) PROVE TypeOK'
  BY <1>1 DEF Refuse, Answered, Calls
<1>2. ASSUME NEW d \in Deposits, NEW c \in Coins, Ask(d, c) PROVE TypeOK'
  BY <1>2 DEF Ask, Calls, checkSpendRequest
<1>3. ASSUME NEW d \in Deposits, NEW i \in Ids, RequestAgain(d, i) PROVE TypeOK'
  <2>1. log' \in LogType
    BY <1>3, RepairType DEF RequestAgain
  <2> QED BY <1>3, <2>1 DEF RequestAgain, Answered, Calls, LogType
<1>4. ASSUME NEW d \in Deposits, NEW i \in Ids, RequestNew(d, i) PROVE TypeOK'
  <2> DEFINE l == [Current EXCEPT ![i] = Become(NoEntry, "pending")]
  <2>1. l \in LogType
    <3>1. Become(NoEntry, "pending") \in Entry
      BY BecomeType DEF NoEntry, Entry, SpendStates
    <3> QED BY <1>0, <3>1 DEF LogType
  <2>2. Save(l)
    BY <1>4 DEF RequestNew
  <2> HIDE DEF l
  <2>3. log' \in LogType /\ faults' \in Nat
    BY <2>1, <2>2, SavedType
  <2>4. asked[d].coin \in Coins /\ asked' \in [Deposits -> Calls]
    BY <1>4 DEF RequestNew, Answered, Calls, NoCall
  <2> QED BY <1>4, <2>3, <2>4 DEF RequestNew, LogType
<1>5. ASSUME Look PROVE TypeOK'
  <2>1. log' \in LogType
    BY <1>5, RepairType DEF Look
  <2> QED BY <1>5, <2>1 DEF Look, LogType
<1> QED BY <1>1, <1>2, <1>3, <1>4, <1>5 DEF Game

\* The log after an access to it that changes one entry, or several.
LEMMA EditType ==
  ASSUME NEW l \in LogType, NEW i \in Ids, NEW e \in Entry
  PROVE  [l EXCEPT ![i] = e] \in LogType
BY DEF LogType

LEMMA PersonType ==
  ASSUME TypeOK,
         \/ \E i \in Ids :
              \/ DenyGamingSpend(i) \/ Approve(i) \/ Sign(i) \/ Mistype(i) \/ markSpendPublishing(i)
              \/ CommitFunding(i) \/ Publish(i) \/ Record(i)
         \/ SwitchOff \/ SwitchOn \/ RevokeGamingCredential \/ invalidatePendingSpends \/ CloseTable
  PROVE  TypeOK'
<1> USE DEF TypeOK, ledger, settings, nature, Phases
<1> DEFINE l == expireLocked(log)
<1>0. log \in LogType /\ l \in LogType
  BY ExpireType DEF LogType
<1>a. l = expireLocked(log)
  OBVIOUS
<1> HIDE DEF l
<1>1. ASSUME NEW i \in Ids, DenyGamingSpend(i) PROVE TypeOK'
  <2> DEFINE e == Become(l[i], "denied")
             m == [l EXCEPT ![i] = e]
  <2>1. e \in Entry
    BY <1>0, BecomeType DEF LogType, SpendStates
  <2>2. m \in LogType
    BY <1>0, <2>1, EditType
  <2>3. Save(m)
    BY <1>1, <1>a DEF DenyGamingSpend
  <2> HIDE DEF m
  <2>4. log' \in LogType /\ faults' \in Nat
    BY <2>2, <2>3, SavedType
  <2> QED BY <1>1, <2>4 DEF DenyGamingSpend, LogType
<1>2. ASSUME NEW i \in Ids, Approve(i) \/ Sign(i) \/ Mistype(i) PROVE TypeOK'
  BY <1>2 DEF Approve, Sign, Mistype
<1>3. ASSUME NEW i \in Ids, markSpendPublishing(i) PROVE TypeOK'
  <2> DEFINE e == Become(l[i], "publishing")
             m == [l EXCEPT ![i] = e]
  <2>1. e \in Entry
    BY <1>0, BecomeType DEF LogType, SpendStates
  <2>2. m \in LogType
    BY <1>0, <2>1, EditType
  <2>3. Save(m) \/ Save(l) \/ UNCHANGED <<log, faults>>
    BY <1>3, <1>a DEF markSpendPublishing
  <2> HIDE DEF m
  <2>4. log' \in LogType /\ faults' \in Nat
    BY <1>0, <2>2, <2>3, SavedType
  <2>5. phase' \in [Ids -> Phases]
    BY <1>3 DEF markSpendPublishing
  <2> QED BY <1>3, <2>4, <2>5 DEF markSpendPublishing, LogType
<1>4. ASSUME NEW i \in Ids, CommitFunding(i) PROVE TypeOK'
  <2>1. faults' \in Nat
    BY <1>4 DEF CommitFunding, Fail
  <2>2. op' \in [Ids -> OpStates] /\ fund' \in [Deposits -> Ids \cup {None}]
    BY <1>4 DEF CommitFunding, OpStates
  <2> QED BY <1>4, <2>1, <2>2 DEF CommitFunding
<1>5. ASSUME NEW i \in Ids, Publish(i) PROVE TypeOK'
  BY <1>5 DEF Publish, Broadcast, Fail
<1>6. ASSUME NEW i \in Ids, Record(i) PROVE TypeOK'
  <2> DEFINE e == Outcome(i)
             m == [log EXCEPT ![i] = e]
  <2>1. e \in Entry
    BY <1>0, BecomeType DEF Outcome, LogType, SpendStates, Entry
  <2>2. m \in LogType
    BY <1>0, <2>1, EditType
  <2>3. Save(m) \/ UNCHANGED <<log, faults>>
    BY <1>6 DEF Record
  <2> HIDE DEF m
  <2>4. log' \in LogType /\ faults' \in Nat
    BY <1>0, <2>2, <2>3, SavedType
  <2> QED BY <1>6, <2>4 DEF Record, LogType
<1>7. ASSUME SwitchOff \/ SwitchOn \/ RevokeGamingCredential \/ CloseTable PROVE TypeOK'
  <2>1. on' \in BOOLEAN /\ retiring' \in BOOLEAN /\ closed' \in BOOLEAN
    BY <1>7, Zenon DEF SwitchOff, SwitchOn, RevokeGamingCredential, CloseTable
  <2>2. changes' \in Nat /\ faults' \in Nat
    BY <1>7 DEF SwitchOff, SwitchOn, RevokeGamingCredential, CloseTable, Change
  <2>3. UNCHANGED <<asked, log, of, coin, preview, lapsed, op, fund, coins, chain, phase, work>>
    BY <1>7, Zenon DEF SwitchOff, SwitchOn, RevokeGamingCredential, CloseTable
  <2> QED BY <2>1, <2>2, <2>3
<1>8. ASSUME invalidatePendingSpends PROVE TypeOK'
  <2> DEFINE m == [i \in Ids |-> IF l[i].state = "pending" THEN Become(l[i], "expired") ELSE l[i]]
  <2>1. \A i \in Ids : Become(l[i], "expired") \in Entry
    BY <1>0, BecomeType DEF LogType, SpendStates
  <2>2. m \in LogType
    BY <1>0, <2>1 DEF LogType
  <2>3. Save(m) \/ UNCHANGED <<log, faults>>
    BY <1>8, <1>a DEF invalidatePendingSpends
  <2> HIDE DEF m
  <2>4. log' \in LogType /\ faults' \in Nat
    BY <1>0, <2>2, <2>3, SavedType
  <2> QED BY <1>8, <2>4 DEF invalidatePendingSpends, LogType
<1> QED BY <1>1, <1>2, <1>3, <1>4, <1>5, <1>6, <1>7, <1>8

LEMMA WorkerType ==
  ASSUME TypeOK,
         \E i \in Ids : Observe(i) \/ History(i) \/ Rebroadcast(i) \/ Rejected(i) \/ FailSpend(i)
  PROVE  TypeOK'
<1> USE DEF TypeOK, ledger, settings, nature, Jobs
<1>0. log \in LogType
  BY DEF LogType
<1>1. ASSUME NEW i \in Ids, Observe(i) PROVE TypeOK'
  <2>1. op' \in [Ids -> OpStates] /\ faults' \in Nat
    BY <1>1 DEF Observe, ObservedState, OpStates, Fail
  <2>2. work' \in Jobs
    BY <1>1 DEF Observe, Onto
  <2> QED BY <1>1, <2>1, <2>2 DEF Observe
<1>2. ASSUME NEW i \in Ids, History(i) PROVE TypeOK'
  <2> DEFINE paid == {j \in Ids : of[j] # None /\ fund[of[j]] = i /\ spendOutstanding(log[j])}
             m == [j \in Ids |-> IF j \in paid THEN [Become(log[j], "approved") EXCEPT !.tx = i] ELSE log[j]]
  <2>1. \A j \in Ids : [Become(log[j], "approved") EXCEPT !.tx = i] \in Entry
    BY <1>0, BecomeType DEF LogType, SpendStates, Entry
  <2>2. m \in LogType
    BY <1>0, <2>1 DEF LogType
  <2>3. Save(m) \/ UNCHANGED <<log, faults>>
    BY <1>2 DEF History
  <2> HIDE DEF m
  <2>4. log' \in LogType /\ faults' \in Nat
    BY <1>0, <2>2, <2>3, SavedType
  <2> QED BY <1>2, <2>4 DEF History, LogType
<1>3. ASSUME NEW i \in Ids, Rebroadcast(i) PROVE TypeOK'
  BY <1>3 DEF Rebroadcast, Broadcast, Fail
<1>4. ASSUME NEW i \in Ids, Rejected(i) PROVE TypeOK'
  <2>1. op' \in [Ids -> OpStates] /\ faults' \in Nat
    BY <1>4 DEF Rejected, AbandonFunding, OpStates, Fail
  <2>2. fund' \in [Deposits -> Ids \cup {None}] /\ preview' \subseteq Ids
    BY <1>4 DEF Rejected, AbandonFunding
  <2> QED BY <1>4, <2>1, <2>2 DEF Rejected
<1>5. ASSUME NEW i \in Ids, FailSpend(i) PROVE TypeOK'
  <2> DEFINE ended == {j \in Ids : /\ of[j] = of[i]
                                   /\ \/ spendOutstanding(log[j])
                                      \/ log[j].state = "approved" /\ log[j].tx = i}
             m == [j \in Ids |-> IF j \in ended THEN Become(log[j], "failed") ELSE log[j]]
  <2>1. \A j \in Ids : Become(log[j], "failed") \in Entry
    BY <1>0, BecomeType DEF LogType, SpendStates
  <2>2. m \in LogType
    BY <1>0, <2>1 DEF LogType
  <2>3. Save(m) \/ UNCHANGED <<log, faults>>
    BY <1>5 DEF FailSpend
  <2> HIDE DEF m
  <2>4. log' \in LogType /\ faults' \in Nat
    BY <1>0, <2>2, <2>3, SavedType
  <2> QED BY <1>5, <2>4 DEF FailSpend, LogType
<1> QED BY <1>1, <1>2, <1>3, <1>4, <1>5

LEMMA AgedType ==
  ASSUME NEW l \in [Ids -> Entry], NEW i \in Ids
  PROVE  [l EXCEPT ![i].old = TRUE] \in [Ids -> Entry]
BY DEF Entry

LEMMA WorldType ==
  ASSUME TypeOK,
         \/ \E i \in Ids : Lapse(i) \/ Age(i) \/ Mine(i) \/ Evict(i)
         \/ \E c \in Coins : TakeCoin(c) \/ Settle(c)
         \/ Crash
  PROVE  TypeOK'
<1> USE DEF TypeOK, ledger, settings, nature
<1>1. ASSUME NEW i \in Ids, Lapse(i) \/ Mine(i) \/ Evict(i) PROVE TypeOK'
  BY <1>1 DEF Lapse, Mine, Evict, Fail
<1>2. ASSUME NEW i \in Ids, Age(i) PROVE TypeOK'
  <2>1. log' \in [Ids -> Entry]
    <3>1. log' = [log EXCEPT ![i].old = TRUE]
      BY <1>2, Zenon DEF Age
    <3>2. log \in [Ids -> Entry]
      BY Zenon
    <3> QED BY <3>1, <3>2, AgedType, Zenon
  <2>2. UNCHANGED <<faults, changes, on, retiring, closed, asked>>
    BY <1>2 DEF Age
  <2>3. UNCHANGED <<of, coin, preview, lapsed, op, fund, coins, chain, phase, work>>
    BY <1>2 DEF Age
  <2> QED BY <2>1, <2>2, <2>3, Zenon
<1>3. ASSUME NEW c \in Coins, TakeCoin(c) \/ Settle(c) PROVE TypeOK'
  BY <1>3 DEF TakeCoin, Settle, Fail
<1>4. ASSUME Crash PROVE TypeOK'
  <2>1. on' \in BOOLEAN /\ retiring' \in BOOLEAN /\ closed' \in BOOLEAN
    BY <1>4, Zenon DEF Crash
  <2>2. changes' \in Nat /\ faults' \in Nat
    BY <1>4 DEF Crash, Fail
  <2>3. phase' \in [Ids -> Phases] /\ asked' \in [Deposits -> Calls] /\ work' \in Jobs
    BY <1>4 DEF Crash, Phases, Calls, Jobs
  <2>4. UNCHANGED <<log, of, coin, preview, lapsed, op, fund, coins, chain>>
    BY <1>4, Zenon DEF Crash
  <2> QED BY <2>1, <2>2, <2>3, <2>4
<1> QED BY <1>1, <1>2, <1>3, <1>4

LEMMA TypeStep == ASSUME TypeOK, [Next]_vars PROVE TypeOK'
<1>1. CASE Game
  BY <1>1, GameType
<1>2. CASE Bridge
  BY <1>2, PersonType, WorkerType, WorldType DEF Bridge
<1>3. CASE UNCHANGED vars
  BY <1>3 DEF vars, TypeOK
<1> QED BY <1>1, <1>2, <1>3 DEF Next

\* Every reachable state of the bridge's books is well typed.
THEOREM TypeCorrect == Spec => []TypeOK
BY InitType, TypeStep, PTL DEF Spec

-----------------------------------------------------------------------------
(* One entry of the log, in one step                                       *)

\* An entry waits, is paid or is ended, in that order; only the ledger's own
\* requests come back.
Moves(e, f, back, end) ==
  \/ f = e
  \/ e.state = "none" /\ back
  \/ e.state = "pending" /\ f.state \in {"expired", "denied", "publishing", "approved"}
  \/ e.state = "publishing" /\ f.state \in {"publishing", "approved"}
  \/ e.state = "approved" /\ f = [e EXCEPT !.old = TRUE]
  \/ e.state \in {"pending", "publishing", "approved"} /\ end /\ f.state = "failed"

\* The worker closes the requests of this one's deposit.
Ends(i) == \E k \in Ids : FailSpend(k) /\ of[i] = of[k]

\* An id that was not issued is nowhere on record.
Issued ==
  \A i \in Ids :
    /\ of[i] = None => /\ op[i] = "none" /\ coin[i] = None /\ i \notin preview
                       /\ phase[i] = "none" /\ log[i].state = "none"
    /\ of[i] # None => coin[i] # None

\* Every step that writes the log writes one whose entries only moved.
Rewrites(m) ==
  /\ \A i \in Ids : Moves(log[i], m[i], i \in preview \cup preview', Ends(i))
  /\ log' = log \/ log' = m \/ writeSpendLog(m)

LEMMA ExpireMoves ==
  ASSUME TypeOK
  PROVE  LET m == expireLocked(log)
         IN  m \in LogType /\ \A i \in Ids : m[i] = log[i] \/ (log[i].state = "pending" /\ m[i].state = "expired")
BY ExpireType DEF TypeOK, LogType

LEMMA CurrentMoves == ASSUME TypeOK PROVE \A i \in Ids : Moves(log[i], Current[i], i \in preview, FALSE)
<1> SUFFICES ASSUME NEW i \in Ids PROVE Moves(log[i], Current[i], i \in preview, FALSE)
  OBVIOUS
<1> DEFINE m == recover(log)
<1>1. log \in LogType
  BY DEF TypeOK, LogType
<1>2. m \in LogType
  BY <1>1, RecoverType
<1>3. m[i] = log[i] \/ (log[i].state = "none" /\ i \in preview)
  BY DEF recover
<1>4. Current = expireLocked(m)
  BY DEF Current
<1> HIDE DEF m
<1>5. Current[i] = m[i] \/ (m[i].state = "pending" /\ Current[i].state = "expired")
  BY <1>2, <1>4, ExpireType
<1> QED BY <1>3, <1>5 DEF Moves

LEMMA SaveRewrites ==
  ASSUME NEW m, Save(m), \A i \in Ids : Moves(log[i], m[i], i \in preview \cup preview', Ends(i))
  PROVE  Rewrites(m)
BY DEF Save, Rewrites

LEMMA KeepRewrites == ASSUME TypeOK, log' = log PROVE \E m \in LogType : Rewrites(m)
<1>1. log \in LogType
  BY DEF TypeOK, LogType
<1>2. Rewrites(log)
  BY DEF Rewrites, Moves
<1> QED BY <1>1, <1>2

LEMMA RepairRewrites == ASSUME TypeOK, Repair PROVE \E m \in LogType : Rewrites(m)
<1>1. Current \in LogType
  BY CurrentType
<1>2. \A i \in Ids : Moves(log[i], Current[i], i \in preview \cup preview', Ends(i))
  BY CurrentMoves DEF Moves
<1>3. Rewrites(Current)
  BY <1>2 DEF Rewrites, Repair
<1> QED BY <1>1, <1>3

\* Calls of the game only repair the log and add the new request to it.
LEMMA GameRewrites == ASSUME TypeOK, Issued, Game PROVE \E m \in LogType : Rewrites(m)
<1>1. CASE UNCHANGED log
  BY <1>1, KeepRewrites
<1>2. CASE Repair
  BY <1>2, RepairRewrites
<1>3. ASSUME NEW d \in Deposits, NEW i \in Ids, RequestNew(d, i) PROVE \E m \in LogType : Rewrites(m)
  <2> DEFINE m == [Current EXCEPT ![i] = Become(NoEntry, "pending")]
  <2>0. Current \in LogType
    BY CurrentType
  <2>1. Become(NoEntry, "pending") \in Entry
    BY BecomeType DEF NoEntry, Entry, SpendStates
  <2>2. m \in LogType
    BY <2>0, <2>1 DEF LogType
  <2>3. i \in preview'
    BY <1>3 DEF RequestNew
  <2>4. \A j \in Ids : Moves(log[j], m[j], j \in preview \cup preview', Ends(j))
    <3> SUFFICES ASSUME NEW j \in Ids PROVE Moves(log[j], m[j], j \in preview \cup preview', Ends(j))
      OBVIOUS
    <3>1. CASE j = i
      <4>1. log[i].state = "none"
        BY <1>3 DEF RequestNew, Issued
      <4> QED BY <3>1, <4>1, <2>3 DEF Moves
    <3>2. CASE j # i
      BY <3>2, <2>0, CurrentMoves DEF Moves, LogType
    <3> QED BY <3>1, <3>2
  <2> QED BY <1>3, <2>2, <2>4, SaveRewrites DEF RequestNew
<1> QED BY <1>1, <1>2, <1>3 DEF Game, Refuse, Ask, RequestAgain, Look

\* A person's answers, the worker's findings and the clock.
LEMMA BridgeRewrites == ASSUME TypeOK, Bridge PROVE \E m \in LogType : Rewrites(m)
<1> DEFINE l == expireLocked(log)
<1>0. log \in LogType
  BY DEF TypeOK, LogType
<1>l. l \in LogType /\ \A i \in Ids : l[i] = log[i] \/ (log[i].state = "pending" /\ l[i].state = "expired")
  BY ExpireMoves
<1>e. l = expireLocked(log)
  OBVIOUS
<1> HIDE DEF l
<1>b. \A i \in Ids : \A s \in SpendStates :
        /\ Become(l[i], s) \in Entry /\ Become(l[i], s).state = s
        /\ Become(log[i], s) \in Entry /\ Become(log[i], s).state = s
  BY <1>0, <1>l, BecomeType DEF LogType
<1>1. CASE UNCHANGED log
  BY <1>1, KeepRewrites
<1>2. ASSUME NEW i \in Ids, DenyGamingSpend(i) PROVE \E m \in LogType : Rewrites(m)
  <2> DEFINE m == [l EXCEPT ![i] = Become(l[i], "denied")]
  <2>1. m \in LogType
    BY <1>l, <1>b DEF LogType, SpendStates
  <2>2. l[i].state = "pending"
    BY <1>2, <1>e DEF DenyGamingSpend, Waiting
  <2>3. \A j \in Ids : Moves(log[j], m[j], j \in preview \cup preview', Ends(j))
    BY <1>l, <1>b, <2>2 DEF Moves, LogType, SpendStates
  <2>4. Save(m)
    BY <1>2, <1>e DEF DenyGamingSpend
  <2> HIDE DEF m
  <2> QED BY <2>1, <2>3, <2>4, SaveRewrites
<1>3. ASSUME NEW i \in Ids, markSpendPublishing(i) PROVE \E m \in LogType : Rewrites(m)
  <2>1. CASE l[i].state = "pending"
    <3> DEFINE m == [l EXCEPT ![i] = Become(l[i], "publishing")]
    <3>1. m \in LogType
      BY <1>l, <1>b DEF LogType, SpendStates
    <3>3. \A j \in Ids : Moves(log[j], m[j], j \in preview \cup preview', Ends(j))
      BY <1>l, <1>b, <2>1 DEF Moves, LogType, SpendStates
    <3>4. Save(m)
      BY <1>3, <1>e, <2>1 DEF markSpendPublishing
    <3> HIDE DEF m
    <3> QED BY <3>1, <3>3, <3>4, SaveRewrites
  <2>2. CASE l[i].state # "pending"
    <3>1. UNCHANGED log \/ Save(l)
      BY <1>3, <1>e, <2>2 DEF markSpendPublishing
    <3>2. \A j \in Ids : Moves(log[j], l[j], j \in preview \cup preview', Ends(j))
      BY <1>l DEF Moves
    <3> QED BY <1>1, <1>l, <3>1, <3>2, SaveRewrites
  <2> QED BY <2>1, <2>2
<1>4. ASSUME NEW i \in Ids, Record(i) PROVE \E m \in LogType : Rewrites(m)
  <2> DEFINE m == [log EXCEPT ![i] = Outcome(i)]
  <2>1. CASE log[i].state = "publishing"
    <3>1. Outcome(i) \in Entry /\ Outcome(i).state \in {"publishing", "approved"}
      <4> DEFINE s == IF phase[i] = "sent" THEN "approved" ELSE "publishing"
      <4>1. s \in {"publishing", "approved"} /\ s \in SpendStates
        BY DEF SpendStates
      <4> HIDE DEF s
      <4>2. Become(log[i], s) \in Entry /\ Become(log[i], s).state = s
        BY <1>b, <4>1
      <4>3. Outcome(i) = [Become(log[i], s) EXCEPT !.tx = i]
        BY DEF Outcome, s
      <4> QED BY <4>1, <4>2, <4>3, PaidType
    <3>2. m \in LogType
      BY <1>0, <3>1 DEF LogType
    <3>3. \A j \in Ids : Moves(log[j], m[j], j \in preview \cup preview', Ends(j))
      BY <1>0, <2>1, <3>1 DEF Moves, LogType
    <3>4. Save(m)
      BY <1>4, <2>1 DEF Record
    <3> HIDE DEF m
    <3> QED BY <3>2, <3>3, <3>4, SaveRewrites
  <2>2. CASE log[i].state # "publishing"
    BY <1>1, <1>4, <2>2 DEF Record
  <2> QED BY <2>1, <2>2
<1>5. ASSUME invalidatePendingSpends PROVE \E m \in LogType : Rewrites(m)
  <2> DEFINE m == [i \in Ids |-> IF l[i].state = "pending" THEN Become(l[i], "expired") ELSE l[i]]
  <2>1. m \in LogType
    BY <1>l, <1>b DEF LogType, SpendStates
  <2>2. \A j \in Ids : Moves(log[j], m[j], j \in preview \cup preview', Ends(j))
    BY <1>l, <1>b DEF Moves, LogType, SpendStates
  <2>3. UNCHANGED log \/ Save(m)
    BY <1>5, <1>e DEF invalidatePendingSpends
  <2> HIDE DEF m
  <2> QED BY <1>1, <2>1, <2>2, <2>3, SaveRewrites
<1>6. ASSUME NEW i \in Ids, History(i) PROVE \E m \in LogType : Rewrites(m)
  <2> DEFINE paid == {j \in Ids : of[j] # None /\ fund[of[j]] = i /\ spendOutstanding(log[j])}
             m == [j \in Ids |-> IF j \in paid THEN [Become(log[j], "approved") EXCEPT !.tx = i] ELSE log[j]]
  <2>1. \A j \in Ids : /\ [Become(log[j], "approved") EXCEPT !.tx = i] \in Entry
                        /\ [Become(log[j], "approved") EXCEPT !.tx = i].state = "approved"
    <3> SUFFICES ASSUME NEW j \in Ids
                 PROVE  /\ [Become(log[j], "approved") EXCEPT !.tx = i] \in Entry
                        /\ [Become(log[j], "approved") EXCEPT !.tx = i].state = "approved"
      OBVIOUS
    <3>1. "approved" \in SpendStates
      BY DEF SpendStates
    <3>2. Become(log[j], "approved") \in Entry /\ Become(log[j], "approved").state = "approved"
      BY <1>b, <3>1
    <3> QED BY <3>2, PaidType
  <2>2. m \in LogType
    BY <1>0, <2>1 DEF LogType
  <2>3. \A j \in Ids : Moves(log[j], m[j], j \in preview \cup preview', Ends(j))
    BY <1>0, <2>1 DEF Moves, LogType, spendOutstanding
  <2>4. UNCHANGED log \/ Save(m)
    BY <1>6 DEF History
  <2> HIDE DEF m
  <2> QED BY <1>1, <2>2, <2>3, <2>4, SaveRewrites
<1>7. ASSUME NEW i \in Ids, FailSpend(i) PROVE \E m \in LogType : Rewrites(m)
  <2> DEFINE ended == {j \in Ids : /\ of[j] = of[i]
                                   /\ \/ spendOutstanding(log[j])
                                      \/ log[j].state = "approved" /\ log[j].tx = i}
             m == [j \in Ids |-> IF j \in ended THEN Become(log[j], "failed") ELSE log[j]]
  <2>1. m \in LogType
    BY <1>0, <1>b DEF LogType, SpendStates
  <2>a. \A j \in ended : Ends(j)
    BY <1>7 DEF Ends
  <2>2. \A j \in Ids : Moves(log[j], m[j], j \in preview \cup preview', Ends(j))
    BY <1>0, <1>b, <2>a DEF Moves, LogType, spendOutstanding, SpendStates
  <2>3. UNCHANGED log \/ Save(m)
    BY <1>7 DEF FailSpend
  <2> HIDE DEF m
  <2> QED BY <1>1, <2>1, <2>2, <2>3, SaveRewrites
<1>8. ASSUME NEW i \in Ids, Age(i) PROVE \E m \in LogType : Rewrites(m)
  <2> DEFINE m == [log EXCEPT ![i].old = TRUE]
  <2>1. m \in LogType
    BY <1>0 DEF LogType, Entry
  <2>2. \A j \in Ids : Moves(log[j], m[j], j \in preview \cup preview', Ends(j))
    BY <1>0, <1>8 DEF Moves, LogType, Age, Entry
  <2>3. log' = m
    BY <1>8 DEF Age
  <2> HIDE DEF m
  <2> QED BY <2>1, <2>2, <2>3 DEF Rewrites
<1> QED BY <1>1, <1>2, <1>3, <1>4, <1>5, <1>6, <1>7, <1>8
      DEF Bridge, Approve, Sign, Mistype, CommitFunding, Publish, Observe, Rebroadcast, Rejected, Lapse, Mine,
          Evict, TakeCoin, Settle, SwitchOff, SwitchOn, RevokeGamingCredential, CloseTable, Crash

LEMMA LogStep == ASSUME TypeOK, Issued, [Next]_vars PROVE \E m \in LogType : Rewrites(m)
<1>1. CASE Next
  BY <1>1, GameRewrites, BridgeRewrites DEF Next
<1>2. CASE UNCHANGED vars
  BY <1>2, KeepRewrites DEF vars
<1> QED BY <1>1, <1>2

-----------------------------------------------------------------------------
(* The ledger and the chain                                                *)

\* A deposit is charged with the one operation that is live for it.
Due ==
  /\ \A i \in Ids : LiveOp(i) => of[i] # None /\ fund[of[i]] = i
  /\ \A d \in Deposits : fund[d] # None => of[fund[d]] = d /\ LiveOp(fund[d])

\* What was given up can never confirm, nor be approved again.
GivenUp == \A i \in Ids : op[i] = "abandoned" => coins[coin[i]] = "gone" /\ i \notin preview

\* The node has only what the ledger holds.
OnChain == \A i \in Ids : chain[i] # "none" => LiveOp(i) /\ coins[coin[i]] = "free"

\* What is about to be broadcast is on record.
OnRecord ==
  /\ \A i \in Ids : phase[i] \in {"committed", "sent", "unsure"} => op[i] # "none"
  /\ work.at = "broadcast" => LiveOp(work.id)

LedgerInv == Issued /\ Due /\ GivenUp /\ OnChain /\ OnRecord /\ InputsOnce

LEMMA InitLedger == ASSUME Init PROVE LedgerInv
BY IdsAssumption DEF Init, LedgerInv, Issued, Due, GivenUp, OnChain, OnRecord, InputsOnce, LiveOp, Idle, NoEntry

\* A step that leaves the ledger's and the chain's books alone.
Quiet == UNCHANGED <<of, coin, preview, op, fund, coins, chain>>

LEMMA QuietStep ==
  ASSUME LedgerInv, Quiet PROVE Due' /\ GivenUp' /\ OnChain' /\ InputsOnce'
BY DEF LedgerInv, Quiet, Due, GivenUp, OnChain, InputsOnce, LiveOp

\* The id of a request that waits was issued, and no approval of it runs.
LEMMA WaitingIssued == ASSUME TypeOK, Issued, NEW i \in Ids, Waiting(i) PROVE of[i] # None
<1>1. log[i].state = "pending"
  BY ExpireMoves DEF Waiting
<1> QED BY <1>1 DEF Issued

\* Unissued ids stay off the log, whatever is repaired or trimmed.
LEMMA LogIssued ==
  ASSUME TypeOK, Issued, [Next]_vars, NEW i \in Ids, of[i] = None, i \notin preview'
  PROVE  log'[i].state = "none"
<1>1. PICK m \in LogType : Rewrites(m)
  BY LogStep
<1>2. log[i].state = "none" /\ i \notin preview
  BY DEF Issued
<1>3. m[i].state = "none"
  BY <1>1, <1>2 DEF Rewrites, Moves
<1>4. log'[i] \in {log[i], m[i], NoEntry}
  BY <1>1, Written DEF Rewrites
<1> QED BY <1>2, <1>3, <1>4 DEF NoEntry

\* Issued but for the log.
Books(i) ==
  /\ of[i] = None => op[i] = "none" /\ coin[i] = None /\ i \notin preview /\ phase[i] = "none"
  /\ of[i] # None => coin[i] # None

LEMMA BooksStep == ASSUME TypeOK, LedgerInv, Next PROVE \A i \in Ids : Books(i)' /\ (of'[i] = None => of[i] = None)
<1> USE DEF Books, ledger, settings, nature
<1>0. \A i \in Ids : Books(i)
  BY DEF LedgerInv, Issued
<1>1. ASSUME UNCHANGED <<of, coin, op, preview, phase>>
      PROVE  \A i \in Ids : Books(i)' /\ (of'[i] = None => of[i] = None)
  BY <1>0, <1>1
<1>2. ASSUME NEW d \in Deposits, NEW i \in Ids, RequestNew(d, i)
      PROVE  \A j \in Ids : Books(j)' /\ (of'[j] = None => of[j] = None)
  <2>1. asked[d].coin \in Coins
    BY <1>2 DEF RequestNew, Answered, TypeOK, Calls, NoCall
  <2>2. /\ of' = [of EXCEPT ![i] = d] /\ coin' = [coin EXCEPT ![i] = asked[d].coin]
        /\ preview' = preview \cup {i} /\ op' = op /\ phase' = phase
    BY <1>2 DEF RequestNew
  <2> QED BY <1>0, <2>1, <2>2, IdsAssumption DEF TypeOK
<1>3. ASSUME NEW i \in Ids, Approve(i)
      PROVE  \A j \in Ids : Books(j)' /\ (of'[j] = None => of[j] = None)
  BY <1>0, <1>3, WaitingIssued DEF Approve, TypeOK, LedgerInv
<1>4. ASSUME NEW i \in Ids, phase[i] # "none", UNCHANGED <<of, coin, preview>>,
             op' = op \/ op' = [op EXCEPT ![i] = "publishing"], NEW s, phase' = [phase EXCEPT ![i] = s]
      PROVE  \A j \in Ids : Books(j)' /\ (of'[j] = None => of[j] = None)
  BY <1>0, <1>4 DEF TypeOK
<1>5. ASSUME NEW i \in Ids, op[i] # "none", UNCHANGED <<of, coin, phase>>, preview' \subseteq preview,
             NEW s, op' = op \/ op' = [op EXCEPT ![i] = s]
      PROVE  \A j \in Ids : Books(j)' /\ (of'[j] = None => of[j] = None)
  BY <1>0, <1>5 DEF TypeOK
<1>6. ASSUME NEW i \in Ids, CommitFunding(i)
      PROVE  \A j \in Ids : Books(j)' /\ (of'[j] = None => of[j] = None)
  BY <1>4, <1>6 DEF CommitFunding
<1>7. ASSUME NEW i \in Ids, Observe(i)
      PROVE  \A j \in Ids : Books(j)' /\ (of'[j] = None => of[j] = None)
  BY <1>5, <1>7 DEF Observe, LiveOp
<1>8. ASSUME NEW i \in Ids, Rejected(i)
      PROVE  \A j \in Ids : Books(j)' /\ (of'[j] = None => of[j] = None)
  <2>1. op[i] # "none"
    BY <1>8 DEF Rejected, LedgerInv, OnRecord, LiveOp
  <2> QED BY <1>5, <1>8, <2>1 DEF Rejected, AbandonFunding
<1>9. ASSUME Crash
      PROVE  \A j \in Ids : Books(j)' /\ (of'[j] = None => of[j] = None)
  BY <1>0, <1>9 DEF Crash
<1>10. ASSUME NEW i \in Ids, Sign(i) \/ Mistype(i) \/ markSpendPublishing(i) \/ Publish(i) \/ Record(i)
      PROVE  \A j \in Ids : Books(j)' /\ (of'[j] = None => of[j] = None)
  <2>1. phase[i] # "none" /\ UNCHANGED <<of, coin, preview, op>>
    BY <1>10 DEF Sign, Mistype, markSpendPublishing, Publish, Record
  <2>2. \E s : phase' = [phase EXCEPT ![i] = s]
    BY <1>10 DEF Sign, Mistype, markSpendPublishing, Publish, Record
  <2> QED BY <1>4, <2>1, <2>2
<1> QED BY <1>1, <1>2, <1>3, <1>6, <1>7, <1>8, <1>9, <1>10
      DEF Next, Game, Bridge, Refuse, Ask, RequestAgain, Look, DenyGamingSpend, SwitchOff, SwitchOn,
          RevokeGamingCredential, invalidatePendingSpends, CloseTable, History, Rebroadcast, FailSpend, Lapse, Age,
          Mine, Evict, TakeCoin, Settle

LEMMA IssuedStep == ASSUME TypeOK, LedgerInv, [Next]_vars PROVE Issued'
<1>1. CASE Next
  <2> SUFFICES ASSUME NEW i \in Ids
               PROVE  /\ of'[i] = None => /\ op'[i] = "none" /\ coin'[i] = None /\ i \notin preview'
                                          /\ phase'[i] = "none" /\ log'[i].state = "none"
                      /\ of'[i] # None => coin'[i] # None
    BY DEF Issued
  <2>1. Books(i)' /\ (of'[i] = None => of[i] = None)
    BY <1>1, BooksStep
  <2>2. CASE of'[i] # None
    BY <2>1, <2>2 DEF Books
  <2>3. CASE of'[i] = None
    BY <2>1, <2>3, LogIssued DEF Books, LedgerInv
  <2> QED BY <2>2, <2>3
<1>2. CASE UNCHANGED vars
  BY <1>2 DEF vars, LedgerInv, Issued
<1> QED BY <1>1, <1>2

\* What the parts of LedgerInv beside Issued become.
Rest == Due /\ GivenUp /\ OnChain /\ OnRecord /\ InputsOnce

\* OnRecord survives a step that keeps the operations, starts no broadcast and
\* moves no approval past the ledger.
LEMMA RecordStep ==
  ASSUME LedgerInv, op' = op, work' = work \/ work'.at # "broadcast",
         \A i \in Ids : phase'[i] \in {"committed", "sent", "unsure"} =>
                          phase[i] \in {"committed", "sent", "unsure"}
  PROVE  OnRecord'
BY DEF LedgerInv, OnRecord, LiveOp

\* A new request pays nothing yet.
LEMMA RequestLedger ==
  ASSUME TypeOK, LedgerInv, NEW d \in Deposits, NEW i \in Ids, RequestNew(d, i)
  PROVE  Rest'
<1>1. /\ of[i] = None /\ of' = [of EXCEPT ![i] = d]
      /\ coin' = [coin EXCEPT ![i] = asked[d].coin] /\ preview' = preview \cup {i}
      /\ UNCHANGED <<op, fund, coins, chain, phase, work>>
  BY DEF RequestNew, nature
<1>2. op[i] = "none"
  BY <1>1 DEF LedgerInv, Issued
<1>3. \A j \in Ids : LiveOp(j) => j # i
  BY <1>2 DEF LiveOp
<1>4. OnRecord'
  BY <1>1, RecordStep
<1>5. Due'
  <2>1. \A j \in Ids : LiveOp(j)' <=> LiveOp(j)
    BY <1>1 DEF LiveOp
  <2>2. \A e \in Deposits : fund[e] # i
    BY <1>3, IdsAssumption DEF LedgerInv, Due
  <2> QED BY <1>1, <1>3, <2>1, <2>2 DEF LedgerInv, Due, TypeOK
<1>6. GivenUp' /\ OnChain' /\ InputsOnce'
  BY <1>1, <1>2, <1>3 DEF LedgerInv, GivenUp, OnChain, InputsOnce, LiveOp, TypeOK
<1> QED BY <1>4, <1>5, <1>6 DEF Rest

\* The ledger takes the payment of an uncharged deposit, with a coin of its own.
LEMMA CommitLedger ==
  ASSUME TypeOK, LedgerInv, NEW i \in Ids, CommitFunding(i)
  PROVE  Rest'
<1> USE DEF Phases, nature
<1>1. /\ UNCHANGED <<of, coin, preview, coins, chain, work>>
      /\ phase' = [phase EXCEPT ![i] = IF Commits(i) /\ Saved THEN "committed" ELSE "none"]
  BY DEF CommitFunding
<1>2. CASE Commits(i) /\ op' = [op EXCEPT ![i] = "publishing"] /\ fund' = [fund EXCEPT ![of[i]] = i]
  <2>1. of[i] \in Deposits /\ fund[of[i]] = None /\ i \in preview /\ InputFree(i, coin[i])
    BY <1>2 DEF Commits, Fundable, LedgerInv, Issued, TypeOK
  <2>2. \A j \in Ids : LiveOp(j)' <=> (j = i \/ LiveOp(j))
    BY <1>2 DEF LiveOp, TypeOK
  <2>3. Due'
    BY <1>1, <1>2, <2>1, <2>2, IdsAssumption DEF LedgerInv, Due, TypeOK
  <2>4. GivenUp'
    BY <1>1, <1>2 DEF LedgerInv, GivenUp, TypeOK
  <2>5. OnChain'
    BY <1>1, <2>2 DEF LedgerInv, OnChain
  <2>6. OnRecord'
    <3>1. work.at = "broadcast" => work.id \in Ids
      BY DEF TypeOK, Jobs, Idle
    <3>2. work'.at = "broadcast" => LiveOp(work.id)'
      BY <1>1, <2>2, <3>1 DEF LedgerInv, OnRecord
    <3>3. \A j \in Ids : phase'[j] \in {"committed", "sent", "unsure"} => op'[j] # "none"
      BY <1>1, <1>2 DEF LedgerInv, OnRecord, TypeOK
    <3> QED BY <1>1, <3>2, <3>3 DEF OnRecord, LiveOp
  <2>7. InputsOnce'
    BY <1>1, <2>1, <2>2 DEF LedgerInv, InputsOnce, InputFree
  <2> QED BY <2>3, <2>4, <2>5, <2>6, <2>7 DEF Rest
<1>3. CASE UNCHANGED <<op, fund>> /\ ~(Commits(i) /\ Saved)
  <2>1. Quiet
    BY <1>1, <1>3 DEF Quiet
  <2>2. OnRecord'
    BY <1>1, <1>3, RecordStep DEF TypeOK
  <2> QED BY <2>1, <2>2, QuietStep DEF Rest
<1>4. ~(UNCHANGED <<op, fund>> /\ Commits(i) /\ Saved) \/ op[i] = "publishing"
  BY DEF CommitFunding, Fail, Saved, TypeOK
<1> QED BY <1>1, <1>2, <1>3, <1>4 DEF CommitFunding, Fail, Saved, TypeOK

\* A look at the node changes no operation's standing.
LEMMA ObserveLedger ==
  ASSUME TypeOK, LedgerInv, NEW i \in Ids, Observe(i)
  PROVE  Rest'
<1>1. UNCHANGED <<of, coin, preview, fund, coins, chain, phase>>
  BY DEF Observe, nature
<1>2. op' = op \/ op' = [op EXCEPT ![i] = ObservedState(i)]
  BY DEF Observe
<1>3. ObservedState(i) \in {"publishing", "mempool", "confirmed"}
  BY DEF ObservedState
<1>4. LiveOp(i)
  BY DEF Observe
<1>5. \A j \in Ids : (LiveOp(j)' <=> LiveOp(j)) /\ (op'[j] = "none" <=> op[j] = "none")
                     /\ (op'[j] = "abandoned" <=> op[j] = "abandoned")
  BY <1>2, <1>3, <1>4 DEF LiveOp, TypeOK
<1>6. Due' /\ GivenUp' /\ OnChain' /\ InputsOnce'
  BY <1>1, <1>5 DEF LedgerInv, Due, GivenUp, OnChain, InputsOnce, TypeOK
<1>7. work'.at = "broadcast" => work'.id = i
  BY DEF Observe, Onto, Idle
<1>8. OnRecord'
  BY <1>1, <1>4, <1>5, <1>7 DEF LedgerInv, OnRecord, TypeOK
<1> QED BY <1>6, <1>8 DEF Rest

\* An operation is given up when its coin is gone, and its previews with it.
LEMMA RejectLedger ==
  ASSUME TypeOK, LedgerInv, NEW i \in Ids, Rejected(i)
  PROVE  Rest'
<1>1. UNCHANGED <<of, coin, coins, chain, phase>> /\ work'.at # "broadcast" /\ chain[i] = "none"
  BY DEF Rejected, nature, Idle
<1>2. LiveOp(i)
  BY DEF Rejected, LedgerInv, OnRecord
<1>3. CASE Dead(i) /\ AbandonFunding(i)
  <2>1. \A j \in Ids : LiveOp(j)' <=> (j # i /\ LiveOp(j))
    BY <1>3 DEF AbandonFunding, LiveOp, TypeOK
  <2>2. \A j \in Ids : op'[j] = IF j = i THEN "abandoned" ELSE op[j]
    BY <1>3 DEF AbandonFunding, TypeOK
  <2>3. \A d \in Deposits : fund'[d] = IF fund[d] = i THEN None ELSE fund[d]
    BY <1>3 DEF AbandonFunding
  <2>4. Due'
    BY <1>1, <1>2, <2>1, <2>3, IdsAssumption DEF LedgerInv, Due, TypeOK
  <2>5. GivenUp'
    <3>1. i \notin preview' /\ preview' \subseteq preview
      BY <1>2, <1>3 DEF AbandonFunding, LedgerInv, Due
    <3> QED BY <1>1, <1>3, <2>2, <3>1 DEF LedgerInv, GivenUp, Dead
  <2>6. OnChain' /\ InputsOnce'
    BY <1>1, <2>1 DEF LedgerInv, OnChain, InputsOnce
  <2>7. OnRecord'
    BY <1>1, <2>2 DEF LedgerInv, OnRecord
  <2> QED BY <2>4, <2>5, <2>6, <2>7 DEF Rest
<1>4. CASE UNCHANGED <<op, fund, preview>>
  <2>1. Quiet
    BY <1>1, <1>4 DEF Quiet
  <2>2. OnRecord'
    BY <1>1, <1>4, RecordStep
  <2> QED BY <2>1, <2>2, QuietStep DEF Rest
<1> QED BY <1>3, <1>4 DEF Rejected

\* The node takes only a transaction whose coin is free, and such an operation is
\* live.
LEMMA SendLedger ==
  ASSUME TypeOK, LedgerInv, NEW i \in Ids, Publish(i) \/ Rebroadcast(i)
  PROVE  Rest'
<1>1. UNCHANGED <<of, coin, preview, op, fund, coins>>
  BY DEF Publish, Rebroadcast, ledger
<1>2. Broadcast(i) \/ UNCHANGED chain
  BY DEF Publish, Rebroadcast
<1>3. coins[coin[i]] = "free" => LiveOp(i)
  <2>1. op[i] # "none"
    BY DEF Publish, Rebroadcast, LedgerInv, OnRecord, LiveOp
  <2> QED BY <2>1 DEF LedgerInv, GivenUp, LiveOp, TypeOK, OpStates
<1>4. OnChain'
  BY <1>1, <1>2, <1>3 DEF LedgerInv, OnChain, Broadcast, LiveOp, TypeOK
<1>5. Due' /\ GivenUp' /\ InputsOnce'
  BY <1>1 DEF LedgerInv, Due, GivenUp, InputsOnce, LiveOp
<1>6. work' = work \/ work'.at # "broadcast"
  BY DEF Publish, Rebroadcast, Idle
<1>7. \A j \in Ids : phase'[j] \in {"committed", "sent", "unsure"} => phase[j] \in {"committed", "sent", "unsure"}
  BY DEF Publish, Rebroadcast, TypeOK, Phases
<1>8. OnRecord'
  BY <1>1, <1>6, <1>7, RecordStep
<1> QED BY <1>4, <1>5, <1>8 DEF Rest

\* Blocks, reorganisations and other spenders of the wallet.
LEMMA ChainLedger ==
  ASSUME TypeOK, LedgerInv,
         \/ \E i \in Ids : Mine(i) \/ Evict(i)
         \/ \E c \in Coins : TakeCoin(c) \/ Settle(c)
  PROVE  Rest'
<1>1. UNCHANGED <<of, coin, preview, op, fund, phase, work>>
  BY DEF Mine, Evict, TakeCoin, Settle, ledger
<1>2. OnRecord'
  BY <1>1, RecordStep
<1>3. Due' /\ InputsOnce'
  BY <1>1 DEF LedgerInv, Due, InputsOnce, LiveOp
<1>4. ASSUME NEW i \in Ids, Mine(i) \/ Evict(i) PROVE GivenUp' /\ OnChain'
  BY <1>1, <1>4 DEF LedgerInv, GivenUp, OnChain, LiveOp, Mine, Evict, TypeOK
<1>5. ASSUME NEW c \in Coins, TakeCoin(c) PROVE GivenUp' /\ OnChain'
  <2>1. \A i \in Ids : op[i] = "abandoned" => coin[i] \in Coins
    BY DEF LedgerInv, Issued, TypeOK
  <2>2. \A i \in Ids : LiveOp(i) => coin[i] \in Coins
    BY DEF LedgerInv, Issued, TypeOK, LiveOp
  <2> QED BY <1>1, <1>5, <2>1, <2>2 DEF LedgerInv, GivenUp, OnChain, LiveOp, TakeCoin, TypeOK
<1>6. ASSUME NEW c \in Coins, Settle(c) PROVE GivenUp' /\ OnChain'
  <2>1. \A i \in Ids : op[i] = "abandoned" => coin[i] \in Coins
    BY DEF LedgerInv, Issued, TypeOK
  <2>2. \A i \in Ids : LiveOp(i) => coin[i] \in Coins
    BY DEF LedgerInv, Issued, TypeOK, LiveOp
  <2> QED BY <1>1, <1>6, <2>1, <2>2 DEF LedgerInv, GivenUp, OnChain, LiveOp, Settle, TypeOK
<1> QED BY <1>2, <1>3, <1>4, <1>5, <1>6 DEF Rest

\* All other steps leave the ledger and the chain alone.
LEMMA OtherLedger ==
  ASSUME TypeOK, LedgerInv,
         \/ \E d \in Deposits : Refuse(d) \/ (\E c \in Coins : Ask(d, c)) \/ \E i \in Ids : RequestAgain(d, i)
         \/ Look
         \/ \E i \in Ids :
              \/ DenyGamingSpend(i) \/ Approve(i) \/ Sign(i) \/ Mistype(i) \/ markSpendPublishing(i) \/ Record(i)
              \/ History(i) \/ FailSpend(i) \/ Lapse(i) \/ Age(i)
         \/ SwitchOff \/ SwitchOn \/ RevokeGamingCredential \/ invalidatePendingSpends \/ CloseTable \/ Crash
         \/ UNCHANGED vars
  PROVE  Rest'
<1> USE DEF Refuse, Ask, RequestAgain, Look, DenyGamingSpend, Approve, Sign, Mistype, markSpendPublishing, Record,
            History, FailSpend, Lapse, Age, SwitchOff, SwitchOn, RevokeGamingCredential, invalidatePendingSpends,
            CloseTable, Crash, vars, ledger, nature
<1>1. Quiet
  BY DEF Quiet
<1>a. work' = work \/ work' = Idle
  OBVIOUS
<1>2. work' = work \/ work'.at # "broadcast"
  BY <1>a DEF Idle
<1>3. \A j \in Ids : phase'[j] \in {"committed", "sent", "unsure"} => phase[j] \in {"committed", "sent", "unsure"}
  <2> DEFINE early == {"none", "approving", "signed", "marked"}
  <2> SUFFICES ASSUME NEW j \in Ids PROVE phase'[j] = phase[j] \/ phase'[j] \in early
    OBVIOUS
  <2>1. phase \in [Ids -> Phases]
    BY Zenon DEF TypeOK
  <2>2. ASSUME NEW i \in Ids, Approve(i) \/ Sign(i) \/ Mistype(i) \/ markSpendPublishing(i) \/ Record(i)
        PROVE  \E s \in early : phase' = [phase EXCEPT ![i] = s]
    BY <2>2
  <2>3. ASSUME NEW i \in Ids, \E s \in early : phase' = [phase EXCEPT ![i] = s]
        PROVE  phase'[j] = phase[j] \/ phase'[j] \in early
    BY <2>1, <2>3
  <2>4. CASE Crash
    BY <2>4
  <2>5. CASE UNCHANGED phase
    BY <2>5
  <2>6. \/ Crash \/ UNCHANGED phase
        \/ \E i \in Ids : Approve(i) \/ Sign(i) \/ Mistype(i) \/ markSpendPublishing(i) \/ Record(i)
    OBVIOUS
  <2> QED BY <2>2, <2>3, <2>4, <2>5, <2>6, Zenon
<1> QED BY <1>1, <1>2, <1>3, QuietStep, RecordStep DEF Rest, Quiet

LEMMA LedgerStep == ASSUME TypeOK, LedgerInv, [Next]_vars PROVE LedgerInv'
<1>1. Rest'
  BY RequestLedger, CommitLedger, ObserveLedger, RejectLedger, SendLedger, ChainLedger, OtherLedger
    DEF Next, Game, Bridge
<1> QED BY <1>1, IssuedStep DEF LedgerInv, Rest

\* The ledger and the chain agree in every reachable state.
THEOREM LedgerSound == Spec => []LedgerInv
BY InitType, TypeStep, InitLedger, LedgerStep, PTL DEF Spec

\* At most one transaction can pay a deposit (CommitFunding, AbandonFunding),
\* whatever is lost, retried, spent elsewhere or reorganised.
THEOREM NoSecondCharge == Spec => []NeverTwice
<1>1. TypeOK /\ LedgerInv => NeverTwice
  BY DEF TypeOK, LedgerInv, Issued, Due, GivenUp, OnChain, NeverTwice, Payable, LiveOp, OpStates
<1> QED BY <1>1, TypeCorrect, LedgerSound, PTL

\* No coin of the wallet is committed to two operations (reservePreview,
\* CommitFunding).
THEOREM CoinsOnce == Spec => []InputsOnce
<1>1. LedgerInv => InputsOnce
  BY DEF LedgerInv
<1> QED BY <1>1, LedgerSound, PTL

-----------------------------------------------------------------------------
(* The log, while it is not full                                           *)

\* There is room in the log for every request ever made.
RoomForAll == Cardinality(Ids) <= MaxLog

LEMMA Untrimmed ==
  ASSUME RoomForAll, NEW l \in LogType, writeSpendLog(l)
  PROVE  log' = l
<1>1. PICK D \in SUBSET Droppable(l) :
        /\ Cardinality(D) = Min({Excess(l), Cardinality(Droppable(l))})
        /\ log' = [i \in Ids |-> IF i \in D THEN NoEntry ELSE l[i]]
  BY DEF writeSpendLog
<1>2. IsFiniteSet(Ids) /\ Cardinality(Ids) \in Nat /\ MaxLog \in Nat
  BY IdsAssumption, CapsAssumption, FS_CardinalityType
<1>3. Known(l) \subseteq Ids /\ Droppable(l) \subseteq Ids
  BY DEF Known, Droppable
<1>4. /\ Cardinality(Known(l)) \in Nat /\ Cardinality(Known(l)) <= Cardinality(Ids)
      /\ Cardinality(Droppable(l)) \in Nat
  BY <1>2, <1>3, FS_Subset, FS_CardinalityType
<1>5. Excess(l) = 0
  BY <1>2, <1>4 DEF Excess, Max, RoomForAll
<1>6. Min({Excess(l), Cardinality(Droppable(l))}) = 0
  BY <1>4, <1>5 DEF Min
<1>7. IsFiniteSet(D)
  BY <1>2, <1>3, FS_Subset
<1>8. D = {}
  BY <1>1, <1>6, <1>7, FS_EmptySet
<1> QED BY <1>1, <1>8 DEF LogType

\* In a step, each entry moves.
LEMMA EntryMoves ==
  ASSUME RoomForAll, TypeOK, Issued, [Next]_vars, NEW i \in Ids
  PROVE  Moves(log[i], log'[i], i \in preview \cup preview', Ends(i))
<1>1. PICK m \in LogType : Rewrites(m)
  BY LogStep
<1>2. log' = log \/ log' = m
  BY <1>1, Untrimmed DEF Rewrites
<1> QED BY <1>1, <1>2 DEF Rewrites, Moves

Paying(i) == op[i] # "none" \/ phase[i] \in {"marked", "committed", "sent", "unsure"}

\* What is paid, or about to be, is past a person's answer.
PayingShown == \A i \in Ids : Paying(i) => log[i].state \in {"publishing", "approved", "failed"}

\* Payment begins with the mark in the log.
LEMMA PayingBegins ==
  ASSUME RoomForAll, TypeOK, LedgerInv, [Next]_vars, NEW i \in Ids, Paying(i)', ~Paying(i)
  PROVE  log'[i].state = "publishing"
<1> USE DEF Paying
<1>1. markSpendPublishing(i) /\ phase'[i] = "marked"
  <2>1. CASE UNCHANGED <<op, phase>>
    BY <2>1
  <2>2. ASSUME NEW j \in Ids, CommitFunding(j) PROVE FALSE
    <3>1. \A k \in Ids \ {j} : op'[k] = op[k] /\ phase'[k] = phase[k]
      BY <2>2 DEF CommitFunding, TypeOK
    <3>2. phase[j] = "marked"
      BY <2>2 DEF CommitFunding
    <3> QED BY <3>1, <3>2
  <2>3. ASSUME NEW j \in Ids, Observe(j) \/ Rejected(j) PROVE FALSE
    <3>1. op[j] # "none"
      BY <2>3 DEF Observe, Rejected, LedgerInv, OnRecord, LiveOp
    <3>2. \A k \in Ids \ {j} : op'[k] = op[k]
      BY <2>3 DEF Observe, Rejected, AbandonFunding, TypeOK
    <3>3. phase' = phase
      BY <2>3 DEF Observe, Rejected
    <3> QED BY <3>1, <3>2, <3>3
  <2>4. ASSUME NEW j \in Ids, Approve(j) \/ Sign(j) \/ Mistype(j) \/ Publish(j) \/ Record(j) PROVE FALSE
    <3>1. \A k \in Ids : phase'[k] \in {"marked", "committed", "sent", "unsure"} =>
                           phase[k] \in {"marked", "committed", "sent", "unsure"}
      BY <2>4 DEF Approve, Sign, Mistype, Publish, Record, TypeOK, Phases
    <3>2. op' = op
      BY <2>4 DEF Approve, Sign, Mistype, Publish, Record, ledger
    <3> QED BY <3>1, <3>2
  <2>5. ASSUME NEW j \in Ids, markSpendPublishing(j) PROVE j = i /\ phase'[i] = "marked"
    BY <2>5 DEF markSpendPublishing, TypeOK, Phases, ledger
  <2>6. ASSUME Crash PROVE FALSE
    BY <2>6 DEF Crash, ledger
  <2> QED BY <2>1, <2>2, <2>3, <2>4, <2>5, <2>6
        DEF Next, Game, Bridge, vars, RequestNew, Refuse, Ask, RequestAgain, Look, DenyGamingSpend, SwitchOff,
            SwitchOn, RevokeGamingCredential, invalidatePendingSpends, CloseTable, History, Rebroadcast, FailSpend,
            Lapse, Age, Mine, Evict, TakeCoin, Settle, ledger
<1> DEFINE l == expireLocked(log)
           m == [l EXCEPT ![i] = Become(l[i], "publishing")]
<1>2. l \in LogType
  BY ExpireMoves
<1>3. Save(m) /\ Saved
  BY <1>1 DEF markSpendPublishing, TypeOK
<1> HIDE DEF l
<1>4. Become(l[i], "publishing") \in Entry /\ Become(l[i], "publishing").state = "publishing"
  BY <1>2, BecomeType DEF LogType, SpendStates
<1>5. m \in LogType /\ m[i].state = "publishing"
  BY <1>2, <1>4 DEF LogType
<1> HIDE DEF m
<1>6. writeSpendLog(m)
  BY <1>3 DEF Save, Saved, Fail, TypeOK
<1> QED BY <1>5, <1>6, Untrimmed

LEMMA PayingStep ==
  ASSUME RoomForAll, TypeOK, LedgerInv, PayingShown, [Next]_vars PROVE PayingShown'
<1> SUFFICES ASSUME NEW i \in Ids, Paying(i)' PROVE log'[i].state \in {"publishing", "approved", "failed"}
  BY DEF PayingShown
<1>1. CASE ~Paying(i)
  BY <1>1, PayingBegins
<1>2. CASE Paying(i)
  <2>1. log[i].state \in {"publishing", "approved", "failed"}
    BY <1>2 DEF PayingShown
  <2>2. Moves(log[i], log'[i], i \in preview \cup preview', Ends(i))
    BY EntryMoves DEF LedgerInv
  <2>3. log[i] \in Entry
    BY DEF TypeOK
  <2> QED BY <2>1, <2>2, <2>3 DEF Moves, Entry
<1> QED BY <1>1, <1>2

LEMMA InitPaying == ASSUME Init PROVE PayingShown
BY DEF Init, PayingShown, Paying

\* While the log has room, what it calls denied or expired is never paid
\* (DenyGamingSpend, expireLocked, invalidatePendingSpends).
THEOREM RefusedUnpaid == ASSUME RoomForAll PROVE Spec => []RefusedIsUnpaid
<1>1. PayingShown => RefusedIsUnpaid
  BY DEF PayingShown, RefusedIsUnpaid, Paying
<1>2. TypeOK /\ LedgerInv /\ PayingShown /\ [Next]_vars => PayingShown'
  BY PayingStep
<1>3. Init => PayingShown
  BY InitPaying
<1> QED BY <1>1, <1>2, <1>3, TypeCorrect, LedgerSound, PTL DEF Spec

\* What the game's calls see of an entry that is decided is the entry.
ShownAsLogged ==
  \A i \in Ids : \/ Current[i] = log[i]
                 \/ log[i].state = "none"
                 \/ log[i].state = "pending" /\ Current[i].state = "expired"

\* While the log has room, a decision stands: what is approved ages or fails with
\* its funding, what is denied or expired stays so (recordSpendOutcome).
THEOREM DecisionsStand == ASSUME RoomForAll PROVE Spec => DecidedStands
<1>1. TypeOK => ShownAsLogged
  BY CurrentType DEF ShownAsLogged
<1>2. TypeOK /\ LedgerInv /\ ShownAsLogged' /\ [Next]_vars => [\A i \in Ids : Stands(i)]_vars
  <2> SUFFICES ASSUME TypeOK, LedgerInv, ShownAsLogged', [Next]_vars, NEW i \in Ids PROVE Stands(i)
    OBVIOUS
  <2>1. Moves(log[i], log'[i], i \in preview \cup preview', Ends(i))
    BY EntryMoves DEF LedgerInv
  <2>2. \/ Current'[i] = log'[i] \/ log'[i].state = "none"
        \/ log'[i].state = "pending" /\ Current'[i].state = "expired"
    BY DEF ShownAsLogged
  <2>3. log[i] \in Entry
    BY DEF TypeOK
  <2> QED BY <2>1, <2>2, <2>3 DEF Moves, Entry, Stands
<1> QED BY <1>1, <1>2, TypeCorrect, LedgerSound, PTL DEF Spec, DecidedStands

\* Live, or about to be committed.
OnItsWay(i) == LiveOp(i) \/ (i \in preview /\ phase[i] = "marked")

\* What is on its way is logged as publishing or approved.
Shown == \A i \in Ids : OnItsWay(i) => log[i].state \in {"publishing", "approved"}

\* While a dead funding's request has still to be closed, it stands: nothing can
\* be shown, committed or requested for its deposit.
Closing ==
  work.at = "fail" =>
    /\ of[work.id] # None /\ fund[of[work.id]] = None
    /\ log[work.id].state \in {"publishing", "approved"}
    /\ \A j \in preview : of[j] # of[work.id]

LEMMA InitShown == ASSUME Init PROVE Closing /\ Shown
BY DEF Init, Closing, Shown, OnItsWay, LiveOp, Idle

\* A preview is new, or was there; an operation was live, or is committed now.
LEMMA WayIn ==
  ASSUME TypeOK, LedgerInv, [Next]_vars, NEW i \in Ids
  PROVE  /\ i \in preview' => i \in preview \/ of[i] = None
         /\ LiveOp(i)' => OnItsWay(i)
<1> USE DEF OnItsWay, LiveOp, ledger
<1>1. ASSUME UNCHANGED <<preview, op>> PROVE (i \in preview' => i \in preview) /\ (LiveOp(i)' => LiveOp(i))
  BY <1>1
<1>2. ASSUME NEW d \in Deposits, NEW j \in Ids, RequestNew(d, j)
      PROVE  (i \in preview' => i \in preview \/ of[i] = None) /\ (LiveOp(i)' => LiveOp(i))
  BY <1>2 DEF RequestNew
<1>3. ASSUME NEW j \in Ids, CommitFunding(j)
      PROVE  (i \in preview' => i \in preview) /\ (LiveOp(i)' => OnItsWay(i))
  <2>1. preview' = preview /\ phase[j] = "marked" /\ \A k \in Ids \ {j} : op'[k] = op[k]
    BY <1>3 DEF CommitFunding, TypeOK
  <2>2. op' = op \/ j \in preview
    BY <1>3 DEF CommitFunding, Commits
  <2> QED BY <2>1, <2>2
<1>4. ASSUME NEW j \in Ids, Observe(j)
      PROVE  (i \in preview' => i \in preview) /\ (LiveOp(i)' => LiveOp(i))
  BY <1>4 DEF Observe, TypeOK
<1>5. ASSUME NEW j \in Ids, Rejected(j)
      PROVE  (i \in preview' => i \in preview) /\ (LiveOp(i)' => LiveOp(i))
  BY <1>5 DEF Rejected, AbandonFunding, TypeOK
<1> QED BY <1>1, <1>2, <1>3, <1>4, <1>5
      DEF Next, Game, Bridge, vars, Refuse, Ask, RequestAgain, Look, DenyGamingSpend, Approve, Sign, Mistype,
          markSpendPublishing, Publish, Record, SwitchOff, SwitchOn, RevokeGamingCredential,
          invalidatePendingSpends, CloseTable, History, Rebroadcast, FailSpend, Lapse, Age, Mine, Evict, TakeCoin,
          Settle, Crash

\* What is on its way set out from the mark in the log.
LEMMA SetsOut ==
  ASSUME TypeOK, LedgerInv, [Next]_vars, NEW i \in Ids, OnItsWay(i)', ~OnItsWay(i)
  PROVE  ~Paying(i) /\ Paying(i)'
<1>1. (i \in preview' => i \in preview \/ of[i] = None) /\ ~LiveOp(i)'
  BY WayIn
<1>2. i \in preview' /\ phase'[i] = "marked"
  BY <1>1 DEF OnItsWay
<1>3. Paying(i)'
  BY <1>2 DEF Paying
<1>4. ~Paying(i)
  <2>1. CASE of[i] = None
    BY <2>1 DEF Paying, LedgerInv, Issued
  <2>2. CASE i \in preview
    <3>1. op[i] \in {"none", "abandoned"} /\ phase[i] # "marked"
      BY <2>2 DEF OnItsWay, LiveOp, TypeOK, OpStates
    <3>2. op[i] = "none"
      BY <2>2, <3>1 DEF LedgerInv, GivenUp
    <3> QED BY <3>1, <3>2 DEF Paying, LedgerInv, OnRecord
  <2> QED BY <1>1, <1>2, <2>1, <2>2
<1> QED BY <1>3, <1>4

\* Only the worker's closing step ends a request that is on its way or paid.
LEMMA StaysShown ==
  ASSUME RoomForAll, TypeOK, LedgerInv, [Next]_vars, NEW i \in Ids,
         log[i].state \in {"publishing", "approved"}, ~Ends(i)
  PROVE  log'[i].state \in {"publishing", "approved"}
<1>1. Moves(log[i], log'[i], i \in preview \cup preview', Ends(i))
  BY EntryMoves DEF LedgerInv
<1>2. log[i] \in Entry
  BY DEF TypeOK
<1> QED BY <1>1, <1>2 DEF Moves, Entry

LEMMA ShownStep ==
  ASSUME RoomForAll, TypeOK, LedgerInv, Shown, Closing, [Next]_vars PROVE Shown'
<1> SUFFICES ASSUME NEW i \in Ids, OnItsWay(i)' PROVE log'[i].state \in {"publishing", "approved"}
  BY DEF Shown
<1>1. CASE ~OnItsWay(i)
  BY <1>1, SetsOut, PayingBegins
<1>2. CASE OnItsWay(i)
  <2>1. ~Ends(i)
    <3> SUFFICES ASSUME NEW k \in Ids, FailSpend(k), of[i] = of[k] PROVE FALSE
      BY DEF Ends
    <3>1. fund[of[k]] = None /\ \A j \in preview : of[j] # of[k]
      BY DEF FailSpend, Closing
    <3> QED BY <1>2, <3>1, IdsAssumption DEF OnItsWay, LedgerInv, Due
  <2> QED BY <1>2, <2>1, StaysShown DEF Shown
<1> QED BY <1>1, <1>2

\* The request of a dead funding stands until it is closed.
LEMMA StillStands ==
  ASSUME TypeOK, Closing, work.at = "fail", NEW d \in Deposits, NEW j \in Ids, RequestNew(d, j)
  PROVE  of[work.id] # d
<1>1. work.id \in Ids
  BY DEF TypeOK, Jobs, Idle
<1>2. Current[work.id] = log[work.id]
  BY <1>1, CurrentType DEF Closing
<1>3. ~fundingSpendStands(Current, work.id, d)
  BY <1>1 DEF RequestNew
<1> QED BY <1>2, <1>3 DEF fundingSpendStands, Closing

LEMMA ClosingStep ==
  ASSUME RoomForAll, TypeOK, LedgerInv, Shown, Closing, [Next]_vars PROVE Closing'
<1> SUFFICES ASSUME work'.at = "fail"
             PROVE  /\ of'[work'.id] # None /\ fund'[of'[work'.id]] = None
                    /\ log'[work'.id].state \in {"publishing", "approved"}
                    /\ \A j \in preview' : of'[j] # of'[work'.id]
  BY DEF Closing
<1> USE DEF ledger
<1>1. CASE work' = work
  <2> DEFINE i == work.id
  <2>0. i \in Ids /\ work.at = "fail"
    BY <1>1 DEF TypeOK, Jobs, Idle
  <2>1. /\ of[i] # None /\ fund[of[i]] = None /\ log[i].state \in {"publishing", "approved"}
        /\ \A j \in preview : of[j] # of[i]
    BY <2>0 DEF Closing
  <2>2. ~Ends(i)
    <3>1. ASSUME NEW k \in Ids, FailSpend(k) PROVE FALSE
      <4>1. work' = Idle
        BY <3>1 DEF FailSpend
      <4>2. Idle.at = "idle"
        BY DEF Idle
      <4> QED BY <1>1, <2>0, <4>1, <4>2
    <3> QED BY <3>1 DEF Ends
  <2>3. log'[i].state \in {"publishing", "approved"}
    BY <2>0, <2>1, <2>2, StaysShown
  <2>4. ASSUME UNCHANGED <<of, fund, preview>>
        PROVE  of'[i] # None /\ fund'[of'[i]] = None /\ \A j \in preview' : of'[j] # of'[i]
    BY <2>1, <2>4
  <2>5. ASSUME NEW d \in Deposits, NEW j \in Ids, RequestNew(d, j)
        PROVE  of'[i] # None /\ fund'[of'[i]] = None /\ \A k \in preview' : of'[k] # of'[i]
    <3>1. of[i] # d
      BY <2>0, <2>5, StillStands
    <3>2. /\ of[j] = None /\ of' = [of EXCEPT ![j] = d] /\ fund' = fund /\ preview' = preview \cup {j}
      BY <2>5 DEF RequestNew
    <3>3. of'[i] = of[i] /\ of'[j] = d /\ \A k \in Ids \ {j} : of'[k] = of[k]
      BY <2>0, <2>1, <3>2 DEF TypeOK
    <3> QED BY <2>1, <3>1, <3>2, <3>3 DEF TypeOK
  <2>6. ASSUME NEW j \in Ids, CommitFunding(j)
        PROVE  of'[i] # None /\ fund'[of'[i]] = None /\ \A k \in preview' : of'[k] # of'[i]
    <3>1. of' = of /\ preview' = preview
      BY <2>6 DEF CommitFunding
    <3>2. fund' = fund \/ (j \in preview /\ fund' = [fund EXCEPT ![of[j]] = j])
      BY <2>6 DEF CommitFunding, Commits
    <3> QED BY <2>0, <2>1, <3>1, <3>2 DEF TypeOK
  <2>7. ~ \E j \in Ids : Rejected(j)
    BY <2>0 DEF Rejected
  <2>8. of'[i] # None /\ fund'[of'[i]] = None /\ \A k \in preview' : of'[k] # of'[i]
    BY <2>4, <2>5, <2>6, <2>7
      DEF Next, Game, Bridge, vars, Refuse, Ask, RequestAgain, Look, DenyGamingSpend, Approve, Sign, Mistype,
          markSpendPublishing, Publish, Record, SwitchOff, SwitchOn, RevokeGamingCredential,
          invalidatePendingSpends, CloseTable, Observe, History, Rebroadcast, FailSpend, Lapse, Age, Mine, Evict,
          TakeCoin, Settle, Crash
  <2> QED BY <1>1, <2>3, <2>8
<1>2. CASE work' # work
  <2>1. work' # Idle
    <3>1. Idle.at = "idle"
      BY DEF Idle
    <3> QED BY <3>1
  <2>2. ASSUME NEW i \in Ids, Observe(i) PROVE FALSE
    <3>1. work' = Idle \/ work'.at \in {"history", "broadcast"}
      BY <2>2 DEF Observe, Onto
    <3> QED BY <2>1, <3>1
  <2>3. PICK i \in Ids : Rejected(i)
    BY <1>2, <2>1, <2>2 DEF Next, Game, Bridge, vars, Refuse, Ask, RequestAgain, RequestNew, Look,
          DenyGamingSpend, Approve, Sign, Mistype, markSpendPublishing, CommitFunding, Publish, Record, SwitchOff,
          SwitchOn, RevokeGamingCredential, invalidatePendingSpends, CloseTable, History, Rebroadcast,
          FailSpend, Lapse, Age, Mine, Evict, TakeCoin, Settle, Crash
  <2>4. work' = [at |-> "fail", id |-> i] /\ AbandonFunding(i) /\ UNCHANGED <<of, log>>
    BY <2>3 DEF Rejected, Idle, Saved, Fail, TypeOK
  <2>5. LiveOp(i)
    BY <2>3 DEF Rejected, LedgerInv, OnRecord
  <2>6. of[i] # None /\ of[i] \in Deposits /\ fund[of[i]] = i
    BY <2>5 DEF LedgerInv, Due, TypeOK
  <2>7. log[i].state \in {"publishing", "approved"}
    BY <2>5 DEF Shown, OnItsWay
  <2>8. fund'[of[i]] = None /\ \A j \in preview' : of[j] # of[i]
    BY <2>4, <2>6 DEF AbandonFunding
  <2> QED BY <2>4, <2>6, <2>7, <2>8
<1> QED BY <1>1, <1>2

\* While the log has room, a payment that may still confirm is never shown as
\* waiting or ended (existingFundingSpend, failAbandonedFundingSpend).
THEOREM PaymentsShown == ASSUME RoomForAll PROVE Spec => []PayableIsShown
<1>1. TypeOK /\ Shown => PayableIsShown
  <2> SUFFICES ASSUME TypeOK, Shown, NEW i \in Ids, LiveOp(i)
               PROVE  Current[i].state \in {"publishing", "approved"}
    BY DEF PayableIsShown
  <2>1. log[i].state \in {"publishing", "approved"}
    BY DEF Shown, OnItsWay
  <2>2. Current[i] = log[i]
    BY <2>1, CurrentType
  <2> QED BY <2>1, <2>2
<1>2. TypeOK /\ LedgerInv /\ Shown /\ Closing /\ [Next]_vars => Shown' /\ Closing'
  BY ShownStep, ClosingStep
<1>3. Init => Shown /\ Closing
  BY InitShown
<1> QED BY <1>1, <1>2, <1>3, TypeCorrect, LedgerSound, PTL DEF Spec

-----------------------------------------------------------------------------
(* What a game is told implements Requests, while the log has room         *)

\* A request the log has lost is the ledger's alone, and its deposit unpaid.
LostStand ==
  \A i \in Ids : of[i] # None /\ log[i].state = "none" => i \in preview /\ fund[of[i]] = None

\* Of two requests for one deposit, one has failed.
OneStands ==
  \A i, j \in Ids : i # j /\ of[i] # None /\ of[i] = of[j] => "failed" \in {log[i].state, log[j].state}

\* Only a request that was issued has a window.
LapsedIssued == \A i \in lapsed : of[i] # None

StandInv == LostStand /\ OneStands /\ LapsedIssued

\* What a game is told of a request, by what the log and the clock say of it.
AsShown(i) ==
  IF log[i].state = "none"
  THEN IF of[i] = None THEN "none" ELSE IF i \in lapsed THEN "expired" ELSE "pending"
  ELSE IF log[i].state = "pending" /\ i \in lapsed THEN "expired" ELSE log[i].state

ShownSo == \A i \in Ids : Current[i].state = AsShown(i)

LEMMA CurrentShown == ASSUME TypeOK, Issued, LostStand PROVE ShownSo
<1> SUFFICES ASSUME NEW i \in Ids PROVE Current[i].state = AsShown(i)
  BY DEF ShownSo
<1>1. recover(log)[i] = IF log[i].state = "none" /\ i \in preview THEN spendFromFundingApproval(i) ELSE log[i]
  BY DEF recover
<1>2. Current[i] = IF recover(log)[i].state = "pending" /\ i \in lapsed
                   THEN Become(recover(log)[i], "expired") ELSE recover(log)[i]
  BY DEF Current, expireLocked
<1>3. recover(log)[i] \in Entry /\ Become(recover(log)[i], "expired").state = "expired"
  BY RecoverType, BecomeType DEF TypeOK, LogType, SpendStates
<1>4. CASE log[i].state = "none" /\ of[i] = None
  BY <1>1, <1>2, <1>4 DEF Issued, AsShown
<1>5. CASE log[i].state = "none" /\ of[i] # None
  <2>1. i \in preview /\ fund[of[i]] = None
    BY <1>5 DEF LostStand
  <2>2. spendFromFundingApproval(i).state = IF i \in lapsed THEN "expired" ELSE "pending"
    BY <2>1 DEF spendFromFundingApproval
  <2> QED BY <1>1, <1>2, <1>3, <1>5, <2>1, <2>2 DEF AsShown
<1>6. CASE log[i].state # "none"
  BY <1>1, <1>2, <1>3, <1>6 DEF AsShown
<1> QED BY <1>4, <1>5, <1>6

\* A failed request stays failed, and a known one known.
LEMMA EntryLasts ==
  ASSUME RoomForAll, TypeOK, LedgerInv, [Next]_vars, NEW i \in Ids
  PROVE  /\ log[i].state = "failed" => log'[i].state = "failed"
         /\ log[i].state # "none" => log'[i].state # "none"
         /\ log[i].state \in {"denied", "expired", "failed"} => log'[i] = log[i]
         /\ log[i].state = "approved" => log'[i].state \in {"approved", "failed"}
<1>1. Moves(log[i], log'[i], i \in preview \cup preview', Ends(i))
  BY EntryMoves DEF LedgerInv
<1>2. log[i] \in Entry
  BY DEF TypeOK
<1> QED BY <1>1, <1>2 DEF Moves, Entry

\* Only a new request changes what an id stands for.
LEMMA OfStep ==
  ASSUME TypeOK, [Next]_vars
  PROVE  \/ of' = of /\ lapsed \subseteq lapsed' /\ (\A i \in lapsed' \ lapsed : of[i] # None)
         \/ \E d \in Deposits, i \in Ids : RequestNew(d, i)
<1> DEFINE still == of' = of /\ lapsed' = lapsed
<1>1. ASSUME NEW d \in Deposits, \/ Refuse(d) \/ (\E c \in Coins : Ask(d, c))
                                 \/ \E i \in Ids : RequestAgain(d, i)
      PROVE  still
  BY <1>1 DEF Refuse, Ask, RequestAgain, ledger, nature
<1>2. ASSUME NEW i \in Ids, \/ DenyGamingSpend(i) \/ Approve(i) \/ Sign(i) \/ Mistype(i)
                            \/ markSpendPublishing(i) \/ CommitFunding(i) \/ Publish(i) \/ Record(i)
      PROVE  still
  BY <1>2 DEF DenyGamingSpend, Approve, Sign, Mistype, markSpendPublishing, CommitFunding, Publish, Record,
              ledger, nature
<1>3. ASSUME NEW i \in Ids, \/ Observe(i) \/ History(i) \/ Rebroadcast(i) \/ Rejected(i) \/ FailSpend(i)
                            \/ Age(i) \/ Mine(i) \/ Evict(i)
      PROVE  still
  BY <1>3 DEF Observe, History, Rebroadcast, Rejected, FailSpend, Age, Mine, Evict, ledger, nature
<1>4. ASSUME NEW c \in Coins, TakeCoin(c) \/ Settle(c) PROVE still
  BY <1>4 DEF TakeCoin, Settle, ledger
<1>5. CASE Look \/ SwitchOff \/ SwitchOn \/ RevokeGamingCredential \/ invalidatePendingSpends \/ CloseTable
           \/ Crash \/ UNCHANGED vars
  BY <1>5 DEF Look, SwitchOff, SwitchOn, RevokeGamingCredential, invalidatePendingSpends, CloseTable, Crash,
              vars, ledger, nature
<1>6. ASSUME NEW i \in Ids, Lapse(i)
      PROVE  of' = of /\ lapsed \subseteq lapsed' /\ \A j \in lapsed' \ lapsed : of[j] # None
  BY <1>6 DEF Lapse, ledger
<1>7. CASE Game
  BY <1>1, <1>5, <1>7 DEF Game
<1>8. CASE Bridge
  BY <1>2, <1>3, <1>4, <1>5, <1>6, <1>8 DEF Bridge
<1> QED
  BY <1>5, <1>7, <1>8 DEF Next

\* A preview goes, and a deposit is charged, only by an operation of that deposit.
LEMMA FundStep ==
  ASSUME TypeOK, LedgerInv, Shown, OneStands, LostStand, [Next]_vars,
         NEW i \in Ids, of[i] # None, log[i].state = "none"
  PROVE  i \in preview' /\ fund'[of[i]] = None
<1>1. i \in preview /\ fund[of[i]] = None /\ of[i] \in Deposits
  BY DEF LostStand, TypeOK
<1>2. CASE UNCHANGED <<preview, fund>>
  BY <1>1, <1>2
<1>3. ASSUME NEW d \in Deposits, NEW j \in Ids, RequestNew(d, j) PROVE i \in preview' /\ fund'[of[i]] = None
  BY <1>1, <1>3 DEF RequestNew
<1>4. ASSUME NEW k \in Ids, CommitFunding(k) PROVE i \in preview' /\ fund'[of[i]] = None
  <2>1. preview' = preview /\ (fund' = fund \/ (k \in preview /\ fund' = [fund EXCEPT ![of[k]] = k]))
    BY <1>4 DEF CommitFunding, Commits
  <2>2. ASSUME k \in preview, of[k] = of[i] PROVE FALSE
    <3>1. log[k].state \in {"publishing", "approved"}
      BY <1>4, <2>2 DEF Shown, OnItsWay, CommitFunding
    <3> QED BY <2>2, <3>1 DEF OneStands
  <2> QED BY <1>1, <2>1, <2>2 DEF TypeOK
<1>5. ASSUME NEW k \in Ids, Rejected(k) PROVE i \in preview' /\ fund'[of[i]] = None
  <2>1. \/ UNCHANGED <<preview, fund>>
        \/ /\ fund' = [d \in Deposits |-> IF fund[d] = k THEN None ELSE fund[d]]
           /\ preview' = {j \in preview : of[j] = None \/ fund[of[j]] # k}
    BY <1>5 DEF Rejected, AbandonFunding
  <2> QED BY <1>1, <2>1, IdsAssumption
<1> QED BY <1>2, <1>3, <1>4, <1>5
      DEF Next, Game, Bridge, vars, Refuse, Ask, RequestAgain, Look, DenyGamingSpend, Approve, Sign, Mistype,
          markSpendPublishing, Publish, Record, SwitchOff, SwitchOn, RevokeGamingCredential,
          invalidatePendingSpends, CloseTable, Observe, History, Rebroadcast, FailSpend, Lapse, Age, Mine, Evict,
          TakeCoin, Settle, Crash, ledger

LEMMA StandStep ==
  ASSUME RoomForAll, TypeOK, LedgerInv, Shown, StandInv, ShownSo, [Next]_vars PROVE StandInv'
<1> USE DEF StandInv
<1>1. CASE of' = of /\ lapsed \subseteq lapsed' /\ (\A i \in lapsed' \ lapsed : of[i] # None)
  <2>1. LostStand'
    BY <1>1, EntryLasts, FundStep DEF LostStand
  <2>2. OneStands'
    BY <1>1, EntryLasts DEF OneStands
  <2>3. LapsedIssued'
    BY <1>1 DEF LapsedIssued
  <2> QED BY <2>1, <2>2, <2>3
<1>2. ASSUME NEW d \in Deposits, NEW n \in Ids, RequestNew(d, n) PROVE StandInv'
  <2>1. /\ of[n] = None /\ of' = [of EXCEPT ![n] = d] /\ lapsed' = lapsed /\ fund' = fund
        /\ preview' = preview \cup {n} /\ fund[d] = None
        /\ \A j \in Ids : ~fundingSpendStands(Current, j, d)
    BY <1>2 DEF RequestNew, Reserves, Fundable, nature
  <2>2. of'[n] = d /\ (\A j \in Ids \ {n} : of'[j] = of[j]) /\ d # None
    BY <2>1, IdsAssumption DEF TypeOK
  <2>3. LostStand'
    BY <2>1, <2>2, EntryLasts, FundStep DEF LostStand
  <2>4. ASSUME NEW j \in Ids, of[j] = d PROVE log[j].state = "failed"
    <3>1. Current[j].state \in {"none", "failed"}
      BY <2>1, <2>4 DEF fundingSpendStands
    <3> QED BY <2>2, <2>4, <3>1 DEF ShownSo, AsShown
  <2>5. OneStands'
    BY <2>2, <2>4, EntryLasts DEF OneStands
  <2>6. LapsedIssued'
    BY <2>1, <2>2 DEF LapsedIssued, TypeOK
  <2> QED BY <2>3, <2>5, <2>6
<1> QED BY <1>1, <1>2, OfStep

LEMMA InitStand == ASSUME Init PROVE StandInv
BY DEF Init, StandInv, LostStand, OneStands, LapsedIssued, NoEntry


\* A request whose window is over, and that nobody answered, can only be written
\* down as expired: it is never paid, denied or failed (expireLocked, DenyGamingSpend,
\* markSpendPublishing, reconcileGamingFundingHistory, failAbandonedFundingSpend).
LEMMA LapsedStays ==
  ASSUME RoomForAll, TypeOK, LedgerInv, Shown, Closing, StandInv, ShownSo, [Next]_vars,
         NEW i \in Ids, i \in lapsed, log[i].state \in {"none", "pending"}
  PROVE  log'[i].state \in {log[i].state, "expired"}
<1> DEFINE l == expireLocked(log)
           Same(s) == s \in {log[i].state, "expired"}
<1>0. log \in LogType /\ of[i] # None
  BY DEF TypeOK, LogType, StandInv, LapsedIssued
<1>l. l \in LogType /\ l[i].state \in {log[i].state, "expired"} /\ l[i].state # "pending"
      /\ \A j \in Ids : l[j] = log[j] \/ (log[j].state = "pending" /\ l[j].state = "expired")
  <2>1. l[i].state # "pending"
    <3>1. Become(log[i], "expired").state = "expired"
      BY <1>0, BecomeType DEF LogType, SpendStates
    <3> QED BY <3>1 DEF expireLocked
  <2> QED BY <2>1, ExpireMoves
<1>e. l = expireLocked(log)
  OBVIOUS
<1> HIDE DEF l
<1>s. ASSUME NEW m \in LogType, m[i].state \in {log[i].state, "expired"}, Save(m) \/ UNCHANGED log
      PROVE  log'[i].state \in {log[i].state, "expired"}
  <2>1. log' = log \/ log' = m
    BY <1>s, Untrimmed DEF Save
  <2> QED BY <1>s, <2>1
<1>k. ASSUME UNCHANGED log PROVE log'[i].state \in {log[i].state, "expired"}
  BY <1>k
<1>1. Current \in LogType /\ Current[i].state = "expired"
  BY <1>0, CurrentType DEF ShownSo, AsShown
<1>2. CASE Repair
  <2>1. log' = log \/ log' = Current
    BY <1>1, <1>2, Untrimmed DEF Repair
  <2> QED BY <1>1, <2>1
<1>3. ASSUME NEW d \in Deposits, NEW n \in Ids, RequestNew(d, n)
      PROVE  log'[i].state \in {log[i].state, "expired"}
  <2> DEFINE m == [Current EXCEPT ![n] = Become(NoEntry, "pending")]
  <2>1. Become(NoEntry, "pending") \in Entry
    BY BecomeType DEF NoEntry, Entry, SpendStates
  <2>2. n # i
    BY <1>0, <1>3 DEF RequestNew
  <2>3. m \in LogType /\ m[i].state = "expired"
    BY <1>1, <2>1, <2>2 DEF LogType
  <2>4. Save(m)
    BY <1>3 DEF RequestNew
  <2> HIDE DEF m
  <2> QED BY <1>s, <2>3, <2>4
<1>4. ASSUME NEW n \in Ids, DenyGamingSpend(n) PROVE log'[i].state \in {log[i].state, "expired"}
  <2> DEFINE m == [l EXCEPT ![n] = Become(l[n], "denied")]
  <2>1. l[n].state = "pending"
    BY <1>4, <1>e DEF DenyGamingSpend, Waiting
  <2>2. Become(l[n], "denied") \in Entry
    BY <1>l, BecomeType DEF LogType, SpendStates
  <2>3. m \in LogType /\ m[i] = l[i]
    BY <1>l, <2>1, <2>2 DEF LogType
  <2>4. Save(m)
    BY <1>4, <1>e DEF DenyGamingSpend
  <2> HIDE DEF m
  <2> QED BY <1>l, <1>s, <2>3, <2>4
<1>5. ASSUME NEW n \in Ids, markSpendPublishing(n) PROVE log'[i].state \in {log[i].state, "expired"}
  <2>1. CASE l[n].state = "pending"
    <3> DEFINE m == [l EXCEPT ![n] = Become(l[n], "publishing")]
    <3>1. Become(l[n], "publishing") \in Entry
      BY <1>l, BecomeType DEF LogType, SpendStates
    <3>2. m \in LogType /\ m[i] = l[i]
      BY <1>l, <2>1, <3>1 DEF LogType
    <3>3. Save(m)
      BY <1>5, <1>e, <2>1 DEF markSpendPublishing
    <3> HIDE DEF m
    <3> QED BY <1>l, <1>s, <3>2, <3>3
  <2>2. CASE l[n].state # "pending"
    <3>1. UNCHANGED log \/ Save(l)
      BY <1>5, <1>e, <2>2 DEF markSpendPublishing
    <3> QED BY <1>l, <1>s, <3>1
  <2> QED BY <2>1, <2>2
<1>6. ASSUME NEW n \in Ids, Record(n) PROVE log'[i].state \in {log[i].state, "expired"}
  <2>1. CASE log[n].state = "publishing"
    <3> DEFINE m == [log EXCEPT ![n] = Outcome(n)]
    <3>1. Outcome(n) \in Entry
      BY <1>0, BecomeType DEF Outcome, Entry, SpendStates, LogType
    <3>2. m \in LogType /\ m[i] = log[i]
      BY <1>0, <2>1, <3>1 DEF LogType
    <3>3. Save(m)
      BY <1>6, <2>1 DEF Record
    <3> HIDE DEF m
    <3> QED BY <1>s, <3>2, <3>3
  <2>2. CASE log[n].state # "publishing"
    BY <1>6, <1>k, <2>2 DEF Record
  <2> QED BY <2>1, <2>2
<1>7. CASE invalidatePendingSpends
  <2> DEFINE m == [j \in Ids |-> IF l[j].state = "pending" THEN Become(l[j], "expired") ELSE l[j]]
  <2>1. \A j \in Ids : Become(l[j], "expired") \in Entry
    BY <1>l, BecomeType DEF LogType, SpendStates
  <2>2. m \in LogType /\ m[i] = l[i]
    BY <1>l, <2>1 DEF LogType
  <2>3. UNCHANGED log \/ Save(m)
    BY <1>7, <1>e DEF invalidatePendingSpends
  <2> HIDE DEF m
  <2> QED BY <1>l, <1>s, <2>2, <2>3
<1>8. ASSUME NEW k \in Ids, History(k) PROVE log'[i].state \in {log[i].state, "expired"}
  <2> DEFINE paid == {j \in Ids : of[j] # None /\ fund[of[j]] = k /\ spendOutstanding(log[j])}
             m == [j \in Ids |-> IF j \in paid THEN [Become(log[j], "approved") EXCEPT !.tx = k] ELSE log[j]]
  <2>1. \A j \in Ids : [Become(log[j], "approved") EXCEPT !.tx = k] \in Entry
    BY <1>0, BecomeType DEF Entry, SpendStates, LogType
  <2>2. i \notin paid
    <3> SUFFICES ASSUME fund[of[i]] = k PROVE FALSE
      OBVIOUS
    <3>1. of[i] \in Deposits /\ k # None
      BY <1>0, IdsAssumption DEF TypeOK
    <3>2. of[k] = of[i] /\ LiveOp(k)
      BY <3>1 DEF LedgerInv, Due
    <3>3. log[k].state \in {"publishing", "approved"}
      BY <3>2 DEF Shown, OnItsWay
    <3> QED BY <1>0, <3>2, <3>3 DEF StandInv, OneStands
  <2>3. m \in LogType /\ m[i] = log[i]
    BY <1>0, <2>1, <2>2 DEF LogType
  <2>4. UNCHANGED log \/ Save(m)
    BY <1>8 DEF History
  <2> HIDE DEF m
  <2> QED BY <1>s, <2>3, <2>4
<1>9. ASSUME NEW k \in Ids, FailSpend(k) PROVE log'[i].state \in {log[i].state, "expired"}
  <2> DEFINE ended == {j \in Ids : /\ of[j] = of[k]
                                   /\ \/ spendOutstanding(log[j])
                                      \/ log[j].state = "approved" /\ log[j].tx = k}
             m == [j \in Ids |-> IF j \in ended THEN Become(log[j], "failed") ELSE log[j]]
  <2>1. \A j \in Ids : Become(log[j], "failed") \in Entry
    BY <1>0, BecomeType DEF SpendStates, LogType
  <2>2. i \notin ended
    <3> SUFFICES ASSUME of[i] = of[k] PROVE FALSE
      OBVIOUS
    <3>1. log[k].state \in {"publishing", "approved"}
      BY <1>9 DEF FailSpend, Closing
    <3> QED BY <1>0, <3>1 DEF StandInv, OneStands
  <2>3. m \in LogType /\ m[i] = log[i]
    BY <1>0, <2>1, <2>2 DEF LogType
  <2>4. UNCHANGED log \/ Save(m)
    BY <1>9 DEF FailSpend
  <2> HIDE DEF m
  <2> QED BY <1>s, <2>3, <2>4
<1>10. ASSUME NEW n \in Ids, Age(n) PROVE log'[i].state \in {log[i].state, "expired"}
  BY <1>0, <1>10 DEF Age, LogType
<1> QED BY <1>k, <1>2, <1>3, <1>4, <1>5, <1>6, <1>7, <1>8, <1>9, <1>10
      DEF Next, Game, Bridge, vars, Refuse, Ask, RequestAgain, Look, Approve, Sign, Mistype, CommitFunding,
          Publish, Observe, Rebroadcast, Rejected, Lapse, Mine, Evict, TakeCoin, Settle, SwitchOff, SwitchOn,
          RevokeGamingCredential, CloseTable, Crash

\* What its game is told of a request that is not new only follows.
LEMMA AnswerFollows ==
  ASSUME RoomForAll, TypeOK, LedgerInv, Shown, Closing, StandInv, ShownSo, [Next]_vars,
         LedgerInv', ShownSo', TypeOK', NEW i \in Ids, of'[i] = of[i], lapsed \subseteq lapsed'
  PROVE  Told(Current'[i].state) \in Asked!Follows(Told(Current[i].state))
<1>1. Current[i].state = AsShown(i) /\ Current'[i].state = AsShown(i)'
  BY DEF ShownSo
<1>2. log[i].state \in SpendStates /\ log'[i].state \in SpendStates
  BY DEF TypeOK, Entry
<1>3. CASE of[i] = None
  BY <1>1, <1>3 DEF LedgerInv, Issued, AsShown, Told, Asked!Follows
<1>4. CASE of[i] # None /\ log[i].state \in {"none", "pending"} /\ i \in lapsed
  <2>1. log'[i].state \in {log[i].state, "expired"}
    BY <1>4, LapsedStays
  <2> QED BY <1>1, <1>4, <2>1 DEF AsShown, Told, Asked!Follows
<1>5. CASE of[i] # None /\ log[i].state \in {"none", "pending"} /\ i \notin lapsed
  <2>1. Told(Current[i].state) = "pending"
    BY <1>1, <1>5 DEF AsShown, Told
  <2>2. AsShown(i)' \in SpendStates \ {"none"}
    BY <1>2, <1>5 DEF AsShown, SpendStates
  <2> QED BY <1>1, <2>1, <2>2 DEF Told, Asked!Follows, Asked!Answers, SpendStates
<1>6. CASE log[i].state = "publishing"
  <2>1. Told(Current[i].state) = "pending"
    BY <1>1, <1>6 DEF AsShown, Told
  <2>2. AsShown(i)' \in SpendStates \ {"none"}
    BY <1>2, <1>6, EntryLasts DEF AsShown, SpendStates
  <2> QED BY <1>1, <2>1, <2>2 DEF Told, Asked!Follows, Asked!Answers, SpendStates
<1>7. CASE log[i].state = "approved"
  <2>1. log'[i].state \in {"approved", "failed"}
    BY <1>7, EntryLasts
  <2> QED BY <1>1, <1>7, <2>1 DEF AsShown, Told, Asked!Follows
<1>8. CASE log[i].state \in {"denied", "expired", "failed"}
  <2>1. log'[i] = log[i]
    BY <1>8, EntryLasts
  <2> QED BY <1>1, <1>8, <2>1 DEF AsShown, Told, Asked!Follows
<1> QED BY <1>2, <1>3, <1>4, <1>5, <1>6, <1>7, <1>8 DEF SpendStates

AnswerMap == [i \in Ids |-> Told(Current[i].state)]

LEMMA AnswerStep ==
  ASSUME RoomForAll, TypeOK, LedgerInv, Shown, Closing, StandInv, ShownSo, [Next]_vars,
         TypeOK', LedgerInv', ShownSo'
  PROVE  [Asked!Next]_(Asked!requests)
<1>0. \A i \in Ids : Told(Current'[i].state) \in Asked!Answers
  <2> SUFFICES ASSUME NEW i \in Ids PROVE Told(Current'[i].state) \in Asked!Answers
    OBVIOUS
  <2>1. log'[i].state \in SpendStates
    BY DEF TypeOK, Entry
  <2>2. AsShown(i)' \in SpendStates
    BY <2>1 DEF AsShown, SpendStates
  <2> QED BY <2>2 DEF ShownSo, Told, Asked!Answers, SpendStates
<1>1. AnswerMap' = [i \in Ids |-> Told(Current'[i].state)]
  BY DEF AnswerMap
<1>2. CASE of' = of /\ lapsed \subseteq lapsed'
  <2>1. \A i \in Ids : Told(Current'[i].state) \in Asked!Follows(Told(Current[i].state))
    BY <1>2, AnswerFollows
  <2>2. Asked!Decide
    <3>1. AnswerMap' \in [Ids -> Asked!Answers]
      BY <1>0, <1>1
    <3>2. \A i \in Ids : AnswerMap'[i] \in Asked!Follows(AnswerMap[i])
      BY <1>1, <2>1 DEF AnswerMap
    <3> QED BY <1>2, <3>1, <3>2 DEF Asked!Decide, AnswerMap
  <2> QED BY <2>2 DEF Asked!Next
<1>3. ASSUME NEW d \in Deposits, NEW n \in Ids, RequestNew(d, n)
      PROVE  [Asked!Next]_(Asked!requests)
  <2>1. /\ of[n] = None /\ of' = [of EXCEPT ![n] = d] /\ lapsed' = lapsed
        /\ \A j \in Ids : ~fundingSpendStands(Current, j, d)
    BY <1>3 DEF RequestNew, nature
  <2>2. of'[n] = d /\ d # None /\ \A j \in Ids \ {n} : of'[j] = of[j]
    BY <2>1, IdsAssumption DEF TypeOK
  <2> DEFINE m == [Current EXCEPT ![n] = Become(NoEntry, "pending")]
  <2>3. Become(NoEntry, "pending") \in Entry /\ Become(NoEntry, "pending").state = "pending"
    BY BecomeType DEF NoEntry, Entry, SpendStates
  <2>4. Current \in LogType
    BY CurrentType
  <2>5. m \in LogType /\ m[n].state = "pending" /\ \A j \in Ids \ {n} : m[j] = Current[j]
    BY <2>3, <2>4 DEF LogType
  <2>6. log' = log \/ log' = m
    <3>1. Save(m)
      BY <1>3 DEF RequestNew
    <3> HIDE DEF m
    <3> QED BY <2>5, <3>1, Untrimmed DEF Save
  <2> HIDE DEF m
  <2>7. n \notin lapsed /\ log[n].state = "none"
    BY <2>1 DEF StandInv, LapsedIssued, LedgerInv, Issued
  <2>8. Current'[n].state = "pending"
    <3>1. Current'[n].state = AsShown(n)'
      BY DEF ShownSo
    <3> QED BY <2>1, <2>2, <2>5, <2>6, <2>7, <3>1 DEF AsShown
  <2>9. ASSUME NEW j \in Ids \ {n} PROVE Current'[j].state = Current[j].state
    <3>1. Current'[j].state = AsShown(j)' /\ Current[j].state = AsShown(j)
      BY DEF ShownSo
    <3>2. log'[j] = log[j] \/ log'[j] = Current[j]
      BY <2>5, <2>6
    <3> QED BY <2>1, <2>2, <3>1, <3>2 DEF AsShown
  <2>10. AnswerMap' = [AnswerMap EXCEPT ![n] = "pending"]
    BY <1>1, <2>8, <2>9 DEF AnswerMap, Told
  <2>11. \A j \in Ids : ~Asked!Stands(j, d)
    BY <2>1 DEF Asked!Stands, fundingSpendStands, Told
  <2>12. Asked!Take(n, d)
    BY <2>1, <2>10, <2>11 DEF Asked!Take, AnswerMap
  <2> QED BY <2>12 DEF Asked!Next
<1> QED BY <1>2, <1>3, OfStep

LEMMA InitAnswers == ASSUME Init PROVE Asked!Init
<1>1. \A i \in Ids : Current[i].state = "none"
  <2>1. TypeOK /\ LedgerInv /\ StandInv
    BY InitType, InitLedger, InitStand
  <2>2. ShownSo
    BY <2>1, CurrentShown DEF LedgerInv, StandInv
  <2> QED BY <2>2 DEF ShownSo, AsShown, Init, NoEntry
<1> QED BY <1>1 DEF Asked!Init, Init, Told

LEMMA StandingKept ==
  ASSUME RoomForAll
  PROVE  Spec => [](TypeOK /\ LedgerInv /\ Shown /\ Closing /\ StandInv)
<1> DEFINE Inv == TypeOK /\ LedgerInv /\ Shown /\ Closing /\ StandInv
<1>1. Init => Inv
  BY InitType, InitLedger, InitShown, InitStand
<1>2. Inv => ShownSo
  BY CurrentShown DEF LedgerInv, StandInv
<1>3. Inv /\ [Next]_vars => Inv'
  <2> SUFFICES ASSUME Inv, [Next]_vars PROVE Inv'
    OBVIOUS
  <2>1. TypeOK' /\ LedgerInv' /\ Shown' /\ Closing'
    BY TypeStep, LedgerStep, ShownStep, ClosingStep
  <2>2. StandInv'
    BY <1>2, StandStep
  <2> QED BY <2>1, <2>2
<1> QED BY <1>1, <1>3, PTL DEF Spec

\* While the log has room, what the bridge tells a game is what Requests promises:
\* one request stands for a deposit, and what was answered is final.
THEOREM AnswersKept == ASSUME RoomForAll PROVE Spec => AnswersStand
<1> DEFINE Inv == TypeOK /\ LedgerInv /\ Shown /\ Closing /\ StandInv
<1>1. Spec => []Inv
  BY StandingKept
<1>2. Inv => ShownSo
  BY CurrentShown DEF LedgerInv, StandInv
<1>3. Inv /\ Inv' /\ ShownSo /\ ShownSo' /\ [Next]_vars => [Asked!Next]_(Asked!requests)
  BY AnswerStep
<1>4. Init => Asked!Init
  BY InitAnswers
<1> HIDE DEF Inv
<1> QED BY <1>1, <1>2, <1>3, <1>4, PTL DEF Spec, AnswersStand, Asked!Spec

-----------------------------------------------------------------------------
(* The caps, while the log has room                                        *)

\* What a request weighs, by the deposit each id was issued for.
Weighs(f) == [i \in Ids |-> IF f[i] \in Deposits THEN Atoms[f[i]] ELSE 0]

Booking(f, S) == MapThenSumSet(LAMBDA i : Atoms[f[i]], S)

\* MapThenSumSet takes one member of S at a time, and so is a total.
LEMMA SpentIsSome ==
  ASSUME NEW f, NEW S \in SUBSET Ids, \A i \in S : f[i] \in Deposits
  PROVE  \E w, t : /\ Totals(w, S, t) /\ Alike(w, Weighs(f), S)
                   /\ Booking(f, S) = t[S]
<1> DEFINE w == [i \in S |-> Atoms[f[i]]]
           Is(t) == t = [T \in SUBSET S |->
                           IF T = {} THEN 0
                           ELSE LET x == CHOOSE y \in T : TRUE IN Atoms[f[x]] + t[T \ {x}]]
           s == CHOOSE t : Is(t)
<1>1. IsFiniteSet(S) /\ S \subseteq Ids
  BY IdsAssumption, FS_Subset
<1>2. \A T \in SUBSET S : T # {} => Any(T) \in S
  BY AnyIn
<1>3. \A x \in S : w[x] = Atoms[f[x]]
  OBVIOUS
<1> HIDE DEF w
<1>4. PICK h : Totals(w, S, h)
  BY <1>1, TotalsExist
<1>5. Is(h)
  <2>1. ASSUME NEW T \in SUBSET S
        PROVE  h[T] = IF T = {} THEN 0
                      ELSE LET x == CHOOSE y \in T : TRUE IN Atoms[f[x]] + h[T \ {x}]
    BY <1>2, <1>3, <1>4 DEF Totals, Any
  <2>2. h = [T \in SUBSET S |-> h[T]]
    BY <1>4 DEF Totals
  <2>3. h = [T \in SUBSET S |->
               IF T = {} THEN 0
               ELSE LET x == CHOOSE y \in T : TRUE IN Atoms[f[x]] + h[T \ {x}]]
    BY <2>1, <2>2
  <2> QED
    BY <2>3
<1>6. Is(s)
  BY <1>5
<1>7. Booking(f, S) = s[S]
  BY DEF Booking, MapThenSumSet, MapThenFoldSet
<1> HIDE DEF s
<1>8. Totals(w, S, s)
  <2>1. \A T \in SUBSET S :
          s[T] = IF T = {} THEN 0 ELSE w[Any(T)] + s[T \ {Any(T)}]
    BY <1>2, <1>3, <1>6 DEF Any
  <2>2. s = [T \in SUBSET S |-> s[T]]
    BY <1>6
  <2> QED
    BY <2>1, <2>2 DEF Totals
<1>9. Alike(w, Weighs(f), S)
  BY <1>3 DEF Weighs, Alike
<1> QED
  BY <1>7, <1>8, <1>9

\* Spent() is the total of those weights.
LEMMA SpentIsTotal ==
  ASSUME NEW f, NEW S \in SUBSET Ids, \A i \in S : f[i] \in Deposits,
         NEW g, Totals(Weighs(f), Ids, g)
  PROVE  Booking(f, S) = g[S]
<1>1. PICK w, t : /\ Totals(w, S, t) /\ Alike(w, Weighs(f), S)
                  /\ Booking(f, S) = t[S]
  BY SpentIsSome
<1>2. IsFiniteSet(S) /\ S \subseteq Ids
  BY IdsAssumption, FS_Subset
<1>3. t[S] = g[S]
  BY <1>1, <1>2, TotalsAgree
<1> QED
  BY <1>1, <1>3

\* The weights are numbers, so there is a total, and it grows with what it is of.
LEMMA Weighing ==
  ASSUME NEW f
  PROVE  /\ IsFiniteSet(Ids) /\ Weighs(f) \in [Ids -> Nat]
         /\ \E g : Totals(Weighs(f), Ids, g)
<1>1. Weighs(f) \in [Ids -> Nat]
  BY AtomsAssumption DEF Weighs
<1> QED
  BY <1>1, IdsAssumption, TotalsExist

LEMMA LessIsSpent ==
  ASSUME NEW f, NEW S \in SUBSET Ids, \A i \in S : f[i] \in Deposits, NEW R \in SUBSET S
  PROVE  Booking(f, R) \in Nat /\ Booking(f, S) \in Nat /\ Booking(f, R) <= Booking(f, S)
<1>1. PICK g : Totals(Weighs(f), Ids, g)
  BY Weighing
<1>2. Booking(f, R) = g[R] /\ Booking(f, S) = g[S]
  BY <1>1, SpentIsTotal
<1> QED
  BY <1>1, <1>2, Weighing, TotalIsNat, TotalGrows

LEMMA OneMoreSpent ==
  ASSUME NEW f, NEW S \in SUBSET Ids, \A i \in S : f[i] \in Deposits,
         NEW e, NEW n \in Ids \ S, NEW d \in Deposits, e[n] = d, \A i \in S : e[i] = f[i],
         NEW R \in SUBSET (S \cup {n})
  PROVE  Booking(e, R) \in Nat /\ Booking(f, S) \in Nat /\ Booking(e, R) <= Booking(f, S) + Atoms[d]
<1> DEFINE T == S \cup {n}
<1>1. PICK g : Totals(Weighs(e), Ids, g)
  BY Weighing
<1>2. PICK h : Totals(Weighs(f), Ids, h)
  BY Weighing
<1>3. Booking(e, R) = g[R] /\ Booking(f, S) = h[S]
  BY <1>1, <1>2, SpentIsTotal
<1>4. T \in SUBSET Ids /\ n \in T /\ T \ {n} = S /\ R \in SUBSET T
  OBVIOUS
<1> HIDE DEF T
<1>5. g[R] <= g[T] /\ g[R] \in Nat /\ g[T] \in Nat /\ g[S] \in Nat
  BY <1>1, <1>4, Weighing, TotalIsNat, TotalGrows
<1>6. g[T] = g[S] + Atoms[d]
  <2>1. g[T] = g[T \ {n}] + Weighs(e)[n]
    BY <1>1, <1>4, Weighing, TotalWithout
  <2>2. Weighs(e)[n] = Atoms[d]
    BY DEF Weighs
  <2> QED
    BY <1>4, <2>1, <2>2
<1>7. g[S] = h[S]
  <2>1. PICK k : Totals(Weighs(f), S, k)
    BY IdsAssumption, FS_Subset, TotalsExist
  <2>2. IsFiniteSet(S) /\ S \subseteq Ids /\ Alike(Weighs(f), Weighs(e), S) /\ Alike(Weighs(f), Weighs(f), S)
    BY IdsAssumption, FS_Subset DEF Weighs, Alike
  <2>3. k[S] = g[S]
    BY <1>1, <2>1, <2>2, TotalsAgree
  <2>4. k[S] = h[S]
    BY <1>2, <2>1, <2>2, TotalsAgree
  <2> QED
    BY <2>3, <2>4
<1> QED
  BY <1>3, <1>5, <1>6, <1>7

-----------------------------------------------------------------------------
\* What the day's cap and the table's cap count.
OfTheDay == {i \in Known(Current) : spendCountsOrPends(Current[i])}
OfTheTable == {i \in Known(Current) : spendOutstanding(Current[i]) \/ Current[i].state = "approved"}

CapsAre == /\ spentInDay(Current, {}) = Booking(of, OfTheDay)
           /\ tableCommitted(Current, {}) = Booking(of, OfTheTable)

LEMMA CapsRead == CapsAre
<1>1. Known(Current) \ {} = Known(Current)
  OBVIOUS
<1> QED
  BY <1>1 DEF CapsAre, spentInDay, tableCommitted, Spent, Booking, OfTheDay, OfTheTable

\* What is counted was issued.
LEMMA CountedIssued ==
  ASSUME TypeOK, LedgerInv, ShownSo, NEW i \in Ids,
         i \in OfTheDay \/ i \in OfTheTable
  PROVE  of[i] \in Deposits
<1>1. AsShown(i) # "none"
  BY DEF OfTheDay, OfTheTable, Known, ShownSo
<1> QED
  BY <1>1 DEF AsShown, LedgerInv, Issued, TypeOK

\* An approved entry that has aged stays so.
LEMMA StaysOld ==
  ASSUME RoomForAll, TypeOK, LedgerInv, [Next]_vars, NEW i \in Ids,
         log[i].state = "approved", log[i].old, log'[i].state = "approved"
  PROVE  log'[i].old
<1>1. Moves(log[i], log'[i], i \in preview \cup preview', Ends(i))
  BY EntryMoves DEF LedgerInv
<1>2. log[i] \in Entry
  BY DEF TypeOK
<1> QED
  BY <1>1, <1>2 DEF Moves, Entry

LEMMA LoggedShown == TypeOK => ShownAsLogged
BY CurrentType DEF ShownAsLogged

\* What counts after a step that is not its request counted before.
LEMMA CountedBefore ==
  ASSUME RoomForAll, TypeOK, LedgerInv, Shown, Closing, StandInv, ShownSo, [Next]_vars,
         LedgerInv', ShownSo', TypeOK', NEW i \in Ids, of'[i] = of[i], lapsed \subseteq lapsed'
  PROVE  /\ i \in OfTheDay' => i \in OfTheDay
         /\ i \in OfTheTable' => i \in OfTheTable
<1>1. Told(Current'[i].state) \in Asked!Follows(Told(Current[i].state))
  BY AnswerFollows
<1>2. /\ Current[i].state = "approved" => Current[i] = log[i]
      /\ Current'[i].state = "approved" => Current'[i] = log'[i]
  <2>1. /\ Current[i].state = AsShown(i) /\ Current'[i].state = AsShown(i)'
    BY DEF ShownSo
  <2>2. ShownAsLogged
    BY LoggedShown
  <2>3. ShownAsLogged'
    BY LoggedShown, PTL
  <2> QED
    BY <2>1, <2>2, <2>3 DEF AsShown, ShownAsLogged
<1>3. /\ Current[i].state \in SpendStates /\ Current'[i].state \in SpendStates
      /\ (Current[i].state = "approved" => Current[i].old \in BOOLEAN)
  <2>1. /\ Current[i].state = AsShown(i) /\ Current'[i].state = AsShown(i)'
        /\ log[i] \in Entry /\ log'[i] \in Entry
    BY DEF ShownSo, TypeOK
  <2> QED
    BY <1>2, <2>1 DEF AsShown, SpendStates, Entry
<1>4. CASE Current'[i].state \in {"pending", "publishing"}
  <2>1. Told(Current[i].state) = "pending"
    BY <1>1, <1>3, <1>4 DEF Told, Asked!Follows, SpendStates
  <2>2. Current[i].state \in {"pending", "publishing"}
    BY <1>3, <2>1 DEF Told, SpendStates
  <2> QED
    BY <2>2 DEF OfTheDay, OfTheTable, Known, spendCountsOrPends, spendOutstanding
<1>5. CASE Current'[i].state = "approved"
  <2>1. Told(Current[i].state) \in {"pending", "approved"}
    BY <1>1, <1>3, <1>5 DEF Told, Asked!Follows, SpendStates
  <2>2. Current[i].state \in {"pending", "publishing", "approved"}
    BY <1>3, <2>1 DEF Told, SpendStates
  <2>3. Current[i].state = "approved" /\ Current[i].old => Current'[i].old
    BY <1>2, <1>5, StaysOld
  <2> QED
    BY <1>5, <2>2, <2>3 DEF OfTheDay, OfTheTable, Known, spendCountsOrPends, spendOutstanding
<1> QED
  BY <1>3, <1>4, <1>5 DEF OfTheDay, OfTheTable, Known, spendCountsOrPends, spendOutstanding

LEMMA CapsStep ==
  ASSUME RoomForAll, TypeOK, LedgerInv, Shown, Closing, StandInv, ShownSo, [Next]_vars,
         TypeOK', LedgerInv', ShownSo', CapsHold
  PROVE  CapsHold'
<1>1. CapsAre /\ CapsAre'
  BY CapsRead, PTL
<1>2. /\ OfTheDay \subseteq Ids /\ OfTheTable \subseteq Ids
      /\ \A i \in OfTheDay \cup OfTheTable : of[i] \in Deposits
  BY CountedIssued DEF OfTheDay, OfTheTable, Known
<1>3. OfTheDay' \subseteq Ids /\ OfTheTable' \subseteq Ids
  BY DEF OfTheDay, OfTheTable, Known
<1>4. DayCap \in Nat /\ TableCap \in Nat
  BY CapsAssumption
<1>5. CASE of' = of /\ lapsed \subseteq lapsed'
  <2>1. OfTheDay' \subseteq OfTheDay /\ OfTheTable' \subseteq OfTheTable
    BY <1>3, <1>5, CountedBefore
  <2>2. /\ Booking(of, OfTheDay') <= Booking(of, OfTheDay)
        /\ Booking(of, OfTheDay') \in Nat /\ Booking(of, OfTheDay) \in Nat
    BY <1>2, <2>1, LessIsSpent
  <2>3. /\ Booking(of, OfTheTable') <= Booking(of, OfTheTable)
        /\ Booking(of, OfTheTable') \in Nat /\ Booking(of, OfTheTable) \in Nat
    BY <1>2, <2>1, LessIsSpent
  <2>4. Booking(of, OfTheDay') = Booking(of, OfTheDay)' /\ Booking(of, OfTheTable') = Booking(of, OfTheTable)'
    BY <1>5
  <2> QED
    BY <1>1, <1>4, <2>2, <2>3, <2>4 DEF CapsAre, CapsHold
<1>6. ASSUME NEW d \in Deposits, NEW n \in Ids, RequestNew(d, n) PROVE CapsHold'
  <2>1. /\ of[n] = None /\ of' = [of EXCEPT ![n] = d] /\ lapsed' = lapsed
        /\ WithinCaps(Current, d, {})
    BY <1>6 DEF RequestNew, nature
  <2>2. of'[n] = d /\ \A j \in Ids \ {n} : of'[j] = of[j]
    BY <2>1 DEF TypeOK
  <2>3. n \notin OfTheDay /\ n \notin OfTheTable
    BY <2>1, <1>2, IdsAssumption
  <2>4. OfTheDay' \subseteq OfTheDay \cup {n} /\ OfTheTable' \subseteq OfTheTable \cup {n}
    BY <1>3, <2>1, <2>2, CountedBefore
  <2>5. \A i \in OfTheDay \cup OfTheTable : of'[i] = of[i]
    BY <1>2, <2>2, <2>3
  <2>6. /\ Booking(of', OfTheDay') <= Booking(of, OfTheDay) + Atoms[d]
        /\ Booking(of', OfTheDay') \in Nat /\ Booking(of, OfTheDay) \in Nat
    BY <1>2, <2>2, <2>3, <2>4, <2>5, OneMoreSpent
  <2>7. /\ Booking(of', OfTheTable') <= Booking(of, OfTheTable) + Atoms[d]
        /\ Booking(of', OfTheTable') \in Nat /\ Booking(of, OfTheTable) \in Nat
    BY <1>2, <2>2, <2>3, <2>4, <2>5, OneMoreSpent
  <2>8. Atoms[d] \in Nat
    BY AtomsAssumption
  <2>9. /\ DayCap = 0 \/ Atoms[d] <= DayCap - Booking(of, OfTheDay)
        /\ TableCap = 0 \/ Atoms[d] <= TableCap - Booking(of, OfTheTable)
    BY <1>1, <2>1 DEF WithinCaps, Fits, CapsAre
  <2>10. Booking(of', OfTheDay') = Booking(of, OfTheDay)' /\ Booking(of', OfTheTable') = Booking(of, OfTheTable)'
    OBVIOUS
  <2> QED
    BY <1>1, <1>4, <2>6, <2>7, <2>8, <2>9, <2>10 DEF CapsAre, CapsHold
<1> QED
  BY <1>5, <1>6, OfStep

LEMMA InitCaps == ASSUME Init, ShownSo PROVE CapsHold
<1>1. OfTheDay = {} /\ OfTheTable = {}
  BY DEF ShownSo, AsShown, Init, NoEntry, OfTheDay, OfTheTable, Known
<1>2. Booking(of, {}) = 0
  <2>1. PICK g : Totals(Weighs(of), Ids, g)
    BY Weighing
  <2>2. g[{}] = 0
    BY <2>1 DEF Totals
  <2> QED
    BY <2>1, <2>2, SpentIsTotal
<1>3. CapsAre
  BY CapsRead
<1> QED
  BY <1>1, <1>2, <1>3, CapsAssumption DEF CapsAre, CapsHold

\* While the log has room, no path through the log and the ledger lets a game's
\* payments pass its caps: what is shown of a request only ever stops counting, and
\* a request that is new was checked against what is shown (WithinCaps).
THEOREM CapsKept == ASSUME RoomForAll PROVE Spec => []CapsHold
<1> DEFINE Inv == TypeOK /\ LedgerInv /\ Shown /\ Closing /\ StandInv
<1>1. Spec => []Inv
  BY StandingKept
<1>2. Inv => ShownSo
  BY CurrentShown DEF LedgerInv, StandInv
<1>3. Inv /\ ShownSo /\ Inv' /\ ShownSo' /\ CapsHold /\ [Next]_vars => CapsHold'
  BY CapsStep
<1>4. Init /\ ShownSo => CapsHold
  BY InitCaps
<1> HIDE DEF Inv
<1> QED
  BY <1>1, <1>2, <1>3, <1>4, PTL DEF Spec

-----------------------------------------------------------------------------
(* The ledger and the chain are an implementation of OneCharge             *)

Lost == {i \in Ids : coin[i] # None /\ coins[coin[i]] = "gone"}
Mined == {i \in Ids : chain[i] = "mined"}
Charging == Charges!Next \/ UNCHANGED <<fund, Lost, Mined>>

\* Which payments are lost depends on the coins alone.
LEMMA LostUnchanged == ASSUME UNCHANGED <<coin, coins>> PROVE Lost' = Lost
BY DEF Lost

\* What the node took is charged, can confirm, and was issued.
LEMMA MinedIsDue ==
  ASSUME TypeOK, LedgerInv, NEW i \in Ids, chain[i] # "none"
  PROVE  /\ of[i] \in Deposits /\ fund[of[i]] = i
         /\ i \notin Lost
BY DEF TypeOK, LedgerInv, OnChain, Due, Lost

LEMMA RequestCharging ==
  ASSUME TypeOK, LedgerInv, NEW d \in Deposits, NEW i \in Ids, RequestNew(d, i)
  PROVE  Charging
<1>1. fund' = fund /\ Mined' = Mined /\ coins' = coins
  BY DEF RequestNew, nature, Mined
<1>2. i \notin Mined
  BY MinedIsDue, IdsAssumption DEF RequestNew, Mined
<1>3. coin[i] = None /\ \A j \in Ids \ {i} : coin'[j] = coin[j]
  BY DEF RequestNew, LedgerInv, Issued, TypeOK
<1>4. Lost' = Lost \/ Lost' = Lost \cup {i}
  BY <1>1, <1>3 DEF Lost
<1>5. CASE Lost' = Lost \cup {i}
  <2>1. {i} \in SUBSET Ids /\ {i} \cap Mined = {}
    BY <1>2
  <2>2. Charges!Lose({i})
    BY <1>1, <1>5, <2>1 DEF Charges!Lose, Lost, Mined
  <2> QED BY <2>1, <2>2 DEF Charging, Charges!Next
<1> QED BY <1>1, <1>4, <1>5 DEF Charging

\* CommitFunding: a deposit that nothing charges is charged.
LEMMA CommitCharging ==
  ASSUME TypeOK, LedgerInv, NEW i \in Ids, CommitFunding(i)
  PROVE  Charging
<1>1. Lost' = Lost /\ Mined' = Mined
  BY DEF CommitFunding, nature, Lost, Mined
<1>2. CASE fund' = fund
  BY <1>1, <1>2 DEF Charging
<1>3. CASE Commits(i) /\ fund' = [fund EXCEPT ![of[i]] = i]
  <2>1. i \in preview /\ of[i] \in Deposits /\ fund[of[i]] = None
    BY <1>3 DEF Commits, Fundable, LedgerInv, Issued, TypeOK
  <2>2. \A e \in Deposits : fund[e] # i
    BY <2>1, IdsAssumption DEF LedgerInv, Due
  <2>3. i \notin Mined
    BY <2>1, MinedIsDue, IdsAssumption DEF Mined
  <2>4. Charges!Charge(of[i], i)
    BY <1>1, <1>3, <2>1, <2>2, <2>3 DEF Charges!Charge, Lost, Mined
  <2> QED BY <2>1, <2>4 DEF Charging, Charges!Next
<1> QED BY <1>2, <1>3 DEF CommitFunding

\* AbandonFunding: only a payment that can never confirm lets go of its deposit.
LEMMA RejectCharging ==
  ASSUME TypeOK, LedgerInv, NEW i \in Ids, Rejected(i)
  PROVE  Charging
<1>1. Lost' = Lost /\ Mined' = Mined
  BY DEF Rejected, nature, Lost, Mined
<1>2. CASE fund' = fund
  BY <1>1, <1>2 DEF Charging
<1>3. CASE Dead(i) /\ AbandonFunding(i)
  <2>1. LiveOp(i)
    BY DEF Rejected, LedgerInv, OnRecord
  <2>2. of[i] \in Deposits /\ fund[of[i]] = i /\ coin[i] # None
    BY <2>1 DEF LedgerInv, Due, Issued, TypeOK
  <2>3. i \in Lost
    BY <1>3, <2>2 DEF Lost, Dead
  <2>4. \A d \in Deposits : fund[d] = i <=> d = of[i]
    BY <2>2, IdsAssumption DEF LedgerInv, Due
  <2>5. fund' = [fund EXCEPT ![of[i]] = None]
    BY <1>3, <2>2, <2>4 DEF AbandonFunding, TypeOK
  <2>6. Charges!Release(of[i])
    BY <1>1, <2>2, <2>3, <2>5 DEF Charges!Release, Lost, Mined
  <2> QED BY <2>2, <2>6 DEF Charging, Charges!Next
<1> QED BY <1>2, <1>3 DEF Rejected

\* A block confirms what is charged.
LEMMA MineCharging ==
  ASSUME TypeOK, LedgerInv, NEW i \in Ids, Mine(i)
  PROVE  Charging
<1>1. fund' = fund /\ Lost' = Lost
  BY DEF Mine, ledger, Lost
<1>2. of[i] \in Deposits /\ fund[of[i]] = i /\ i \notin Lost
  BY MinedIsDue DEF Mine
<1>3. Mined' = Mined \cup {fund[of[i]]}
  BY <1>2 DEF Mine, Mined, TypeOK
<1>4. Charges!Confirm(of[i])
  BY <1>1, <1>2, <1>3 DEF Charges!Confirm, Lost, Mined
<1>5. \E d \in Deposits : Charges!Confirm(d)
  BY <1>2, <1>4 DEF Charges!Confirm
<1> QED BY <1>5 DEF Charging, Charges!Next

\* Another spender of a coin is buried, and what would have spent it is lost.
LEMMA SettleCharging ==
  ASSUME TypeOK, LedgerInv, NEW c \in Coins, Settle(c)
  PROVE  Charging
<1>1. fund' = fund /\ Mined' = Mined /\ coin' = coin /\ coins[c] = "taken"
  BY DEF Settle, ledger, Mined
<1> DEFINE P == {i \in Ids : coin[i] = c}
<1>2. P \in SUBSET Ids /\ P \cap Mined = {}
  BY <1>1 DEF LedgerInv, OnChain, Mined
<1>3. Lost' = Lost \/ Lost' = Lost \cup P
  <2>1. PICK s \in {"free", "gone"} : coins' = [coins EXCEPT ![c] = s]
    BY DEF Settle
  <2>2. \A i \in Ids : coin[i] # None => coin[i] \in Coins
    BY DEF TypeOK
  <2>3. c # None
    BY IdsAssumption
  <2>4. \A i \in Ids : i \in Lost' <=> (i \in Lost \/ (s = "gone" /\ coin[i] = c))
    BY <1>1, <2>1, <2>2, <2>3 DEF Lost, TypeOK
  <2> QED BY <2>4 DEF Lost
<1>4. CASE Lost' = Lost
  BY <1>1, <1>4 DEF Charging
<1>5. CASE Lost' = Lost \cup P
  <2> HIDE DEF P
  <2>1. Charges!Lose(P)
    BY <1>1, <1>2, <1>5 DEF Charges!Lose, Lost, Mined
  <2>2. \E Q \in SUBSET Ids : Charges!Lose(Q)
    BY <1>2, <2>1 DEF Charges!Lose
  <2> QED BY <2>2 DEF Charging, Charges!Next
<1> QED BY <1>3, <1>4, <1>5

\* A coin that is taken, a transaction the node takes or drops: no payment is
\* lost or made.
LEMMA ChainCharging ==
  ASSUME TypeOK, LedgerInv,
         \/ \E i \in Ids : Publish(i) \/ Rebroadcast(i) \/ Evict(i)
         \/ \E c \in Coins : TakeCoin(c)
  PROVE  Charging
<1>1. fund' = fund /\ coin' = coin
  BY DEF Publish, Rebroadcast, Evict, TakeCoin, ledger
<1>2. ASSUME NEW i \in Ids, Publish(i) \/ Rebroadcast(i) PROVE Mined' = Mined /\ coins' = coins
  <2>1. Broadcast(i) \/ UNCHANGED chain
    BY <1>2 DEF Publish, Rebroadcast
  <2> QED BY <1>2, <2>1 DEF Publish, Rebroadcast, Broadcast, Mined, TypeOK
<1>3. ASSUME NEW i \in Ids, Evict(i) PROVE Mined' = Mined /\ coins' = coins
  BY <1>3 DEF Evict, Mined, TypeOK
<1>4. ASSUME NEW c \in Coins, TakeCoin(c) PROVE Mined' = Mined /\ Lost' = Lost
  <2>1. \A i \in Ids : coin[i] # None => coin[i] \in Coins
    BY DEF TypeOK
  <2> QED BY <1>1, <1>4, <2>1 DEF TakeCoin, Mined, Lost, TypeOK
<1> QED BY <1>1, <1>2, <1>3, <1>4, LostUnchanged DEF Charging

LEMMA ChargingStep == ASSUME TypeOK, LedgerInv, [Next]_vars PROVE Charging
<1>1. ASSUME UNCHANGED <<fund, coin, coins, chain>> PROVE Charging
  BY <1>1 DEF Charging, Lost, Mined
<1> QED
  BY <1>1, RequestCharging, CommitCharging, RejectCharging, MineCharging, SettleCharging, ChainCharging
    DEF Next, Game, Bridge, vars, ledger, nature, Refuse, Ask, RequestAgain, Look, DenyGamingSpend, Approve, Sign,
        Mistype, markSpendPublishing, Record, SwitchOff, SwitchOn, RevokeGamingCredential,
        invalidatePendingSpends, CloseTable, Observe, History, FailSpend, Lapse, Age, Crash

\* The bridge implements OneCharge: a deposit is let go only by a payment whose
\* coin is gone, and what was mined stays its payment (CommitFunding,
\* AbandonFunding, fundingSpentElsewhere).
THEOREM OneChargeKept == Spec => ChargesOnce
<1>1. Init => Charges!Init
  BY DEF Init, Charges!Init
<1>2. TypeOK /\ LedgerInv /\ [Next]_vars => Charging
  BY ChargingStep
<1>3. Charging => [Charges!Next]_<<fund, {i \in Ids : coin[i] # None /\ coins[coin[i]] = "gone"},
                                    {i \in Ids : chain[i] = "mined"}>>
  BY DEF Charging, Lost, Mined
<1> QED BY <1>1, <1>2, <1>3, TypeCorrect, LedgerSound, PTL DEF Spec, ChargesOnce, Charges!Spec

=============================================================================
