------------------------------- MODULE Funding -------------------------------
(***************************************************************************)
(* The game's side of a payment: the spend book (pkg/spend), and the calls *)
(* that fund a table from it (pkg/runtime: askFor, dispatchSpend,          *)
(* awaitAnswer, findOutput, ReconcileSpend, RetryFunding), against a       *)
(* bridge that keeps Requests' promise.                                    *)
(*                                                                         *)
(* A call holds its obligation's lock from askFor to the last answer, and  *)
(* lets it go to look for the output.                                      *)
(* Each action below is one access to the book, the table store or the     *)
(* bridge; a crash may come between any two.  What a request binds         *)
(* (script, address, amount, terms) is the obligation itself: a deposit    *)
(* here.  The tx an approved request names stands under its id.            *)
(***************************************************************************)
EXTENDS Integers, FiniteSets

CONSTANTS Deposits,     \* the obligations of one seat at one table
          Bonds,        \* those that are admission bonds
          Ids,          \* request ids the bridge may issue
          None,
          Callers,      \* calls into the runtime
          MaxFaults     \* bound on failures

ASSUME BondsAssumption == Bonds \subseteq Deposits
ASSUME NoneAssumption == None \notin Ids \cup Deposits
ASSUME BoundsAssumption == MaxFaults \in Nat

VARIABLES
  of, answer, \* the bridge's requests
  late,       \* the tip is past the admission deadline
  recovery,   \* the table is kept for recovery only
  faults,     \* failures so far
  fault,      \* a storage error is latched: the runtime stops
  book,       \* the spend book in memory
  disk,       \* the book on disk
  landed,     \* where each deposit landed: the table's record in memory
  kept,       \* the same on disk
  call        \* what each caller is at

bridge == <<of, answer>>
records == <<faults, fault, book, disk>>
table == <<landed, kept>>
nature == <<late, recovery>>
vars == <<of, answer, late, recovery, faults, fault, book, disk, landed, kept, call>>

Bridge == INSTANCE Requests

Open == {"requested", "unknown", "approved"}
Refused == {"denied", "failed", "expired"}
Terminal == Refused \cup {"located"}

Record == [for : Deposits, attempt : Nat, id : Ids \cup {None}, state : Open \cup Terminal]

\* dispatch: the request is written down; adopt, note: the bridge answered;
\* reconciled: the same for ReconcileSpend; wait: between two polls; heard: a
\* poll was answered; again: RetryFunding, once the refusal is noted.
Steps == {"dispatch", "adopt", "note", "reconcile", "reconciled", "wait", "heard", "retry", "again", "locate", "land"}
Heard == Bridge!Answers \cup {"unreachable"}
Idle == [at |-> "idle", for |-> None, id |-> None, heard |-> "none"]
Calls == [at : Steps, for : Deposits, id : Ids \cup {None}, heard : Heard] \cup {Idle}

TypeOK ==
  /\ of \in [Ids -> Deposits \cup {None}] /\ answer \in [Ids -> Bridge!Answers]
  /\ late \in BOOLEAN /\ recovery \in BOOLEAN /\ fault \in BOOLEAN /\ faults \in Nat
  /\ book \subseteq Record /\ disk \subseteq Record
  /\ landed \in [Deposits -> Ids \cup {None}] /\ kept \in [Deposits -> Ids \cup {None}]
  /\ call \in [Callers -> Calls]

Init ==
  /\ Bridge!Init
  /\ late = FALSE /\ recovery = FALSE /\ fault = FALSE /\ faults = 0
  /\ book = {} /\ disk = {}
  /\ landed = [d \in Deposits |-> None] /\ kept = [d \in Deposits |-> None]
  /\ call = [c \in Callers |-> Idle]

-----------------------------------------------------------------------------
(* The spend book                                                          *)

Fail == faults < MaxFaults /\ faults' = faults + 1

\* saveLocked(): the disk first.  An error latches, and says nothing of the
\* rename; with one latched nothing is written.
Save(b) ==
  \/ ~fault /\ book' = b /\ disk' = b /\ UNCHANGED <<faults, fault>>
  \/ ~fault /\ Fail /\ fault' = TRUE /\ disk' \in {disk, b} /\ UNCHANGED book
  \/ fault /\ UNCHANGED records

Saved == ~fault'

Of(d) == {r \in book : r.for = d}
Named(i) == {r \in book : r.id = i}
Unnamed(d) == {r \in Of(d) : r.id = None}

\* Reserve(): the attempt an obligation stands at.
Latest(d) == {r \in Of(d) : \A s \in Of(d) : s.attempt <= r.attempt}

Fresh(d, n) == [for |-> d, attempt |-> n, id |-> None, state |-> "requested"]

\* Adopt(): the one request without an id gets it; never an id that is taken.
Adoptable(d, i) == Named(i) = {} /\ Cardinality(Unnamed(d)) = 1
Adopted(d, i) == (book \ Unnamed(d)) \cup {[r EXCEPT !.id = i] : r \in Unnamed(d)}

Written(i, state) == (book \ Named(i)) \cup {[r EXCEPT !.state = state] : r \in Named(i)}

fromTransport(a) == IF a = "pending" THEN "requested" ELSE a

\* Not being able to ask unsays nothing.
NextState(state, heard) ==
  IF heard # "unreachable" THEN fromTransport(heard)
  ELSE IF state = "approved" THEN state ELSE "unknown"

\* Note(): nothing leaves a terminal state.
Note(i, heard) ==
  \E r \in Named(i) :
    IF r.state \in Terminal THEN UNCHANGED records ELSE Save(Written(i, NextState(r.state, heard)))

-----------------------------------------------------------------------------
(* Calls                                                                   *)

At(c, step) == call[c].at = step
Go(c, step) == call' = [call EXCEPT ![c].at = step]
Learn(c, step, i, heard) == call' = [call EXCEPT ![c].at = step, ![c].id = i, ![c].heard = heard]
Done(c) == call' = [call EXCEPT ![c] = Idle]
Then(c, step) == IF Saved THEN Go(c, step) ELSE Done(c)

\* fundingLock(): held until there is an answer, not while the output is looked for.
Lock(d) == \A c \in Callers : call[c].for = d => call[c].at \in {"locate", "land"}

Enter(c, d, step, i) ==
  /\ call[c] = Idle /\ Lock(d) /\ ~fault
  /\ call' = [call EXCEPT ![c] = [at |-> step, for |-> d, id |-> i, heard |-> "none"]]

\* Slip: the request is asked before it is written down.
AskUnwritten(c, d) ==
  /\ landed[d] = None /\ Of(d) = {} /\ ~recovery
  /\ Enter(c, d, "dispatch", None)
  /\ UNCHANGED <<bridge, nature, records, table>>

\* Slip: an obligation is asked for again once its request is closed.
AskOnceClosed(c, d) ==
  /\ landed[d] = None /\ (\A r \in Of(d) : r.state \in Terminal) /\ ~recovery
  /\ Save({Fresh(d, 0)} \cup book)
  /\ IF Saved THEN Enter(c, d, "dispatch", None)
     ELSE call[c] = Idle /\ Lock(d) /\ ~fault /\ UNCHANGED call
  /\ UNCHANGED <<bridge, nature, table>>

\* Fund, FundSeatBond, askFor: an obligation nobody asked for is written down
\* first.  A bond is not asked for past the admission deadline, and a table kept
\* for recovery asks for nothing new.
Ask(c, d) ==
  /\ landed[d] = None /\ Of(d) = {} /\ ~recovery
  /\ d \in Bonds => ~late
  /\ Save({Fresh(d, 0)} \cup book)
  /\ IF Saved THEN Enter(c, d, "dispatch", None)
     ELSE call[c] = Idle /\ Lock(d) /\ ~fault /\ UNCHANGED call
  /\ UNCHANGED <<bridge, nature, table>>

\* Slip: a request the bridge was not reached about is not taken up again.
TakeUpKnown(c, d) ==
  /\ landed[d] = None
  /\ \E r \in Latest(d) :
       /\ r.id # None /\ r.state \notin Refused \cup {"unknown"}
       /\ Enter(c, d, IF r.state \in {"approved", "located"} THEN "locate" ELSE "wait", r.id)
  /\ UNCHANGED <<bridge, nature, records, table>>

\* One that was asked for is taken up where it stands.  Without an id it is
\* unresolved (ErrUnresolvedPayment), refused it is refused: neither is asked again.
TakeUp(c, d) ==
  /\ landed[d] = None
  /\ \E r \in Latest(d) :
       /\ r.id # None /\ r.state \notin Refused
       /\ Enter(c, d, IF r.state \in {"approved", "located"} THEN "locate" ELSE "wait", r.id)
  /\ UNCHANGED <<bridge, nature, records, table>>

\* RequestDepositSpend: the bridge answers with the request that stands or with a
\* new one, and the answer may be lost.
Dispatch(c) ==
  /\ At(c, "dispatch") /\ ~fault
  /\ \E i \in Ids :
       /\ \/ Bridge!Stands(i, call[c].for) /\ UNCHANGED bridge
          \/ Bridge!Take(i, call[c].for)
       /\ \/ Learn(c, "adopt", i, answer'[i]) /\ UNCHANGED faults
          \/ Fail /\ Done(c)
  /\ UNCHANGED <<nature, fault, book, disk, table>>

\* The bridge refuses, was not reached, or the runtime stops first.
DispatchRefused(c) ==
  /\ At(c, "dispatch")
  /\ Done(c)
  /\ UNCHANGED <<bridge, nature, records, table>>

Adopt(c) ==
  /\ At(c, "adopt")
  /\ IF Adoptable(call[c].for, call[c].id)
     THEN Save(Adopted(call[c].for, call[c].id)) /\ Then(c, "note")
     ELSE UNCHANGED records /\ Done(c)
  /\ UNCHANGED <<bridge, nature, table>>

NoteFirst(c) ==
  /\ At(c, "note")
  /\ Note(call[c].id, call[c].heard)
  /\ Then(c, "wait")
  /\ UNCHANGED <<bridge, nature, table>>

\* awaitAnswer: what the book says, or else SpendStatus.
Poll(c) ==
  /\ At(c, "wait")
  /\ \E r \in Named(call[c].id) :
       IF r.state \in {"approved", "located"} THEN Go(c, "locate")
       ELSE IF r.state \in Terminal THEN Done(c)
       ELSE Learn(c, "heard", r.id, answer[r.id])
  /\ UNCHANGED <<bridge, nature, records, table>>

\* The bridge cannot be reached: that is written down, and asked again.
PollUnreachable(c) ==
  /\ At(c, "wait")
  /\ \E r \in Named(call[c].id) :
       /\ r.state \in {"requested", "unknown"}
       /\ Learn(c, "heard", r.id, "unreachable")
  /\ UNCHANGED <<bridge, nature, records, table>>

Hear(c) ==
  /\ At(c, "heard")
  /\ Note(call[c].id, call[c].heard)
  /\ Then(c, "wait")
  /\ UNCHANGED <<bridge, nature, table>>

\* The caller's own context ends the wait.
Cancel(c) ==
  /\ At(c, "wait") /\ Fail
  /\ Done(c)
  /\ UNCHANGED <<bridge, nature, fault, book, disk, table>>

\* Slip: the book does not learn where the output is.
LocateUnwritten(c) ==
  /\ At(c, "locate")
  /\ answer[call[c].id] = "approved"
  /\ Go(c, "land")
  /\ UNCHANGED <<bridge, nature, records, table>>

\* findOutput: the output the approved payment made, and Book.Locate.
Locate(c) ==
  /\ At(c, "locate")
  /\ answer[call[c].id] = "approved"
  /\ Save(Written(call[c].id, "located"))
  /\ Then(c, "land")
  /\ UNCHANGED <<bridge, nature, table>>

\* It is not found, or nobody could say.
NotFound(c) ==
  /\ At(c, "locate")
  /\ IF answer[call[c].id] = "approved" THEN Fail ELSE UNCHANGED faults
  /\ Done(c)
  /\ UNCHANGED <<bridge, nature, fault, book, disk, table>>

\* landDeposit, FundSeatBond: the table's record, and keep().
Land(c) ==
  /\ At(c, "land")
  /\ landed' = [landed EXCEPT ![call[c].for] = call[c].id]
  /\ \/ ~fault /\ kept' = landed' /\ UNCHANGED <<faults, fault>>
     \/ ~fault /\ Fail /\ fault' = TRUE /\ kept' \in {kept, landed'}
     \/ fault /\ UNCHANGED <<faults, fault, kept>>
  /\ Done(c)
  /\ UNCHANGED <<bridge, nature, book, disk>>

-----------------------------------------------------------------------------
(* Calls of the operator: ReconcileSpend, RetryFunding                     *)

\* An id for the request that has none, checked against the bridge's record.  To
\* name one the book has is a mistake, and counted with the failures.
Reconcile(c, d, i) ==
  /\ Cardinality(Unnamed(d)) = 1
  /\ of[i] = d /\ answer[i] # "none"
  /\ Enter(c, d, "reconcile", i)
  /\ IF Named(i) = {} THEN UNCHANGED faults ELSE Fail
  /\ UNCHANGED <<bridge, nature, fault, book, disk, table>>

\* A refused adoption is taken for a storage fault.
ReconcileAdopt(c) ==
  /\ At(c, "reconcile")
  /\ IF Adoptable(call[c].for, call[c].id)
     THEN Save(Adopted(call[c].for, call[c].id))
     ELSE fault' = TRUE /\ UNCHANGED <<faults, book, disk>>
  /\ IF Saved THEN Learn(c, "reconciled", call[c].id, answer[call[c].id]) ELSE Done(c)
  /\ UNCHANGED <<bridge, nature, table>>

ReconcileNote(c) ==
  /\ At(c, "reconciled")
  /\ Note(call[c].id, call[c].heard)
  /\ Done(c)
  /\ UNCHANGED <<bridge, nature, table>>

\* A fresh answer proves the request unpaid.
Retry(c, i) ==
  /\ Named(i) # {} /\ answer[i] \in {"denied", "expired"}
  /\ of[i] \in Bonds => ~late
  /\ \E r \in Named(i) : Enter(c, r.for, "retry", i)
  /\ UNCHANGED <<bridge, nature, records, table>>

RetryNote(c) ==
  /\ At(c, "retry")
  /\ Note(call[c].id, answer[call[c].id])
  /\ Then(c, "again")
  /\ UNCHANGED <<bridge, nature, table>>

\* Book.Retry: not with a later attempt on record.
MayRetry(r) == r.state \in {"denied", "expired"} /\ r \in Latest(r.for)

RetryAgain(c) ==
  /\ At(c, "again")
  /\ \E r \in Named(call[c].id) :
       IF MayRetry(r)
       THEN Save({Fresh(r.for, r.attempt + 1)} \cup book) /\ Then(c, "dispatch")
       ELSE UNCHANGED records /\ Done(c)
  /\ UNCHANGED <<bridge, nature, table>>

-----------------------------------------------------------------------------
(* The bridge, the chain, the process                                      *)

Decide == Bridge!Decide /\ UNCHANGED <<nature, records, table, call>>

DeadlinePasses ==
  /\ ~late /\ late' = TRUE
  /\ UNCHANGED <<bridge, recovery, records, table, call>>

\* lapseIfUnfunded, joinWhenBonded, RefreshDeposits: past a deadline with a
\* deposit missing, or closed by the operator.
Recover ==
  /\ ~recovery
  /\ late /\ \E d \in Deposits : landed[d] = None
  /\ recovery' = TRUE
  /\ UNCHANGED <<bridge, late, records, table, call>>

\* A crash, or the end of Run that a latched fault brings; then Open, Resume.
Restart ==
  /\ IF fault THEN UNCHANGED faults ELSE Fail
  /\ fault' = FALSE
  /\ book' = disk /\ landed' = kept
  /\ call' = [c \in Callers |-> Idle]
  /\ UNCHANGED <<bridge, nature, disk, kept>>

Call(c) ==
  \/ Dispatch(c) \/ DispatchRefused(c) \/ Adopt(c) \/ NoteFirst(c)
  \/ Poll(c) \/ PollUnreachable(c) \/ Hear(c) \/ Cancel(c)
  \/ Locate(c) \/ NotFound(c) \/ Land(c)
  \/ ReconcileAdopt(c) \/ ReconcileNote(c) \/ RetryNote(c) \/ RetryAgain(c)

Next ==
  \/ \E c \in Callers :
       \/ Call(c)
       \/ \E d \in Deposits : Ask(c, d) \/ TakeUp(c, d) \/ \E i \in Ids : Reconcile(c, d, i)
       \/ \E i \in Ids : Retry(c, i)
  \/ Decide \/ DeadlinePasses \/ Recover \/ Restart

Spec == Init /\ [][Next]_vars

\* A call takes its steps, and one poll in the end gets through; a process that
\* stopped is started again; a game calls until its deposit has landed.
Fairness ==
  /\ \A c \in Callers :
       /\ WF_vars(Call(c)) /\ SF_vars(Poll(c)) /\ SF_vars(Locate(c))
  /\ \A d \in Deposits : SF_vars(\E c \in Callers : TakeUp(c, d))
  /\ WF_vars(fault /\ Restart)

FairSpec == Spec /\ Fairness

-----------------------------------------------------------------------------
(* What must hold                                                          *)

Pays(i) == answer[i] \in {"pending", "approved"}

\* A request the bridge may still pay is on disk, with its id or as one whose id
\* is not known, and what the book calls refused the bridge refused: no crash,
\* timeout or late answer leaves a payment nobody watches, to be paid twice.
Watched ==
  /\ \A i \in Ids : Pays(i) =>
       \E r \in disk : /\ r.for = of[i]
                       /\ r.id = None \/ (r.id = i /\ r.state \notin Refused)
  /\ \A r \in book \cup disk :
       r.state \in Refused => r.id # None /\ answer[r.id] = r.state

\* An obligation never has two attempts that may be paid, in memory or on disk:
\* no book that Reserve, Adopt or ReconcileSpend would call ambiguous.
NeverAmbiguous ==
  \A b \in {book, disk} : \A r, s \in b :
    /\ r.for = s.for /\ r.state \notin Refused /\ s.state \notin Refused => r = s
    /\ r.for = s.for /\ r.attempt = s.attempt => r = s

\* Where a deposit landed is decided once, by the request the book has located,
\* whatever is restarted, retried or reconciled.
LandsOnce ==
  [][\A d \in Deposits :
       /\ kept[d] # None => kept'[d] = kept[d]
       /\ kept'[d] # None => \E r \in disk' : r.for = d /\ r.id = kept'[d] /\ r.state = "located"]_vars

\* A payment the bridge made, for a request the book knows, is found and kept
\* where the settlement needs it, however often the process stops before, unless
\* the chain takes it back.
PaymentLands ==
  \A i \in Ids, d \in Deposits :
    of[i] = d /\ answer[i] = "approved" /\ (\E r \in disk : r.id = i)
      ~> answer[i] = "failed" \/ kept[d] = i

-----------------------------------------------------------------------------
(* What the repository says of the code                                    *)

\* docs/seating-recovery.md: "RetryFunding(ctx, id) permits an explicit new attempt
\* only after a fresh bridge response proves the previous request denied or expired".
RetryIsAnswered == \A c \in Callers : At(c, "adopt") => Adoptable(call[c].for, call[c].id)

=============================================================================
