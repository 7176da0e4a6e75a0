------------------------------- MODULE Inbox -------------------------------
(***************************************************************************)
(* What a bridge receives from a group chat, and how it reaches the game:  *)
(* the frame journal, the numbered inbox, history recovery and pruning,    *)
(* the game's stream and the client that reads it.                         *)
(*                                                                         *)
(* Two tables of one game, each in a group of its own: one that comes and  *)
(* goes, and one that is seated throughout.  The journal and the inbox are *)
(* files; memory only mirrors them, as a failed append is taken to leave   *)
(* nothing behind.                                                         *)
(***************************************************************************)
EXTENDS Integers, Sequences, FiniteSets, SequencesExt, FiniteSetsExt

CONSTANTS Frames,       \* messages of both groups
          Table,        \* those of the table that comes and goes
          Financial,    \* those that are for the bridge itself
          Strangers,    \* those of senders who get no seat at it
          Buffer,       \* frames a stream queues beyond its backlog
          MaxFaults

ASSUME FramesAssumption ==
  Table \cup Financial \subseteq Frames /\ Strangers \subseteq Table \ Financial
ASSUME SizesAssumption == Buffer \in Nat /\ MaxFaults \in Nat

VARIABLES
  acked,            \* frames Bison Relay may forget: it repeats the others
  journal,          \* every frame received
  inbox, next,      \* the numbered frames, and the highest number given
  table,            \* the first table, in the financial ledger
  step,             \* intake and recovery, inside deliverGamingMessage
  lock, todo,       \* gamingHistoryRecovery, and what RecoverHistory has read
  recoverCalls,     \* calls of RecoverHistory not yet run
  pruned,           \* its group is in prunedGroups
  done,             \* financialDone: the financial frames this process applied
  stream,           \* the game's subscription
  hand,             \* the frame the game is handling
  lastSeq,          \* how far the game says it got
  handled,          \* what this game process handled
  faults,
  \* what the code does not keep
  overtaken         \* numbers broadcast after a higher one

disk == <<journal, inbox, next>>
recovery == <<lock, todo, recoverCalls>>
game == <<stream, hand, lastSeq, handled>>
vars == <<acked, disk, table, step, recovery, pruned, done, game, faults, overtaken>>

Takers == {"intake", "recovery"}
None == [seq |-> 0]
Numbered == [seq : Nat \ {0}, frame : Frames]
Idle == [at |-> "idle"]
Steps == {Idle} \cup [at : {"deliver"}, frame : Frames]
           \cup [at : {"stored"}, frame : Frames, seq : Nat]
Closed == [at |-> "closed", queue |-> <<>>, last |-> 0, room |-> 0]

TypeOK ==
  /\ acked \subseteq Frames
  /\ journal \in Seq(Frames) /\ todo \in Seq(Frames)
  /\ inbox \subseteq Numbered /\ next \in Nat
  /\ table \in {"none", "accepted", "seated", "settled"}
  /\ step \in [Takers -> Steps]
  /\ lock \in {"free", "recovery", "prune"} /\ recoverCalls \in Nat /\ pruned \in BOOLEAN
  /\ done \subseteq Financial
  /\ stream \in [at : {"closed", "open", "closing"}, queue : Seq(Numbered), last : Nat, room : Nat]
  /\ hand \in Numbered \cup {None} /\ lastSeq \in Nat
  /\ handled \subseteq Numbered
  /\ faults \in Nat /\ overtaken \subseteq Nat

Init ==
  /\ acked = {}
  /\ journal = <<>> /\ inbox = {} /\ next = 0
  /\ table = "none" /\ step = [t \in Takers |-> Idle]
  /\ lock = "free" /\ todo = <<>> /\ recoverCalls = 0 /\ pruned = FALSE
  /\ done = {}
  /\ stream = Closed /\ hand = None /\ lastSeq = 0 /\ handled = {}
  /\ faults = 0 /\ overtaken = {}

Fail == faults < MaxFaults /\ faults' = faults + 1

Stored(f) == \E r \in inbox : r.frame = f

-----------------------------------------------------------------------------
(* Intake                                                                  *)

\* Nothing is sent to a settled table, and what was not acknowledged is repeated.
Repeated(f) == f \notin acked /\ (f \in Table => table # "settled")

\* appendGamingJournal(): a repeat is not written again.
Journaled(f) == IF Contains(journal, f) THEN journal ELSE Append(journal, f)

\* Slip: a message is acknowledged though its journal refused it.
ReceiveAnyway(f) ==
  /\ Repeated(f) /\ step["intake"] = Idle
  /\ \/ /\ journal' = Journaled(f)
        /\ step' = [step EXCEPT !["intake"] = [at |-> "deliver", frame |-> f]]
        /\ UNCHANGED <<faults, acked>>
     \/ Fail /\ acked' = acked \cup {f} /\ UNCHANGED <<journal, step>>
  /\ UNCHANGED <<inbox, next, table, recovery, pruned, done, game, overtaken>>

\* receiveGroupMessage(): journaled first; an error means it has to come again.
Receive(f) ==
  /\ Repeated(f) /\ step["intake"] = Idle
  /\ \/ /\ journal' = Journaled(f)
        /\ step' = [step EXCEPT !["intake"] = [at |-> "deliver", frame |-> f]]
        /\ UNCHANGED faults
     \/ Fail /\ UNCHANGED <<journal, step>>
  /\ UNCHANGED <<acked, inbox, next, table, recovery, pruned, done, game, overtaken>>

\* The call returned: the host acknowledges the message, the recovery goes on.
Finish(t, f) ==
  /\ step' = [step EXCEPT ![t] = Idle]
  /\ acked' = IF t = "intake" THEN acked \cup {f} ELSE acked

\* deliverGamingMessage(): a frame of no accepted table is dropped, and so is one
\* from a sender who holds no seat.
Dropped(f) == f \in Table /\ (table = "none" \/ (f \in Strangers /\ table # "accepted"))

Number == next + 1

\* persistGamingFrame(): an exact repeat is ignored, and a failure only logged.
Deliver(t) ==
  LET f == step[t].frame IN
  /\ step[t].at = "deliver"
  /\ \/ (Dropped(f) \/ Stored(f)) /\ Finish(t, f) /\ UNCHANGED <<inbox, next, faults>>
     \/ ~Dropped(f) /\ Fail /\ Finish(t, f) /\ UNCHANGED <<inbox, next>>
     \/ /\ ~Dropped(f) /\ ~Stored(f)
        /\ next' = Number
        /\ inbox' = inbox \cup {[seq |-> next', frame |-> f]}
        /\ step' = [step EXCEPT ![t] = [at |-> "stored", frame |-> f, seq |-> next']]
        /\ UNCHANGED <<acked, faults>>
  /\ UNCHANGED <<journal, table, recovery, pruned, done, game, overtaken>>

\* gamingFinancialInbox only spares the worker the wait for its next replay: the
\* inbox has the frame, whether the channel was full or not.
Enqueue(t) ==
  LET f == step[t].frame IN
  /\ step[t].at = "stored" /\ f \in Financial
  /\ Finish(t, f)
  /\ UNCHANGED <<disk, table, recovery, pruned, done, game, faults, overtaken>>

\* The frames other calls have stored and not broadcast yet.
Behind(t) == {step[u].seq : u \in {v \in Takers \ {t} : step[v].at = "stored"}}

\* Slip: a listener that does not drain its frames loses one.
OfferedOrLost(r) ==
  IF stream.at # "open" \/ r.seq <= stream.last THEN stream
  ELSE IF Len(stream.queue) < stream.room THEN [stream EXCEPT !.queue = Append(@, r), !.last = r.seq]
  ELSE stream

Offered(r) ==
  IF stream.at # "open" \/ r.seq <= stream.last THEN stream
  ELSE IF Len(stream.queue) < stream.room THEN [stream EXCEPT !.queue = Append(@, r), !.last = r.seq]
  ELSE [stream EXCEPT !.at = "closing"]

\* broadcast(): a listener that is not draining is closed.
Broadcast(t) ==
  LET r == [seq |-> step[t].seq, frame |-> step[t].frame] IN
  /\ step[t].at = "stored" /\ r.frame \notin Financial
  /\ stream' = Offered(r)
  /\ overtaken' = overtaken \cup {n \in Behind(t) : n < r.seq}
  /\ Finish(t, r.frame)
  /\ UNCHANGED <<disk, table, recovery, pruned, done, hand, lastSeq, handled, faults>>

-----------------------------------------------------------------------------
(* The ledger's table, history recovery, pruning                           *)

\* authorizeGamingTable(): the frames from before are to be read back.
Accept ==
  /\ table = "none"
  /\ table' = "accepted" /\ recoverCalls' = recoverCalls + 1
  /\ UNCHANGED <<acked, disk, step, lock, todo, pruned, done, game, faults, overtaken>>

\* CommitRoster: the table's senders are known, and its financial frames apply.
Seat ==
  /\ table = "accepted" /\ table' = "seated"
  /\ UNCHANGED <<acked, disk, step, recovery, pruned, done, game, faults, overtaken>>

\* Every deposit of it was spent 144 blocks ago: what was sent has been taken.
Settle ==
  /\ table = "seated" /\ table' = "settled"
  /\ \A f \in Table : Contains(journal, f) => f \in acked
  /\ \A t \in Takers : step[t] # Idle => step[t].frame \notin Table
  /\ UNCHANGED <<acked, disk, step, recovery, pruned, done, game, faults, overtaken>>

Before(f, g) == \E i, j \in DOMAIN journal : i < j /\ journal[i] = f /\ journal[j] = g

\* gamingJournalHistory(): what the journal has of a group, in the journal's order.
Histories(group) ==
  {s \in SetToSeqs({f \in group : Contains(journal, f)}) :
     \A i, j \in DOMAIN s : i < j => Before(s[i], s[j])}

\* knownGamingGCIDs(): a group is known from its accepted table on.
Known == IF table = "none" THEN {} ELSE Table

\* RecoverHistory(): one at a time, and not at all while another runs or prunes.
Recover ==
  /\ recoverCalls > 0 /\ recoverCalls' = recoverCalls - 1
  /\ IF lock = "free"
     THEN /\ lock' = "recovery"
          /\ \E known \in Histories(Known), rest \in Histories(Frames \ Table) :
               todo' \in {known \o rest, rest \o known}
     ELSE UNCHANGED <<lock, todo>>
  /\ UNCHANGED <<acked, disk, table, step, pruned, done, game, faults, overtaken>>

RecoverNext ==
  /\ lock = "recovery" /\ step["recovery"] = Idle
  /\ IF todo = <<>>
     THEN lock' = "free" /\ UNCHANGED <<todo, step>>
     ELSE /\ step' = [step EXCEPT !["recovery"] = [at |-> "deliver", frame |-> Head(todo)]]
          /\ todo' = Tail(todo)
          /\ UNCHANGED lock
  /\ UNCHANGED <<acked, disk, table, recoverCalls, pruned, done, game, faults, overtaken>>

OfTable(r) == r.frame \in Table
Prunable == table = "settled" /\ ~pruned

\* pruneSettledGamingHistory(): the journal goes first, under the recovery's lock.
PruneJournal ==
  /\ Prunable /\ lock = "free"
  /\ \/ lock' = "prune" /\ journal' \in Histories(Frames \ Table) /\ UNCHANGED faults
     \/ Fail /\ UNCHANGED <<lock, journal>>
  /\ UNCHANGED <<acked, inbox, next, table, step, todo, recoverCalls, pruned, done, game, overtaken>>

\* Slip: the inbox is written anew without a mark.
PruneUnmarked ==
  /\ lock = "prune" /\ lock' = "free"
  /\ inbox' = {r \in inbox : ~OfTable(r)} /\ pruned' = TRUE
  /\ next' = Max({0} \cup {r.seq : r \in inbox'})
  /\ UNCHANGED <<acked, journal, table, step, todo, recoverCalls, done, game, faults, overtaken>>

\* pruneGamingGroup(): the number last given stands in the file, in a frame or in
\* a mark.
PruneInbox ==
  /\ lock = "prune" /\ lock' = "free"
  /\ \/ /\ inbox' = {r \in inbox : ~OfTable(r)} /\ pruned' = TRUE
        /\ UNCHANGED faults
     \/ Fail /\ UNCHANGED <<inbox, pruned>>
  /\ UNCHANGED <<acked, journal, next, table, step, todo, recoverCalls, done, game, overtaken>>

-----------------------------------------------------------------------------
(* The financial worker                                                    *)

\* receiveFinancial() says no until the table is seated.
Applicable(f) == f \in Table => table \in {"seated", "settled"}

\* financialReplay(), processFinancialFrame(): every stored frame this process has
\* not applied is tried again.
Replay ==
  /\ \E r \in inbox : /\ r.frame \in Financial \ done /\ Applicable(r.frame)
                      /\ done' = done \cup {r.frame}
  /\ UNCHANGED <<acked, disk, table, step, recovery, pruned, game, faults, overtaken>>

-----------------------------------------------------------------------------
(* The stream and the game                                                 *)

\* streamOnce(), SubscribeFrom(), handleStart(): the game says how far it got; what
\* lies behind is queued, and the listener added, in one step.
Open ==
  LET missed == {r \in inbox : r.seq > lastSeq /\ r.frame \notin Financial} IN
  /\ stream.at = "closed"
  /\ \E backlog \in SetToSeqs(missed) :
       /\ \A i, j \in DOMAIN backlog : i < j => backlog[i].seq < backlog[j].seq
       /\ stream' = [at |-> "open", queue |-> backlog, room |-> Buffer + Len(backlog),
                     last |-> IF backlog = <<>> THEN lastSeq ELSE backlog[Len(backlog)].seq]
  /\ UNCHANGED <<acked, disk, table, step, recovery, pruned, done, hand, lastSeq, handled, faults, overtaken>>

\* Slip: the game says it got a frame when it is read.
PullAcknowledged ==
  /\ stream.at \in {"open", "closing"} /\ stream.queue # <<>> /\ hand = None
  /\ hand' = Head(stream.queue)
  /\ lastSeq' = Max({lastSeq, hand'.seq})
  /\ stream' = [stream EXCEPT !.queue = Tail(@)]
  /\ UNCHANGED <<acked, disk, table, step, recovery, pruned, done, handled, faults, overtaken>>

\* handleFrame(): the next one waits until the game has the one before.
Pull ==
  /\ stream.at \in {"open", "closing"} /\ stream.queue # <<>> /\ hand = None
  /\ hand' = Head(stream.queue)
  /\ stream' = [stream EXCEPT !.queue = Tail(@)]
  /\ UNCHANGED <<acked, disk, table, step, recovery, pruned, done, lastSeq, handled, faults, overtaken>>

\* Receive(): handled, then acknowledged.
Handle ==
  /\ hand # None /\ hand' = None
  /\ handled' = handled \cup {hand}
  /\ lastSeq' = Max({lastSeq, hand.seq})
  /\ UNCHANGED <<acked, disk, table, step, recovery, pruned, done, stream, faults, overtaken>>

\* A stream the bridge closed ends once it is drained, any other when it breaks.
Hangup ==
  /\ \/ stream.at = "closing" /\ stream.queue = <<>> /\ UNCHANGED faults
     \/ stream.at # "closed" /\ Fail
  /\ stream' = Closed
  /\ UNCHANGED <<acked, disk, table, step, recovery, pruned, done, hand, lastSeq, handled, overtaken>>

\* The game is restarted: how far it got was in memory.
GameRestarts ==
  /\ Fail
  /\ stream' = Closed /\ hand' = None /\ lastSeq' = 0 /\ handled' = {}
  /\ UNCHANGED <<acked, disk, table, step, recovery, pruned, done, overtaken>>

\* The bridge is restarted: its host recovers the history.
Crash ==
  /\ Fail
  /\ step' = [t \in Takers |-> Idle]
  /\ lock' = "free" /\ todo' = <<>> /\ recoverCalls' = 1 /\ pruned' = FALSE
  /\ done' = {}
  /\ stream' = Closed
  /\ UNCHANGED <<acked, disk, table, hand, lastSeq, handled, overtaken>>

Take(t) == Deliver(t) \/ Enqueue(t) \/ Broadcast(t)

Next ==
  \/ \E f \in Frames : Receive(f)
  \/ \E t \in Takers : Take(t)
  \/ Accept \/ Seat \/ Settle \/ Recover \/ RecoverNext \/ PruneJournal \/ PruneInbox
  \/ Replay
  \/ Open \/ Pull \/ Handle \/ Hangup \/ GameRestarts \/ Crash

Spec == Init /\ [][Next]_vars

\* The worker's ticker ticks, and what a crash or a failed write left out is
\* recovered: a goroutine runs, a message that was not acknowledged is repeated.
Fairness ==
  /\ \A f \in Frames : WF_vars(Contains(journal, f) /\ Receive(f))
  /\ \A t \in Takers : WF_vars(Take(t))
  /\ WF_vars(Recover) /\ WF_vars(RecoverNext) /\ WF_vars(PruneInbox) /\ WF_vars(Replay)

FairSpec == Spec /\ Fairness

-----------------------------------------------------------------------------
(* What must hold                                                          *)

\* What Bison Relay may forget is in the journal, unless its table is settled: no
\* failed write or crash loses a frame between the two.
KeptOnceAcked ==
  \A f \in acked : Contains(journal, f) \/ (f \in Table /\ table = "settled")

\* A number names one frame and a frame has one number, for good: not even an
\* interrupted prune, or the restart after it, shows a game two frames under one
\* number, or one frame twice as new.
Numbering == \A a, b \in handled \cup inbox : a.seq = b.seq <=> a.frame = b.frame

ToGame == {r \in inbox : r.frame \notin Financial}

\* What lies behind the game's last number it handled: a stream that is closed,
\* full or broken, or a bridge that is restarted, loses it no frame.  Only a
\* frame that was broadcast after its successor is lost.
OnlyOvertakenAreLost ==
  \A r \in ToGame : r.seq <= lastSeq => r \in handled \/ r.seq \in overtaken

\* With nothing on its way, the game has handled every frame it was to have: a
\* frame that found no stream, a full one or a closing one came by another.
NothingWaits ==
  /\ stream.at = "open" /\ stream.queue = <<>> /\ hand = None
  /\ \A t \in Takers : step[t].at # "stored"
  => \A r \in ToGame : r \in handled \/ r.seq \in overtaken

\* A stored financial frame of a seated table is applied in the end, whatever the
\* worker's channel dropped and whichever process received it.
Applies ==
  \A f \in Financial \cap Table :
    Stored(f) /\ table = "seated" ~> f \in done \/ table = "settled"

-----------------------------------------------------------------------------
(* What the repository says of the code                                    *)

\* gaming_bridge.go: "A listener that is not draining is closed rather than allowed
\* to lose a frame.  The SDK reconnects and resumes from its last accepted durable
\* sequence".
LosesNoFrame == \A r \in ToGame : r.seq <= lastSeq => r \in handled

\* gaming_financial_authority.go, on acceptance: "Frames from this group were dropped
\* until now; the journal has them."
ReadBack ==
  \A f \in Table :
    Contains(journal, f) /\ table = "accepted" ~> Stored(f) \/ table # "accepted"

=============================================================================
