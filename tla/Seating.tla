------------------------------- MODULE Seating -------------------------------
(***************************************************************************)
(* pkg/runtime: what every peer's runtime does with its formation between  *)
(* an accepted invitation and a seated table: the admission worker         *)
(* (seating.go, bondscope.go), the frame handlers and advance()            *)
(* (seating.go), the chain follower's Tick (announce.go), the table record *)
(* on disk and resume() (tablestore.go), over a group chat whose frames    *)
(* arrive late, in any order, and again after a restart.                   *)
(*                                                                         *)
(* One process per goroutine of a runtime:                                 *)
(*   - the admission worker, whose progress is adm[p];                     *)
(*   - the frame handler, one frame at a time, whose progress is step[p]:  *)
(*     a handler is cut where it writes to disk or sends, because a crash  *)
(*     or another goroutine may come between;                              *)
(*   - the follower, one action per Tick.                                  *)
(*                                                                         *)
(* Failures: a restart, a failed write to the table store, a send the      *)
(* bridge refuses and a bond lookup that finds nothing all draw on one     *)
(* budget, MaxFaults.                                                      *)
(***************************************************************************)
EXTENDS Formation

CONSTANTS Equivocators,   \* keys whose holder signs whatever it likes
          StartHeight,    \* the tip when the invitations were accepted
          Until,          \* terms.Until, the last height that admits a join
          FundingBlocks,  \* membership.FundingBlocks
          Redelivery,     \* frames may come again; if not, once per process
          MaxHeight,      \* bound on the chain
          MaxFaults       \* bound on failures

ASSUME EquivocatorsAssumption == Equivocators \subseteq Peers
\* The keys whose only user is one runtime.
Honest == Peers \ Equivocators

ASSUME HeightAssumption ==
  /\ StartHeight \in Nat /\ Until \in Nat /\ MaxHeight \in Nat
  /\ FundingBlocks \in Nat
  /\ StartHeight <= Until
ASSUME MaxFaultsAssumption == MaxFaults \in Nat
ASSUME RedeliveryAssumption == Redelivery \in BOOLEAN

BeaconHeight == Until + 1                            \* membership.BeaconHeight
FundingDeadline == BeaconHeight + FundingBlocks      \* membership.FundingDeadline

VARIABLES
  height,    \* the best block
  faults,    \* failures so far
  net,       \* frames ever put to the group chat; the relay keeps them
  form,      \* t.form; Blank while it is nil
  adm,       \* the admission worker: what it has done for this table
  step,      \* the frame handler: where in advance() it is
  rcvd,      \* frames this process will not be handed again
  recovery,  \* t.recoveryOnly
  fault,     \* the latched storage fault
  disk,      \* the table record
  bridge,    \* the roster this peer's bridge bound (d.Seated), durable
  paid       \* every seat's stake is recorded (t.funded), durable

vars == <<height, faults, net, form, adm, step, rcvd, recovery, fault, disk, bridge, paid>>

Message == [kind : {"join", "roster", "commit"}, from : Peers, roster : SUBSET Peers]

JoinMsg(p)      == [kind |-> "join",   from |-> p, roster |-> {p}]
RosterMsg(p, R) == [kind |-> "roster", from |-> p, roster |-> R]
CommitMsg(p, R) == [kind |-> "commit", from |-> p, roster |-> R]

\* idle -> asked: the seat bond is in the spend book.  bonded: its output is
\* found and recorded.  formed: the formation is kept, the join not yet sent.
\* done: nothing left to do for this process.
AdmStates == {"idle", "asked", "bonded", "formed", "done"}

Steps == {"idle", "announce", "bind", "commit", "seat"}

Record ==
  [ joins   : SUBSET Peers,
    commits : [Peers -> SUBSET Peers],
    bound   : BOOLEAN,
    roster  : SUBSET Peers,
    beacon  : BOOLEAN,
    over    : BOOLEAN ]     \* Aborted or RecoveryOnly: resume() treats them alike

TypeOK ==
  /\ height \in Nat
  /\ faults \in Nat
  /\ net \subseteq Message
  /\ form \in [Peers -> FormationType]
  /\ adm \in [Peers -> AdmStates]
  /\ step \in [Peers -> Steps]
  /\ rcvd \in [Peers -> SUBSET Message]
  /\ recovery \in [Peers -> BOOLEAN]
  /\ fault \in [Peers -> BOOLEAN]
  /\ disk \in [Peers -> Record]
  /\ bridge \in [Peers -> SUBSET Peers]
  /\ paid \in [Peers -> BOOLEAN]

\* snapshotLocked(): the assertions and the closed window are not written.
Snapshot(f, recoveryOnly) ==
  LET bound == f.state \in {"committed", "settled"}
  IN  [ joins   |-> f.joins,
        commits |-> f.commits,
        bound   |-> bound,
        roster  |-> IF bound THEN f.canonical ELSE NoRoster,
        beacon  |-> f.beacon,
        over    |-> recoveryOnly \/ f.state = "aborted" ]

\* Slip: only our own commit is taken back up.
RebuildOwn(p, rec) ==
  IF rec.joins = {}
  THEN Blank
  ELSE LET joined == AddJoins(NewFormation(p), rec.joins)
           bound  == IF rec.bound THEN Bind(joined, p) ELSE joined
       IN  IF rec.beacon THEN SetBeacon(bound) ELSE bound

\* resume(): rebuild the formation a record describes.
Rebuild(p, rec) ==
  IF rec.joins = {}
  THEN Blank
  ELSE LET joined == AddJoins(NewFormation(p), rec.joins)
           bound  == IF rec.bound THEN Bind(joined, p) ELSE joined
           held   == AddCommits(bound, rec.commits)
       IN  IF rec.beacon THEN SetBeacon(held) ELSE held

\* Binding again must reproduce the roster this key is on record for, or the
\* table does not come back.
Resumes(p, rec) ==
  rec.bound => Bind(AddJoins(NewFormation(p), rec.joins), p).commits[p] = rec.roster

Init ==
  /\ height = StartHeight
  /\ faults = 0
  /\ net = {}
  /\ form = [p \in Peers |-> Blank]
  /\ adm = [p \in Peers |-> "idle"]
  /\ step = [p \in Peers |-> "idle"]
  /\ rcvd = [p \in Peers |-> {}]
  /\ recovery = [p \in Peers |-> FALSE]
  /\ fault = [p \in Peers |-> FALSE]
  /\ disk = [p \in Peers |-> Snapshot(Blank, FALSE)]
  /\ bridge = [p \in Peers |-> NoRoster]
  /\ paid = [p \in Peers |-> FALSE]

-----------------------------------------------------------------------------
(* Writing down and sending                                                *)

Fail == faults < MaxFaults /\ faults' = faults + 1

Written(p, f, recoveryOnly) == disk' = [disk EXCEPT ![p] = Snapshot(f, recoveryOnly)]

\* keep(): a failed write latches the fault, and a latched fault writes nothing.
\* SaveTable() may report an error after its rename.
Keep(p, f, recoveryOnly) ==
  \/ /\ ~fault[p]
     /\ Written(p, f, recoveryOnly)
     /\ UNCHANGED <<fault, faults>>
  \/ /\ ~fault[p]
     /\ Fail
     /\ fault' = [fault EXCEPT ![p] = TRUE]
     /\ Written(p, f, recoveryOnly) \/ UNCHANGED disk
  \/ /\ fault[p]
     /\ UNCHANGED <<disk, fault, faults>>

\* Slip: a process that cannot write still speaks.
SendUnlatched(p, m) ==
  IF recovery[p]
  THEN UNCHANGED <<net, faults>>
  ELSE net' = net \cup {m} /\ UNCHANGED faults

\* send(): refused for a recovery-only table and once storage has failed, and
\* never tried again by the callers.
Send(p, m) ==
  \/ /\ ~recovery[p] /\ ~fault[p]
     /\ net' = net \cup {m}
     /\ UNCHANGED faults
  \/ /\ ~recovery[p] /\ ~fault[p]
     /\ Fail
     /\ UNCHANGED net
  \/ /\ recovery[p] \/ fault[p]
     /\ UNCHANGED <<net, faults>>

-----------------------------------------------------------------------------
(* The admission worker: joinWhenBonded, FundSeatBond, formAndJoin         *)

\* tableOf(): a table that joined and is not kept for recovery only.
AtTable(p) == Joined(form[p]) /\ ~recovery[p]

\* The bond is asked for while admission is open; after it, the table is
\* retained for recovery only.
AskBond(p) ==
  /\ adm[p] = "idle" /\ ~recovery[p] /\ ~fault[p]
  /\ IF height <= Until
     THEN /\ adm' = [adm EXCEPT ![p] = "asked"]
          /\ UNCHANGED <<recovery, disk, fault, faults>>
     ELSE /\ recovery' = [recovery EXCEPT ![p] = TRUE]
          /\ Keep(p, form[p], TRUE)
          /\ UNCHANGED adm
  /\ UNCHANGED <<height, net, form, step, rcvd, bridge, paid>>

\* A person approves the bond and its output is found and recorded.
BondLands(p) ==
  /\ adm[p] = "asked" /\ ~recovery[p] /\ ~fault[p]
  /\ Keep(p, form[p], FALSE)
  /\ adm' = [adm EXCEPT ![p] = IF fault'[p] THEN "asked" ELSE "bonded"]
  /\ UNCHANGED <<height, net, form, step, rcvd, recovery, bridge, paid>>

\* formAndJoin(): the deadline is not looked at again once the bond is paid.
FormAndJoin(p) ==
  /\ adm[p] = "bonded" /\ ~recovery[p] /\ ~fault[p]
  /\ form' = [form EXCEPT ![p] = NewFormation(p)]
  /\ Keep(p, form'[p], FALSE)
  /\ adm' = [adm EXCEPT ![p] = IF fault'[p] THEN "done" ELSE "formed"]
  /\ UNCHANGED <<height, net, step, rcvd, recovery, bridge, paid>>

PublishJoin(p) ==
  /\ adm[p] = "formed"
  /\ Send(p, JoinMsg(p))
  /\ adm' = [adm EXCEPT ![p] = "done"]
  /\ UNCHANGED <<height, form, step, rcvd, recovery, fault, disk, bridge, paid>>

-----------------------------------------------------------------------------
(* The frame handler: addJoin, adoptRoster, addCommit, then advance        *)

\* What the frame does to the formation.
Fold(f, m) ==
  IF m.kind = "join"
  THEN AddJoins(f, m.roster)
  ELSE IF m.kind = "roster"
  THEN AddAssertion(f, m.from, m.roster, m.roster)
  ELSE AddCommit(f, m.from, m.roster)

\* Slip: the handler goes on in a place it does not know.
OnwardRaw(f) == f.state

\* advance() looks at the state once: a table that is formed goes on to bind, a
\* settled one to be seated, and the others are left alone.
Onward(f) ==
  IF f.state = "formed" THEN "bind" ELSE IF f.state = "settled" THEN "seat" ELSE "idle"

\* A membership this very frame formed is announced first, except after a commit.
FirstStep(f, g, m) ==
  IF m.kind # "commit" /\ g.state = "formed" /\ f.state # "formed"
  THEN "announce"
  ELSE Onward(g)

\* The relay hands every frame to every other peer, in no order.
Delivered(p, m) == m \in net /\ m.from # p /\ m \notin rcvd[p]

Handled(p, m) == rcvd' = IF Redelivery THEN rcvd ELSE [rcvd EXCEPT ![p] = @ \cup {m}]

Receive(p, m) ==
  /\ Delivered(p, m)
  /\ step[p] = "idle" /\ AtTable(p)
  /\ form' = [form EXCEPT ![p] = Fold(@, m)]
  /\ Keep(p, form'[p], FALSE)
  /\ step' = [step EXCEPT ![p] = FirstStep(form[p], form'[p], m)]
  /\ Handled(p, m)
  /\ UNCHANGED <<height, net, adm, recovery, bridge, paid>>

\* A frame for a table that has not joined yet is logged and dropped.
DropEarly(p, m) ==
  /\ Delivered(p, m)
  /\ step[p] = "idle" /\ ~Joined(form[p]) /\ ~recovery[p]
  /\ Handled(p, m)
  /\ UNCHANGED <<height, faults, net, form, adm, step, recovery, fault, disk, bridge, paid>>

\* checkAdmissionBondAnnouncement finds no output: the whole frame is refused.
RefuseBond(p, m) ==
  /\ Delivered(p, m)
  /\ step[p] = "idle" /\ AtTable(p) /\ m.kind # "commit"
  /\ Fail
  /\ Handled(p, m)
  /\ UNCHANGED <<height, net, form, adm, step, recovery, fault, disk, bridge, paid>>

\* publishRoster(), if the table is still formed when the handler gets there.
Announce(p) ==
  /\ step[p] = "announce"
  /\ IF form[p].state = "formed"
     THEN /\ form' = [form EXCEPT ![p] = Assertion(@, p)]
          /\ Send(p, RosterMsg(p, form[p].canonical))
     ELSE UNCHANGED <<form, net, faults>>
  /\ step' = [step EXCEPT ![p] = "bind"]
  /\ UNCHANGED <<height, adm, rcvd, recovery, fault, disk, bridge, paid>>

\* Bind when everyone says they hold this membership or admission has shut.
MayBind(f) == f.state = "formed" /\ (Agreed(f) \/ f.closed)

BindStep(p) ==
  /\ step[p] = "bind"
  /\ IF MayBind(form[p])
     THEN /\ form' = [form EXCEPT ![p] = Bind(@, p)]
          /\ Keep(p, form'[p], recovery[p])
          /\ step' = [step EXCEPT ![p] = "commit"]
     ELSE /\ step' = [step EXCEPT ![p] = "idle"]
          /\ UNCHANGED <<form, disk, fault, faults>>
  /\ UNCHANGED <<height, net, adm, rcvd, recovery, bridge, paid>>

\* Publish the commit Bind returned, and advance again: binding may have
\* settled the table.
SayCommit(p) ==
  /\ step[p] = "commit"
  /\ Send(p, CommitMsg(p, form[p].commits[p]))
  /\ step' = [step EXCEPT ![p] = Onward(form[p])]
  /\ UNCHANGED <<height, form, adm, rcvd, recovery, fault, disk, bridge, paid>>

\* seatIfReady(): agreed, the beacon block mined, every bond confirmed.
Ready(f) ==
  /\ ~Seated(f)
  /\ Agreed(f)
  /\ height >= BeaconHeight
  /\ Cardinality(f.joins) = Seats

Seat(f) == IF Ready(f) THEN SetBeacon(f) ELSE f

\* Slip: the drawn seats are not written down.
SeatStepUnsaved(p) ==
  /\ step[p] = "seat"
  /\ form' = [form EXCEPT ![p] = Seat(@)]
  /\ step' = [step EXCEPT ![p] = "idle"]
  /\ UNCHANGED <<height, faults, net, adm, rcvd, recovery, fault, disk, bridge, paid>>

\* The end of advance(): a settled table is seated if it can be.
SeatStep(p) ==
  /\ step[p] = "seat"
  /\ form' = [form EXCEPT ![p] = Seat(@)]
  /\ IF form'[p] # form[p]
     THEN Keep(p, form'[p], recovery[p])
     ELSE UNCHANGED <<disk, fault, faults>>
  /\ step' = [step EXCEPT ![p] = "idle"]
  /\ UNCHANGED <<height, net, adm, rcvd, recovery, bridge, paid>>

-----------------------------------------------------------------------------
(* The follower: Tick, tickTable, giveRoster, lapseIfUnfunded              *)

\* Slip: the bridge does not ask for every seat's commit.
BridgeTakesUncommitted(p, f) ==
  /\ Cardinality(f.joins) = Seats
  /\ \A k \in Peers : f.commits[k] \in {NoRoster, f.joins}
  /\ p \in f.joins

\* verifiedSeatKeys() and BindSeats(): a full roster, every commit handed over
\* naming it, one from every seat, our own among them, and nothing else bound.
BridgeTakes(p, f) ==
  /\ Cardinality(f.joins) = Seats
  /\ \A k \in Peers : f.commits[k] \in {NoRoster, f.joins}
  /\ \A k \in f.joins : f.commits[k] = f.joins
  /\ p \in f.joins
  /\ bridge[p] \in {NoRoster, f.joins}

Lapses(p, f, h) == h > FundingDeadline /\ Seated(f) /\ ~paid[p]

\* The follower read tip h; seatIfReady reads the tip again and may see one
\* block more.
Tick(p, h) ==
  /\ h \in {height - 1, height} /\ h >= StartHeight
  /\ AtTable(p)
  /\ LET f      == form[p]
         shut   == IF h > Until THEN CloseWindow(f) ELSE f
         seated == Seat(shut)
         given  == Seated(seated) /\ bridge[p] = NoRoster /\ BridgeTakes(p, seated)
         lapsed == Lapses(p, seated, h)
         last   == IF lapsed THEN Abandon(seated) ELSE seated
     IN  /\ form' = [form EXCEPT ![p] = last]
         /\ bridge' = [bridge EXCEPT ![p] = IF given THEN seated.joins ELSE @]
         /\ recovery' = [recovery EXCEPT ![p] = lapsed]
         /\ IF Snapshot(last, lapsed) # Snapshot(f, FALSE) \/ given
            THEN Keep(p, last, lapsed)
            ELSE UNCHANGED <<disk, fault, faults>>
  /\ UNCHANGED <<height, net, adm, step, rcvd, paid>>

-----------------------------------------------------------------------------
(* The rest of the world                                                   *)

MineBlock ==
  /\ height < MaxHeight
  /\ height' = height + 1
  /\ UNCHANGED <<faults, net, form, adm, step, rcvd, recovery, fault, disk, bridge, paid>>

\* The last seat's stake is found on the chain and recorded at p.
StakesRecorded(p) ==
  /\ AtTable(p) /\ Seated(form[p]) /\ ~paid[p]
  /\ paid' = [paid EXCEPT ![p] = TRUE]
  /\ UNCHANGED <<height, faults, net, form, adm, step, rcvd, recovery, fault, disk, bridge>>

\* The process dies and is started again on its table record.  Its stream
\* cursor dies with it, so the bridge replays the whole inbox.  A worker that
\* had kept its formation is not started again; one that was still waiting for
\* its bond looks at the deadline again.
Restart(p) ==
  /\ Fail
  /\ Resumes(p, disk[p])
  /\ form' = [form EXCEPT ![p] = Rebuild(p, disk[p])]
  /\ recovery' = [recovery EXCEPT ![p] = disk[p].over]
  /\ adm' = [adm EXCEPT ![p] = IF disk[p].joins # {} THEN "done"
                               ELSE IF @ \in {"idle", "asked"} THEN "idle"
                               ELSE "bonded"]
  /\ step' = [step EXCEPT ![p] = "idle"]
  /\ rcvd' = [rcvd EXCEPT ![p] = {}]
  /\ fault' = [fault EXCEPT ![p] = FALSE]
  /\ UNCHANGED <<height, net, disk, bridge, paid>>

\* What a key that keeps no promise may put to the chat: its join, and any claim
\* or commit to a full roster of keys that have joined.
Claims(p) ==
  {JoinMsg(p)} \cup
  UNION { {RosterMsg(p, R), CommitMsg(p, R)} :
            R \in { S \in SUBSET Peers : /\ p \in S /\ Cardinality(S) = Seats
                                        /\ \A q \in S : JoinMsg(q) \in net } }

Equivocate(p) ==
  /\ \E m \in Claims(p) : net' = net \cup {m}
  /\ UNCHANGED <<height, faults, form, adm, step, rcvd, recovery, fault, disk, bridge, paid>>

Next ==
  \/ MineBlock
  \/ \E p \in Honest :
       \/ AskBond(p) \/ BondLands(p) \/ FormAndJoin(p) \/ PublishJoin(p)
       \/ Announce(p) \/ BindStep(p) \/ SayCommit(p) \/ SeatStep(p)
       \/ StakesRecorded(p) \/ Restart(p)
       \/ \E m \in net : Receive(p, m) \/ DropEarly(p, m) \/ RefuseBond(p, m)
       \/ \E h \in {height - 1, height} : Tick(p, h)
  \/ \E p \in Equivocators : Equivocate(p)

Spec == Init /\ [][Next]_vars

Fairness ==
  /\ WF_vars(MineBlock)
  /\ \A p \in Honest :
       /\ WF_vars(AskBond(p)) /\ WF_vars(FormAndJoin(p)) /\ WF_vars(PublishJoin(p))
       /\ WF_vars(\E m \in net : Receive(p, m) \/ DropEarly(p, m))
       /\ WF_vars(Announce(p)) /\ WF_vars(BindStep(p))
       /\ WF_vars(SayCommit(p)) /\ WF_vars(SeatStep(p))
       /\ WF_vars(Tick(p, height))

FairSpec == Spec /\ Fairness

-----------------------------------------------------------------------------
(* What must hold                                                          *)

\* The roster an honest key is heard to have bound, and the table it holds.
Word(p) == UNION { m.roster : m \in { n \in net : n.kind = "commit" /\ n.from = p } }
Held(p) == IF form[p].state = "settled" THEN form[p].canonical ELSE NoRoster

\* Forming a table over a lossy chat, through restarts and failed writes, keeps
\* the promise of OneRoster: what recompute() calls settled rests on one word of
\* every honest member.
Promise == INSTANCE OneRoster WITH
  word <- [p \in Honest |-> Word(p)],
  held <- [p \in Honest |-> Held(p)]

KeepsPromise == Promise!Spec

\* Two settled tables that share an honest member are the same table
\* (formation.go: nobody is held to two rosters, whatever was lost or delayed).
Agreement ==
  \A p, q \in Honest : Held(p) \cap Held(q) \cap Honest # {} => Held(p) = Held(q)

\* A key that one runtime uses is never heard binding itself to two rosters,
\* through restarts and failed writes (Bind, keep before send, resume).
SingleCommit ==
  \A m, n \in net :
    m.kind = "commit" /\ n.kind = "commit" /\ m.from = n.from /\ m.from \in Honest => m = n

\* No peer ever holds "proof" against a key that behaved: a commit to some other
\* table of the session is not a contradiction (AddCommit).
NoFalseConflict == \A p \in Honest : form[p].conflict \cap Honest = {}

\* A healthy process has on disk everything resume() can rebuild of its table:
\* no handler or tick forgets its keep().
DurableWhenHealthy ==
  \A p \in Honest : ~fault[p] /\ ~recovery[p] => disk[p] = Snapshot(form[p], FALSE)

\* A settled peer leans only on commits their signers have written down, so a
\* member that restarts comes back bound to the same roster (advance: keep, then
\* send).
SettledIsDurable ==
  \A p \in Honest : \A k \in (Held(p) \cap Honest) \ {p} : disk[k].commits[k] = Held(p)

\* The roster a bridge admits to its money is one every honest seat is durably
\* bound to (giveRoster, verifiedSeatKeys).
FinancialRosterIsBound ==
  \A p \in Honest : \A k \in (bridge[p] \cap Honest) \ {p} : disk[k].commits[k] = bridge[p]

\* Every record that is ever on disk can be taken back up: resume() never meets a
\* roster other than the one this key committed to.
Resumable == \A p \in Honest : Resumes(p, disk[p])

\* Seats are drawn as soon as the members agree, before their commits are in
\* (seatIfReady); two tables drawn that way still share no honest member.
OneSeating ==
  \A p, q \in Honest :
    ( /\ Seated(form[p]) /\ Seated(form[q])
      /\ form[p].canonical \cap form[q].canonical \cap Honest # {} )
    => form[p].canonical = form[q].canonical

\* Once seats are drawn the membership is not forgotten, not by a lapse and not
\* by a restart after it: the refund scripts are derived from it (Abandon).
SeatedKeepsMembership ==
  \A p \in Honest : form[p].beacon => form[p].canonical # NoRoster

\* A healthy settled table stays settled until it is given up for recovery:
\* neither a late contradiction nor a restart unwinds it (AddCommit, resume).
SettledStands ==
  [][ \A p \in Honest :
        form[p].state = "settled" /\ ~fault[p] =>
          form'[p].state = "settled" \/ recovery'[p] ]_vars

\* When nothing fails, a table whose members have all agreed gets its seats, and
\* every bridge its roster (advance, Tick, seatIfReady, giveRoster).
AgreedIsSeated ==
  (\A p \in Honest : Agreed(form[p]))
    ~> (\A p \in Honest : Seated(form[p]) /\ bridge[p] = form[p].canonical)

-----------------------------------------------------------------------------
(* What comments and docs say, and the code does not do                    *)

\* seating.go:584: a formed table binds when admission shuts.
BindsAtClose ==
  \A p \in Honest :
    form[p].state = "formed" /\ form[p].closed ~> form[p].state # "formed"

\* building-a-game.md:242: an agreed roster is seated once the block is there.
SettledIsSeated == \A p \in Honest : form[p].state = "settled" ~> Seated(form[p])

\* formation.go:591: a commit to somebody else's table does not concern ours, so
\* the bridge takes the roster of a settled and seated table.
SettledIsTaken ==
  \A p \in Honest :
    form[p].state = "settled" /\ Seated(form[p]) => BridgeTakes(p, form[p])

\* seating.go:593: binding early may end in no game, never in two tables.
OneTable ==
  \A p, q \in Honest : Held(p) # NoRoster /\ Held(q) # NoRoster => Held(p) = Held(q)

\* seating-recovery.md:21: a deadline that expires while approval is pending
\* leaves a recovery record, not a late join.
NoLateJoin ==
  \A p \in Honest : [](adm[p] = "asked" /\ height > Until => []~Joined(form[p]))

=============================================================================
