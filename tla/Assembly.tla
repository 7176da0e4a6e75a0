------------------------------- MODULE Assembly -------------------------------
(***************************************************************************)
(* From one bridge's outbox to one game's handler: a message is cut into   *)
(* parts (wire.Encode), each part goes out through the outbox, and the     *)
(* router of a peer puts the parts together (HandleGCMessage,              *)
(* Assembler.Add) with those of the group's other members.  What was       *)
(* posted arrives late, repeatedly, in any order, or never.                *)
(*                                                                         *)
(* A part is a frame of the outbox.  Its chunk is a value fixed by the     *)
(* message, the cut and the number.                                        *)
(***************************************************************************)
EXTENDS Outbox, FiniteSetsExt

CONSTANTS Foreign,               \* parts that other members post
          Authorized,            \* Config.Authorize: those whose parts are taken
          Traced,                \* parts whose arrival is remembered, for a property
          MaxPendingPerSender, MaxMessageBytes, MaxTotalBytes, Timeout,
          MaxNow                 \* bound on the clock

Parts == Frames \cup Foreign

ASSUME PartsAssumption ==
  \A p \in Parts :
    /\ DOMAIN p = {"from", "mid", "seq", "total", "exp", "size"}
    /\ p.total \in Nat \ {0} /\ p.seq \in 1..p.total /\ p.exp \in Nat
    /\ p.size \in Nat \ {0}

ASSUME LimitsAssumption ==
  {MaxPendingPerSender, MaxMessageBytes, MaxTotalBytes, Timeout, MaxNow} \subseteq Nat

VARIABLES
  pending,    \* Assembler.pending
  bytes,      \* Assembler.bytes
  delivered,  \* the parts each delivered payload was put together from
  arrived,    \* traced parts that came in time
  now

assembler == <<pending, bytes, delivered, arrived, now>>

AssemblyInit ==
  /\ Init
  /\ pending = {} /\ bytes = 0
  /\ delivered = {} /\ arrived = {}
  /\ now = 0

Size(parts) == MapThenSumSet(LAMBDA p : p.size, parts)
Sizes(messages) == MapThenSumSet(LAMBDA m : Size(m.parts), messages)

Expired(exp) == exp > 0 /\ now > exp

\* gcLocked(): what it evicts.
Stale(m) == Expired(m.exp) \/ now - m.first > Timeout

\* The message a part belongs to, keyed by group, sender, session and message id.
Started(p, messages) == {m \in messages : m.from = p.from /\ m.mid = p.mid}
Start(p) == [from |-> p.from, mid |-> p.mid, total |-> p.total, exp |-> p.exp,
             first |-> now, parts |-> {}]

\* Slip: an eviction is not accounted for.
FreedNothing(held) == bytes

Disagrees(p, m) == m.total # p.total
Freed(held) == bytes - Sizes(pending \ held)

\* Add(), once the stale messages are gone and held are left.
Hold(p, held) ==
  LET m == IF Started(p, held) = {} THEN Start(p) ELSE CHOOSE x \in Started(p, held) : TRUE
      grown == [m EXCEPT !.parts = @ \cup {p}]
      others == held \ {m}
      drop == pending' = others /\ bytes' = Freed(held) - Size(m.parts)
      keep == pending' = held /\ bytes' = Freed(held)
  IN
  IF /\ Started(p, held) = {}
     /\ Cardinality({x \in held : x.from = p.from}) >= MaxPendingPerSender
    THEN keep /\ UNCHANGED delivered
  ELSE IF Disagrees(p, m) THEN drop /\ UNCHANGED delivered
  ELSE IF \E q \in m.parts : q.seq = p.seq THEN keep /\ UNCHANGED delivered
  ELSE IF \/ Size(grown.parts) > MaxMessageBytes
          \/ Freed(held) + p.size > MaxTotalBytes
    THEN drop /\ UNCHANGED delivered
  ELSE IF Cardinality(grown.parts) < m.total
    THEN /\ pending' = others \cup {grown}
         /\ bytes' = Freed(held) + p.size
         /\ UNCHANGED delivered
  ELSE drop /\ delivered' = delivered \cup {grown.parts}

\* HandleGCMessage() and Add(): a lone part is handed up at once.
Handle(p) ==
  /\ p.from \in Authorized
  /\ ~Expired(p.exp)
  /\ arrived' = arrived \cup ({p} \cap Traced)
  /\ IF p.total = 1
       THEN delivered' = delivered \cup {{p}} /\ UNCHANGED <<pending, bytes>>
       ELSE Hold(p, {m \in pending : ~Stale(m)})
  /\ UNCHANGED <<outbox, now>>

Arrives(p) == (p \in Frames /\ posted[p] > 0) \/ p \in Foreign

Tick == now < MaxNow /\ now' = now + 1 /\ UNCHANGED <<outbox, pending, bytes, delivered, arrived>>

AssemblyNext ==
  \/ Next /\ UNCHANGED assembler
  \/ \E p \in Parts : Arrives(p) /\ Handle(p)
  \/ Tick

AssemblySpec == AssemblyInit /\ [][AssemblyNext]_<<outbox, assembler>>

-----------------------------------------------------------------------------
\* What is handed up is one sender's message, whole: each part of one cut once,
\* nothing of another sender's, and all of it posted.
WholeMessages ==
  \A payload \in delivered :
    /\ \A p, q \in payload : p.from = q.from /\ p.mid = q.mid /\ p.total = q.total
    /\ \A p \in payload : Arrives(p) /\ Cardinality(payload) = p.total
    /\ \A p, q \in payload : p.seq = q.seq => p = q

\* The counter the limits are checked against is what is held, and neither it nor a
\* sender's messages pass their limits: whatever expired, overflowed, disagreed, was
\* repeated or was completed in between.
BytesAreHeld ==
  /\ bytes = Sizes(pending) /\ bytes <= MaxTotalBytes
  /\ \A m \in pending : Size(m.parts) <= MaxMessageBytes
  /\ \A m \in pending : Cardinality({x \in pending : x.from = m.from}) <= MaxPendingPerSender

Reassembly == WholeMessages /\ BytesAreHeld

\* A message every part of which arrived in time is handed up (gcLocked: only "a
\* message missing a part" never completes).  It is not, when a part of a retry met
\* the part of the first attempt it repeats, and the first attempt's deadline passed.
ArrivedIsDelivered ==
  \A p \in arrived :
    LET cut == {q \in arrived : /\ q.from = p.from /\ q.mid = p.mid
                                /\ q.total = p.total /\ q.exp = p.exp}
    IN Cardinality(cut) = p.total =>
         \E payload \in delivered : \E q \in payload : q.from = p.from /\ q.mid = p.mid
=============================================================================
