------------------------------ MODULE Formation ------------------------------
(***************************************************************************)
(* pkg/membership/formation.go: one peer's view of a table forming, with   *)
(* no referee.  A formation is a value; every operator below is one method *)
(* of *Formation, from the value before the call to the value after it     *)
(* (the methods run under f.mu, so a call is one atomic change).           *)
(*                                                                         *)
(* A peer stands for the session key it joins with.  A roster is the set   *)
(* of keys it names: RosterHash is taken to be injective, so the hash and  *)
(* the canonical membership it was computed from are the same value.       *)
(* Signature checks always succeed on what the model sends.                *)
(***************************************************************************)
EXTENDS Naturals, FiniteSets

CONSTANTS Peers,   \* the session keys that may answer the invitation
          Seats    \* terms.Seats

ASSUME SeatsAssumption == Seats \in Nat \ {0}
ASSUME PeersAssumption == IsFiniteSet(Peers)

\* No membership, no assertion, no commit: f.canonical == nil or no map entry.
NoRoster == {}

States == {"joining", "formed", "committed", "settled", "aborted"}

FormationType ==
  [ joins     : SUBSET Peers,               \* whose join is held
    commits   : [Peers -> SUBSET Peers],    \* signer -> the one roster it bound
    asserts   : [Peers -> SUBSET Peers],    \* signer -> the roster it last claimed
    closed    : BOOLEAN,                    \* the admission window has shut
    state     : States,
    canonical : SUBSET Peers,               \* NoRoster stands for nil
    conflict  : SUBSET Peers,               \* signers shown to have bound two rosters
    beacon    : BOOLEAN ]                   \* the seating block is known

\* The zero value: t.form == nil, a table whose seat bond is still being paid.
Blank ==
  [ joins     |-> {},
    commits   |-> [q \in Peers |-> NoRoster],
    asserts   |-> [q \in Peers |-> NoRoster],
    closed    |-> FALSE,
    state     |-> "joining",
    canonical |-> NoRoster,
    conflict  |-> {},
    beacon    |-> FALSE ]

\* Every formation holds its own join from the start.
Joined(f) == f.joins # {}

\* An abort during formation forgets the membership ...
abort(f) == [f EXCEPT !.state = "aborted", !.canonical = NoRoster]

\* Slip: an abandoned table is dropped like any other.
AbandonForgets(f) ==
  IF f.state \in {"formed", "committed", "settled"} THEN abort(f) ELSE f

\* ... and abandoning a table that had one keeps it.
Abandon(f) ==
  IF f.state \in {"formed", "committed", "settled"}
  THEN [f EXCEPT !.state = "aborted"]
  ELSE f

\* Slip: a commit counts whatever roster it names.
AllBoundToAnything(f) == \A k \in f.canonical : f.commits[k] # NoRoster

\* Every member of the membership bound itself to exactly that membership.
AllBound(f) == \A k \in f.canonical : f.commits[k] = f.canonical

\* Membership by exact fill: too many answers end the table, a short table has
\* no membership, a full one is formed.
Membership(f) ==
  IF Cardinality(f.joins) > Seats
  THEN abort(f)
  ELSE IF Cardinality(f.joins) = Seats
  THEN [f EXCEPT !.canonical = f.joins, !.state = "formed"]
  ELSE [f EXCEPT !.canonical = NoRoster, !.state = "joining"]

recompute(f) ==
  IF f.state \in {"joining", "formed"}
  THEN Membership(f)
  ELSE IF f.state = "committed" /\ AllBound(f)
  THEN [f EXCEPT !.state = "settled"]
  ELSE f

\* AddJoin for every join of js.  Once a join overfills the table the rest of
\* js is ignored by the code; here they enter f.joins, which an aborted
\* formation never reads again.
AddJoins(f, js) ==
  IF f.state \in {"aborted", "settled", "committed"} \/ f.closed \/ js \subseteq f.joins
  THEN f
  ELSE recompute([f EXCEPT !.joins = @ \cup js])

NewFormation(self) == AddJoins(Blank, {self})

\* signer says it holds roster, and shows the joins that make it checkable.
AddAssertion(f, signer, roster, js) ==
  IF f.state \in {"aborted", "settled"}
  THEN f
  ELSE recompute(AddJoins([f EXCEPT !.asserts[signer] = roster], js))

\* Slip: a commit to another roster than ours is taken for a contradiction.
AddCommitOursOnly(f, signer, roster) ==
  IF f.state = "aborted" \/ f.commits[signer] = roster
  THEN f
  ELSE IF f.canonical \in {NoRoster, roster}
  THEN recompute([f EXCEPT !.commits[signer] = roster])
  ELSE abort([f EXCEPT !.conflict = {signer}])

\* A second, different commit by one key is kept as proof, and ends a table
\* that has not settled.
AddCommit(f, signer, roster) ==
  IF f.state = "aborted" \/ f.commits[signer] = roster
  THEN f
  ELSE IF f.commits[signer] = NoRoster
  THEN recompute([f EXCEPT !.commits[signer] = roster])
  ELSE LET g == [f EXCEPT !.conflict = {signer}]
       IN  IF f.state = "settled" THEN g ELSE abort(g)

\* AddCommit for every entry of cs, a map signer -> roster that came out of
\* another formation of this table, so that no entry contradicts one of ours.
AddCommits(f, cs) ==
  IF f.state = "aborted"
  THEN f
  ELSE recompute([f EXCEPT !.commits =
         [k \in Peers |-> IF @[k] = NoRoster THEN cs[k] ELSE @[k]]])

Bind(f, self) ==
  IF f.state = "formed"
  THEN recompute([f EXCEPT !.commits[self] = f.canonical, !.state = "committed"])
  ELSE f

\* Slip: the deadline ends every table that has not settled.
CloseWindowOnAll(f) ==
  IF f.closed \/ f.state \in {"aborted", "settled"}
  THEN f
  ELSE abort([f EXCEPT !.closed = TRUE])

CloseWindow(f) ==
  IF f.closed \/ f.state \in {"aborted", "settled"}
  THEN f
  ELSE IF f.state = "joining"
  THEN abort([f EXCEPT !.closed = TRUE])
  ELSE [f EXCEPT !.closed = TRUE]

\* Slip: a claim counts whatever roster it names.
AgreedOnAnything(f) ==
  /\ f.canonical # NoRoster
  /\ \A k \in f.canonical : f.asserts[k] # NoRoster

\* Every member of our membership says it holds the same one.
Agreed(f) ==
  /\ f.canonical # NoRoster
  /\ \A k \in f.canonical : f.asserts[k] = f.canonical

\* Making our own claim files it: it counts toward agreement like any other.
Assertion(f, self) ==
  IF f.canonical # NoRoster THEN [f EXCEPT !.asserts[self] = f.canonical] ELSE f

SetBeacon(f) == [f EXCEPT !.beacon = TRUE]

Seated(f) == f.beacon /\ f.canonical # NoRoster

=============================================================================
