---------------------------- MODULE SeatingProofs ----------------------------
(***************************************************************************)
(* The safety of seating, for any number of peers, seats, blocks and       *)
(* failures: the inductive invariant IInv of formations, records and       *)
(* words, DrawInv over it for the drawing of seats, what follows from      *)
(* them, and that Seating keeps the promise of OneRoster.                  *)
(***************************************************************************)
EXTENDS Seating, FiniteSetTheorems, TLAPS

-----------------------------------------------------------------------------
(* What every method of a formation returns and preserves.  p is the peer  *)
(* whose formation it is.                                                  *)

\* What makes a formation of p well formed: it holds its own join, its
\* membership is its full join set, being bound means bound to that membership,
\* and being settled means everyone is.
Good(p, f) ==
  /\ f.joins # {} => p \in f.joins
  /\ f.joins = {} => f = Blank
  /\ f.state = "joining" => f.canonical = NoRoster /\ Cardinality(f.joins) < Seats
  /\ f.state \in {"formed", "committed", "settled"} =>
       f.canonical = f.joins /\ Cardinality(f.joins) = Seats
  /\ f.state \in {"committed", "settled"} => f.commits[p] = f.canonical
  /\ f.state = "settled" => AllBound(f)

\* A membership that is full is not empty.
LEMMA FullIsNotEmpty ==
  ASSUME NEW S, Cardinality(S) = Seats PROVE S # {}
BY FS_EmptySet, SeatsAssumption

LEMMA BlankGood ==
  ASSUME NEW p \in Peers PROVE Blank \in FormationType /\ Good(p, Blank)
<1>1. Blank \in FormationType
  BY DEF Blank, FormationType, States, NoRoster
<1>2. Cardinality({}) < Seats
  BY FS_EmptySet, SeatsAssumption
<1> QED
  BY <1>1, <1>2 DEF Blank, Good, NoRoster

LEMMA RecomputeOpen ==
  ASSUME NEW p \in Peers, NEW f \in FormationType, p \in f.joins,
         f.state \in {"joining", "formed"}
  PROVE  LET g == recompute(f)
         IN  /\ g \in FormationType
             /\ Good(p, g)
             /\ g.state \in {"joining", "formed", "aborted"}
             /\ g.joins = f.joins /\ g.commits = f.commits
             /\ g.conflict = f.conflict /\ g.beacon = f.beacon
<1> DEFINE g == recompute(f)
<1>1. g = Membership(f)
  BY DEF recompute
<1>2. CASE Cardinality(f.joins) > Seats
  <2>1. g = abort(f)
    BY <1>1, <1>2 DEF Membership
  <2> QED
    BY <2>1 DEF abort, FormationType, States, Good, NoRoster
<1>3. CASE Cardinality(f.joins) = Seats
  <2>1. g = [f EXCEPT !.canonical = f.joins, !.state = "formed"]
    BY <1>1, <1>3, SeatsAssumption DEF Membership
  <2> QED
    BY <2>1, <1>3 DEF FormationType, States, Good, NoRoster
<1>4. CASE ~(Cardinality(f.joins) > Seats) /\ Cardinality(f.joins) # Seats
  <2>1. g = [f EXCEPT !.canonical = NoRoster, !.state = "joining"]
    BY <1>1, <1>4 DEF Membership
  <2>2. Cardinality(f.joins) \in Nat
    BY PeersAssumption, FS_Subset, FS_CardinalityType DEF FormationType
  <2>3. Cardinality(f.joins) < Seats
    BY <1>4, <2>2, SeatsAssumption
  <2> QED
    BY <2>1, <2>3 DEF FormationType, States, Good, NoRoster
<1> QED
  BY <1>2, <1>3, <1>4

LEMMA RecomputeBound ==
  ASSUME NEW p \in Peers, NEW f \in FormationType, Good(p, f),
         f.state \in {"committed", "settled", "aborted"}
  PROVE  LET g == recompute(f)
         IN  /\ g \in FormationType
             /\ Good(p, g)
             /\ g = f \/ (f.state = "committed" /\ g.state = "settled")
             /\ g.joins = f.joins /\ g.commits = f.commits /\ g.canonical = f.canonical
             /\ g.conflict = f.conflict /\ g.beacon = f.beacon
<1> DEFINE g == recompute(f)
<1>1. CASE f.state = "committed" /\ AllBound(f)
  <2>1. g = [f EXCEPT !.state = "settled"]
    BY <1>1 DEF recompute
  <2>2. f.joins # {}
    BY <1>1, FullIsNotEmpty DEF Good
  <2> QED
    BY <1>1, <2>1, <2>2 DEF FormationType, States, Good, AllBound
<1>2. CASE ~(f.state = "committed" /\ AllBound(f))
  <2>1. g = f
    BY <1>2 DEF recompute
  <2> QED
    BY <2>1
<1> QED
  BY <1>1, <1>2

LEMMA AddJoinsFacts ==
  ASSUME NEW p \in Peers, NEW f \in FormationType, Good(p, f), f.joins # {},
         NEW js \in SUBSET Peers
  PROVE  LET g == AddJoins(f, js)
         IN  /\ g \in FormationType
             /\ Good(p, g)
             /\ f.state \in {"joining", "formed"} =>
                  g.state \in {"joining", "formed", "aborted"}
             /\ f.state \in {"committed", "settled", "aborted"} => g = f
             /\ f.joins \subseteq g.joins /\ g.commits = f.commits
             /\ g.conflict = f.conflict /\ g.beacon = f.beacon
<1> DEFINE g == AddJoins(f, js)
           h == [f EXCEPT !.joins = @ \cup js]
<1>1. CASE f.state \in {"aborted", "settled", "committed"} \/ f.closed \/ js \subseteq f.joins
  <2>1. g = f
    BY <1>1 DEF AddJoins
  <2> QED
    BY <2>1
<1>2. CASE ~(f.state \in {"aborted", "settled", "committed"} \/ f.closed \/ js \subseteq f.joins)
  <2>1. g = recompute(h)
    BY <1>2 DEF AddJoins
  <2>2. f.state \in {"joining", "formed"}
    BY <1>2 DEF FormationType, States
  <2>3. h \in FormationType /\ h.joins = f.joins \cup js /\ h.state = f.state
        /\ h.commits = f.commits /\ h.conflict = f.conflict /\ h.beacon = f.beacon
    BY DEF FormationType
  <2>4. p \in h.joins
    BY <2>3 DEF Good
  <2> HIDE DEF h
  <2> QED
    BY <2>1, <2>2, <2>3, <2>4, RecomputeOpen
<1> QED
  BY <1>1, <1>2

\* A table of one key is short or, with one seat, full.
LEMMA NewFormationFacts ==
  ASSUME NEW p \in Peers
  PROVE  LET g == NewFormation(p)
         IN  /\ g \in FormationType
             /\ Good(p, g)
             /\ g.state \in {"joining", "formed"}
             /\ g.joins = {p} /\ g.commits = Blank.commits
             /\ g.conflict = {} /\ g.beacon = FALSE /\ g.closed = FALSE
<1> DEFINE h == [Blank EXCEPT !.joins = {p}]
           g == NewFormation(p)
<1>1. g = recompute(h)
  BY DEF NewFormation, AddJoins, Blank
<1>2. h \in FormationType /\ h.joins = {p} /\ h.state = "joining" /\ h.closed = FALSE
      /\ h.commits = Blank.commits /\ h.conflict = {} /\ h.beacon = FALSE
  BY DEF Blank, FormationType, States, NoRoster
<1>3. g \in FormationType /\ Good(p, g) /\ g.joins = {p} /\ g.commits = Blank.commits
      /\ g.conflict = {} /\ g.beacon = FALSE
  <2> HIDE DEF h, g
  <2> QED
    BY <1>1, <1>2, RecomputeOpen
<1>4. g = IF Seats = 1 THEN [h EXCEPT !.canonical = h.joins, !.state = "formed"]
                       ELSE [h EXCEPT !.canonical = NoRoster, !.state = "joining"]
  <2>1. Cardinality({p}) = 1
    BY FS_Singleton
  <2> HIDE DEF h
  <2> QED
    BY <1>1, <1>2, <2>1, SeatsAssumption DEF recompute, Membership
<1>5. g.state \in {"joining", "formed"} /\ g.closed = FALSE
  BY <1>2, <1>4 DEF FormationType
<1> QED
  BY <1>3, <1>5

LEMMA AddAssertionFacts ==
  ASSUME NEW p \in Peers, NEW f \in FormationType, Good(p, f), f.joins # {},
         NEW signer \in Peers, NEW roster \in SUBSET Peers, NEW js \in SUBSET Peers
  PROVE  LET g == AddAssertion(f, signer, roster, js)
         IN  /\ g \in FormationType
             /\ Good(p, g)
             /\ f.state \in {"joining", "formed"} =>
                  g.state \in {"joining", "formed", "aborted"}
             /\ f.state = "committed" => g.state \in {"committed", "settled"}
             /\ f.state \in {"settled", "aborted"} => g = f
             /\ g.joins # {} /\ g.commits = f.commits
             /\ g.conflict = f.conflict /\ g.beacon = f.beacon
<1> DEFINE g == AddAssertion(f, signer, roster, js)
           h == [f EXCEPT !.asserts[signer] = roster]
           k == AddJoins(h, js)
<1>1. CASE f.state \in {"aborted", "settled"}
  <2>1. g = f
    BY <1>1 DEF AddAssertion
  <2> QED
    BY <1>1, <2>1
<1>2. CASE f.state \notin {"aborted", "settled"}
  <2>1. g = recompute(k)
    BY <1>2 DEF AddAssertion
  <2>2. h \in FormationType /\ h.joins = f.joins /\ h.state = f.state /\ h.commits = f.commits
        /\ h.canonical = f.canonical /\ h.conflict = f.conflict /\ h.beacon = f.beacon
    BY DEF FormationType
  <2>3. Good(p, h)
    BY <1>2, <2>2 DEF Good, FormationType
  <2> HIDE DEF h
  <2>4. /\ k \in FormationType /\ Good(p, k)
        /\ h.state \in {"joining", "formed"} => k.state \in {"joining", "formed", "aborted"}
        /\ h.state = "committed" => k = h
        /\ k.joins # {} /\ k.commits = h.commits
        /\ k.conflict = h.conflict /\ k.beacon = h.beacon
    BY <2>2, <2>3, AddJoinsFacts
  <2>5. p \in k.joins
    BY <2>4 DEF Good
  <2>6. f.state \in {"joining", "formed", "committed"}
    BY <1>2 DEF FormationType, States
  <2> HIDE DEF k
  <2>7. CASE k.state \in {"joining", "formed"}
    BY <1>2, <2>1, <2>2, <2>4, <2>5, <2>6, <2>7, RecomputeOpen
  <2>8. CASE k.state \in {"committed", "settled", "aborted"}
    <3>1. /\ g \in FormationType /\ Good(p, g)
          /\ g = k \/ (k.state = "committed" /\ g.state = "settled")
          /\ g.joins = k.joins /\ g.commits = k.commits
          /\ g.conflict = k.conflict /\ g.beacon = k.beacon
      BY <2>1, <2>4, <2>8, RecomputeBound
    <3> QED
      BY <1>2, <2>2, <2>4, <2>6, <2>8, <3>1
  <2> QED
    BY <2>4, <2>7, <2>8 DEF FormationType, States
<1> QED
  BY <1>1, <1>2

\* A commit by another key never touches our own, and is blamed only when it
\* contradicts one that is held.
LEMMA AddCommitFacts ==
  ASSUME NEW p \in Peers, NEW f \in FormationType, Good(p, f), f.joins # {},
         NEW signer \in Peers, signer # p, NEW roster \in SUBSET Peers
  PROVE  LET g == AddCommit(f, signer, roster)
         IN  /\ g \in FormationType
             /\ Good(p, g)
             /\ f.state \in {"joining", "formed"} =>
                  g.state \in {"joining", "formed", "aborted"}
             /\ f.state = "committed" => g.state \in {"committed", "settled", "aborted"}
             /\ f.state = "settled" => g.state = "settled"
             /\ f.state = "aborted" => g = f
             /\ g.joins = f.joins /\ g.beacon = f.beacon
             /\ \A k \in Peers : k # signer => g.commits[k] = f.commits[k]
             /\ g.commits[signer] \in {f.commits[signer], roster}
             /\ g.conflict = f.conflict \/
                  ( /\ g.conflict = {signer}
                    /\ f.commits[signer] # NoRoster /\ f.commits[signer] # roster )
<1> DEFINE g == AddCommit(f, signer, roster)
           h == [f EXCEPT !.commits[signer] = roster]
           c == [f EXCEPT !.conflict = {signer}]
<1>1. CASE f.state = "aborted" \/ f.commits[signer] = roster
  <2>1. g = f
    BY <1>1 DEF AddCommit
  <2> QED
    BY <1>1, <2>1 DEF FormationType, States
<1>2. CASE ~(f.state = "aborted" \/ f.commits[signer] = roster) /\ f.commits[signer] = NoRoster
  <2>1. g = recompute(h)
    BY <1>2 DEF AddCommit
  <2>2. /\ h \in FormationType /\ h.joins = f.joins /\ h.state = f.state
        /\ h.canonical = f.canonical /\ h.conflict = f.conflict /\ h.beacon = f.beacon
        /\ h.commits[signer] = roster
        /\ \A k \in Peers : k # signer => h.commits[k] = f.commits[k]
    BY DEF FormationType
  <2>3. p \in f.joins
    BY DEF Good
  <2>4. Good(p, h)
    <3>1. ASSUME f.state = "settled" PROVE AllBound(h)
      <4>1. signer \notin f.canonical
        BY <1>2, <3>1, FullIsNotEmpty DEF Good, AllBound, NoRoster
      <4> QED
        BY <2>2, <3>1, <4>1 DEF Good, AllBound, FormationType
    <3> QED
      BY <2>2, <2>3, <3>1 DEF Good
  <2> HIDE DEF h
  <2>5. CASE f.state \in {"joining", "formed"}
    <3>1. /\ g \in FormationType /\ Good(p, g)
          /\ g.state \in {"joining", "formed", "aborted"}
          /\ g.joins = h.joins /\ g.commits = h.commits
          /\ g.conflict = h.conflict /\ g.beacon = h.beacon
      BY <2>1, <2>2, <2>3, <2>5, RecomputeOpen
    <3> QED
      BY <2>2, <2>5, <3>1
  <2>6. CASE f.state \in {"committed", "settled"}
    <3>1. /\ g \in FormationType /\ Good(p, g)
          /\ g = h \/ (h.state = "committed" /\ g.state = "settled")
          /\ g.joins = h.joins /\ g.commits = h.commits
          /\ g.conflict = h.conflict /\ g.beacon = h.beacon
      BY <2>1, <2>2, <2>4, <2>6, RecomputeBound
    <3> QED
      BY <2>2, <2>6, <3>1
  <2> QED
    BY <1>2, <2>5, <2>6 DEF FormationType, States
<1>3. CASE ~(f.state = "aborted" \/ f.commits[signer] = roster) /\ f.commits[signer] # NoRoster
  <2>1. g = IF f.state = "settled" THEN c ELSE abort(c)
    BY <1>3 DEF AddCommit
  <2>2. p \in f.joins
    BY DEF Good
  <2>3. CASE f.state = "settled"
    BY <1>3, <2>1, <2>2, <2>3 DEF FormationType, Good, AllBound
  <2>4. CASE f.state # "settled"
    <3>1. /\ g \in FormationType /\ g.state = "aborted" /\ g.conflict = {signer}
          /\ g.joins = f.joins /\ g.commits = f.commits /\ g.beacon = f.beacon
      <4>1. /\ c \in FormationType /\ c.conflict = {signer}
            /\ c.joins = f.joins /\ c.commits = f.commits /\ c.beacon = f.beacon
        BY DEF FormationType
      <4>2. g = [c EXCEPT !.state = "aborted", !.canonical = NoRoster]
        BY <2>1, <2>4 DEF abort
      <4> HIDE DEF c
      <4> QED
        BY <4>1, <4>2 DEF FormationType, States, NoRoster
    <3>2. Good(p, g)
      BY <2>2, <3>1 DEF Good
    <3> QED
      BY <1>3, <2>4, <3>1, <3>2 DEF FormationType, States
  <2> QED
    BY <2>3, <2>4
<1> QED
  BY <1>1, <1>2, <1>3

LEMMA BindFacts ==
  ASSUME NEW p \in Peers, NEW f \in FormationType, Good(p, f), f.state = "formed"
  PROVE  LET g == Bind(f, p)
         IN  /\ g \in FormationType
             /\ Good(p, g)
             /\ g.state \in {"committed", "settled"}
             /\ g.commits = [f.commits EXCEPT ![p] = f.joins]
             /\ g.joins = f.joins /\ g.canonical = f.joins /\ f.joins # {}
             /\ g.conflict = f.conflict /\ g.beacon = f.beacon
<1> DEFINE g == Bind(f, p)
           h == [f EXCEPT !.commits[p] = f.canonical, !.state = "committed"]
<1>1. g = recompute(h)
  BY DEF Bind
<1>2. f.canonical = f.joins /\ f.joins # {} /\ p \in f.joins
  BY FullIsNotEmpty DEF Good
<1>3. /\ h \in FormationType /\ h.state = "committed" /\ h.joins = f.joins
      /\ h.canonical = f.joins /\ h.conflict = f.conflict /\ h.beacon = f.beacon
      /\ h.commits = [f.commits EXCEPT ![p] = f.joins] /\ h.commits[p] = f.joins
  BY <1>2 DEF FormationType, States
<1>4. Good(p, h)
  BY <1>2, <1>3 DEF Good
<1> HIDE DEF h
<1>5. /\ g \in FormationType /\ Good(p, g)
      /\ g = h \/ (h.state = "committed" /\ g.state = "settled")
      /\ g.joins = h.joins /\ g.commits = h.commits /\ g.canonical = h.canonical
      /\ g.conflict = h.conflict /\ g.beacon = h.beacon
  BY <1>1, <1>3, <1>4, RecomputeBound
<1> QED
  BY <1>2, <1>3, <1>5

\* Taking commits back up: every entry of ours stays, the others are filled in.
LEMMA AddCommitsFacts ==
  ASSUME NEW p \in Peers, NEW f \in FormationType, Good(p, f), f.joins # {},
         NEW cs \in [Peers -> SUBSET Peers],
         f.state \in {"joining", "formed", "committed"},
         f.state = "committed" => cs[p] = f.commits[p]
  PROVE  LET g == AddCommits(f, cs)
         IN  /\ g \in FormationType
             /\ Good(p, g)
             /\ f.state \in {"joining", "formed"} =>
                  g.state \in {"joining", "formed", "aborted"}
             /\ f.state = "committed" => g.state \in {"committed", "settled"}
             /\ g.commits = [k \in Peers |->
                                IF f.commits[k] = NoRoster THEN cs[k] ELSE f.commits[k]]
             /\ g.joins = f.joins
             /\ f.state = "committed" => g.canonical = f.canonical
             /\ g.conflict = f.conflict /\ g.beacon = f.beacon
<1> DEFINE g == AddCommits(f, cs)
           all == [k \in Peers |-> IF f.commits[k] = NoRoster THEN cs[k] ELSE f.commits[k]]
           h == [f EXCEPT !.commits = all]
<1>1. g = recompute(h)
  BY DEF AddCommits
<1>2. p \in f.joins
  BY DEF Good
<1>3. /\ h \in FormationType /\ h.state = f.state /\ h.joins = f.joins
      /\ h.canonical = f.canonical /\ h.conflict = f.conflict /\ h.beacon = f.beacon
      /\ h.commits = all
  BY DEF FormationType
<1>4. f.state = "committed" => all[p] = f.commits[p]
  OBVIOUS
<1>5. f.state = "committed" => Good(p, h)
  BY <1>2, <1>3, <1>4 DEF Good
<1> HIDE DEF h, all
<1>6. CASE f.state = "committed"
  <2>1. /\ g \in FormationType /\ Good(p, g)
        /\ g = h \/ (h.state = "committed" /\ g.state = "settled")
        /\ g.joins = h.joins /\ g.commits = h.commits /\ g.canonical = h.canonical
        /\ g.conflict = h.conflict /\ g.beacon = h.beacon
    BY <1>1, <1>3, <1>5, <1>6, RecomputeBound
  <2> QED
    BY <1>3, <1>6, <2>1 DEF all
<1>7. CASE f.state \in {"joining", "formed"}
  <2>1. /\ g \in FormationType /\ Good(p, g)
        /\ g.state \in {"joining", "formed", "aborted"}
        /\ g.joins = h.joins /\ g.commits = h.commits
        /\ g.conflict = h.conflict /\ g.beacon = h.beacon
    BY <1>1, <1>2, <1>3, <1>7, RecomputeOpen
  <2> QED
    BY <1>3, <1>7, <2>1 DEF all
<1> QED
  BY <1>6, <1>7

\* Closing the window, claiming, drawing seats and abandoning leave joins and
\* commits alone.
LEMMA CloseWindowFacts ==
  ASSUME NEW p \in Peers, NEW f \in FormationType, Good(p, f), f.joins # {}
  PROVE  LET g == CloseWindow(f)
         IN  /\ g \in FormationType
             /\ Good(p, g)
             /\ g.state = f.state \/ (f.state = "joining" /\ g.state = "aborted")
             /\ g.state # "aborted" => g.canonical = f.canonical
             /\ g.joins = f.joins /\ g.commits = f.commits
             /\ g.conflict = f.conflict /\ g.beacon = f.beacon
<1>1. p \in f.joins
  BY DEF Good
<1> QED
  BY <1>1 DEF CloseWindow, abort, FormationType, States, Good, AllBound, NoRoster

LEMMA AssertionFacts ==
  ASSUME NEW p \in Peers, NEW f \in FormationType, Good(p, f), f.joins # {}
  PROVE  LET g == Assertion(f, p)
         IN  /\ g \in FormationType
             /\ Good(p, g)
             /\ g.state = f.state /\ g.canonical = f.canonical
             /\ g.joins = f.joins /\ g.commits = f.commits
             /\ g.conflict = f.conflict /\ g.beacon = f.beacon
<1>1. p \in f.joins
  BY DEF Good
<1> QED
  BY <1>1 DEF Assertion, FormationType, Good, AllBound

LEMMA SetBeaconFacts ==
  ASSUME NEW p \in Peers, NEW f \in FormationType, Good(p, f), f.joins # {}
  PROVE  LET g == SetBeacon(f)
         IN  /\ g \in FormationType
             /\ Good(p, g)
             /\ g.state = f.state /\ g.canonical = f.canonical
             /\ g.joins = f.joins /\ g.commits = f.commits
             /\ g.conflict = f.conflict /\ g.beacon = TRUE
<1>1. p \in f.joins
  BY DEF Good
<1> QED
  BY <1>1 DEF SetBeacon, FormationType, Good, AllBound

\* What SetBeacon() leaves as it was, whether it is called or not.
LEMMA BeaconKeeps ==
  ASSUME NEW p \in Peers, NEW f \in FormationType, Good(p, f), f.joins # {},
         NEW b \in BOOLEAN, NEW g, g = IF b THEN SetBeacon(f) ELSE f
  PROVE  /\ g \in FormationType /\ Good(p, g)
         /\ g.state = f.state /\ g.canonical = f.canonical
         /\ g.joins = f.joins /\ g.commits = f.commits
         /\ g.conflict = f.conflict /\ g.beacon = (b \/ f.beacon)
<1>1. CASE b
  BY <1>1, SetBeaconFacts
<1>2. CASE ~b
  <2>1. f.beacon \in BOOLEAN
    BY DEF FormationType
  <2> QED
    BY <1>2, <2>1
<1> QED
  BY <1>1, <1>2

LEMMA AbandonFacts ==
  ASSUME NEW p \in Peers, NEW f \in FormationType, Good(p, f), f.joins # {}
  PROVE  LET g == Abandon(f)
         IN  /\ g \in FormationType
             /\ Good(p, g)
             /\ g.state \in {"joining", "aborted"}
             /\ g.canonical = f.canonical
             /\ g.joins = f.joins /\ g.commits = f.commits
             /\ g.conflict = f.conflict /\ g.beacon = f.beacon
<1>1. p \in f.joins
  BY DEF Good
<1> QED
  BY <1>1 DEF Abandon, FormationType, States, Good

-----------------------------------------------------------------------------
(* What holds of every peer, the chat and the disks                        *)

\* What a table record of p says when it can be trusted.
DiskOK(p, r) ==
  /\ r.joins = {} => r.commits = Blank.commits /\ ~r.bound /\ ~r.beacon
  /\ r.joins # {} => p \in r.joins
  /\ ~r.bound => r.roster = NoRoster
  /\ r.bound => /\ ~r.over
                /\ r.joins = r.roster /\ Cardinality(r.joins) = Seats
                /\ r.commits[p] = r.roster
  /\ ~r.bound /\ ~r.over => r.commits[p] = NoRoster /\ Cardinality(r.joins) <= Seats

\* One process: its formation, its record and what it is in the middle of.
FormOK(p) ==
  /\ Good(p, form[p])
  /\ ~recovery[p] /\ form[p].state \in {"joining", "formed"} => form[p].commits[p] = NoRoster
  /\ recovery[p] => form[p].state \notin {"committed", "settled"}
  /\ form[p].conflict \cap Honest = {}

StepOK(p) ==
  /\ step[p] = "commit" => form[p].commits[p] # NoRoster
  /\ step[p] # "idle" => form[p].joins # {}
  /\ step[p] # "idle" /\ recovery[p] => form[p].state = "aborted"
  /\ adm[p] \in {"idle", "asked", "bonded"} => form[p] = Blank /\ disk[p].joins = {}

\* The record follows the formation, and never loses this key's own word.
RecordOK(p) ==
  /\ DiskOK(p, disk[p])
  /\ ~fault[p] /\ ~recovery[p] => disk[p] = Snapshot(form[p], FALSE)
  /\ disk[p].commits[p] # NoRoster =>
       \/ form[p].commits[p] = disk[p].commits[p]
       \/ recovery[p] /\ step[p] = "idle"

\* What the chat has heard from an honest key is on that key's disk ...
SaidOK ==
  \A m \in net : m.kind = "commit" /\ m.from \in Honest =>
    m.roster # NoRoster /\ disk[m.from].commits[m.from] = m.roster

\* ... and what one holds of another's commits came over the chat.
HeardOK ==
  \A p, k \in Honest : k # p =>
    /\ form[p].commits[k] # NoRoster => CommitMsg(k, form[p].commits[k]) \in net
    /\ disk[p].commits[k] # NoRoster => CommitMsg(k, disk[p].commits[k]) \in net

IInv ==
  /\ TypeOK
  /\ \A p \in Honest : FormOK(p) /\ StepOK(p) /\ RecordOK(p)
  /\ SaidOK
  /\ HeardOK

-----------------------------------------------------------------------------
(* Records: what is written and what is rebuilt                            *)

LEMMA SnapshotFacts ==
  ASSUME NEW p \in Peers, NEW f \in FormationType, Good(p, f), NEW r \in BOOLEAN,
         r => f.state \notin {"committed", "settled"},
         ~r /\ f.state \in {"joining", "formed"} => f.commits[p] = NoRoster
  PROVE  /\ Snapshot(f, r) \in Record
         /\ DiskOK(p, Snapshot(f, r))
         /\ Snapshot(f, r).commits = f.commits
         /\ Snapshot(f, r).joins = f.joins
<1> DEFINE s == Snapshot(f, r)
<1>1. s \in Record /\ s.commits = f.commits /\ s.joins = f.joins /\ s.beacon = f.beacon
  BY DEF Snapshot, Record, FormationType, NoRoster
<1>2. /\ s.bound <=> f.state \in {"committed", "settled"}
      /\ s.roster = IF f.state \in {"committed", "settled"} THEN f.canonical ELSE NoRoster
      /\ s.over <=> r \/ f.state = "aborted"
  BY DEF Snapshot
<1>3. s.joins = {} => s.commits = Blank.commits /\ ~s.bound /\ ~s.beacon
  BY <1>1, <1>2 DEF Good, Blank
<1>4. s.joins # {} => p \in s.joins
  BY <1>1 DEF Good
<1>5. ~s.bound => s.roster = NoRoster
  BY <1>2
<1>6. s.bound => /\ ~s.over /\ s.joins = s.roster /\ Cardinality(s.joins) = Seats
                 /\ s.commits[p] = s.roster
  BY <1>1, <1>2 DEF Good
<1>7. ~s.bound /\ ~s.over => s.commits[p] = NoRoster /\ Cardinality(s.joins) <= Seats
  <2>1. Cardinality(f.joins) \in Nat
    BY PeersAssumption, FS_Subset, FS_CardinalityType DEF FormationType
  <2> QED
    BY <1>1, <1>2, <2>1, SeatsAssumption DEF Good, FormationType, States
<1> QED
  BY <1>1, <1>3, <1>4, <1>5, <1>6, <1>7 DEF DiskOK

\* keep(): the record is the snapshot, or the fault is latched and it may be what
\* it was; either way our own word survives.
LEMMA KeepFacts ==
  ASSUME TypeOK, NEW p \in Honest, NEW f \in FormationType, Good(p, f), NEW r \in BOOLEAN,
         r => f.state \notin {"committed", "settled"},
         ~r /\ f.state \in {"joining", "formed"} => f.commits[p] = NoRoster,
         DiskOK(p, disk[p]),
         disk[p].commits[p] # NoRoster => f.commits[p] = disk[p].commits[p],
         Keep(p, f, r)
  PROVE  /\ disk' \in [Peers -> Record] /\ fault' \in [Peers -> BOOLEAN] /\ faults' \in Nat
         /\ \A q \in Honest \ {p} : disk'[q] = disk[q] /\ fault'[q] = fault[q]
         /\ DiskOK(p, disk'[p])
         /\ disk'[p] \in {disk[p], Snapshot(f, r)}
         /\ ~fault'[p] => disk'[p] = Snapshot(f, r)
         /\ disk'[p].commits[p] # NoRoster => f.commits[p] = disk'[p].commits[p]
         /\ disk[p].commits[p] # NoRoster => disk'[p].commits[p] = disk[p].commits[p]
         /\ \A k \in Peers : disk'[p].commits[k] \in {disk[p].commits[k], f.commits[k]}
         /\ disk'[p].joins \in {disk[p].joins, f.joins}
<1> DEFINE s == Snapshot(f, r)
<1>1. s \in Record /\ DiskOK(p, s) /\ s.commits = f.commits /\ s.joins = f.joins
  BY SnapshotFacts DEF Honest
<1> HIDE DEF s
<1>2. Keep(p, f, r) =>
        \/ ~fault[p] /\ disk' = [disk EXCEPT ![p] = s] /\ UNCHANGED <<fault, faults>>
        \/ /\ faults' = faults + 1 /\ fault' = [fault EXCEPT ![p] = TRUE] /\ UNCHANGED disk
        \/ /\ faults' = faults + 1 /\ fault' = [fault EXCEPT ![p] = TRUE]
           /\ disk' = [disk EXCEPT ![p] = s]
        \/ fault[p] /\ UNCHANGED <<disk, fault, faults>>
  BY DEF Keep, Written, Fail, s
<1>3. /\ disk \in [Peers -> Record] /\ fault \in [Peers -> BOOLEAN] /\ faults \in Nat
      /\ p \in Peers /\ Honest \subseteq Peers
  BY DEF TypeOK, Honest
<1>4. CASE ~fault[p] /\ disk' = [disk EXCEPT ![p] = s] /\ UNCHANGED <<fault, faults>>
  <2>1. disk'[p] = s /\ disk' \in [Peers -> Record]
        /\ \A q \in Honest \ {p} : disk'[q] = disk[q]
    BY <1>1, <1>3, <1>4
  <2> QED
    BY <1>1, <1>3, <1>4, <2>1 DEF s
<1>5. CASE faults' = faults + 1 /\ fault' = [fault EXCEPT ![p] = TRUE] /\ UNCHANGED disk
  BY <1>3, <1>5
<1>6. CASE fault[p] /\ UNCHANGED <<disk, fault, faults>>
  BY <1>3, <1>6
<1>7. CASE /\ faults' = faults + 1 /\ fault' = [fault EXCEPT ![p] = TRUE]
           /\ disk' = [disk EXCEPT ![p] = s]
  <2>1. disk'[p] = s /\ disk' \in [Peers -> Record] /\ fault'[p] /\ fault' \in [Peers -> BOOLEAN]
        /\ \A q \in Honest \ {p} : disk'[q] = disk[q] /\ fault'[q] = fault[q]
    BY <1>1, <1>3, <1>7
  <2> QED
    BY <1>1, <1>3, <1>7, <2>1 DEF s
<1> QED
  BY <1>2, <1>4, <1>5, <1>6, <1>7

\* resume(): a record that can be trusted comes back as a well-formed table with
\* the commits it held, and writes back as itself.
LEMMA RebuildFacts ==
  ASSUME NEW p \in Peers, NEW r \in Record, DiskOK(p, r)
  PROVE  LET g == Rebuild(p, r)
         IN  /\ g \in FormationType
             /\ Good(p, g)
             /\ r.over => g.state \notin {"committed", "settled"}
             /\ ~r.over => Snapshot(g, FALSE) = r
             /\ g.state \in {"joining", "formed"} /\ ~r.over => g.commits[p] = NoRoster
             /\ g.conflict = {}
             /\ g.commits \in {r.commits, Blank.commits}
             /\ r.joins = {} => g = Blank
             /\ Resumes(p, r)
<1> DEFINE g == Rebuild(p, r)
           n == NewFormation(p)
           joined == AddJoins(n, r.joins)
           bound  == IF r.bound THEN Bind(joined, p) ELSE joined
           all    == AddCommits(bound, r.commits)
<1>0. /\ r.joins \in SUBSET Peers /\ r.commits \in [Peers -> SUBSET Peers]
      /\ r.bound \in BOOLEAN /\ r.beacon \in BOOLEAN /\ r.over \in BOOLEAN
      /\ r = [joins |-> r.joins, commits |-> r.commits, bound |-> r.bound,
              roster |-> r.roster, beacon |-> r.beacon, over |-> r.over]
  BY DEF Record
<1>1. /\ n \in FormationType /\ Good(p, n) /\ n.state \in {"joining", "formed"}
      /\ n.joins = {p} /\ n.commits = Blank.commits
      /\ n.conflict = {} /\ n.beacon = FALSE /\ n.closed = FALSE
  BY NewFormationFacts
<1>2. Blank.commits = [q \in Peers |-> NoRoster] /\ Blank \in FormationType /\ Good(p, Blank)
  BY BlankGood DEF Blank
<1>3. CASE r.joins = {}
  <2>1. g = Blank
    BY <1>3 DEF Rebuild
  <2>2. ~r.bound /\ r.roster = NoRoster /\ r.beacon = FALSE /\ r.commits = Blank.commits
    BY <1>0, <1>3 DEF DiskOK
  <2>3. Blank.state = "joining" /\ Blank.conflict = {} /\ Blank.joins = {} /\ Blank.beacon = FALSE
    BY DEF Blank
  <2>4. ~r.over => Snapshot(g, FALSE) = r
    BY <1>0, <1>3, <2>1, <2>2, <2>3 DEF Snapshot
  <2>5. Resumes(p, r)
    BY <2>2 DEF Resumes
  <2> QED
    BY <1>2, <2>1, <2>2, <2>3, <2>4, <2>5
<1>4. CASE r.joins # {}
  <2>0. p \in r.joins /\ g = IF r.beacon THEN SetBeacon(all) ELSE all
    BY <1>4 DEF DiskOK, Rebuild
  <2> HIDE DEF n
  <2>1. /\ joined \in FormationType /\ Good(p, joined)
        /\ joined.state \in {"joining", "formed", "aborted"}
        /\ joined.commits = Blank.commits
        /\ joined.conflict = {} /\ joined.beacon = FALSE
    BY <1>0, <1>1, AddJoinsFacts
  <2>2. joined.joins = r.joins
    <3>1. CASE r.joins \subseteq n.joins
      BY <1>1, <2>0, <3>1 DEF AddJoins
    <3>2. CASE ~(r.joins \subseteq n.joins)
      <4> DEFINE h == [n EXCEPT !.joins = @ \cup r.joins]
      <4>1. joined = recompute(h)
        BY <1>1, <3>2 DEF AddJoins
      <4>2. h \in FormationType /\ h.joins = n.joins \cup r.joins /\ h.state = n.state
        BY <1>0, <1>1 DEF FormationType
      <4>3. p \in h.joins /\ h.joins = r.joins
        BY <1>1, <2>0, <4>2
      <4> HIDE DEF h
      <4>4. recompute(h).joins = h.joins
        BY <1>1, <4>2, <4>3, RecomputeOpen
      <4> QED
        BY <4>1, <4>3, <4>4
    <3> QED
      BY <3>1, <3>2
  <2>3. joined.state = "aborted" => r.over
    <3>1. SUFFICES ASSUME ~r.over PROVE joined.state # "aborted"
      OBVIOUS
    <3>2. Cardinality(r.joins) \in Nat /\ ~(Cardinality(r.joins) > Seats)
      <4>1. Cardinality(r.joins) \in Nat
        BY <1>0, PeersAssumption, FS_Subset, FS_CardinalityType
      <4> QED
        BY <1>0, <3>1, <4>1, SeatsAssumption DEF DiskOK
    <3>3. CASE r.joins \subseteq n.joins
      BY <1>1, <3>3 DEF AddJoins
    <3>4. CASE ~(r.joins \subseteq n.joins)
      <4> DEFINE h == [n EXCEPT !.joins = @ \cup r.joins]
      <4>1. joined = recompute(h)
        BY <1>1, <3>4 DEF AddJoins
      <4>2. h \in FormationType /\ h.joins = r.joins /\ h.state \in {"joining", "formed"}
        BY <1>0, <1>1, <2>0 DEF FormationType
      <4> HIDE DEF h
      <4>3. recompute(h) \in { [h EXCEPT !.canonical = h.joins, !.state = "formed"],
                               [h EXCEPT !.canonical = NoRoster, !.state = "joining"] }
        BY <3>2, <4>2 DEF recompute, Membership
      <4> QED
        BY <4>1, <4>2, <4>3 DEF FormationType
    <3> QED
      BY <3>3, <3>4
  <2> HIDE DEF joined
  <2>4. CASE r.bound
    <3>1. /\ r.joins = r.roster /\ Cardinality(r.joins) = Seats
          /\ r.commits[p] = r.joins /\ ~r.over
      BY <2>4 DEF DiskOK
    <3>2. joined.state = "formed"
      BY <2>1, <2>2, <2>3, <3>1, SeatsAssumption DEF Good
    <3>3. /\ bound \in FormationType /\ Good(p, bound)
          /\ bound.state \in {"committed", "settled"}
          /\ bound.commits = [joined.commits EXCEPT ![p] = joined.joins]
          /\ bound.joins = r.joins /\ bound.canonical = r.joins
          /\ bound.conflict = {} /\ bound.beacon = FALSE
      BY <2>1, <2>2, <2>4, <3>2, BindFacts
    <3>4. Resumes(p, r)
      BY <1>2, <2>1, <2>2, <2>4, <3>1, <3>3 DEF Resumes, joined, n
    <3> HIDE DEF bound
    <3>5. /\ bound.commits[p] = r.joins
          /\ \A k \in Peers \ {p} : bound.commits[k] = NoRoster
      BY <1>2, <2>1, <2>2, <3>3
    <3>6. [k \in Peers |-> IF bound.commits[k] = NoRoster THEN r.commits[k] ELSE bound.commits[k]]
            = r.commits
      BY <1>0, <3>1, <3>5
    <3>7. /\ all \in FormationType /\ Good(p, all)
          /\ all.state \in {"committed", "settled"}
          /\ all.commits = r.commits /\ all.joins = r.joins /\ all.canonical = r.joins
          /\ all.conflict = {} /\ all.beacon = FALSE
      <4>1. CASE bound.state = "committed"
        <5>1. bound.joins # {} /\ r.commits[p] = bound.commits[p]
          BY <1>4, <3>1, <3>3, <3>5
        <5>2. /\ all \in FormationType /\ Good(p, all)
              /\ all.state \in {"committed", "settled"}
              /\ all.commits = [k \in Peers |-> IF bound.commits[k] = NoRoster
                                               THEN r.commits[k] ELSE bound.commits[k]]
              /\ all.joins = bound.joins /\ all.canonical = bound.canonical
              /\ all.conflict = bound.conflict /\ all.beacon = bound.beacon
          BY <1>0, <3>3, <4>1, <5>1, AddCommitsFacts
        <5> QED
          BY <3>3, <3>6, <5>2
      <4>2. CASE bound.state = "settled"
        \* One seat: our own commit is everybody's.
        <5> DEFINE h == [bound EXCEPT !.commits = r.commits]
        <5>1. \A k \in r.joins : k = p
          BY <1>0, <1>4, <3>3, <3>5, <4>2 DEF Good, AllBound, NoRoster
        <5>2. all = recompute(h)
          BY <3>6, <4>2 DEF AddCommits
        <5>3. h \in FormationType /\ h.state = "settled" /\ h.joins = r.joins
              /\ h.canonical = r.joins /\ h.commits = r.commits
              /\ h.conflict = {} /\ h.beacon = FALSE
          BY <1>0, <3>3, <4>2 DEF FormationType
        <5>4. Good(p, h)
          BY <1>4, <2>0, <3>1, <5>1, <5>3 DEF Good, AllBound
        <5> HIDE DEF h
        <5>5. all = h
          BY <5>2, <5>3 DEF recompute
        <5> QED
          BY <5>3, <5>4, <5>5
      <4> QED
        BY <3>3, <4>1, <4>2
    <3> HIDE DEF all
    <3>8. /\ g \in FormationType /\ Good(p, g)
          /\ g.state \in {"committed", "settled"}
          /\ g.commits = r.commits /\ g.joins = r.joins /\ g.canonical = r.joins
          /\ g.conflict = {} /\ g.beacon = r.beacon
      <4>1. all \in FormationType /\ Good(p, all) /\ all.joins # {} /\ r.beacon \in BOOLEAN
        BY <1>0, <1>4, <3>7
      <4>2. g = IF r.beacon THEN SetBeacon(all) ELSE all
        BY <2>0
      <4> HIDE DEF g
      <4> QED
        BY <3>7, <4>1, <4>2, BeaconKeeps
    <3>9. Snapshot(g, FALSE) = r
      BY <1>0, <2>4, <3>1, <3>8 DEF Snapshot
    <3> QED
      BY <1>4, <3>1, <3>4, <3>8, <3>9
  <2>5. CASE ~r.bound
    <3>1. bound = joined /\ Resumes(p, r)
      BY <2>5 DEF Resumes
    <3>2. CASE joined.state = "aborted"
      <4>1. all = joined /\ r.over
        BY <2>3, <3>1, <3>2 DEF AddCommits
      <4>2. g \in FormationType /\ Good(p, g) /\ g.state = "aborted"
            /\ g.commits = Blank.commits /\ g.conflict = {}
        <5>1. joined.joins # {} /\ g = IF r.beacon THEN SetBeacon(joined) ELSE joined
          BY <1>4, <2>0, <2>2, <4>1
        <5>2. CASE r.beacon
          <6>1. /\ SetBeacon(joined) \in FormationType /\ Good(p, SetBeacon(joined))
                /\ SetBeacon(joined).state = joined.state
                /\ SetBeacon(joined).commits = joined.commits
                /\ SetBeacon(joined).conflict = joined.conflict
            BY <2>1, <5>1, SetBeaconFacts
          <6> QED
            BY <2>1, <3>2, <5>1, <5>2, <6>1
        <5>3. CASE ~r.beacon
          BY <2>1, <3>2, <5>1, <5>3
        <5> QED
          BY <5>2, <5>3
      <4> QED
        BY <1>4, <3>1, <4>1, <4>2
    <3>3. CASE joined.state \in {"joining", "formed"}
      <4>1. [k \in Peers |-> IF joined.commits[k] = NoRoster THEN r.commits[k] ELSE joined.commits[k]]
              = r.commits
        BY <1>0, <1>2, <2>1
      <4>2. /\ all \in FormationType /\ Good(p, all)
            /\ all.state \in {"joining", "formed", "aborted"}
            /\ all.commits = r.commits /\ all.joins = r.joins
            /\ all.conflict = {} /\ all.beacon = FALSE
        BY <1>0, <1>4, <2>1, <2>2, <3>1, <3>3, <4>1, AddCommitsFacts
      <4>3. all.state = joined.state
        <5> DEFINE h == [joined EXCEPT !.commits = r.commits]
        <5>1. all = recompute(h)
          BY <3>1, <3>3, <4>1 DEF AddCommits
        <5>2. h \in FormationType /\ h.state = joined.state /\ h.joins = joined.joins
          BY <1>0, <2>1 DEF FormationType
        <5> HIDE DEF h
        <5>3. CASE joined.state = "joining"
          <6>1. ~(Cardinality(h.joins) > Seats) /\ Cardinality(h.joins) # Seats
            <7>1. Cardinality(h.joins) \in Nat
              BY <5>2, PeersAssumption, FS_Subset, FS_CardinalityType DEF FormationType
            <7> QED
              BY <2>1, <5>2, <5>3, <7>1, SeatsAssumption DEF Good
          <6> QED
            BY <5>1, <5>2, <5>3, <6>1 DEF recompute, Membership, FormationType
        <5>4. CASE joined.state = "formed"
          <6>1. Cardinality(h.joins) = Seats
            BY <2>1, <5>2, <5>4 DEF Good
          <6> QED
            <7>1. recompute(h) = [h EXCEPT !.canonical = h.joins, !.state = "formed"]
              BY <5>2, <5>4, <6>1, SeatsAssumption DEF recompute, Membership
            <7> QED
              BY <5>1, <5>2, <5>4, <7>1 DEF FormationType
        <5> QED
          BY <3>3, <5>3, <5>4
      <4> HIDE DEF all
      <4>4. /\ g \in FormationType /\ Good(p, g) /\ g.state \in {"joining", "formed"}
            /\ g.commits = r.commits /\ g.joins = r.joins
            /\ g.conflict = {} /\ g.beacon = r.beacon
        <5>1. /\ all \in FormationType /\ Good(p, all) /\ all.joins # {} /\ r.beacon \in BOOLEAN
              /\ all.state \in {"joining", "formed"} /\ all.joins = r.joins /\ all.commits = r.commits
              /\ all.conflict = {} /\ all.beacon = FALSE
          BY <1>0, <1>4, <3>3, <4>2, <4>3
        <5>2. g = IF r.beacon THEN SetBeacon(all) ELSE all
          BY <2>0
        <5> HIDE DEF g
        <5> QED
          BY <5>1, <5>2, BeaconKeeps
      <4>5. ~r.over => Snapshot(g, FALSE) = r /\ g.commits[p] = NoRoster
        BY <1>0, <2>5, <4>4 DEF Snapshot, DiskOK
      <4> QED
        BY <1>4, <3>1, <4>4, <4>5
    <3> QED
      BY <2>1, <3>2, <3>3
  <2> QED
    BY <1>0, <2>4, <2>5
<1> QED
  BY <1>3, <1>4

-----------------------------------------------------------------------------
(* One process moves: what it must establish for the invariant to hold     *)

LEMMA Frame ==
  ASSUME IInv, TypeOK', NEW p \in Honest,
         \A q \in Honest \ {p} :
           /\ form'[q] = form[q] /\ disk'[q] = disk[q] /\ recovery'[q] = recovery[q]
           /\ fault'[q] = fault[q] /\ step'[q] = step[q] /\ adm'[q] = adm[q],
         FormOK(p)', StepOK(p)', RecordOK(p)',
         net \subseteq net',
         \A m \in net' \ net : m.kind = "commit" /\ m.from \in Honest =>
           m.from = p /\ m.roster # NoRoster /\ disk'[p].commits[p] = m.roster,
         disk[p].commits[p] # NoRoster => disk'[p].commits[p] = disk[p].commits[p],
         \A k \in Honest \ {p} :
           /\ form'[p].commits[k] # NoRoster => CommitMsg(k, form'[p].commits[k]) \in net
           /\ disk'[p].commits[k] # NoRoster => CommitMsg(k, disk'[p].commits[k]) \in net
  PROVE  IInv'
<1>1. \A q \in Honest : FormOK(q)' /\ StepOK(q)' /\ RecordOK(q)'
  <2> SUFFICES ASSUME NEW q \in Honest PROVE FormOK(q)' /\ StepOK(q)' /\ RecordOK(q)'
    OBVIOUS
  <2>1. CASE q = p
    BY <2>1
  <2>2. CASE q # p
    <3>1. FormOK(q) /\ StepOK(q) /\ RecordOK(q)
      BY DEF IInv
    <3>2. FormOK(q)'
      BY <2>2, <3>1 DEF FormOK
    <3>3. StepOK(q)'
      BY <2>2, <3>1 DEF StepOK
    <3>4. RecordOK(q)'
      BY <2>2, <3>1 DEF RecordOK
    <3> QED
      BY <3>2, <3>3, <3>4
  <2> QED
    BY <2>1, <2>2
<1>2. SaidOK'
  <2> SUFFICES ASSUME NEW m \in net', m.kind = "commit", m.from \in Honest
               PROVE  m.roster # NoRoster /\ disk'[m.from].commits[m.from] = m.roster
    BY DEF SaidOK
  <2>1. CASE m \in net
    <3>1. m.roster # NoRoster /\ disk[m.from].commits[m.from] = m.roster
      BY <2>1 DEF IInv, SaidOK
    <3> QED
      BY <3>1
  <2>2. CASE m \notin net
    BY <2>2
  <2> QED
    BY <2>1, <2>2
<1>3. HeardOK'
  <2> SUFFICES ASSUME NEW q \in Honest, NEW k \in Honest, k # q
               PROVE  /\ form'[q].commits[k] # NoRoster => CommitMsg(k, form'[q].commits[k]) \in net'
                      /\ disk'[q].commits[k] # NoRoster => CommitMsg(k, disk'[q].commits[k]) \in net'
    BY DEF HeardOK, CommitMsg
  <2>1. CASE q = p
    BY <2>1
  <2>2. CASE q # p
    BY <2>2 DEF IInv, HeardOK
  <2> QED
    BY <2>1, <2>2
<1> QED
  BY <1>1, <1>2, <1>3 DEF IInv

\* A handler, worker or tick that changes its formation to g and keeps it.
LEMMA KeepStep ==
  ASSUME IInv, NEW p \in Honest, NEW g \in FormationType, Good(p, g), NEW r \in BOOLEAN,
         g.conflict \cap Honest = {},
         r => g.state \notin {"committed", "settled"},
         ~r /\ g.state \in {"joining", "formed"} => g.commits[p] = NoRoster,
         disk[p].commits[p] # NoRoster => g.commits[p] = disk[p].commits[p],
         \A k \in Honest \ {p} : g.commits[k] # NoRoster => CommitMsg(k, g.commits[k]) \in net,
         form' = [form EXCEPT ![p] = g],
         recovery' = [recovery EXCEPT ![p] = r],
         Keep(p, g, r),
         net' = net, height' = height, paid' = paid,
         adm' \in [Peers -> AdmStates], step' \in [Peers -> Steps],
         rcvd' \in [Peers -> SUBSET Message], bridge' \in [Peers -> SUBSET Peers],
         \A q \in Honest \ {p} : step'[q] = step[q] /\ adm'[q] = adm[q],
         step'[p] = "commit" => g.commits[p] # NoRoster,
         step'[p] # "idle" => g.joins # {},
         step'[p] # "idle" /\ r => g.state = "aborted",
         adm'[p] \in {"idle", "asked", "bonded"} => g = Blank /\ disk[p].joins = {}
  PROVE  IInv'
<1>1. TypeOK /\ FormOK(p) /\ StepOK(p) /\ RecordOK(p) /\ p \in Peers /\ Honest \subseteq Peers
  BY DEF IInv, Honest
<1>2. /\ disk' \in [Peers -> Record] /\ fault' \in [Peers -> BOOLEAN] /\ faults' \in Nat
      /\ \A q \in Honest \ {p} : disk'[q] = disk[q] /\ fault'[q] = fault[q]
      /\ DiskOK(p, disk'[p])
      /\ ~fault'[p] => disk'[p] = Snapshot(g, r)
      /\ disk'[p].commits[p] # NoRoster => g.commits[p] = disk'[p].commits[p]
      /\ disk[p].commits[p] # NoRoster => disk'[p].commits[p] = disk[p].commits[p]
      /\ \A k \in Peers : disk'[p].commits[k] \in {disk[p].commits[k], g.commits[k]}
      /\ disk'[p].joins \in {disk[p].joins, g.joins}
  BY <1>1, KeepFacts DEF RecordOK
<1>3. form' \in [Peers -> FormationType] /\ recovery' \in [Peers -> BOOLEAN]
      /\ form'[p] = g /\ recovery'[p] = r
      /\ \A q \in Honest \ {p} : form'[q] = form[q] /\ recovery'[q] = recovery[q]
  BY <1>1 DEF TypeOK
<1>4. TypeOK'
  BY <1>1, <1>2, <1>3 DEF TypeOK
<1>5. FormOK(p)'
  BY <1>3 DEF FormOK
<1>6. StepOK(p)'
  <2>1. Blank.joins = {}
    BY DEF Blank
  <2> QED
    BY <1>2, <1>3, <2>1 DEF StepOK
<1>7. RecordOK(p)'
  BY <1>2, <1>3 DEF RecordOK
<1>8. \A k \in Honest \ {p} :
        /\ form'[p].commits[k] # NoRoster => CommitMsg(k, form'[p].commits[k]) \in net
        /\ disk'[p].commits[k] # NoRoster => CommitMsg(k, disk'[p].commits[k]) \in net
  <2> SUFFICES ASSUME NEW k \in Honest \ {p}
               PROVE  /\ g.commits[k] # NoRoster => CommitMsg(k, g.commits[k]) \in net
                      /\ disk'[p].commits[k] # NoRoster => CommitMsg(k, disk'[p].commits[k]) \in net
    BY <1>3
  <2>1. disk[p].commits[k] # NoRoster => CommitMsg(k, disk[p].commits[k]) \in net
    BY DEF IInv, HeardOK
  <2>2. disk'[p].commits[k] \in {disk[p].commits[k], g.commits[k]}
    BY <1>1, <1>2
  <2> QED
    BY <2>1, <2>2
<1> QED
  BY <1>2, <1>3, <1>4, <1>5, <1>6, <1>7, <1>8, Frame

\* A step that leaves the record alone, and at most speaks.
LEMMA PlainStep ==
  ASSUME IInv, TypeOK', NEW p \in Honest,
         \A q \in Honest \ {p} : /\ form'[q] = form[q] /\ recovery'[q] = recovery[q]
                                 /\ step'[q] = step[q] /\ adm'[q] = adm[q],
         FormOK(p)', StepOK(p)',
         disk' = disk, fault' = fault,
         form'[p].commits = form[p].commits,
         ~fault[p] /\ ~recovery'[p] => disk[p] = Snapshot(form'[p], FALSE),
         recovery[p] => recovery'[p] /\ (step[p] = "idle" => step'[p] = "idle"),
         net \subseteq net',
         \A m \in net' \ net : m.kind = "commit" /\ m.from \in Honest =>
           m.from = p /\ m.roster # NoRoster /\ disk[p].commits[p] = m.roster
  PROVE  IInv'
<1>1. RecordOK(p)'
  <2>1. RecordOK(p)
    BY DEF IInv
  <2> QED
    BY <2>1 DEF RecordOK
<1>2. \A k \in Honest \ {p} :
        /\ form'[p].commits[k] # NoRoster => CommitMsg(k, form'[p].commits[k]) \in net
        /\ disk'[p].commits[k] # NoRoster => CommitMsg(k, disk'[p].commits[k]) \in net
  BY DEF IInv, HeardOK
<1> QED
  BY <1>1, <1>2, Frame

-----------------------------------------------------------------------------
(* One lemma per operation                                                 *)

\* What every step of p may use of the invariant.
LEMMA Facts ==
  ASSUME IInv, NEW p \in Honest
  PROVE  /\ TypeOK /\ FormOK(p) /\ StepOK(p) /\ RecordOK(p)
         /\ p \in Peers /\ form[p] \in FormationType /\ recovery[p] \in BOOLEAN
         /\ disk[p] \in Record /\ Good(p, form[p])
         /\ recovery = [recovery EXCEPT ![p] = recovery[p]]
         /\ form = [form EXCEPT ![p] = form[p]]
         /\ \A k \in Honest \ {p} :
              form[p].commits[k] # NoRoster => CommitMsg(k, form[p].commits[k]) \in net
<1>1. TypeOK /\ FormOK(p) /\ StepOK(p) /\ RecordOK(p) /\ p \in Peers
  BY DEF IInv, Honest
<1>2. /\ form[p] \in FormationType /\ recovery[p] \in BOOLEAN /\ disk[p] \in Record
      /\ recovery = [recovery EXCEPT ![p] = recovery[p]]
      /\ form = [form EXCEPT ![p] = form[p]]
  BY <1>1 DEF TypeOK
<1>3. \A k \in Honest \ {p} :
        form[p].commits[k] # NoRoster => CommitMsg(k, form[p].commits[k]) \in net
  BY DEF IInv, HeardOK
<1> QED
  BY <1>1, <1>2, <1>3 DEF FormOK

LEMMA AskBondStep ==
  ASSUME IInv, NEW p \in Honest, AskBond(p) PROVE IInv'
<1>1. /\ TypeOK /\ FormOK(p) /\ StepOK(p) /\ RecordOK(p)
      /\ p \in Peers /\ form[p] \in FormationType /\ Good(p, form[p])
      /\ recovery = [recovery EXCEPT ![p] = recovery[p]] /\ form = [form EXCEPT ![p] = form[p]]
      /\ \A k \in Honest \ {p} :
           form[p].commits[k] # NoRoster => CommitMsg(k, form[p].commits[k]) \in net
  BY Facts
<1>2. /\ adm[p] = "idle" /\ recovery[p] = FALSE /\ fault[p] = FALSE
      /\ form' = form /\ net' = net /\ step' = step /\ height' = height /\ rcvd' = rcvd
      /\ bridge' = bridge /\ paid' = paid
  BY <1>1 DEF AskBond, TypeOK
<1>3. form[p] = Blank /\ disk[p].joins = {}
  BY <1>1, <1>2 DEF StepOK
<1>4. Blank.state = "joining" /\ Blank.commits[p] = NoRoster /\ Blank.joins = {}
  BY <1>1 DEF Blank
<1>5. disk[p].commits[p] = NoRoster
  BY <1>1, <1>2, <1>3, <1>4 DEF RecordOK
<1>6. step[p] = "idle"
  BY <1>1, <1>3, <1>4 DEF StepOK
<1>7. CASE adm' = [adm EXCEPT ![p] = "asked"] /\ UNCHANGED <<recovery, disk, fault, faults>>
  <2>1. adm' \in [Peers -> AdmStates] /\ adm'[p] = "asked"
        /\ \A q \in Honest \ {p} : adm'[q] = adm[q]
    BY <1>1, <1>7 DEF TypeOK, AdmStates, Honest
  <2>2. TypeOK'
    BY <1>1, <1>2, <1>7, <2>1 DEF TypeOK
  <2>3. FormOK(p)'
    BY <1>1, <1>2, <1>7 DEF FormOK
  <2>4. StepOK(p)'
    BY <1>1, <1>2, <1>3, <1>7 DEF StepOK
  <2>5. disk[p] = Snapshot(form[p], FALSE)
    BY <1>1, <1>2 DEF RecordOK
  <2> QED
    BY <1>2, <1>7, <2>1, <2>2, <2>3, <2>4, <2>5, PlainStep
<1>8. CASE recovery' = [recovery EXCEPT ![p] = TRUE] /\ Keep(p, form[p], TRUE) /\ UNCHANGED adm
  <2>1. form[p].conflict \cap Honest = {} /\ step' \in [Peers -> Steps]
        /\ rcvd' \in [Peers -> SUBSET Message] /\ bridge' \in [Peers -> SUBSET Peers]
        /\ adm' \in [Peers -> AdmStates] /\ form' = [form EXCEPT ![p] = form[p]]
    BY <1>1, <1>2, <1>8 DEF FormOK, TypeOK
  <2> QED
    BY <1>1, <1>2, <1>3, <1>4, <1>5, <1>6, <1>8, <2>1, KeepStep
<1> QED
  BY <1>7, <1>8 DEF AskBond

LEMMA BondLandsStep ==
  ASSUME IInv, NEW p \in Honest, BondLands(p) PROVE IInv'
<1>1. /\ TypeOK /\ FormOK(p) /\ StepOK(p) /\ RecordOK(p)
      /\ p \in Peers /\ form[p] \in FormationType /\ Good(p, form[p])
      /\ recovery = [recovery EXCEPT ![p] = recovery[p]] /\ form = [form EXCEPT ![p] = form[p]]
      /\ \A k \in Honest \ {p} :
           form[p].commits[k] # NoRoster => CommitMsg(k, form[p].commits[k]) \in net
  BY Facts
<1>2. /\ adm[p] = "asked" /\ recovery[p] = FALSE /\ fault[p] = FALSE
      /\ form' = form /\ net' = net /\ step' = step /\ height' = height /\ rcvd' = rcvd
      /\ bridge' = bridge /\ paid' = paid /\ recovery' = recovery
      /\ Keep(p, form[p], FALSE)
  BY <1>1 DEF BondLands, TypeOK
<1>3. form[p] = Blank /\ disk[p].joins = {}
  BY <1>1, <1>2 DEF StepOK
<1>4. Blank.state = "joining" /\ Blank.commits[p] = NoRoster /\ Blank.joins = {}
  BY <1>1 DEF Blank
<1>5. disk[p].commits[p] = NoRoster
  BY <1>1, <1>2, <1>3, <1>4 DEF RecordOK
<1>6. step[p] = "idle"
  BY <1>1, <1>3, <1>4 DEF StepOK
<1>7. adm' \in [Peers -> AdmStates] /\ \A q \in Honest \ {p} : adm'[q] = adm[q]
  BY <1>1 DEF BondLands, TypeOK, AdmStates, Honest
<1>8. form[p].conflict \cap Honest = {} /\ step' \in [Peers -> Steps]
      /\ rcvd' \in [Peers -> SUBSET Message] /\ bridge' \in [Peers -> SUBSET Peers]
      /\ form' = [form EXCEPT ![p] = form[p]] /\ recovery' = [recovery EXCEPT ![p] = FALSE]
  BY <1>1, <1>2 DEF FormOK, TypeOK
<1> QED
  BY <1>1, <1>2, <1>3, <1>4, <1>5, <1>6, <1>7, <1>8, KeepStep

LEMMA FormAndJoinStep ==
  ASSUME IInv, NEW p \in Honest, FormAndJoin(p) PROVE IInv'
<1> DEFINE g == NewFormation(p)
<1>1. /\ TypeOK /\ FormOK(p) /\ StepOK(p) /\ RecordOK(p)
      /\ p \in Peers /\ form[p] \in FormationType
      /\ recovery = [recovery EXCEPT ![p] = recovery[p]]
  BY Facts
<1>2. /\ g \in FormationType /\ Good(p, g) /\ g.state \in {"joining", "formed"}
      /\ g.joins = {p} /\ g.commits = Blank.commits /\ g.conflict = {}
  BY <1>1, NewFormationFacts
<1> HIDE DEF g
<1>3. /\ adm[p] = "bonded" /\ recovery[p] = FALSE /\ fault[p] = FALSE
      /\ form' = [form EXCEPT ![p] = g] /\ form'[p] = g
      /\ net' = net /\ step' = step /\ height' = height /\ rcvd' = rcvd
      /\ bridge' = bridge /\ paid' = paid /\ recovery' = recovery
  BY <1>1 DEF FormAndJoin, TypeOK, g
<1>4. Keep(p, g, FALSE)
  BY <1>3 DEF FormAndJoin, Keep
<1>5. form[p] = Blank
  BY <1>1, <1>3 DEF StepOK
<1>6. \A k \in Peers : g.commits[k] = NoRoster
  BY <1>2 DEF Blank
<1>7. disk[p].commits[p] = NoRoster
  BY <1>1, <1>2, <1>3, <1>5, <1>6 DEF RecordOK
<1>8. step[p] = "idle"
  <2>1. Blank.joins = {}
    BY DEF Blank
  <2> QED
    BY <1>1, <1>5, <2>1 DEF StepOK
<1>9. adm' \in [Peers -> AdmStates] /\ adm'[p] \in {"done", "formed"}
      /\ \A q \in Honest \ {p} : adm'[q] = adm[q]
  BY <1>1 DEF FormAndJoin, TypeOK, AdmStates, Honest
<1>10. step' \in [Peers -> Steps]
      /\ rcvd' \in [Peers -> SUBSET Message] /\ bridge' \in [Peers -> SUBSET Peers]
      /\ recovery' = [recovery EXCEPT ![p] = FALSE]
  BY <1>1, <1>3 DEF TypeOK
<1>11. \A k \in Honest : g.commits[k] = NoRoster
  BY <1>6 DEF Honest
<1> QED
  BY <1>1, <1>2, <1>3, <1>4, <1>7, <1>8, <1>9, <1>10, <1>11, KeepStep

\* send(): the chat keeps everything it was told, and gains m at most, and then
\* only from a process that is at its table and can still write.
LEMMA SendFacts ==
  ASSUME TypeOK, NEW p \in Honest, NEW m \in Message, Send(p, m)
  PROVE  /\ faults' \in Nat /\ net \subseteq net' /\ net' \subseteq Message
         /\ \A n \in net' \ net : n = m /\ ~recovery[p] /\ ~fault[p]
BY DEF Send, Fail, TypeOK

LEMMA PublishJoinStep ==
  ASSUME IInv, NEW p \in Honest, PublishJoin(p) PROVE IInv'
<1>1. TypeOK /\ FormOK(p) /\ StepOK(p) /\ RecordOK(p) /\ p \in Peers
  BY Facts
<1>2. JoinMsg(p) \in Message /\ JoinMsg(p).kind = "join"
  BY <1>1 DEF JoinMsg, Message
<1>3. /\ faults' \in Nat /\ net \subseteq net' /\ net' \subseteq Message
      /\ \A n \in net' \ net : n = JoinMsg(p)
  BY <1>1, <1>2, SendFacts DEF PublishJoin
<1>4. /\ form' = form /\ recovery' = recovery /\ disk' = disk /\ fault' = fault /\ height' = height
      /\ step' = step /\ rcvd' = rcvd /\ bridge' = bridge /\ paid' = paid
      /\ adm' = [adm EXCEPT ![p] = "done"]
  BY DEF PublishJoin
<1>5. adm' \in [Peers -> AdmStates] /\ adm'[p] = "done"
      /\ \A q \in Honest \ {p} : adm'[q] = adm[q]
  BY <1>1, <1>4 DEF TypeOK, AdmStates, Honest
<1>6. \A m \in net' \ net : ~(m.kind = "commit")
  BY <1>2, <1>3
<1>7. TypeOK'
  BY <1>1, <1>3, <1>4, <1>5 DEF TypeOK
<1>8. FormOK(p)' /\ StepOK(p)'
  BY <1>1, <1>4, <1>5 DEF FormOK, StepOK
<1>9. ~fault[p] /\ ~recovery[p] => disk[p] = Snapshot(form[p], FALSE)
  BY <1>1 DEF RecordOK
<1> QED
  BY <1>3, <1>4, <1>5, <1>6, <1>7, <1>8, <1>9, PlainStep

LEMMA FoldFacts ==
  ASSUME NEW p \in Peers, NEW f \in FormationType, Good(p, f), f.joins # {},
         NEW m \in Message, m.from # p
  PROVE  LET g == Fold(f, m)
         IN  /\ g \in FormationType
             /\ Good(p, g)
             /\ g.state \in {"joining", "formed"} => f.state \in {"joining", "formed"}
             /\ g.joins # {}
             /\ \A k \in Peers : \/ g.commits[k] = f.commits[k]
                                 \/ k = m.from /\ m.kind = "commit" /\ g.commits[k] = m.roster
             /\ \/ g.conflict = f.conflict
                \/ /\ g.conflict = {m.from} /\ m.kind = "commit"
                   /\ f.commits[m.from] # NoRoster /\ f.commits[m.from] # m.roster
<1>1. m.from \in Peers /\ m.roster \in SUBSET Peers /\ m.kind \in {"join", "roster", "commit"}
  BY DEF Message
<1>2. f.state \in {"joining", "formed", "committed", "settled", "aborted"}
  BY DEF FormationType, States
<1>3. CASE m.kind = "join"
  <2> DEFINE g == AddJoins(f, m.roster)
  <2>1. /\ g \in FormationType /\ Good(p, g)
        /\ f.state \in {"committed", "settled", "aborted"} => g = f
        /\ f.joins \subseteq g.joins /\ g.commits = f.commits /\ g.conflict = f.conflict
    BY <1>1, AddJoinsFacts
  <2>2. Fold(f, m) = g
    BY <1>3 DEF Fold
  <2> HIDE DEF g
  <2> QED
    BY <1>2, <2>1, <2>2
<1>4. CASE m.kind = "roster"
  <2> DEFINE g == AddAssertion(f, m.from, m.roster, m.roster)
  <2>1. /\ g \in FormationType /\ Good(p, g)
        /\ f.state = "committed" => g.state \in {"committed", "settled"}
        /\ f.state \in {"settled", "aborted"} => g = f
        /\ g.joins # {} /\ g.commits = f.commits /\ g.conflict = f.conflict
    BY <1>1, AddAssertionFacts
  <2>2. Fold(f, m) = g
    BY <1>4 DEF Fold
  <2> HIDE DEF g
  <2> QED
    BY <1>2, <2>1, <2>2
<1>5. CASE m.kind = "commit"
  <2> DEFINE g == AddCommit(f, m.from, m.roster)
  <2>1. /\ g \in FormationType /\ Good(p, g)
        /\ f.state = "committed" => g.state \in {"committed", "settled", "aborted"}
        /\ f.state = "settled" => g.state = "settled"
        /\ f.state = "aborted" => g = f
        /\ g.joins = f.joins
        /\ \A k \in Peers : k # m.from => g.commits[k] = f.commits[k]
        /\ g.commits[m.from] \in {f.commits[m.from], m.roster}
        /\ g.conflict = f.conflict \/
             (g.conflict = {m.from} /\ f.commits[m.from] # NoRoster /\ f.commits[m.from] # m.roster)
    BY <1>1, AddCommitFacts
  <2>2. Fold(f, m) = g
    BY <1>5 DEF Fold
  <2> HIDE DEF g
  <2> QED
    BY <1>2, <1>5, <2>1, <2>2
<1> QED
  BY <1>1, <1>3, <1>4, <1>5

\* A commit by an honest key that differs from the one held cannot arrive, so a
\* received frame proves nothing against such a key.
LEMMA ReceiveStep ==
  ASSUME IInv, NEW p \in Honest, NEW m \in net, Receive(p, m) PROVE IInv'
<1> DEFINE f == form[p]
           g == Fold(f, m)
<1>1. /\ TypeOK /\ FormOK(p) /\ StepOK(p) /\ RecordOK(p)
      /\ p \in Peers /\ f \in FormationType /\ Good(p, f) /\ recovery[p] \in BOOLEAN
      /\ recovery = [recovery EXCEPT ![p] = recovery[p]]
      /\ \A k \in Honest \ {p} : f.commits[k] # NoRoster => CommitMsg(k, f.commits[k]) \in net
  BY Facts
<1>2. /\ m \in Message /\ m.from # p /\ f.joins # {} /\ recovery[p] = FALSE
      /\ form' = [form EXCEPT ![p] = g] /\ net' = net /\ adm' = adm /\ recovery' = recovery
      /\ height' = height /\ bridge' = bridge /\ paid' = paid
  BY <1>1 DEF Receive, Delivered, AtTable, Joined, TypeOK
<1>3. form'[p] = g
  BY <1>1, <1>2 DEF TypeOK
<1>4. Keep(p, g, FALSE) /\ step' = [step EXCEPT ![p] = FirstStep(f, g, m)]
  <2>1. Keep(p, form'[p], FALSE) /\ step' = [step EXCEPT ![p] = FirstStep(form[p], form'[p], m)]
    BY DEF Receive
  <2> QED
    BY <1>3, <2>1
<1>5. /\ g \in FormationType /\ Good(p, g)
      /\ g.state \in {"joining", "formed"} => f.state \in {"joining", "formed"}
      /\ g.joins # {}
      /\ \A k \in Peers : \/ g.commits[k] = f.commits[k]
                          \/ k = m.from /\ m.kind = "commit" /\ g.commits[k] = m.roster
      /\ \/ g.conflict = f.conflict
         \/ /\ g.conflict = {m.from} /\ m.kind = "commit"
            /\ f.commits[m.from] # NoRoster /\ f.commits[m.from] # m.roster
  BY <1>1, <1>2, FoldFacts
<1> HIDE DEF g
<1>6. g.conflict \cap Honest = {}
  <2>1. CASE g.conflict = f.conflict
    BY <1>1, <2>1 DEF FormOK
  <2>2. CASE /\ g.conflict = {m.from} /\ m.kind = "commit"
             /\ f.commits[m.from] # NoRoster /\ f.commits[m.from] # m.roster
    <3> SUFFICES ASSUME m.from \in Honest PROVE FALSE
      BY <2>2
    <3>1. disk[m.from].commits[m.from] = m.roster
      BY <2>2 DEF IInv, SaidOK
    <3>2. CommitMsg(m.from, f.commits[m.from]) \in net
      BY <1>1, <1>2, <2>2
    <3>3. CommitMsg(m.from, f.commits[m.from]).kind = "commit"
          /\ CommitMsg(m.from, f.commits[m.from]).from = m.from
          /\ CommitMsg(m.from, f.commits[m.from]).roster = f.commits[m.from]
      BY DEF CommitMsg
    <3>4. disk[m.from].commits[m.from] = f.commits[m.from]
      BY <3>2, <3>3 DEF IInv, SaidOK
    <3> QED
      BY <2>2, <3>1, <3>4
  <2> QED
    BY <1>5, <2>1, <2>2
<1>7. \A k \in Honest \ {p} : g.commits[k] # NoRoster => CommitMsg(k, g.commits[k]) \in net
  <2> SUFFICES ASSUME NEW k \in Honest \ {p}, g.commits[k] # NoRoster
               PROVE  CommitMsg(k, g.commits[k]) \in net
    OBVIOUS
  <2>1. CASE g.commits[k] = f.commits[k]
    BY <1>1, <2>1
  <2>2. CASE k = m.from /\ m.kind = "commit" /\ g.commits[k] = m.roster
    <3>1. CommitMsg(k, m.roster) = m
      BY <1>2, <2>2 DEF CommitMsg, Message
    <3> QED
      BY <2>2, <3>1
  <2> QED
    BY <1>5, <2>1, <2>2 DEF Honest
<1>8. g.commits[p] = f.commits[p]
  BY <1>1, <1>2, <1>5
<1>9. /\ g.state \in {"joining", "formed"} => g.commits[p] = NoRoster
      /\ disk[p].commits[p] # NoRoster => g.commits[p] = disk[p].commits[p]
  BY <1>1, <1>2, <1>5, <1>8 DEF FormOK, RecordOK
<1>10. /\ step' \in [Peers -> Steps] /\ step'[p] # "commit"
       /\ \A q \in Honest \ {p} : step'[q] = step[q] /\ adm'[q] = adm[q]
  <2>1. FirstStep(f, g, m) \in Steps /\ FirstStep(f, g, m) # "commit"
    BY DEF FirstStep, Onward, Steps
  <2> QED
    BY <1>1, <1>2, <1>4, <2>1 DEF TypeOK, Honest
<1>11. /\ rcvd' \in [Peers -> SUBSET Message] /\ bridge' \in [Peers -> SUBSET Peers]
       /\ adm' \in [Peers -> AdmStates] /\ recovery' = [recovery EXCEPT ![p] = FALSE]
  BY <1>1, <1>2 DEF Receive, Handled, TypeOK
<1>12. adm'[p] \notin {"idle", "asked", "bonded"}
  <2>1. Blank.joins = {}
    BY DEF Blank
  <2> QED
    BY <1>1, <1>2, <2>1 DEF StepOK
<1> QED
  BY <1>1, <1>2, <1>4, <1>5, <1>6, <1>7, <1>9, <1>10, <1>11, <1>12, KeepStep

\* A frame that is dropped or refused changes nothing the invariant reads.
LEMMA IgnoreStep ==
  ASSUME IInv, faults' \in Nat, height' \in Nat, net' = net, rcvd' \in [Peers -> SUBSET Message],
         paid' \in [Peers -> BOOLEAN],
         UNCHANGED <<form, adm, step, recovery, fault, disk, bridge>>
  PROVE  IInv'
<1>1. TypeOK'
  BY DEF IInv, TypeOK
<1>2. \A p \in Honest : FormOK(p)' /\ StepOK(p)' /\ RecordOK(p)'
  BY DEF IInv, FormOK, StepOK, RecordOK
<1>3. SaidOK'
  BY DEF IInv, SaidOK
<1>4. HeardOK'
  BY DEF IInv, HeardOK
<1> QED
  BY <1>1, <1>2, <1>3, <1>4 DEF IInv

\* The parts of the invariant that a step which leaves disk[p] alone hands on.
LEMMA Standing ==
  ASSUME IInv, NEW p \in Honest
  PROVE  /\ form[p].conflict \cap Honest = {}
         /\ recovery[p] => form[p].state \notin {"committed", "settled"}
         /\ ~recovery[p] /\ form[p].state \in {"joining", "formed"} => form[p].commits[p] = NoRoster
         /\ ~fault[p] /\ ~recovery[p] => disk[p] = Snapshot(form[p], FALSE)
         /\ step[p] = "commit" => form[p].commits[p] # NoRoster
         /\ step[p] # "idle" => form[p].joins # {}
         /\ step[p] # "idle" /\ recovery[p] => form[p].state = "aborted"
         /\ adm[p] \in {"idle", "asked", "bonded"} => form[p] = Blank /\ disk[p].joins = {}
         /\ disk[p].commits[p] # NoRoster =>
              form[p].commits[p] = disk[p].commits[p] \/ (recovery[p] /\ step[p] = "idle")
BY Facts DEF FormOK, RecordOK, StepOK

LEMMA AnnounceStep ==
  ASSUME IInv, NEW p \in Honest, Announce(p) PROVE IInv'
<1> DEFINE f == form[p]
           g == IF f.state = "formed" THEN Assertion(f, p) ELSE f
<1>1. /\ TypeOK /\ FormOK(p) /\ StepOK(p) /\ RecordOK(p)
      /\ p \in Peers /\ f \in FormationType /\ Good(p, f) /\ form = [form EXCEPT ![p] = f]
  BY Facts
<1>2. step[p] = "announce" /\ step' = [step EXCEPT ![p] = "bind"]
      /\ adm' = adm /\ rcvd' = rcvd /\ recovery' = recovery /\ fault' = fault /\ disk' = disk
      /\ bridge' = bridge /\ paid' = paid /\ height' = height
  BY DEF Announce
<1>3. f.joins # {} /\ (recovery[p] => f.state = "aborted")
  BY <1>1, <1>2 DEF StepOK
<1>4. /\ g \in FormationType /\ Good(p, g) /\ g.state = f.state /\ g.canonical = f.canonical
      /\ g.joins = f.joins /\ g.commits = f.commits /\ g.conflict = f.conflict /\ g.beacon = f.beacon
  BY <1>1, <1>3, AssertionFacts
<1>5. Snapshot(g, FALSE) = Snapshot(f, FALSE)
  BY <1>4 DEF Snapshot
<1>6. form' = [form EXCEPT ![p] = g]
  <2>1. CASE f.state = "formed"
    BY <2>1 DEF Announce
  <2>2. CASE f.state # "formed"
    BY <1>1, <2>2 DEF Announce
  <2> QED
    BY <2>1, <2>2
<1>7. /\ faults' \in Nat /\ net \subseteq net' /\ net' \subseteq Message
      /\ \A n \in net' \ net : n.kind # "commit"
  <2>1. CASE f.state = "formed"
    <3>1. RosterMsg(p, f.canonical) \in Message /\ RosterMsg(p, f.canonical).kind = "roster"
      BY <1>1 DEF RosterMsg, Message, FormationType
    <3>2. Send(p, RosterMsg(p, f.canonical))
      BY <2>1 DEF Announce
    <3> QED
      BY <1>1, <3>1, <3>2, SendFacts
  <2>2. CASE f.state # "formed"
    BY <1>1, <2>2 DEF Announce, TypeOK
  <2> QED
    BY <2>1, <2>2
<1> HIDE DEF g
<1>8. /\ step' \in [Peers -> Steps] /\ step'[p] = "bind" /\ form'[p] = g
      /\ form' \in [Peers -> FormationType]
      /\ \A q \in Honest \ {p} : step'[q] = step[q] /\ form'[q] = form[q]
  BY <1>1, <1>2, <1>4, <1>6 DEF TypeOK, Steps, Honest
<1>9. TypeOK'
  BY <1>1, <1>2, <1>7, <1>8 DEF TypeOK
<1>10. FormOK(p)'
  BY <1>1, <1>2, <1>4, <1>8 DEF FormOK
<1>11. StepOK(p)'
  <2>1. Blank.joins = {}
    BY DEF Blank
  <2> QED
    BY <1>1, <1>2, <1>3, <1>4, <1>8, <2>1 DEF StepOK
<1>12. ~fault[p] /\ ~recovery[p] => disk[p] = Snapshot(g, FALSE)
  BY <1>1, <1>5 DEF RecordOK
<1> QED
  BY <1>2, <1>4, <1>7, <1>8, <1>9, <1>10, <1>11, <1>12, PlainStep

LEMMA BindStepStep ==
  ASSUME IInv, NEW p \in Honest, BindStep(p) PROVE IInv'
<1> DEFINE f == form[p]
           g == Bind(f, p)
<1>1. /\ TypeOK /\ recovery[p] \in BOOLEAN
      /\ p \in Peers /\ f \in FormationType /\ Good(p, f)
      /\ recovery = [recovery EXCEPT ![p] = recovery[p]] /\ form = [form EXCEPT ![p] = f]
      /\ \A k \in Honest \ {p} : f.commits[k] # NoRoster => CommitMsg(k, f.commits[k]) \in net
  BY Facts
<1>2. /\ f.conflict \cap Honest = {}
      /\ recovery[p] => f.state \notin {"committed", "settled"}
      /\ ~recovery[p] /\ f.state \in {"joining", "formed"} => f.commits[p] = NoRoster
      /\ ~fault[p] /\ ~recovery[p] => disk[p] = Snapshot(f, FALSE)
      /\ step[p] # "idle" => f.joins # {}
      /\ step[p] # "idle" /\ recovery[p] => f.state = "aborted"
      /\ adm[p] \in {"idle", "asked", "bonded"} => f = Blank /\ disk[p].joins = {}
      /\ disk[p].commits[p] # NoRoster =>
           f.commits[p] = disk[p].commits[p] \/ (recovery[p] /\ step[p] = "idle")
  BY Standing
<1>3. step[p] = "bind"
      /\ adm' = adm /\ rcvd' = rcvd /\ recovery' = recovery
      /\ bridge' = bridge /\ paid' = paid /\ height' = height /\ net' = net
      /\ rcvd' \in [Peers -> SUBSET Message] /\ bridge' \in [Peers -> SUBSET Peers]
      /\ adm' \in [Peers -> AdmStates] /\ recovery' = [recovery EXCEPT ![p] = recovery[p]]
      /\ paid' \in [Peers -> BOOLEAN] /\ net' \subseteq Message
  BY <1>1 DEF BindStep, TypeOK
<1>4. adm'[p] \notin {"idle", "asked", "bonded"}
  <2>1. Blank.joins = {}
    BY DEF Blank
  <2> QED
    BY <1>2, <1>3, <2>1
<1>5. CASE MayBind(f)
  <2>1. f.state = "formed" /\ recovery[p] = FALSE
    BY <1>1, <1>2, <1>3, <1>5 DEF MayBind
  <2>2. /\ g \in FormationType /\ Good(p, g) /\ g.state \in {"committed", "settled"}
        /\ g.commits = [f.commits EXCEPT ![p] = f.joins]
        /\ g.joins = f.joins /\ f.joins # {} /\ g.conflict = f.conflict
    BY <1>1, <2>1, BindFacts
  <2>3. form' = [form EXCEPT ![p] = g] /\ step' = [step EXCEPT ![p] = "commit"]
        /\ Keep(p, form'[p], recovery[p])
    BY <1>5 DEF BindStep
  <2>4. form'[p] = g
    BY <1>1, <2>3 DEF TypeOK
  <2> HIDE DEF g
  <2>5. Keep(p, g, FALSE) /\ recovery' = [recovery EXCEPT ![p] = FALSE]
    BY <1>3, <2>1, <2>3, <2>4
  <2>6. g.commits[p] # NoRoster /\ \A k \in Peers \ {p} : g.commits[k] = f.commits[k]
    BY <1>1, <2>2 DEF NoRoster, FormationType
  <2>7. \A k \in Honest \ {p} : g.commits[k] # NoRoster => CommitMsg(k, g.commits[k]) \in net
    BY <1>1, <2>6 DEF Honest
  <2>8. disk[p].commits[p] = NoRoster
    BY <1>2, <1>3, <2>1
  <2>9. step' \in [Peers -> Steps] /\ \A q \in Honest \ {p} : step'[q] = step[q] /\ adm'[q] = adm[q]
    BY <1>1, <1>3, <2>3 DEF TypeOK, Steps, Honest
  <2> QED
    BY <1>1, <1>2, <1>3, <1>4, <2>2, <2>3, <2>5, <2>6, <2>7, <2>8, <2>9, KeepStep
<1>6. CASE ~MayBind(f)
  <2>1. form' = form /\ disk' = disk /\ fault' = fault /\ faults' = faults
        /\ step' = [step EXCEPT ![p] = "idle"]
    BY <1>6 DEF BindStep
  <2>2. /\ step' \in [Peers -> Steps] /\ step'[p] = "idle"
        /\ \A q \in Honest \ {p} : step'[q] = step[q]
    BY <1>1, <2>1 DEF TypeOK, Steps, Honest
  <2>3. TypeOK'
    BY <1>1, <1>3, <2>1, <2>2 DEF TypeOK
  <2>4. FormOK(p)' /\ StepOK(p)'
    BY <1>1, <1>2, <1>3, <1>4, <2>1, <2>2 DEF FormOK, StepOK
  <2> QED
    BY <1>2, <1>3, <2>1, <2>2, <2>3, <2>4, PlainStep
<1> QED
  BY <1>5, <1>6

LEMMA SayCommitStep ==
  ASSUME IInv, NEW p \in Honest, SayCommit(p) PROVE IInv'
<1> DEFINE f == form[p]
           m == CommitMsg(p, f.commits[p])
<1>1. /\ TypeOK /\ FormOK(p) /\ StepOK(p) /\ RecordOK(p)
      /\ p \in Peers /\ f \in FormationType
  BY Facts
<1>2. step[p] = "commit" /\ step' = [step EXCEPT ![p] = Onward(f)] /\ Send(p, m)
      /\ form' = form /\ adm' = adm /\ rcvd' = rcvd /\ recovery' = recovery /\ fault' = fault
      /\ disk' = disk /\ bridge' = bridge /\ paid' = paid /\ height' = height
  BY DEF SayCommit
<1>3. m \in Message /\ m.kind = "commit" /\ m.from = p /\ m.roster = f.commits[p]
  BY <1>1 DEF CommitMsg, Message, FormationType
<1> HIDE DEF m
<1>4. /\ faults' \in Nat /\ net \subseteq net' /\ net' \subseteq Message
      /\ \A n \in net' \ net : n = m /\ ~recovery[p] /\ ~fault[p]
  BY <1>1, <1>2, <1>3, SendFacts
<1>5. f.commits[p] # NoRoster /\ f.joins # {} /\ (recovery[p] => f.state = "aborted")
  BY <1>1, <1>2 DEF StepOK
<1>6. ~recovery[p] /\ ~fault[p] => disk[p] = Snapshot(f, FALSE) /\ disk[p].commits[p] = f.commits[p]
  BY <1>1 DEF RecordOK, Snapshot
<1>7. \A n \in net' \ net : n.kind = "commit" /\ n.from \in Honest =>
        n.from = p /\ n.roster # NoRoster /\ disk[p].commits[p] = n.roster
  BY <1>3, <1>4, <1>5, <1>6
<1>8. /\ step' \in [Peers -> Steps] /\ step'[p] # "commit"
      /\ \A q \in Honest \ {p} : step'[q] = step[q]
  <2>1. Onward(f) \in Steps /\ Onward(f) # "commit"
    BY DEF Onward, Steps
  <2> QED
    BY <1>1, <1>2, <2>1 DEF TypeOK, Honest
<1>9. TypeOK'
  BY <1>1, <1>2, <1>4, <1>8 DEF TypeOK
<1>10. FormOK(p)' /\ StepOK(p)'
  <2>1. Blank.joins = {}
    BY DEF Blank
  <2> QED
    BY <1>1, <1>2, <1>5, <1>8, <2>1 DEF FormOK, StepOK
<1> QED
  BY <1>2, <1>4, <1>6, <1>7, <1>8, <1>9, <1>10, PlainStep

LEMMA SeatFacts ==
  ASSUME NEW p \in Peers, NEW f \in FormationType, Good(p, f), f.joins # {}
  PROVE  LET g == Seat(f)
         IN  /\ g \in FormationType
             /\ Good(p, g)
             /\ g.state = f.state /\ g.canonical = f.canonical
             /\ g.joins = f.joins /\ g.commits = f.commits /\ g.conflict = f.conflict
<1>1. CASE Ready(f)
  <2>1. Seat(f) = SetBeacon(f)
    BY <1>1 DEF Seat
  <2> QED
    BY <2>1, SetBeaconFacts
<1>2. CASE ~Ready(f)
  <2>1. Seat(f) = f
    BY <1>2 DEF Seat
  <2> QED
    BY <2>1
<1> QED
  BY <1>1, <1>2

LEMMA SeatStepStep ==
  ASSUME IInv, NEW p \in Honest, SeatStep(p) PROVE IInv'
<1> DEFINE f == form[p]
           g == Seat(f)
<1>1. /\ TypeOK /\ FormOK(p) /\ StepOK(p) /\ RecordOK(p)
      /\ p \in Peers /\ f \in FormationType /\ Good(p, f) /\ recovery[p] \in BOOLEAN
      /\ recovery = [recovery EXCEPT ![p] = recovery[p]] /\ form = [form EXCEPT ![p] = f]
      /\ \A k \in Honest \ {p} : f.commits[k] # NoRoster => CommitMsg(k, f.commits[k]) \in net
  BY Facts
<1>2. step[p] = "seat" /\ step' = [step EXCEPT ![p] = "idle"] /\ form' = [form EXCEPT ![p] = g]
      /\ adm' = adm /\ rcvd' = rcvd /\ recovery' = recovery /\ net' = net
      /\ bridge' = bridge /\ paid' = paid /\ height' = height
  BY DEF SeatStep
<1>3. f.joins # {} /\ (recovery[p] => f.state = "aborted")
  BY <1>1, <1>2 DEF StepOK
<1>4. /\ g \in FormationType /\ Good(p, g) /\ g.state = f.state
      /\ g.joins = f.joins /\ g.commits = f.commits /\ g.conflict = f.conflict
  BY <1>1, <1>3, SeatFacts
<1> HIDE DEF g
<1>5. /\ step' \in [Peers -> Steps] /\ step'[p] = "idle" /\ form'[p] = g
      /\ form' \in [Peers -> FormationType]
      /\ \A q \in Honest \ {p} : step'[q] = step[q] /\ form'[q] = form[q]
  BY <1>1, <1>2, <1>4 DEF TypeOK, Steps, Honest
<1>6. adm[p] \notin {"idle", "asked", "bonded"}
  <2>1. Blank.joins = {}
    BY DEF Blank
  <2> QED
    BY <1>1, <1>3, <2>1 DEF StepOK
<1>7. CASE g # f
  <2>1. Keep(p, g, recovery[p])
    BY <1>5, <1>7 DEF SeatStep
  <2>2. /\ adm' \in [Peers -> AdmStates] /\ rcvd' \in [Peers -> SUBSET Message]
        /\ bridge' \in [Peers -> SUBSET Peers]
        /\ recovery' = [recovery EXCEPT ![p] = recovery[p]]
        /\ \A q \in Honest \ {p} : step'[q] = step[q] /\ adm'[q] = adm[q]
    BY <1>1, <1>2, <1>5 DEF TypeOK
  <2>3. g.conflict \cap Honest = {}
        /\ (disk[p].commits[p] # NoRoster => g.commits[p] = disk[p].commits[p])
    BY <1>1, <1>2, <1>4 DEF FormOK, RecordOK
  <2>4. /\ recovery[p] => g.state = "aborted"
        /\ ~recovery[p] /\ g.state \in {"joining", "formed"} => g.commits[p] = NoRoster
    BY <1>1, <1>3, <1>4 DEF FormOK
  <2>5. CASE recovery[p] = TRUE
    <3>1. Keep(p, g, TRUE) /\ recovery' = [recovery EXCEPT ![p] = TRUE] /\ g.state = "aborted"
      BY <2>1, <2>2, <2>4, <2>5
    <3>2. adm'[p] \notin {"idle", "asked", "bonded"}
      BY <1>2, <1>6
    <3> QED
      BY <1>1, <1>2, <1>4, <1>5, <2>2, <2>3, <3>1, <3>2, KeepStep
  <2>6. CASE recovery[p] = FALSE
    <3>1. Keep(p, g, FALSE) /\ recovery' = [recovery EXCEPT ![p] = FALSE] /\ (g.state \in {"joining", "formed"} => g.commits[p] = NoRoster)
      BY <2>1, <2>2, <2>4, <2>6
    <3>2. adm'[p] \notin {"idle", "asked", "bonded"}
      BY <1>2, <1>6
    <3> QED
      BY <1>1, <1>2, <1>4, <1>5, <2>2, <2>3, <3>1, <3>2, KeepStep
  <2> QED
    BY <1>1, <2>5, <2>6
<1>8. CASE g = f
  <2>1. disk' = disk /\ fault' = fault /\ faults' = faults
    BY <1>5, <1>8 DEF SeatStep
  <2>2. TypeOK'
    BY <1>1, <1>2, <1>5, <2>1 DEF TypeOK
  <2>3. FormOK(p)' /\ StepOK(p)'
    BY <1>1, <1>2, <1>5, <1>6, <1>8, <2>1 DEF FormOK, StepOK
  <2>4. ~fault[p] /\ ~recovery[p] => disk[p] = Snapshot(f, FALSE)
    BY <1>1 DEF RecordOK
  <2> QED
    BY <1>2, <1>5, <1>8, <2>1, <2>2, <2>3, <2>4, PlainStep
<1> QED
  BY <1>7, <1>8

LEMMA TickStep ==
  ASSUME IInv, NEW p \in Honest, NEW h, Tick(p, h) PROVE IInv'
<1> DEFINE f == form[p]
           shut == IF h > Until THEN CloseWindow(f) ELSE f
           seated == Seat(shut)
           given == Seated(seated) /\ bridge[p] = NoRoster /\ BridgeTakes(p, seated)
           lapsed == Lapses(p, seated, h)
           last == IF lapsed THEN Abandon(seated) ELSE seated
<1>1. /\ TypeOK /\ FormOK(p) /\ StepOK(p) /\ RecordOK(p)
      /\ p \in Peers /\ f \in FormationType /\ Good(p, f) /\ recovery[p] \in BOOLEAN
      /\ \A k \in Honest \ {p} : f.commits[k] # NoRoster => CommitMsg(k, f.commits[k]) \in net
  BY Facts
<1>2. f.joins # {} /\ recovery[p] = FALSE
  BY <1>1 DEF Tick, AtTable, Joined
<1>3. /\ form' = [form EXCEPT ![p] = last] /\ recovery' = [recovery EXCEPT ![p] = lapsed]
      /\ bridge' = [bridge EXCEPT ![p] = IF given THEN seated.joins ELSE @]
      /\ height' = height /\ net' = net /\ adm' = adm /\ step' = step /\ rcvd' = rcvd /\ paid' = paid
      /\ \/ Keep(p, last, lapsed)
         \/ Snapshot(last, lapsed) = Snapshot(f, FALSE) /\ UNCHANGED <<disk, fault, faults>>
  BY DEF Tick
<1>4. /\ shut \in FormationType /\ Good(p, shut)
      /\ shut.state = f.state \/ shut.state = "aborted"
      /\ shut.joins = f.joins /\ shut.commits = f.commits /\ shut.conflict = f.conflict
  BY <1>1, <1>2, CloseWindowFacts
<1> HIDE DEF shut
<1>5. /\ seated \in FormationType /\ Good(p, seated) /\ seated.state = shut.state
      /\ seated.joins = f.joins /\ seated.commits = f.commits /\ seated.conflict = f.conflict
  <2>1. shut.joins # {}
    BY <1>2, <1>4
  <2> QED
    BY <1>1, <1>4, <2>1, SeatFacts
<1>6. lapsed \in BOOLEAN /\ (lapsed => seated.canonical # NoRoster)
  BY DEF Lapses, Seated
<1>7. given \in BOOLEAN
  BY DEF Seated
<1> HIDE DEF seated, lapsed, given
<1>8. /\ last \in FormationType /\ Good(p, last)
      /\ lapsed => last.state = "aborted"
      /\ ~lapsed => last.state = f.state \/ last.state = "aborted"
      /\ last.joins = f.joins /\ last.commits = f.commits /\ last.conflict = f.conflict
  <2>1. CASE lapsed
    <3>1. seated.joins # {}
      BY <1>2, <1>5
    <3>2. LET g == Abandon(seated)
          IN  /\ g \in FormationType /\ Good(p, g) /\ g.state \in {"joining", "aborted"}
              /\ g.canonical = seated.canonical /\ g.joins = seated.joins
              /\ g.commits = seated.commits /\ g.conflict = seated.conflict
      BY <1>1, <1>5, <3>1, AbandonFacts
    <3>3. last = Abandon(seated)
      BY <2>1
    <3>4. Abandon(seated).state = "aborted"
      BY <1>6, <2>1, <3>2 DEF Good
    <3> QED
      BY <1>5, <2>1, <3>2, <3>3, <3>4
  <2>2. CASE ~lapsed
    BY <1>4, <1>5, <2>2
  <2> QED
    BY <2>1, <2>2
<1> HIDE DEF last
<1>9. /\ form' \in [Peers -> FormationType] /\ form'[p] = last
      /\ recovery' \in [Peers -> BOOLEAN] /\ recovery'[p] = lapsed
      /\ \A q \in Honest \ {p} : form'[q] = form[q] /\ recovery'[q] = recovery[q]
  BY <1>1, <1>3, <1>6, <1>8 DEF TypeOK, Honest
<1>10. bridge' \in [Peers -> SUBSET Peers]
  <2>1. bridge \in [Peers -> SUBSET Peers] /\ seated.joins \in SUBSET Peers
    BY <1>1, <1>5 DEF TypeOK, FormationType
  <2> QED
    BY <1>3, <2>1
<1>11. /\ last.conflict \cap Honest = {}
       /\ disk[p].commits[p] # NoRoster => last.commits[p] = disk[p].commits[p]
       /\ lapsed => last.state \notin {"committed", "settled"}
       /\ ~lapsed /\ last.state \in {"joining", "formed"} => last.commits[p] = NoRoster
       /\ \A k \in Honest \ {p} : last.commits[k] # NoRoster => CommitMsg(k, last.commits[k]) \in net
  BY <1>1, <1>2, <1>8 DEF FormOK, RecordOK
<1>12. /\ step[p] = "commit" => last.commits[p] # NoRoster
       /\ last.joins # {}
       /\ adm[p] \notin {"idle", "asked", "bonded"}
  <2>1. Blank.joins = {}
    BY DEF Blank
  <2> QED
    BY <1>1, <1>2, <1>8, <2>1 DEF StepOK
<1>13. CASE Keep(p, last, lapsed)
  <2>1. /\ adm' \in [Peers -> AdmStates] /\ rcvd' \in [Peers -> SUBSET Message]
        /\ step' \in [Peers -> Steps]
    BY <1>1, <1>3 DEF TypeOK
  <2>2. CASE lapsed = TRUE
    BY <1>1, <1>3, <1>8, <1>10, <1>11, <1>12, <1>13, <2>1, <2>2, KeepStep
  <2>3. CASE lapsed = FALSE
    BY <1>1, <1>3, <1>8, <1>10, <1>11, <1>12, <1>13, <2>1, <2>3, KeepStep
  <2> QED
    BY <1>6, <2>2, <2>3
<1>14. CASE Snapshot(last, lapsed) = Snapshot(f, FALSE) /\ UNCHANGED <<disk, fault, faults>>
  <2>1. TypeOK'
    BY <1>1, <1>3, <1>9, <1>10, <1>14 DEF TypeOK
  <2>2. FormOK(p)'
    BY <1>8, <1>9, <1>11 DEF FormOK
  <2>3. StepOK(p)'
    BY <1>3, <1>8, <1>9, <1>12, <1>14 DEF StepOK
  <2>4. ~fault[p] /\ ~lapsed => disk[p] = Snapshot(last, FALSE)
    <3>1. lapsed = FALSE => Snapshot(last, FALSE) = Snapshot(f, FALSE)
      BY <1>14
    <3> QED
      BY <1>1, <1>2, <1>6, <3>1 DEF RecordOK
  <2> QED
    BY <1>2, <1>3, <1>8, <1>9, <1>14, <2>1, <2>2, <2>3, <2>4, PlainStep
<1> QED
  BY <1>3, <1>13, <1>14

\* A process that comes back holds what its record held, and its word with it.
LEMMA RestartStep ==
  ASSUME IInv, NEW p \in Honest, Restart(p) PROVE IInv'
<1> DEFINE r == disk[p]
           g == Rebuild(p, r)
<1>1. /\ TypeOK /\ StepOK(p) /\ RecordOK(p) /\ p \in Peers /\ r \in Record
  BY Facts
<1>2. /\ g \in FormationType /\ Good(p, g)
      /\ r.over => g.state \notin {"committed", "settled"}
      /\ ~r.over => Snapshot(g, FALSE) = r
      /\ g.state \in {"joining", "formed"} /\ ~r.over => g.commits[p] = NoRoster
      /\ g.conflict = {}
      /\ g.commits \in {r.commits, Blank.commits}
      /\ r.joins = {} => g = Blank
  BY <1>1, RebuildFacts DEF RecordOK
<1> HIDE DEF g
<1>3. /\ form' = [form EXCEPT ![p] = g] /\ recovery' = [recovery EXCEPT ![p] = r.over]
      /\ adm' = [adm EXCEPT ![p] = IF r.joins # {} THEN "done"
                                   ELSE IF @ \in {"idle", "asked"} THEN "idle" ELSE "bonded"]
      /\ step' = [step EXCEPT ![p] = "idle"] /\ rcvd' = [rcvd EXCEPT ![p] = {}]
      /\ fault' = [fault EXCEPT ![p] = FALSE] /\ faults' = faults + 1
      /\ height' = height /\ net' = net /\ disk' = disk /\ bridge' = bridge /\ paid' = paid
  BY DEF Restart, Fail, g
<1>4. /\ form' \in [Peers -> FormationType] /\ form'[p] = g
      /\ recovery' \in [Peers -> BOOLEAN] /\ recovery'[p] = r.over
      /\ step' \in [Peers -> Steps] /\ step'[p] = "idle"
      /\ fault' \in [Peers -> BOOLEAN] /\ rcvd' \in [Peers -> SUBSET Message] /\ faults' \in Nat
      /\ \A q \in Honest \ {p} : /\ form'[q] = form[q] /\ recovery'[q] = recovery[q]
                                 /\ step'[q] = step[q] /\ fault'[q] = fault[q]
  BY <1>1, <1>2, <1>3 DEF TypeOK, Record, Steps, Honest
<1>5. /\ adm' \in [Peers -> AdmStates] /\ (adm'[p] # "done" => r.joins = {})
      /\ \A q \in Honest \ {p} : adm'[q] = adm[q]
  BY <1>1, <1>3 DEF TypeOK, AdmStates, Honest
<1>6. TypeOK'
  BY <1>1, <1>3, <1>4, <1>5 DEF TypeOK
<1>7. FormOK(p)'
  BY <1>2, <1>4 DEF FormOK
<1>8. StepOK(p)'
  BY <1>2, <1>3, <1>4, <1>5 DEF StepOK
<1>9. RecordOK(p)'
  <2>1. ~r.over => g.commits = r.commits
    BY <1>2 DEF Snapshot
  <2> QED
    BY <1>1, <1>2, <1>3, <1>4, <2>1 DEF RecordOK
<1>10. \A k \in Honest \ {p} :
         /\ g.commits[k] # NoRoster => CommitMsg(k, g.commits[k]) \in net
         /\ r.commits[k] # NoRoster => CommitMsg(k, r.commits[k]) \in net
  <2> SUFFICES ASSUME NEW k \in Honest \ {p}
               PROVE  /\ g.commits[k] # NoRoster => CommitMsg(k, g.commits[k]) \in net
                      /\ r.commits[k] # NoRoster => CommitMsg(k, r.commits[k]) \in net
    OBVIOUS
  <2>1. r.commits[k] # NoRoster => CommitMsg(k, r.commits[k]) \in net
    BY DEF IInv, HeardOK
  <2>2. Blank.commits[k] = NoRoster
    BY DEF Blank, Honest
  <2> QED
    BY <1>2, <2>1, <2>2
<1> QED
  BY <1>3, <1>4, <1>5, <1>6, <1>7, <1>8, <1>9, <1>10, Frame

\* What a key without a promise says touches no honest key's word.
LEMMA EquivocateStep ==
  ASSUME IInv, NEW p \in Equivocators, Equivocate(p) PROVE IInv'
<1>1. PICK m \in Claims(p) : net' = net \cup {m}
  BY DEF Equivocate
<1>2. m \in Message /\ m.from = p /\ p \notin Honest
  BY <1>1, EquivocatorsAssumption DEF Claims, JoinMsg, RosterMsg, CommitMsg, Message, Honest
<1>3. UNCHANGED <<height, faults, form, adm, step, rcvd, recovery, fault, disk, bridge, paid>>
  BY DEF Equivocate
<1>4. TypeOK'
  BY <1>1, <1>2, <1>3 DEF IInv, TypeOK
<1>5. \A q \in Honest : FormOK(q)' /\ StepOK(q)' /\ RecordOK(q)'
  BY <1>3 DEF IInv, FormOK, StepOK, RecordOK
<1>6. SaidOK'
  BY <1>1, <1>2, <1>3 DEF IInv, SaidOK
<1>7. HeardOK'
  BY <1>1, <1>3 DEF IInv, HeardOK
<1> QED
  BY <1>4, <1>5, <1>6, <1>7 DEF IInv

-----------------------------------------------------------------------------
(* The invariant, and what it gives                                        *)

LEMMA InitIInv == Init => IInv
<1> SUFFICES ASSUME Init PROVE IInv
  OBVIOUS
<1>1. \A p \in Peers : Blank \in FormationType /\ Good(p, Blank)
  BY BlankGood
<1>2. /\ Blank.state = "joining" /\ Blank.joins = {} /\ Blank.conflict = {}
      /\ \A k \in Peers : Blank.commits[k] = NoRoster
  BY DEF Blank
<1>3. \A p \in Peers : /\ Snapshot(Blank, FALSE) \in Record
                       /\ DiskOK(p, Snapshot(Blank, FALSE))
                       /\ Snapshot(Blank, FALSE).commits = Blank.commits
                       /\ Snapshot(Blank, FALSE).joins = {}
  <2> SUFFICES ASSUME NEW p \in Peers
               PROVE  /\ Snapshot(Blank, FALSE) \in Record
                      /\ DiskOK(p, Snapshot(Blank, FALSE))
                      /\ Snapshot(Blank, FALSE).commits = Blank.commits
                      /\ Snapshot(Blank, FALSE).joins = {}
    OBVIOUS
  <2>1. Blank \in FormationType /\ Good(p, Blank) /\ Blank.commits[p] = NoRoster
    BY <1>1, <1>2
  <2> QED
    BY <1>2, <2>1, SnapshotFacts
<1>4. TypeOK
  <2>1. height \in Nat /\ faults \in Nat /\ net \subseteq Message
    BY HeightAssumption DEF Init
  <2>2. form \in [Peers -> FormationType]
    BY <1>1 DEF Init
  <2>3. disk \in [Peers -> Record]
    BY <1>3 DEF Init
  <2>4. adm \in [Peers -> AdmStates] /\ step \in [Peers -> Steps]
    BY DEF Init, AdmStates, Steps
  <2>5. rcvd \in [Peers -> SUBSET Message] /\ recovery \in [Peers -> BOOLEAN]
        /\ fault \in [Peers -> BOOLEAN] /\ paid \in [Peers -> BOOLEAN]
    BY DEF Init
  <2>6. bridge \in [Peers -> SUBSET Peers]
    BY DEF Init, NoRoster
  <2> QED
    BY <2>1, <2>2, <2>3, <2>4, <2>5, <2>6 DEF TypeOK
<1>5. ASSUME NEW p \in Honest PROVE FormOK(p) /\ StepOK(p) /\ RecordOK(p)
  <2>1. p \in Peers
    BY DEF Honest
  <2>2. /\ form[p] = Blank /\ disk[p] = Snapshot(Blank, FALSE) /\ step[p] = "idle"
        /\ recovery[p] = FALSE /\ fault[p] = FALSE
    BY <2>1 DEF Init
  <2>3. FormOK(p)
    BY <1>1, <1>2, <2>1, <2>2 DEF FormOK
  <2>4. StepOK(p)
    BY <1>3, <2>1, <2>2 DEF StepOK
  <2>5. RecordOK(p)
    BY <1>2, <1>3, <2>1, <2>2 DEF RecordOK
  <2> QED
    BY <2>3, <2>4, <2>5
<1>6. SaidOK
  BY DEF Init, SaidOK
<1>7. HeardOK
  <2> SUFFICES ASSUME NEW p \in Honest, NEW k \in Honest
               PROVE  form[p].commits[k] = NoRoster /\ disk[p].commits[k] = NoRoster
    BY DEF HeardOK
  <2>1. p \in Peers /\ k \in Peers
    BY DEF Honest
  <2> QED
    BY <1>2, <1>3, <2>1 DEF Init
<1> QED
  BY <1>4, <1>5, <1>6, <1>7 DEF IInv

LEMMA NextIInv == IInv /\ [Next]_vars => IInv'
<1> SUFFICES ASSUME IInv, [Next]_vars PROVE IInv'
  OBVIOUS
<1>0. TypeOK
  BY DEF IInv
<1>1. CASE UNCHANGED vars
  BY <1>0, <1>1, IgnoreStep DEF vars, TypeOK
<1>2. CASE MineBlock
  BY <1>0, <1>2, IgnoreStep DEF MineBlock, TypeOK
<1>3. ASSUME NEW p \in Honest, StakesRecorded(p) PROVE IInv'
  BY <1>0, <1>3, IgnoreStep DEF StakesRecorded, TypeOK
<1>4. ASSUME NEW p \in Honest, NEW m \in net, DropEarly(p, m) \/ RefuseBond(p, m) PROVE IInv'
  <2>1. faults' \in Nat /\ rcvd' \in [Peers -> SUBSET Message]
    BY <1>0, <1>4 DEF DropEarly, RefuseBond, Fail, Handled, TypeOK, Honest
  <2> QED
    BY <1>0, <1>4, <2>1, IgnoreStep DEF DropEarly, RefuseBond, TypeOK
<1>5. ASSUME NEW p \in Honest,
             \/ AskBond(p) \/ BondLands(p) \/ FormAndJoin(p) \/ PublishJoin(p)
             \/ Announce(p) \/ BindStep(p) \/ SayCommit(p) \/ SeatStep(p) \/ Restart(p)
      PROVE  IInv'
  BY <1>5, AskBondStep, BondLandsStep, FormAndJoinStep, PublishJoinStep,
     AnnounceStep, BindStepStep, SayCommitStep, SeatStepStep, RestartStep
<1>6. ASSUME NEW p \in Honest, NEW m \in net, Receive(p, m) PROVE IInv'
  BY <1>6, ReceiveStep
<1>7. ASSUME NEW p \in Honest, NEW h \in {height - 1, height}, Tick(p, h) PROVE IInv'
  BY <1>7, TickStep
<1>8. ASSUME NEW p \in Equivocators, Equivocate(p) PROVE IInv'
  BY <1>8, EquivocateStep
<1> QED
  BY <1>1, <1>2, <1>3, <1>4, <1>5, <1>6, <1>7, <1>8 DEF Next

\* Formations, records, steps, the chat and what was heard of it stay consistent
\* under every action: the inductive invariant.
THEOREM Inductive == Spec => []IInv
BY InitIInv, NextIInv, PTL DEF Spec

\* Every state the handlers, the worker and the follower reach is well typed:
\* in particular no handler goes on in a place it does not know.
THEOREM TypeCorrect == Spec => []TypeOK
<1>1. IInv => TypeOK
  BY DEF IInv
<1> QED
  BY <1>1, Inductive, PTL

\* No handler or tick of a healthy process forgets its keep().
THEOREM Durable == Spec => []DurableWhenHealthy
<1>1. IInv => DurableWhenHealthy
  BY DEF IInv, RecordOK, DurableWhenHealthy
<1> QED
  BY <1>1, Inductive, PTL

\* A key that one runtime uses is never heard binding itself to two rosters: its
\* word is on disk before it is on the wire.
THEOREM OneWord == Spec => []SingleCommit
<1>1. IInv => SingleCommit
  <2> SUFFICES ASSUME IInv, NEW m \in net, NEW n \in net,
                      m.kind = "commit", n.kind = "commit", m.from = n.from, m.from \in Honest
               PROVE  m = n
    BY DEF SingleCommit
  <2>1. m.roster = n.roster
    BY DEF IInv, SaidOK
  <2>2. m \in Message /\ n \in Message
    BY DEF IInv, TypeOK
  <2> QED
    BY <2>1, <2>2 DEF Message
<1> QED
  BY <1>1, Inductive, PTL

\* No peer ever holds proof of a contradiction against a key that behaved.
THEOREM NobodyFramed == Spec => []NoFalseConflict
<1>1. IInv => NoFalseConflict
  BY DEF IInv, FormOK, NoFalseConflict
<1> QED
  BY <1>1, Inductive, PTL

\* Every record that is ever on disk can be taken back up by resume().
THEOREM RecordsResume == Spec => []Resumable
<1>1. IInv => Resumable
  <2> SUFFICES ASSUME IInv, NEW p \in Honest PROVE Resumes(p, disk[p])
    BY DEF Resumable
  <2>1. p \in Peers /\ disk[p] \in Record /\ DiskOK(p, disk[p])
    BY Facts DEF RecordOK
  <2> QED
    BY <2>1, RebuildFacts
<1> QED
  BY <1>1, Inductive, PTL

\* A held table names its holder, and its holder's own commit.
LEMMA HeldFacts ==
  ASSUME IInv, NEW p \in Honest, Held(p) # NoRoster
  PROVE  /\ p \in Held(p) /\ Held(p) \in SUBSET Peers
         /\ form[p].state = "settled" /\ form[p].canonical = Held(p)
         /\ disk[p].commits[p] \in {NoRoster, Held(p)}
         /\ \A k \in (Held(p) \cap Honest) \ {p} : CommitMsg(k, Held(p)) \in net
         /\ \A k \in (Held(p) \cap Honest) \ {p} : disk[k].commits[k] = Held(p)
         /\ form[p].commits[p] = Held(p)
<1>1. /\ FormOK(p) /\ RecordOK(p) /\ form[p] \in FormationType /\ Good(p, form[p])
      /\ \A k \in Honest \ {p} :
           form[p].commits[k] # NoRoster => CommitMsg(k, form[p].commits[k]) \in net
  BY Facts
<1>2. form[p].state = "settled" /\ form[p].canonical = Held(p)
  BY DEF Held
<1>3. /\ form[p].joins = Held(p) /\ AllBound(form[p]) /\ form[p].commits[p] = Held(p)
      /\ p \in Held(p) /\ Held(p) \in SUBSET Peers
  BY <1>1, <1>2 DEF Good, FormationType, NoRoster
<1>4. disk[p].commits[p] \in {NoRoster, Held(p)}
  BY <1>1, <1>2, <1>3 DEF FormOK, RecordOK
<1>5. \A k \in (Held(p) \cap Honest) \ {p} : CommitMsg(k, Held(p)) \in net
  BY <1>1, <1>2, <1>3 DEF AllBound
<1>6. ASSUME NEW k \in (Held(p) \cap Honest) \ {p} PROVE disk[k].commits[k] = Held(p)
  <2>1. CommitMsg(k, Held(p)).kind = "commit" /\ CommitMsg(k, Held(p)).from = k
        /\ CommitMsg(k, Held(p)).roster = Held(p)
    BY DEF CommitMsg
  <2> QED
    BY <1>5, <2>1 DEF IInv, SaidOK
<1> QED
  BY <1>2, <1>3, <1>4, <1>5, <1>6

\* A settled peer leans only on commits their signers have on disk.
THEOREM SettledDurable == Spec => []SettledIsDurable
<1>1. IInv => SettledIsDurable
  BY HeldFacts DEF SettledIsDurable, NoRoster
<1> QED
  BY <1>1, Inductive, PTL

\* Two settled tables that share an honest member are the same table.
THEOREM Agree == Spec => []Agreement
<1>1. IInv => Agreement
  <2> SUFFICES ASSUME IInv, NEW p \in Honest, NEW q \in Honest, p # q,
                      NEW k \in Honest, k \in Held(p), k \in Held(q)
               PROVE  Held(p) = Held(q)
    BY DEF Agreement
  <2>1. Held(p) # NoRoster /\ Held(q) # NoRoster
    BY DEF NoRoster
  <2>2. /\ disk[p].commits[p] \in {NoRoster, Held(p)}
        /\ disk[q].commits[q] \in {NoRoster, Held(q)}
        /\ k # p => disk[k].commits[k] = Held(p)
        /\ k # q => disk[k].commits[k] = Held(q)
    BY <2>1, HeldFacts
  <2> QED
    BY <2>1, <2>2
<1> QED
  BY <1>1, Inductive, PTL

-----------------------------------------------------------------------------
(* Drawing seats and handing the roster to the bridge: a second invariant, *)
(* DrawInv, over the first.                                                *)

\* A membership is the full join set, whatever became of the table; and a full
\* join set lost its membership only to a proof of contradiction.
Whole(f) ==
  /\ f.canonical # NoRoster => f.canonical = f.joins /\ Cardinality(f.joins) = Seats
  /\ f.canonical = NoRoster /\ Cardinality(f.joins) = Seats => f.conflict # {}

LEMMA RecomputeWhole ==
  ASSUME NEW f \in FormationType, f.state \in {"joining", "formed"} \/ Whole(f)
  PROVE  LET g == recompute(f)
         IN  /\ Whole(g)
             /\ g.joins = f.joins /\ g.asserts = f.asserts
             /\ g.state = "committed" => ~AllBound(g)
<1>1. CASE f.state \in {"joining", "formed"}
  <2>1. recompute(f) = Membership(f)
    BY <1>1 DEF recompute
  <2>2. Cardinality(f.joins) \in Nat
    BY PeersAssumption, FS_Subset, FS_CardinalityType DEF FormationType
  <2>3. CASE Cardinality(f.joins) > Seats
    BY <2>1, <2>2, <2>3, SeatsAssumption DEF Membership, abort, Whole, FormationType
  <2>4. CASE Cardinality(f.joins) = Seats
    <3>1. f.joins # {}
      BY <2>4, FullIsNotEmpty
    <3> QED
      BY <2>1, <2>4, <3>1, SeatsAssumption DEF Membership, Whole, FormationType, NoRoster
  <2>5. CASE ~(Cardinality(f.joins) > Seats) /\ Cardinality(f.joins) # Seats
    BY <2>1, <2>5 DEF Membership, Whole, FormationType
  <2> QED
    BY <2>3, <2>4, <2>5
<1>2. CASE f.state \notin {"joining", "formed"} /\ f.state = "committed" /\ AllBound(f)
  BY <1>2 DEF recompute, Whole, FormationType
<1>3. CASE f.state \notin {"joining", "formed"} /\ ~(f.state = "committed" /\ AllBound(f))
  BY <1>3 DEF recompute
<1> QED
  BY <1>1, <1>2, <1>3

LEMMA AddJoinsWhole ==
  ASSUME NEW f \in FormationType, Whole(f), NEW js \in SUBSET Peers
  PROVE  LET g == AddJoins(f, js)
         IN  /\ Whole(g) /\ g \in FormationType
             /\ f.joins \subseteq g.joins /\ g.asserts = f.asserts
<1> DEFINE h == [f EXCEPT !.joins = @ \cup js]
<1>1. CASE f.state \in {"aborted", "settled", "committed"} \/ f.closed \/ js \subseteq f.joins
  BY <1>1 DEF AddJoins
<1>2. CASE ~(f.state \in {"aborted", "settled", "committed"} \/ f.closed \/ js \subseteq f.joins)
  <2>1. AddJoins(f, js) = recompute(h)
    BY <1>2 DEF AddJoins
  <2>2. h \in FormationType /\ h.joins = f.joins \cup js /\ h.state \in {"joining", "formed"}
        /\ h.asserts = f.asserts
    BY <1>2 DEF FormationType, States
  <2>3. recompute(h) \in FormationType
    BY <2>2 DEF recompute, Membership, abort, FormationType, States, NoRoster
  <2> HIDE DEF h
  <2> QED
    BY <2>1, <2>2, <2>3, RecomputeWhole
<1> QED
  BY <1>1, <1>2

\* A frame never takes a join away, and changes only the claim of who sent it.
LEMMA FoldWhole ==
  ASSUME NEW f \in FormationType, Whole(f), NEW m \in Message
  PROVE  LET g == Fold(f, m)
         IN  /\ Whole(g)
             /\ f.joins \subseteq g.joins
             /\ \A k \in Peers : \/ g.asserts[k] = f.asserts[k]
                                 \/ k = m.from /\ m.kind = "roster" /\ g.asserts[k] = m.roster
<1>1. m.from \in Peers /\ m.roster \in SUBSET Peers /\ m.kind \in {"join", "roster", "commit"}
  BY DEF Message
<1>2. CASE m.kind = "join"
  <2>1. Fold(f, m) = AddJoins(f, m.roster)
    BY <1>2 DEF Fold
  <2> QED
    BY <1>1, <2>1, AddJoinsWhole
<1>3. CASE m.kind = "roster"
  <2> DEFINE h == [f EXCEPT !.asserts[m.from] = m.roster]
             k == AddJoins(h, m.roster)
  <2>1. Fold(f, m) = AddAssertion(f, m.from, m.roster, m.roster)
    BY <1>3 DEF Fold
  <2>2. CASE f.state \in {"aborted", "settled"}
    BY <2>1, <2>2 DEF AddAssertion
  <2>3. CASE f.state \notin {"aborted", "settled"}
    <3>1. Fold(f, m) = recompute(k)
      BY <2>1, <2>3 DEF AddAssertion
    <3>2. /\ h \in FormationType /\ h.joins = f.joins
          /\ \A q \in Peers : h.asserts[q] = IF q = m.from THEN m.roster ELSE f.asserts[q]
      BY <1>1 DEF FormationType
    <3>3. Whole(h)
      BY DEF Whole, FormationType
    <3> HIDE DEF h
    <3>4. Whole(k) /\ k \in FormationType /\ h.joins \subseteq k.joins /\ k.asserts = h.asserts
      BY <1>1, <3>2, <3>3, AddJoinsWhole
    <3> HIDE DEF k
    <3>5. Whole(recompute(k)) /\ recompute(k).joins = k.joins /\ recompute(k).asserts = k.asserts
      BY <3>4, RecomputeWhole
    <3> QED
      BY <1>3, <3>1, <3>2, <3>4, <3>5
  <2> QED
    BY <2>2, <2>3
<1>4. CASE m.kind = "commit"
  <2> DEFINE h == [f EXCEPT !.commits[m.from] = m.roster]
             c == [f EXCEPT !.conflict = {m.from}]
  <2>1. Fold(f, m) = AddCommit(f, m.from, m.roster)
    BY <1>4 DEF Fold
  <2>2. CASE f.state = "aborted" \/ f.commits[m.from] = m.roster
    BY <2>1, <2>2 DEF AddCommit
  <2>3. CASE ~(f.state = "aborted" \/ f.commits[m.from] = m.roster) /\ f.commits[m.from] = NoRoster
    <3>1. Fold(f, m) = recompute(h)
      BY <2>1, <2>3 DEF AddCommit
    <3>2. h \in FormationType /\ h.joins = f.joins /\ h.asserts = f.asserts /\ Whole(h)
      BY <1>1 DEF FormationType, Whole
    <3> HIDE DEF h
    <3> QED
      BY <3>1, <3>2, RecomputeWhole
  <2>4. CASE ~(f.state = "aborted" \/ f.commits[m.from] = m.roster) /\ f.commits[m.from] # NoRoster
    <3>1. Fold(f, m) = IF f.state = "settled" THEN c ELSE abort(c)
      BY <2>1, <2>4 DEF AddCommit
    <3> QED
      BY <3>1 DEF abort, Whole, FormationType
  <2> QED
    BY <2>2, <2>3, <2>4
<1> QED
  BY <1>1, <1>2, <1>3, <1>4

\* The same of binding, claiming, closing the window, drawing seats and giving up.
LEMMA BindWhole ==
  ASSUME NEW p \in Peers, NEW f \in FormationType, Whole(f)
  PROVE  LET g == Bind(f, p) IN Whole(g) /\ g.joins = f.joins /\ g.asserts = f.asserts
<1> DEFINE h == [f EXCEPT !.commits[p] = f.canonical, !.state = "committed"]
<1>1. CASE f.state = "formed"
  <2>1. Bind(f, p) = recompute(h)
    BY <1>1 DEF Bind
  <2>2. h \in FormationType /\ h.joins = f.joins /\ h.asserts = f.asserts /\ Whole(h)
    BY DEF FormationType, Whole, States
  <2> HIDE DEF h
  <2> QED
    BY <2>1, <2>2, RecomputeWhole
<1>2. CASE f.state # "formed"
  BY <1>2 DEF Bind
<1> QED
  BY <1>1, <1>2

LEMMA OthersWhole ==
  ASSUME NEW p \in Peers, NEW f \in FormationType, Whole(f), Good(p, f)
  PROVE  /\ LET g == Assertion(f, p)
            IN  /\ Whole(g) /\ g.joins = f.joins /\ g.beacon = f.beacon
                /\ \A k \in Peers \ {p} : g.asserts[k] = f.asserts[k]
         /\ LET g == CloseWindow(f)
            IN  Whole(g) /\ g.joins = f.joins /\ g.asserts = f.asserts /\ g.beacon = f.beacon
         /\ LET g == Seat(f) IN Whole(g) /\ g.joins = f.joins /\ g.asserts = f.asserts
         /\ LET g == Abandon(f)
            IN  Whole(g) /\ g.joins = f.joins /\ g.asserts = f.asserts /\ g.beacon = f.beacon
<1>1. LET g == Assertion(f, p)
      IN  /\ Whole(g) /\ g.joins = f.joins /\ g.beacon = f.beacon
          /\ \A k \in Peers \ {p} : g.asserts[k] = f.asserts[k]
  BY DEF Assertion, Whole, FormationType
<1>2. LET g == CloseWindow(f)
      IN  Whole(g) /\ g.joins = f.joins /\ g.asserts = f.asserts /\ g.beacon = f.beacon
  <2>1. CASE f.closed \/ f.state \in {"aborted", "settled"}
    BY <2>1 DEF CloseWindow
  <2>2. CASE ~(f.closed \/ f.state \in {"aborted", "settled"}) /\ f.state = "joining"
    <3>1. Cardinality(f.joins) # Seats
      <4>1. Cardinality(f.joins) \in Nat
        BY PeersAssumption, FS_Subset, FS_CardinalityType DEF FormationType
      <4> QED
        BY <2>2, <4>1, SeatsAssumption DEF Good
    <3> QED
      BY <2>2, <3>1 DEF CloseWindow, abort, Whole, FormationType
  <2>3. CASE ~(f.closed \/ f.state \in {"aborted", "settled"}) /\ f.state # "joining"
    BY <2>3 DEF CloseWindow, Whole, FormationType
  <2> QED
    BY <2>1, <2>2, <2>3
<1>3. LET g == Seat(f) IN Whole(g) /\ g.joins = f.joins /\ g.asserts = f.asserts
  BY DEF Seat, SetBeacon, Whole, FormationType
<1>4. LET g == Abandon(f)
      IN  Whole(g) /\ g.joins = f.joins /\ g.asserts = f.asserts /\ g.beacon = f.beacon
  BY DEF Abandon, Whole, FormationType
<1> QED
  BY <1>1, <1>2, <1>3, <1>4

\* resume() brings back the joins and the beacon of the record and nobody's claim.
LEMMA RebuildWhole ==
  ASSUME NEW p \in Peers, NEW r \in Record, DiskOK(p, r)
  PROVE  LET g == Rebuild(p, r)
         IN  /\ Whole(g)
             /\ g.joins = r.joins /\ g.beacon = r.beacon
             /\ g.asserts = Blank.asserts
             /\ g.state = "committed" => ~AllBound(g)
<1> DEFINE n == NewFormation(p)
           joined == AddJoins(n, r.joins)
           bound  == IF r.bound THEN Bind(joined, p) ELSE joined
           all    == AddCommits(bound, r.commits)
           g      == Rebuild(p, r)
<1>1. /\ Blank \in FormationType /\ Blank.canonical = NoRoster /\ Blank.joins = {}
      /\ Blank.beacon = FALSE /\ Blank.state = "joining" /\ Blank.conflict = {}
  BY BlankGood DEF Blank
<1>2. Whole(Blank)
  <2>1. Cardinality({}) # Seats
    BY FS_EmptySet, SeatsAssumption
  <2> QED
    BY <1>1, <2>1 DEF Whole
<1>3. CASE r.joins = {}
  <2>1. g = Blank /\ r.beacon = FALSE
    BY <1>3 DEF Rebuild, DiskOK, Record
  <2> QED
    BY <1>1, <1>2, <1>3, <2>1
<1>4. CASE r.joins # {}
  <2>1. /\ n \in FormationType /\ Good(p, n) /\ n.joins = {p} /\ n.beacon = FALSE
        /\ n.state \in {"joining", "formed"} /\ n.closed = FALSE
    BY NewFormationFacts
  <2>2. Whole(n) /\ n.asserts = Blank.asserts
    BY <1>1, <1>2, AddJoinsWhole DEF NewFormation
  <2>3. r.joins \in SUBSET Peers /\ p \in r.joins /\ r.commits \in [Peers -> SUBSET Peers]
    BY <1>4 DEF Record, DiskOK
  <2> HIDE DEF n
  <2>4. /\ joined \in FormationType /\ Good(p, joined) /\ Whole(joined)
        /\ joined.asserts = Blank.asserts /\ joined.beacon = FALSE
        /\ joined.state \in {"joining", "formed", "aborted"}
    BY <2>1, <2>2, <2>3, AddJoinsFacts, AddJoinsWhole
  <2>5. joined.joins = r.joins
    <3>1. CASE r.joins \subseteq n.joins
      BY <2>1, <2>3, <3>1 DEF AddJoins
    <3>2. CASE ~(r.joins \subseteq n.joins)
      <4> DEFINE h == [n EXCEPT !.joins = @ \cup r.joins]
      <4>1. joined = recompute(h)
        BY <2>1, <3>2 DEF AddJoins
      <4>2. h \in FormationType /\ h.joins = r.joins /\ h.state \in {"joining", "formed"}
        BY <2>1, <2>3 DEF FormationType
      <4> HIDE DEF h
      <4> QED
        BY <4>1, <4>2, RecomputeWhole
    <3> QED
      BY <3>1, <3>2
  <2>6. \A x \in {joined} : x.state = "formed" => Bind(x, p) \in FormationType /\ Bind(x, p).beacon = FALSE
    BY <2>4, BindFacts
  <2> HIDE DEF joined
  <2>7. /\ bound \in FormationType /\ Whole(bound) /\ bound.joins = r.joins
        /\ bound.asserts = Blank.asserts /\ bound.beacon = FALSE
        /\ bound.state = "committed" => ~AllBound(bound)
    <3>1. CASE r.bound /\ joined.state = "formed"
      <4> DEFINE h == [joined EXCEPT !.commits[p] = joined.canonical, !.state = "committed"]
      <4>1. bound = Bind(joined, p) /\ bound = recompute(h)
        BY <3>1 DEF Bind
      <4>2. h \in FormationType /\ Whole(h)
        BY <2>4 DEF FormationType, Whole, States
      <4>3. Whole(bound) /\ bound.joins = r.joins /\ bound.asserts = Blank.asserts
        BY <2>4, <2>5, <4>1, BindWhole
      <4>4. bound.state = "committed" => ~AllBound(bound)
        <5> HIDE DEF h
        <5> QED
          BY <4>1, <4>2, RecomputeWhole
      <4> QED
        BY <2>6, <3>1, <4>1, <4>3, <4>4
    <3>2. CASE ~(r.bound /\ joined.state = "formed")
      <4>1. bound = joined
        BY <3>2 DEF Bind
      <4> QED
        BY <2>4, <2>5, <4>1
    <3> QED
      BY <3>1, <3>2
  <2> HIDE DEF bound
  <2>8. /\ Whole(all) /\ all.joins = r.joins /\ all.asserts = Blank.asserts /\ all.beacon = FALSE
        /\ all \in FormationType /\ (all.state = "committed" => ~AllBound(all))
    <3>1. CASE bound.state = "aborted"
      BY <2>7, <3>1 DEF AddCommits
    <3>2. CASE bound.state # "aborted"
      <4> DEFINE h == [bound EXCEPT !.commits =
                        [k \in Peers |-> IF @[k] = NoRoster THEN r.commits[k] ELSE @[k]]]
      <4>1. all = recompute(h)
        BY <3>2 DEF AddCommits
      <4>2. /\ h \in FormationType /\ Whole(h) /\ h.joins = r.joins
            /\ h.asserts = Blank.asserts /\ h.beacon = FALSE
        BY <2>3, <2>7 DEF FormationType, Whole
      <4> HIDE DEF h
      <4>3. recompute(h) \in FormationType /\ recompute(h).beacon = h.beacon
        BY <4>2 DEF recompute, Membership, abort, FormationType, States, NoRoster
      <4> QED
        BY <4>1, <4>2, <4>3, RecomputeWhole
    <3> QED
      BY <3>1, <3>2
  <2>9. g = IF r.beacon THEN SetBeacon(all) ELSE all
    BY <1>4 DEF Rebuild, all, bound, joined, n
  <2>10. r.beacon \in BOOLEAN
    BY DEF Record
  <2>11. /\ Whole(g) /\ g.joins = r.joins /\ g.beacon = r.beacon /\ g.asserts = Blank.asserts
         /\ g.state = "committed" => ~AllBound(g)
    <3> HIDE DEF all, g
    <3> QED
      BY <2>8, <2>9, <2>10 DEF SetBeacon, Whole, AllBound, FormationType
  <2> QED
    BY <2>11
<1> QED
  BY <1>3, <1>4

\* Seats were drawn among js: all members of a full membership in it had claimed
\* that membership aloud.
Drawn(p, js, heard) ==
  \E R \in SUBSET js :
    Cardinality(R) = Seats /\ \A k \in (R \cap Honest) \ {p} : RosterMsg(k, R) \in heard

\* One peer: its record holds no join its formation does not, and both know how
\* the seats came to be drawn.
DrawOK(p) ==
  /\ Whole(form[p])
  /\ disk[p].joins \subseteq form[p].joins
  /\ form[p].beacon => Drawn(p, form[p].joins, net)
  /\ disk[p].beacon => Drawn(p, disk[p].joins, net)

\* What an honest key claimed is a full membership of joins it has on disk, and
\* is the only one it ever claims.
ClaimOK ==
  /\ \A m \in net : m.kind = "roster" /\ m.from \in Honest =>
       m.roster \subseteq disk[m.from].joins /\ Cardinality(m.roster) = Seats
  /\ \A m, n \in net :
       m.kind = "roster" /\ n.kind = "roster" /\ m.from = n.from /\ m.from \in Honest
         => m.roster = n.roster

\* A claim that is held came over the chat.
HeardClaimOK ==
  \A p, k \in Honest : k # p /\ form[p].asserts[k] # NoRoster =>
    RosterMsg(k, form[p].asserts[k]) \in net

\* A bridge bound a roster all honest members of which were heard to commit to it.
BridgeOK ==
  \A p \in Honest : \A k \in (bridge[p] \cap Honest) \ {p} : CommitMsg(k, bridge[p]) \in net

DrawInv ==
  /\ \A p \in Honest : DrawOK(p)
  /\ ClaimOK
  /\ HeardClaimOK
  /\ BridgeOK

LEMMA DrawnGrows ==
  ASSUME NEW p \in Honest, NEW js, NEW ks, js \subseteq ks, net \subseteq net', Drawn(p, js, net)
  PROVE  Drawn(p, ks, net')
BY DEF Drawn

\* Ready(): the members all claim the membership, so its draw is backed.
LEMMA SeatDraws ==
  ASSUME NEW p \in Honest, NEW f \in FormationType, Whole(f),
         \A k \in Honest \ {p} : f.asserts[k] # NoRoster => RosterMsg(k, f.asserts[k]) \in net,
         f.beacon => Drawn(p, f.joins, net)
  PROVE  Seat(f).beacon => Drawn(p, f.joins, net)
<1> SUFFICES ASSUME Ready(f) PROVE Drawn(p, f.joins, net)
  BY DEF Seat
<1>1. f.canonical # NoRoster /\ \A k \in f.canonical : f.asserts[k] = f.canonical
  BY DEF Ready, Agreed
<1>2. f.canonical = f.joins /\ Cardinality(f.joins) = Seats
  BY <1>1 DEF Whole
<1>3. \A k \in (f.joins \cap Honest) \ {p} : RosterMsg(k, f.joins) \in net
  BY <1>1, <1>2
<1> QED
  BY <1>2, <1>3 DEF Drawn

\* keep() as far as joins and beacons go.
LEMMA KeepDraws ==
  ASSUME TypeOK, NEW p \in Honest, NEW f, NEW r, Keep(p, f, r)
  PROVE  /\ \A q \in Honest \ {p} : disk'[q] = disk[q]
         /\ disk'[p] = disk[p] \/ (disk'[p].joins = f.joins /\ disk'[p].beacon = f.beacon)
<1>1. Snapshot(f, r).joins = f.joins /\ Snapshot(f, r).beacon = f.beacon
  BY DEF Snapshot
<1>2. disk' = disk \/ disk' = [disk EXCEPT ![p] = Snapshot(f, r)]
  BY DEF Keep, Written
<1> QED
  BY <1>1, <1>2 DEF TypeOK, Honest

\* A step of p that claims nothing, and takes no join from p.
LEMMA DrawStep ==
  ASSUME IInv, DrawInv, NEW p \in Honest, NEW g \in FormationType,
         form' = [form EXCEPT ![p] = g],
         Whole(g), form[p].joins \subseteq g.joins, g.beacon => Drawn(p, g.joins, net),
         \A k \in Honest \ {p} :
           g.asserts[k] = form[p].asserts[k] \/ RosterMsg(k, g.asserts[k]) \in net,
         \A q \in Honest \ {p} : disk'[q] = disk[q],
         disk'[p] = disk[p] \/ (disk'[p].joins = g.joins /\ disk'[p].beacon = g.beacon),
         net \subseteq net',
         \A m \in net' \ net : ~(m.kind = "roster" /\ m.from \in Honest),
         BridgeOK'
  PROVE  DrawInv'
<1>1. TypeOK /\ DrawOK(p) /\ p \in Peers
  BY DEF IInv, DrawInv, Honest
<1>2. form'[p] = g /\ \A q \in Honest \ {p} : form'[q] = form[q]
  BY <1>1 DEF TypeOK, Honest
<1>3. DrawOK(p)'
  <2>1. disk'[p].joins \subseteq g.joins /\ disk[p].joins \subseteq disk'[p].joins
    BY <1>1 DEF DrawOK
  <2>2. g.beacon => Drawn(p, g.joins, net')
    BY DrawnGrows
  <2>3. disk'[p].beacon => Drawn(p, disk'[p].joins, net')
    <3>1. CASE disk'[p] = disk[p]
      BY <1>1, <3>1, DrawnGrows DEF DrawOK
    <3>2. CASE disk'[p].joins = g.joins /\ disk'[p].beacon = g.beacon
      BY <3>2, DrawnGrows
    <3> QED
      BY <3>1, <3>2
  <2> QED
    BY <1>2, <2>1, <2>2, <2>3 DEF DrawOK, Whole, Drawn
<1>4. ASSUME NEW q \in Honest \ {p} PROVE DrawOK(q)'
  <2>1. DrawOK(q) /\ form'[q] = form[q] /\ disk'[q] = disk[q]
    BY <1>2 DEF DrawInv
  <2>2. /\ form[q].beacon => Drawn(q, form[q].joins, net')
        /\ disk[q].beacon => Drawn(q, disk[q].joins, net')
    BY <2>1, DrawnGrows DEF DrawOK
  <2> QED
    BY <2>1, <2>2 DEF DrawOK, Whole, Drawn
<1>5. ClaimOK'
  <2>1. disk[p].joins \subseteq disk'[p].joins
    BY <1>1 DEF DrawOK
  <2>2. \A q \in Honest : disk[q].joins \subseteq disk'[q].joins
    BY <2>1
  <2>3. ClaimOK
    BY DEF DrawInv
  <2> QED
    BY <2>2, <2>3 DEF ClaimOK
<1>6. HeardClaimOK'
  <2> SUFFICES ASSUME NEW q \in Honest, NEW k \in Honest, k # q, form'[q].asserts[k] # NoRoster
               PROVE  RosterMsg(k, form'[q].asserts[k]) \in net'
    BY DEF HeardClaimOK, RosterMsg
  <2>1. form[q].asserts[k] # NoRoster => RosterMsg(k, form[q].asserts[k]) \in net
    BY DEF DrawInv, HeardClaimOK
  <2> QED
    BY <1>2, <2>1
<1> QED
  BY <1>3, <1>4, <1>5, <1>6 DEF DrawInv

\* What a step of p may use of the invariant.
LEMMA DrawFacts ==
  ASSUME IInv, DrawInv, NEW p \in Honest
  PROVE  /\ DrawOK(p) /\ ClaimOK /\ BridgeOK
         /\ Whole(form[p]) /\ disk[p].joins \subseteq form[p].joins
         /\ form[p].beacon => Drawn(p, form[p].joins, net)
         /\ \A k \in Honest \ {p} :
              form[p].asserts[k] # NoRoster => RosterMsg(k, form[p].asserts[k]) \in net
BY DEF DrawInv, DrawOK, HeardClaimOK

\* The worker's steps, binding, speaking, drawing seats: the ones that leave the
\* bridge's roster alone and no claim behind.
LEMMA WorkerDraws ==
  ASSUME IInv, DrawInv, NEW p \in Honest,
         AskBond(p) \/ BondLands(p) \/ FormAndJoin(p) \/ BindStep(p) \/ SeatStep(p)
  PROVE  DrawInv'
<1>1. /\ TypeOK /\ StepOK(p) /\ p \in Peers /\ form[p] \in FormationType /\ Good(p, form[p])
      /\ form = [form EXCEPT ![p] = form[p]]
  BY Facts
<1>2. /\ Whole(form[p]) /\ BridgeOK
      /\ form[p].beacon => Drawn(p, form[p].joins, net)
      /\ \A k \in Honest \ {p} :
           form[p].asserts[k] # NoRoster => RosterMsg(k, form[p].asserts[k]) \in net
  BY DrawFacts
<1>3. net' = net /\ bridge' = bridge
  BY DEF AskBond, BondLands, FormAndJoin, BindStep, SeatStep
<1>4. BridgeOK'
  BY <1>2, <1>3 DEF BridgeOK, CommitMsg
<1>5. ASSUME form' = form, disk' = disk \/ \E r : Keep(p, form[p], r) PROVE DrawInv'
  <2>1. /\ \A q \in Honest \ {p} : disk'[q] = disk[q]
        /\ disk'[p] = disk[p] \/ (disk'[p].joins = form[p].joins /\ disk'[p].beacon = form[p].beacon)
    BY <1>1, <1>5, KeepDraws
  <2>2. form' = [form EXCEPT ![p] = form[p]]
    BY <1>1, <1>5
  <2> QED
    BY <1>1, <1>2, <1>3, <1>4, <2>1, <2>2, DrawStep
<1>6. CASE AskBond(p) \/ BondLands(p)
  BY <1>5, <1>6 DEF AskBond, BondLands
<1>7. CASE FormAndJoin(p)
  <2> DEFINE g == NewFormation(p)
  <2>1. form' = [form EXCEPT ![p] = g] /\ form'[p] = g /\ Keep(p, g, FALSE)
    BY <1>1, <1>7 DEF FormAndJoin, TypeOK
  <2>2. form[p] = Blank
    BY <1>1, <1>7 DEF FormAndJoin, StepOK
  <2>3. g \in FormationType /\ g.beacon = FALSE
    BY <1>1, NewFormationFacts
  <2>4. Whole(g) /\ form[p].joins \subseteq g.joins /\ g.asserts = form[p].asserts
    BY <1>1, <1>2, <2>2, AddJoinsWhole DEF NewFormation
  <2> HIDE DEF g
  <2>5. /\ \A q \in Honest \ {p} : disk'[q] = disk[q]
        /\ disk'[p] = disk[p] \/ (disk'[p].joins = g.joins /\ disk'[p].beacon = g.beacon)
    BY <1>1, <2>1, KeepDraws
  <2> QED
    BY <1>3, <1>4, <2>1, <2>3, <2>4, <2>5, DrawStep
<1>8. CASE BindStep(p)
  <2>1. CASE ~MayBind(form[p])
    BY <1>5, <1>8, <2>1 DEF BindStep
  <2>2. CASE MayBind(form[p])
    <3> DEFINE g == Bind(form[p], p)
    <3>1. form' = [form EXCEPT ![p] = g] /\ form'[p] = g /\ Keep(p, g, recovery[p])
      BY <1>1, <1>8, <2>2 DEF BindStep, TypeOK
    <3>2. g \in FormationType /\ g.beacon = form[p].beacon
      BY <1>1, <2>2, BindFacts DEF MayBind
    <3>3. Whole(g) /\ g.joins = form[p].joins /\ g.asserts = form[p].asserts
      BY <1>1, <1>2, BindWhole
    <3> HIDE DEF g
    <3>4. /\ \A q \in Honest \ {p} : disk'[q] = disk[q]
          /\ disk'[p] = disk[p] \/ (disk'[p].joins = g.joins /\ disk'[p].beacon = g.beacon)
      BY <1>1, <3>1, KeepDraws
    <3> QED
      BY <1>2, <1>3, <1>4, <3>1, <3>2, <3>3, <3>4, DrawStep
  <2> QED
    BY <2>1, <2>2
<1>9. CASE SeatStep(p)
  <2> DEFINE g == Seat(form[p])
  <2>1. /\ form' = [form EXCEPT ![p] = g] /\ form'[p] = g
        /\ Keep(p, g, recovery[p]) \/ disk' = disk
    BY <1>1, <1>9 DEF SeatStep, TypeOK
  <2>2. g \in FormationType
    BY <1>1 DEF Seat, SetBeacon, FormationType
  <2>3. Whole(g) /\ g.joins = form[p].joins /\ g.asserts = form[p].asserts
    BY <1>1, <1>2, OthersWhole
  <2>4. g.beacon => Drawn(p, form[p].joins, net)
    BY <1>1, <1>2, SeatDraws
  <2> HIDE DEF g
  <2>5. /\ \A q \in Honest \ {p} : disk'[q] = disk[q]
        /\ disk'[p] = disk[p] \/ (disk'[p].joins = g.joins /\ disk'[p].beacon = g.beacon)
    BY <1>1, <2>1, KeepDraws
  <2> QED
    BY <1>3, <1>4, <2>1, <2>2, <2>3, <2>4, <2>5, DrawStep
<1> QED
  BY <1>6, <1>7, <1>8, <1>9

LEMMA ReceiveDraws ==
  ASSUME IInv, DrawInv, NEW p \in Honest, NEW m \in net, Receive(p, m) PROVE DrawInv'
<1> DEFINE g == Fold(form[p], m)
<1>1. /\ TypeOK /\ p \in Peers /\ form[p] \in FormationType /\ Good(p, form[p])
  BY Facts
<1>2. /\ Whole(form[p]) /\ BridgeOK
      /\ form[p].beacon => Drawn(p, form[p].joins, net)
  BY DrawFacts
<1>3. /\ m \in Message /\ m.from # p /\ form[p].joins # {} /\ net' = net /\ bridge' = bridge
      /\ form' = [form EXCEPT ![p] = g]
  BY <1>1 DEF Receive, Delivered, AtTable, Joined, TypeOK
<1>4. BridgeOK'
  BY <1>2, <1>3 DEF BridgeOK, CommitMsg
<1>5. g \in FormationType /\ g.beacon = form[p].beacon
  <2>1. g \in FormationType
    BY <1>1, <1>3, FoldFacts
  <2>2. m.from \in Peers /\ m.roster \in SUBSET Peers /\ m.kind \in {"join", "roster", "commit"}
    BY <1>3 DEF Message
  <2>3. AddJoins(form[p], m.roster).beacon = form[p].beacon
    BY <1>1, <1>3, <2>2, AddJoinsFacts
  <2>4. AddAssertion(form[p], m.from, m.roster, m.roster).beacon = form[p].beacon
    BY <1>1, <1>3, <2>2, AddAssertionFacts
  <2>5. AddCommit(form[p], m.from, m.roster).beacon = form[p].beacon
    BY <1>1, <1>3, <2>2, AddCommitFacts
  <2> QED
    BY <2>1, <2>3, <2>4, <2>5 DEF Fold
<1>6. /\ Whole(g) /\ form[p].joins \subseteq g.joins
      /\ \A k \in Peers : \/ g.asserts[k] = form[p].asserts[k]
                          \/ k = m.from /\ m.kind = "roster" /\ g.asserts[k] = m.roster
  BY <1>1, <1>2, <1>3, FoldWhole
<1>7. form'[p] = g
  BY <1>1, <1>3 DEF TypeOK
<1>8. Keep(p, g, FALSE)
  <2>1. Keep(p, form'[p], FALSE)
    BY DEF Receive
  <2> QED
    BY <1>7, <2>1
<1> HIDE DEF g
<1>9. /\ \A q \in Honest \ {p} : disk'[q] = disk[q]
      /\ disk'[p] = disk[p] \/ (disk'[p].joins = g.joins /\ disk'[p].beacon = g.beacon)
  BY <1>1, <1>8, KeepDraws
<1>10. \A k \in Honest \ {p} :
         g.asserts[k] = form[p].asserts[k] \/ RosterMsg(k, g.asserts[k]) \in net
  <2> SUFFICES ASSUME NEW k \in Honest \ {p}, g.asserts[k] # form[p].asserts[k]
               PROVE  RosterMsg(k, g.asserts[k]) \in net
    OBVIOUS
  <2>1. k = m.from /\ m.kind = "roster" /\ g.asserts[k] = m.roster
    BY <1>6 DEF Honest
  <2>2. RosterMsg(k, m.roster) = m
    BY <1>3, <2>1 DEF RosterMsg, Message
  <2> QED
    BY <2>1, <2>2
<1>11. g.beacon => Drawn(p, g.joins, net)
  <2>1. ASSUME Drawn(p, form[p].joins, net) PROVE Drawn(p, g.joins, net)
    BY <1>6, <2>1 DEF Drawn
  <2> QED
    BY <1>2, <1>5, <2>1
<1> QED
  BY <1>3, <1>4, <1>5, <1>6, <1>9, <1>10, <1>11, DrawStep

\* Tick: the bridge takes a roster every other honest member of which was heard to
\* commit to it.
LEMMA TickDraws ==
  ASSUME IInv, DrawInv, NEW p \in Honest, NEW h, Tick(p, h) PROVE DrawInv'
<1> DEFINE f == form[p]
           shut == IF h > Until THEN CloseWindow(f) ELSE f
           seated == Seat(shut)
           given == Seated(seated) /\ bridge[p] = NoRoster /\ BridgeTakes(p, seated)
           lapsed == Lapses(p, seated, h)
           last == IF lapsed THEN Abandon(seated) ELSE seated
<1>1. /\ TypeOK /\ p \in Peers /\ f \in FormationType /\ Good(p, f)
      /\ \A k \in Honest \ {p} : f.commits[k] # NoRoster => CommitMsg(k, f.commits[k]) \in net
  BY Facts
<1>2. /\ Whole(f) /\ BridgeOK
      /\ f.beacon => Drawn(p, f.joins, net)
      /\ \A k \in Honest \ {p} : f.asserts[k] # NoRoster => RosterMsg(k, f.asserts[k]) \in net
  BY DrawFacts
<1>3. /\ form' = [form EXCEPT ![p] = last] /\ net' = net /\ f.joins # {}
      /\ bridge' = [bridge EXCEPT ![p] = IF given THEN seated.joins ELSE @]
      /\ disk' = disk \/ Keep(p, last, lapsed)
  BY DEF Tick, AtTable, Joined
<1>4. /\ shut \in FormationType /\ Good(p, shut) /\ Whole(shut)
      /\ shut.joins = f.joins /\ shut.asserts = f.asserts /\ shut.beacon = f.beacon
      /\ shut.commits = f.commits
  BY <1>1, <1>2, <1>3, CloseWindowFacts, OthersWhole
<1> HIDE DEF shut
<1>5. /\ seated \in FormationType /\ Good(p, seated) /\ Whole(seated)
      /\ seated.joins = f.joins /\ seated.asserts = f.asserts /\ seated.commits = f.commits
  BY <1>1, <1>3, <1>4, SeatFacts, OthersWhole
<1>6. seated.beacon => Drawn(p, f.joins, net)
  BY <1>2, <1>4, SeatDraws
<1>7. BridgeOK'
  <2> SUFFICES ASSUME NEW q \in Honest, NEW k \in (bridge'[q] \cap Honest) \ {q}
               PROVE  CommitMsg(k, bridge'[q]) \in net
    BY <1>3 DEF BridgeOK, CommitMsg
  <2>1. CASE bridge'[q] = bridge[q]
    BY <1>2, <2>1 DEF BridgeOK
  <2>2. CASE bridge'[q] # bridge[q]
    <3>1. q = p /\ given /\ bridge'[q] = seated.joins
      BY <1>1, <1>3, <2>2 DEF TypeOK, Honest
    <3>2. k \in f.joins /\ f.commits[k] = f.joins
      BY <1>5, <3>1 DEF BridgeTakes
    <3> QED
      BY <1>1, <1>5, <3>1, <3>2 DEF NoRoster
  <2> QED
    BY <2>1, <2>2
<1> HIDE DEF seated, lapsed, given
<1>8. last \in FormationType /\ Whole(last) /\ last.joins = f.joins /\ last.asserts = f.asserts
      /\ last.beacon = seated.beacon
  <2>1. LET g == Abandon(seated)
        IN  Whole(g) /\ g.joins = seated.joins /\ g.asserts = seated.asserts /\ g.beacon = seated.beacon
    BY <1>1, <1>5, OthersWhole
  <2>2. Abandon(seated) \in FormationType
    BY <1>1, <1>3, <1>5, AbandonFacts
  <2> QED
    BY <1>5, <2>1, <2>2
<1> HIDE DEF last
<1>9. /\ \A q \in Honest \ {p} : disk'[q] = disk[q]
      /\ disk'[p] = disk[p] \/ (disk'[p].joins = last.joins /\ disk'[p].beacon = last.beacon)
  BY <1>1, <1>3, KeepDraws
<1> QED
  BY <1>3, <1>6, <1>7, <1>8, <1>9, DrawStep

\* publishRoster(): a claim goes out only while the record holds the whole
\* membership, and a second one is the first again, for joins are never lost.
LEMMA AnnounceDraws ==
  ASSUME IInv, DrawInv, NEW p \in Honest, Announce(p) PROVE DrawInv'
<1> DEFINE f == form[p]
           g == IF f.state = "formed" THEN Assertion(f, p) ELSE f
           R == f.canonical
<1>1. /\ TypeOK /\ RecordOK(p) /\ p \in Peers /\ f \in FormationType /\ Good(p, f)
      /\ form = [form EXCEPT ![p] = f]
  BY Facts
<1>2. /\ Whole(f) /\ BridgeOK /\ ClaimOK /\ disk[p].joins \subseteq f.joins
      /\ f.beacon => Drawn(p, f.joins, net)
  BY DrawFacts
<1>3. form' = [form EXCEPT ![p] = g] /\ disk' = disk /\ bridge' = bridge
  BY <1>1 DEF Announce
<1>4. g \in FormationType /\ Whole(g) /\ g.joins = f.joins /\ g.beacon = f.beacon
      /\ \A k \in Honest \ {p} : g.asserts[k] = f.asserts[k]
  <2>1. Assertion(f, p) \in FormationType
    BY <1>1 DEF Assertion, FormationType
  <2> QED
    BY <1>1, <1>2, <2>1, OthersWhole DEF Honest
<1>5. R \in SUBSET Peers /\ RosterMsg(p, R) \in Message
      /\ RosterMsg(p, R).kind = "roster" /\ RosterMsg(p, R).from = p /\ RosterMsg(p, R).roster = R
  BY <1>1 DEF FormationType, RosterMsg, Message
<1>6. net \subseteq net' /\ \A n \in net' \ net : n = RosterMsg(p, R) /\ R = disk[p].joins /\ R = f.joins
                                                  /\ Cardinality(R) = Seats
  <2>1. CASE f.state = "formed"
    <3>1. Send(p, RosterMsg(p, R))
      BY <2>1 DEF Announce
    <3>2. net \subseteq net' /\ \A n \in net' \ net : n = RosterMsg(p, R) /\ ~recovery[p] /\ ~fault[p]
      BY <1>1, <1>5, <3>1, SendFacts
    <3>3. ~recovery[p] /\ ~fault[p] => disk[p].joins = f.joins
      BY <1>1 DEF RecordOK, Snapshot
    <3>4. R = f.joins /\ Cardinality(R) = Seats
      BY <1>1, <2>1 DEF Good
    <3> QED
      BY <3>2, <3>3, <3>4
  <2>2. CASE f.state # "formed"
    BY <2>2 DEF Announce
  <2> QED
    BY <2>1, <2>2
<1> HIDE DEF g, R
<1>7. form'[p] = g /\ \A q \in Honest \ {p} : form'[q] = form[q]
  BY <1>1, <1>3 DEF TypeOK, Honest
<1>8. ASSUME NEW q \in Honest PROVE DrawOK(q)'
  <2>1. DrawOK(q)
    BY DEF DrawInv
  <2>2. /\ form[q].beacon => Drawn(q, form[q].joins, net')
        /\ disk[q].beacon => Drawn(q, disk[q].joins, net')
    BY <1>6, <2>1, DrawnGrows DEF DrawOK
  <2>3. Whole(form'[q]) /\ form'[q].joins = form[q].joins /\ form'[q].beacon = form[q].beacon
    BY <1>4, <1>7, <2>1 DEF DrawOK
  <2> QED
    BY <1>3, <2>1, <2>2, <2>3 DEF DrawOK, Whole, Drawn
<1>9. ClaimOK'
  <2>1. ASSUME NEW m \in net, m.kind = "roster", m.from = p PROVE net' \ net = {} \/ m.roster = R
    <3> SUFFICES ASSUME NEW n \in net' \ net PROVE m.roster = R
      OBVIOUS
    <3>1. R = f.joins /\ Cardinality(R) = Seats
      BY <1>6
    <3>2. m.roster \subseteq R /\ Cardinality(m.roster) = Seats
      BY <1>2, <2>1, <3>1 DEF ClaimOK
    <3>3. IsFiniteSet(R)
      BY <1>5, PeersAssumption, FS_Subset
    <3> QED
      BY <3>1, <3>2, <3>3, FS_Subset
  <2>2. \A m \in net' : m.kind = "roster" /\ m.from \in Honest =>
          m.roster \subseteq disk[m.from].joins /\ Cardinality(m.roster) = Seats
    BY <1>2, <1>5, <1>6 DEF ClaimOK
  <2>3. \A m, n \in net' :
          m.kind = "roster" /\ n.kind = "roster" /\ m.from = n.from /\ m.from \in Honest
            => m.roster = n.roster
    BY <1>2, <1>5, <1>6, <2>1 DEF ClaimOK
  <2> QED
    BY <1>3, <2>2, <2>3 DEF ClaimOK
<1>10. HeardClaimOK'
  <2> SUFFICES ASSUME NEW q \in Honest, NEW k \in Honest, k # q, form'[q].asserts[k] # NoRoster
               PROVE  RosterMsg(k, form'[q].asserts[k]) \in net'
    BY DEF HeardClaimOK, RosterMsg
  <2>1. form'[q].asserts[k] = form[q].asserts[k]
    BY <1>4, <1>7
  <2>2. RosterMsg(k, form[q].asserts[k]) \in net
    BY <2>1 DEF DrawInv, HeardClaimOK
  <2> QED
    BY <1>6, <2>1, <2>2
<1>11. BridgeOK'
  BY <1>2, <1>3, <1>6 DEF BridgeOK, CommitMsg
<1> QED
  BY <1>8, <1>9, <1>10, <1>11 DEF DrawInv

LEMMA RestartDraws ==
  ASSUME IInv, DrawInv, NEW p \in Honest, Restart(p) PROVE DrawInv'
<1> DEFINE g == Rebuild(p, disk[p])
<1>1. TypeOK /\ RecordOK(p) /\ p \in Peers /\ disk[p] \in Record
  BY Facts
<1>2. Whole(g) /\ g.joins = disk[p].joins /\ g.beacon = disk[p].beacon /\ g.asserts = Blank.asserts
  BY <1>1, RebuildWhole DEF RecordOK
<1>3. form' = [form EXCEPT ![p] = g] /\ disk' = disk /\ net' = net /\ bridge' = bridge
  BY DEF Restart
<1> HIDE DEF g
<1>4. form'[p] = g /\ \A q \in Honest \ {p} : form'[q] = form[q]
  BY <1>1, <1>3 DEF TypeOK, Honest
<1>5. ASSUME NEW q \in Honest PROVE DrawOK(q)'
  <2>1. DrawOK(q)
    BY DEF DrawInv
  <2>2. CASE q = p
    BY <1>2, <1>3, <1>4, <2>1, <2>2 DEF DrawOK, Whole, Drawn
  <2>3. CASE q # p
    BY <1>3, <1>4, <2>1, <2>3 DEF DrawOK, Whole, Drawn
  <2> QED
    BY <2>2, <2>3
<1>6. ClaimOK'
  BY <1>3 DEF DrawInv, ClaimOK
<1>7. HeardClaimOK'
  <2>1. \A k \in Honest : Blank.asserts[k] = NoRoster
    BY DEF Blank, Honest
  <2> QED
    BY <1>2, <1>3, <1>4, <2>1 DEF DrawInv, HeardClaimOK, RosterMsg
<1>8. BridgeOK'
  BY <1>3 DEF DrawInv, BridgeOK, CommitMsg
<1> QED
  BY <1>5, <1>6, <1>7, <1>8 DEF DrawInv

\* The other steps touch no formation, record or bridge, and claim nothing that
\* binds an honest key.
LEMMA OtherDraws ==
  ASSUME IInv, DrawInv, UNCHANGED <<form, disk, bridge>>, net \subseteq net',
         \A m \in net' \ net : ~(m.kind = "roster" /\ m.from \in Honest)
  PROVE  DrawInv'
<1>1. ASSUME NEW q \in Honest PROVE DrawOK(q)'
  <2>1. DrawOK(q)
    BY DEF DrawInv
  <2>2. /\ form[q].beacon => Drawn(q, form[q].joins, net')
        /\ disk[q].beacon => Drawn(q, disk[q].joins, net')
    BY <2>1, DrawnGrows DEF DrawOK
  <2> QED
    BY <2>1, <2>2 DEF DrawOK, Whole, Drawn
<1>2. ClaimOK'
  BY DEF DrawInv, ClaimOK
<1>3. HeardClaimOK'
  BY DEF DrawInv, HeardClaimOK, RosterMsg
<1>4. BridgeOK'
  BY DEF DrawInv, BridgeOK, CommitMsg
<1> QED
  BY <1>1, <1>2, <1>3, <1>4 DEF DrawInv

LEMMA InitDraws == Init => DrawInv
<1> SUFFICES ASSUME Init PROVE DrawInv
  OBVIOUS
<1>1. /\ Blank.canonical = NoRoster /\ Blank.joins = {} /\ Blank.beacon = FALSE
      /\ \A k \in Honest : Blank.asserts[k] = NoRoster
      /\ Snapshot(Blank, FALSE).joins = {} /\ Snapshot(Blank, FALSE).beacon = FALSE
  BY DEF Blank, Honest, Snapshot
<1>2. Cardinality({}) # Seats
  BY FS_EmptySet, SeatsAssumption
<1>3. \A p \in Honest : DrawOK(p)
  BY <1>1, <1>2 DEF Init, DrawOK, Whole, Honest
<1>4. ClaimOK /\ HeardClaimOK /\ BridgeOK
  BY <1>1 DEF Init, ClaimOK, HeardClaimOK, BridgeOK, NoRoster, Honest
<1> QED
  BY <1>3, <1>4 DEF DrawInv

LEMMA NextDraws == IInv /\ DrawInv /\ [Next]_vars => DrawInv'
<1> SUFFICES ASSUME IInv, DrawInv, [Next]_vars PROVE DrawInv'
  OBVIOUS
<1>0. TypeOK
  BY DEF IInv
<1>1. CASE UNCHANGED vars \/ MineBlock
  BY <1>1, OtherDraws DEF vars, MineBlock
<1>2. ASSUME NEW p \in Honest, StakesRecorded(p) PROVE DrawInv'
  BY <1>2, OtherDraws DEF StakesRecorded
<1>3. ASSUME NEW p \in Honest, NEW m \in net, DropEarly(p, m) \/ RefuseBond(p, m) PROVE DrawInv'
  BY <1>3, OtherDraws DEF DropEarly, RefuseBond
<1>4. ASSUME NEW p \in Honest, PublishJoin(p) PROVE DrawInv'
  <2>1. JoinMsg(p) \in Message /\ JoinMsg(p).kind = "join"
    BY DEF JoinMsg, Message, Honest
  <2>2. net \subseteq net' /\ \A n \in net' \ net : n = JoinMsg(p)
    BY <1>0, <1>4, <2>1, SendFacts DEF PublishJoin
  <2> QED
    BY <1>4, <2>1, <2>2, OtherDraws DEF PublishJoin
<1>5. ASSUME NEW p \in Honest, SayCommit(p) PROVE DrawInv'
  <2> DEFINE R == form[p].commits[p]
  <2>1. R \in SUBSET Peers
    BY <1>0 DEF TypeOK, FormationType, Honest
  <2>2. CommitMsg(p, R) \in Message /\ CommitMsg(p, R).kind = "commit"
    BY <2>1 DEF CommitMsg, Message, Honest
  <2>3. net \subseteq net' /\ \A n \in net' \ net : n = CommitMsg(p, R)
    BY <1>0, <1>5, <2>2, SendFacts DEF SayCommit
  <2> QED
    BY <1>5, <2>2, <2>3, OtherDraws DEF SayCommit
<1>6. ASSUME NEW p \in Equivocators, Equivocate(p) PROVE DrawInv'
  <2>1. PICK m \in Claims(p) : net' = net \cup {m}
    BY <1>6 DEF Equivocate
  <2>2. m.from = p /\ p \notin Honest
    BY <2>1 DEF Claims, JoinMsg, RosterMsg, CommitMsg, Honest
  <2> QED
    BY <1>6, <2>1, <2>2, OtherDraws DEF Equivocate
<1>7. ASSUME NEW p \in Honest,
             AskBond(p) \/ BondLands(p) \/ FormAndJoin(p) \/ BindStep(p) \/ SeatStep(p)
      PROVE  DrawInv'
  BY <1>7, WorkerDraws
<1>8. ASSUME NEW p \in Honest, Announce(p) \/ Restart(p) PROVE DrawInv'
  BY <1>8, AnnounceDraws, RestartDraws
<1>9. ASSUME NEW p \in Honest, NEW m \in net, Receive(p, m) PROVE DrawInv'
  BY <1>9, ReceiveDraws
<1>10. ASSUME NEW p \in Honest, NEW h \in {height - 1, height}, Tick(p, h) PROVE DrawInv'
  BY <1>10, TickDraws
<1> QED
  BY <1>1, <1>2, <1>3, <1>4, <1>5, <1>6, <1>7, <1>8, <1>9, <1>10 DEF Next

\* Draws, claims and the bridge's roster stay backed by what the chat has heard.
THEOREM DrawsBacked == Spec => []DrawInv
BY InitDraws, NextDraws, Inductive, PTL DEF Spec

\* The roster a bridge admits to its money is one every honest seat is durably
\* bound to.
THEOREM BridgeRosterBound == Spec => []FinancialRosterIsBound
<1>1. IInv /\ DrawInv => FinancialRosterIsBound
  <2> SUFFICES ASSUME IInv, DrawInv, NEW p \in Honest, NEW k \in (bridge[p] \cap Honest) \ {p}
               PROVE  disk[k].commits[k] = bridge[p]
    BY DEF FinancialRosterIsBound
  <2>1. CommitMsg(k, bridge[p]) \in net
    BY DEF DrawInv, BridgeOK
  <2>2. /\ CommitMsg(k, bridge[p]).kind = "commit" /\ CommitMsg(k, bridge[p]).from = k
        /\ CommitMsg(k, bridge[p]).roster = bridge[p]
    BY DEF CommitMsg
  <2> QED
    BY <2>1, <2>2 DEF IInv, SaidOK
<1> QED
  BY <1>1, Inductive, DrawsBacked, PTL

\* Seats drawn on claims alone are still drawn for one table: an honest member of
\* both claimed both memberships, and it claims only one.
THEOREM SeatedOnce == Spec => []OneSeating
<1>1. IInv /\ DrawInv => OneSeating
  <2> SUFFICES ASSUME IInv, DrawInv, NEW p \in Honest, NEW q \in Honest, p # q,
                      Seated(form[p]), Seated(form[q]), NEW k \in Honest,
                      k \in form[p].canonical, k \in form[q].canonical
               PROVE  form[p].canonical = form[q].canonical
    BY DEF OneSeating
  <2>1. ASSUME NEW r \in {p, q}
        PROVE  /\ form[r].canonical = form[r].joins /\ IsFiniteSet(form[r].joins)
               /\ Cardinality(form[r].joins) = Seats
               /\ \A j \in (form[r].canonical \cap Honest) \ {r} :
                    RosterMsg(j, form[r].canonical) \in net
    <3>1. r \in Honest /\ Seated(form[r])
      OBVIOUS
    <3>2. form[r].canonical = form[r].joins /\ Cardinality(form[r].joins) = Seats
      BY <3>1, DrawFacts DEF Seated, Whole
    <3>3. IsFiniteSet(form[r].joins)
      BY <3>1, PeersAssumption, FS_Subset DEF IInv, TypeOK, FormationType, Honest
    <3>4. PICK R \in SUBSET form[r].joins :
            Cardinality(R) = Seats /\ \A j \in (R \cap Honest) \ {r} : RosterMsg(j, R) \in net
      BY <3>1, DrawFacts DEF Seated, Drawn
    <3>5. R = form[r].joins
      BY <3>2, <3>3, <3>4, FS_Subset
    <3> QED
      BY <3>2, <3>3, <3>4, <3>5
  <2> DEFINE P == form[p].canonical
             Q == form[q].canonical
  <2>2. ASSUME NEW R, NEW j \in Honest, RosterMsg(j, R) \in net
        PROVE  /\ R \subseteq disk[j].joins
               /\ \A S : RosterMsg(j, S) \in net => S = R
    BY <2>2 DEF DrawInv, ClaimOK, RosterMsg
  <2>3. CASE k # p /\ k # q
    BY <2>1, <2>2, <2>3
  <2>4. CASE k = p
    <3>1. Q \subseteq P
      <4>1. Q \subseteq disk[p].joins
        BY <2>1, <2>2, <2>4
      <4> QED
        BY <2>1, <4>1, DrawFacts
    <3> QED
      BY <2>1, <3>1, FS_Subset
  <2>5. CASE k = q
    <3>1. P \subseteq Q
      <4>1. P \subseteq disk[q].joins
        BY <2>1, <2>2, <2>5
      <4> QED
        BY <2>1, <4>1, DrawFacts
    <3> QED
      BY <2>1, <3>1, FS_Subset
  <2> QED
    BY <2>3, <2>4, <2>5
<1> QED
  BY <1>1, Inductive, DrawsBacked, PTL

\* What can take the membership of a seated table away: an answer too many, taken
\* up while the table is not bound, or proof that a key which keeps no promise bound
\* itself twice.
SeatedForgetsOnlyIf ==
  \A p \in Honest : form[p].beacon /\ form[p].canonical = NoRoster =>
    Cardinality(form[p].joins) > Seats \/ form[p].conflict \cap Equivocators # {}

LEMMA Forgetting == IInv /\ DrawInv => SeatedForgetsOnlyIf
<1> SUFFICES ASSUME IInv, DrawInv, NEW p \in Honest, form[p].beacon, form[p].canonical = NoRoster,
                    ~(Cardinality(form[p].joins) > Seats)
             PROVE  form[p].conflict \cap Equivocators # {}
  BY DEF SeatedForgetsOnlyIf
<1>1. PICK R \in SUBSET form[p].joins : Cardinality(R) = Seats
  BY DrawFacts DEF Drawn
<1>2. form[p].joins \subseteq Peers /\ form[p].conflict \subseteq Peers
      /\ form[p].conflict \cap Honest = {} /\ Whole(form[p])
  BY Facts, DrawFacts DEF FormationType, FormOK
<1>3. IsFiniteSet(form[p].joins) /\ Cardinality(form[p].joins) \in Nat
  BY <1>2, PeersAssumption, FS_Subset, FS_CardinalityType
<1>4. Seats <= Cardinality(form[p].joins)
  BY <1>1, <1>3, FS_Subset
<1>5. form[p].conflict # {}
  BY <1>2, <1>3, <1>4, SeatsAssumption DEF Whole
<1> QED
  BY <1>2, <1>5 DEF Honest

\* The membership of a seated table is lost to nothing else, whatever fails.
THEOREM SeatedForgets == Spec => []SeatedForgetsOnlyIf
BY Forgetting, Inductive, DrawsBacked, PTL

\* So when no more keys hold the invitation than there are seats, and each keeps its
\* promise, a seated table is never forgotten.
THEOREM SeatedKeeps ==
  ASSUME Equivocators = {}, Cardinality(Peers) <= Seats
  PROVE  Spec => []SeatedKeepsMembership
<1>1. IInv /\ SeatedForgetsOnlyIf => SeatedKeepsMembership
  <2> SUFFICES ASSUME IInv, SeatedForgetsOnlyIf, NEW p \in Honest,
                      form[p].beacon, form[p].canonical = NoRoster
               PROVE  FALSE
    BY DEF SeatedKeepsMembership
  <2>1. Cardinality(form[p].joins) > Seats
    BY DEF SeatedForgetsOnlyIf
  <2>2. form[p].joins \subseteq Peers
    BY Facts DEF FormationType
  <2>3. /\ Cardinality(form[p].joins) <= Cardinality(Peers)
        /\ Cardinality(Peers) \in Nat /\ Cardinality(form[p].joins) \in Nat
    BY <2>2, PeersAssumption, FS_Subset, FS_CardinalityType
  <2> QED
    BY <2>1, <2>3, SeatsAssumption
<1> QED
  BY <1>1, Inductive, SeatedForgets, PTL

-----------------------------------------------------------------------------
(* A settled table stays settled                                           *)

\* resume(): a healthy settled table is settled again at once.
LEMMA SettledRestarts ==
  ASSUME IInv, NEW p \in Honest, Restart(p), form[p].state = "settled", ~fault[p]
  PROVE  form'[p].state = "settled"
<1> DEFINE g == Rebuild(p, disk[p])
<1>1. /\ TypeOK /\ FormOK(p) /\ RecordOK(p) /\ p \in Peers /\ disk[p] \in Record
      /\ form[p] \in FormationType /\ Good(p, form[p])
  BY Facts
<1>2. disk[p] = Snapshot(form[p], FALSE)
  BY <1>1 DEF FormOK, RecordOK, TypeOK
<1>3. ~disk[p].over
  <2>1. Snapshot(form[p], FALSE).over = (FALSE \/ form[p].state = "aborted")
    BY DEF Snapshot
  <2> QED
    BY <1>2, <2>1
<1>4. /\ Snapshot(g, FALSE) = Snapshot(form[p], FALSE) /\ g \in FormationType
      /\ g.state = "committed" => ~AllBound(g)
  BY <1>1, <1>2, <1>3, RebuildFacts, RebuildWhole DEF RecordOK
<1> HIDE DEF g
<1>5. /\ g.state \in {"committed", "settled"}
      /\ g.canonical = form[p].canonical /\ g.commits = form[p].commits
  BY <1>4 DEF Snapshot
<1>6. AllBound(g)
  BY <1>1, <1>5 DEF Good, AllBound
<1>7. form' = [form EXCEPT ![p] = g]
  BY DEF Restart, g
<1> QED
  BY <1>1, <1>4, <1>5, <1>6, <1>7 DEF TypeOK

LEMMA SettledTicks ==
  ASSUME IInv, NEW p \in Honest, NEW h, Tick(p, h), form[p].state = "settled"
  PROVE  form'[p].state = "settled" \/ recovery'[p]
<1> DEFINE shut == IF h > Until THEN CloseWindow(form[p]) ELSE form[p]
           lapsed == Lapses(p, Seat(shut), h)
<1>1. TypeOK /\ p \in Peers /\ form[p] \in FormationType
  BY Facts
<1>2. shut = form[p]
  BY DEF CloseWindow
<1>3. Seat(shut).state = "settled"
  BY <1>1, <1>2 DEF Seat, SetBeacon, FormationType
<1>4. /\ form' = [form EXCEPT ![p] = IF lapsed THEN Abandon(Seat(shut)) ELSE Seat(shut)]
      /\ recovery' = [recovery EXCEPT ![p] = lapsed]
  BY DEF Tick
<1> HIDE DEF shut, lapsed
<1> QED
  BY <1>1, <1>3, <1>4 DEF TypeOK

\* Neither a late contradiction nor a restart unwinds a healthy settled table; only
\* the funding deadline gives it up, and keeps it for recovery.
THEOREM SettledStays == Spec => SettledStands
<1> DEFINE Stands == \A p \in Honest :
             form[p].state = "settled" /\ ~fault[p] => form'[p].state = "settled" \/ recovery'[p]
<1>1. IInv /\ [Next]_vars => Stands
  <2> SUFFICES ASSUME IInv, [Next]_vars, NEW p \in Honest, form[p].state = "settled", ~fault[p]
               PROVE  form'[p].state = "settled" \/ recovery'[p]
    OBVIOUS
  <2>1. /\ TypeOK /\ StepOK(p) /\ p \in Peers /\ form[p] \in FormationType /\ Good(p, form[p])
    BY Facts
  <2>2. form[p].joins # {}
    BY <2>1, FullIsNotEmpty DEF Good
  <2>3. CASE form'[p] = form[p]
    BY <2>3
  <2>4. ASSUME NEW q \in Honest, q # p,
               \/ AskBond(q) \/ BondLands(q) \/ FormAndJoin(q) \/ PublishJoin(q)
               \/ Announce(q) \/ BindStep(q) \/ SayCommit(q) \/ SeatStep(q)
               \/ StakesRecorded(q) \/ Restart(q)
               \/ \E m \in net : Receive(q, m) \/ DropEarly(q, m) \/ RefuseBond(q, m)
               \/ \E h \in {height - 1, height} : Tick(q, h)
        PROVE  form'[p] = form[p]
    <3>1. form' = form \/ \E g : form' = [form EXCEPT ![q] = g]
      BY <2>4 DEF AskBond, BondLands, FormAndJoin, PublishJoin, Announce, BindStep, SayCommit,
                  SeatStep, StakesRecorded, Restart, Receive, DropEarly, RefuseBond, Tick
    <3> QED
      BY <2>1, <2>4, <3>1 DEF TypeOK
  <2>5. CASE \/ UNCHANGED vars \/ MineBlock \/ \E q \in Equivocators : Equivocate(q)
             \/ AskBond(p) \/ BondLands(p) \/ PublishJoin(p) \/ SayCommit(p) \/ StakesRecorded(p)
             \/ \E m \in net : DropEarly(p, m) \/ RefuseBond(p, m)
    BY <2>5 DEF vars, MineBlock, Equivocate, AskBond, BondLands, PublishJoin, SayCommit,
                StakesRecorded, DropEarly, RefuseBond
  <2>6. CASE FormAndJoin(p)
    <3>1. Blank.joins = {}
      BY DEF Blank
    <3> QED
      BY <2>1, <2>2, <2>6, <3>1 DEF FormAndJoin, StepOK
  <2>7. CASE Announce(p) \/ BindStep(p)
    BY <2>7 DEF Announce, BindStep, MayBind
  <2>8. CASE SeatStep(p)
    <3>1. Seat(form[p]).state = "settled"
      BY <2>1 DEF Seat, SetBeacon, FormationType
    <3> QED
      BY <2>1, <2>8, <3>1 DEF SeatStep, TypeOK
  <2>9. ASSUME NEW m \in net, Receive(p, m) PROVE form'[p].state = "settled"
    <3>1. m \in Message /\ m.from # p /\ form' = [form EXCEPT ![p] = Fold(@, m)]
      BY <2>1, <2>9 DEF Receive, Delivered, TypeOK
    <3>2. Fold(form[p], m).state = "settled"
      <4>1. m.from \in Peers /\ m.roster \in SUBSET Peers
        BY <3>1 DEF Message
      <4>2. AddCommit(form[p], m.from, m.roster).state = "settled"
        BY <2>1, <2>2, <3>1, <4>1, AddCommitFacts
      <4> QED
        BY <4>2 DEF Fold, AddJoins, AddAssertion
    <3> QED
      BY <2>1, <3>1, <3>2 DEF TypeOK
  <2>10. ASSUME NEW h, Tick(p, h) PROVE form'[p].state = "settled" \/ recovery'[p]
    BY <2>10, SettledTicks
  <2>11. CASE Restart(p)
    BY <2>11, SettledRestarts
  <2> QED
    BY <2>3, <2>4, <2>5, <2>6, <2>7, <2>8, <2>9, <2>10, <2>11 DEF Next
<1> QED
  BY <1>1, Inductive, PTL DEF Spec, SettledStands

-----------------------------------------------------------------------------
(* Seating implements OneRoster: every step of a runtime, the relay, the   *)
(* chain or an equivocator is, seen from the words heard and the tables    *)
(* held, a word said once, a table held on words, a table let go, or       *)
(* nothing.                                                                *)

WordMap == [p \in Honest |-> Word(p)]
HeldMap == [p \in Honest |-> Held(p)]

\* What is heard of an honest key is its one commit on disk, or nothing.
LEMMA WordFacts ==
  ASSUME IInv, NEW p \in Honest
  PROVE  /\ Word(p) \in SUBSET Peers
         /\ Word(p) # NoRoster => Word(p) = disk[p].commits[p] /\ CommitMsg(p, Word(p)) \in net
         /\ \A R : CommitMsg(p, R) \in net => Word(p) = R
<1>1. net \subseteq Message
  BY DEF IInv, TypeOK
<1>2. ASSUME NEW m \in net, m.kind = "commit", m.from = p
      PROVE  m.roster = disk[p].commits[p] /\ m.roster # NoRoster
  BY <1>2 DEF IInv, SaidOK
<1>3. \A x : x \in Word(p) <=> \E m \in net : m.kind = "commit" /\ m.from = p /\ x \in m.roster
  BY DEF Word
<1>4. ASSUME NEW m \in net, m.kind = "commit", m.from = p PROVE Word(p) = m.roster
  <2>1. \A x : x \in Word(p) <=> x \in m.roster
    BY <1>2, <1>3, <1>4
  <2> QED
    BY <2>1
<1>5. Word(p) \in SUBSET Peers
  BY <1>1, <1>3 DEF Message
<1>6. ASSUME Word(p) # NoRoster
      PROVE  Word(p) = disk[p].commits[p] /\ CommitMsg(p, Word(p)) \in net
  <2>1. PICK x : x \in Word(p)
    BY <1>6 DEF NoRoster
  <2>2. PICK m \in net : m.kind = "commit" /\ m.from = p
    BY <1>3, <2>1
  <2>3. m.roster = disk[p].commits[p] /\ Word(p) = m.roster
    BY <1>2, <1>4, <2>2
  <2>4. m = CommitMsg(p, m.roster)
    BY <1>1, <2>2 DEF CommitMsg, Message
  <2> QED
    BY <2>3, <2>4
<1>7. ASSUME NEW R, CommitMsg(p, R) \in net PROVE Word(p) = R
  <2>1. CommitMsg(p, R).kind = "commit" /\ CommitMsg(p, R).from = p /\ CommitMsg(p, R).roster = R
    BY DEF CommitMsg
  <2> QED
    BY <1>4, <1>7, <2>1
<1> QED
  BY <1>5, <1>6, <1>7

\* The same facts as predicates of the state, to be read before and after a step.
WordOK ==
  \A p \in Honest :
    /\ Word(p) \in SUBSET Peers
    /\ Word(p) # NoRoster => Word(p) = disk[p].commits[p] /\ CommitMsg(p, Word(p)) \in net
    /\ \A R : CommitMsg(p, R) \in net => Word(p) = R

HeldOK ==
  \A p \in Honest : Held(p) # NoRoster =>
    /\ p \in Held(p) /\ Held(p) \in SUBSET Peers
    /\ form[p].commits[p] = Held(p) /\ disk[p].commits[p] \in {NoRoster, Held(p)}
    /\ \A k \in (Held(p) \cap Honest) \ {p} : CommitMsg(k, Held(p)) \in net

LEMMA WordsHold == IInv => WordOK
BY WordFacts DEF WordOK

LEMMA TablesHold == IInv => HeldOK
BY HeldFacts DEF HeldOK

\* Nothing new is heard of honest keys and the tables of all but p stand: p holds
\* what it held, lets go, or holds a table on words already given.
LEMMA HoldOrLetGo ==
  ASSUME WordOK', HeldOK', NEW p \in Honest,
         \A q \in Honest \ {p} : Held(q)' = Held(q),
         \A q \in Honest : Word(q)' = Word(q)
  PROVE  [Promise!Next]_(Promise!vars)
<1> DEFINE R == Held(p)'
<1>1. WordMap' = WordMap /\ HeldMap' = [HeldMap EXCEPT ![p] = R]
  BY DEF WordMap, HeldMap
<1>2. CASE R = NoRoster
  <2>1. Promise!LetGo(p)
    BY <1>1, <1>2 DEF Promise!LetGo, Promise!None, NoRoster, WordMap, HeldMap
  <2> QED
    BY <2>1 DEF Promise!Next
<1>3. CASE R # NoRoster
  <2>1. /\ p \in R /\ R \in SUBSET Peers /\ disk'[p].commits[p] \in {NoRoster, R}
        /\ \A k \in (R \cap Honest) \ {p} : CommitMsg(k, R) \in net'
    BY <1>3 DEF HeldOK, CommitMsg
  <2>2. /\ Word(p)' \in {NoRoster, disk'[p].commits[p]}
        /\ \A k \in Honest : CommitMsg(k, R) \in net' => Word(k)' = R
    BY DEF WordOK, CommitMsg
  <2>3. /\ Word(p) \in {NoRoster, R}
        /\ \A k \in (R \cap Honest) \ {p} : Word(k) = R
    BY <2>1, <2>2
  <2> HIDE DEF R
  <2>4. Promise!Hold(p, R)
    BY <1>1, <2>1, <2>3 DEF Promise!Hold, Promise!None, NoRoster, WordMap, HeldMap
  <2> QED
    BY <2>1, <2>4 DEF Promise!Next
<1> QED
  BY <1>2, <1>3

\* A word changes only when the key's own commit is heard.
LEMMA WordSame ==
  ASSUME NEW q, net \subseteq net',
         \A m \in net' \ net : ~(m.kind = "commit" /\ m.from = q)
  PROVE  Word(q)' = Word(q)
<1>1. { n \in net' : n.kind = "commit" /\ n.from = q } = { n \in net : n.kind = "commit" /\ n.from = q }
  OBVIOUS
<1> QED
  BY <1>1 DEF Word

\* A step of p that says no commit.
LEMMA QuietStep ==
  ASSUME IInv, WordOK', HeldOK', NEW p \in Honest,
         \A q \in Honest \ {p} : form'[q] = form[q],
         net \subseteq net',
         \A m \in net' \ net : m.kind = "commit" => m.from \notin Honest
  PROVE  [Promise!Next]_(Promise!vars)
<1>1. \A q \in Honest : Word(q)' = Word(q)
  BY WordSame
<1>2. \A q \in Honest \ {p} : Held(q)' = Held(q)
  BY DEF Held
<1> QED
  BY <1>1, <1>2, HoldOrLetGo

\* SayCommit: the first time it is p's word, and after that nothing new.
LEMMA SayStep ==
  ASSUME IInv, WordOK, HeldOK, WordOK', HeldOK', NEW p \in Honest, SayCommit(p)
  PROVE  [Promise!Next]_(Promise!vars)
<1> DEFINE R == form[p].commits[p]
<1>1. TypeOK /\ p \in Peers /\ R \in SUBSET Peers /\ CommitMsg(p, R) \in Message
  <2>1. TypeOK /\ p \in Peers /\ form[p] \in FormationType
    BY Facts
  <2>2. R \in SUBSET Peers
    BY <2>1 DEF FormationType
  <2> QED
    BY <2>1, <2>2 DEF CommitMsg, Message
<1>2. form' = form /\ disk' = disk /\ Send(p, CommitMsg(p, R))
  BY DEF SayCommit
<1>3. net \subseteq net' /\ \A n \in net' \ net : n = CommitMsg(p, R)
  BY <1>1, <1>2, SendFacts
<1>4. \A q \in Honest : Held(q)' = Held(q)
  BY <1>2 DEF Held
<1>5. \A q \in Honest \ {p} : Word(q)' = Word(q)
  <2>1. CommitMsg(p, R).from = p
    BY DEF CommitMsg
  <2> QED
    BY <1>3, <2>1, WordSame
<1>6. CASE CommitMsg(p, R) \notin net' \ net
  BY <1>2, <1>3, <1>6, QuietStep
<1>7. CASE CommitMsg(p, R) \in net' \ net
  <2>1. Word(p)' = R
    BY <1>7 DEF WordOK, CommitMsg
  <2>2. Word(p) = NoRoster
    <3> SUFFICES ASSUME Word(p) # NoRoster PROVE FALSE
      OBVIOUS
    <3>1. CommitMsg(p, Word(p)) \in net
      BY DEF WordOK
    <3>2. Word(p)' = Word(p)
      <4> DEFINE W == Word(p)
      <4>1. CommitMsg(p, W) \in net'
        BY <1>3, <3>1
      <4> HIDE DEF W
      <4>2. Word(p)' = W
        BY <4>1 DEF WordOK, CommitMsg
      <4> QED
        BY <4>2 DEF W
    <3> QED
      BY <1>7, <2>1, <3>1, <3>2
  <2>3. Held(p) \in {NoRoster, R}
    BY DEF HeldOK
  <2>4. HeldMap' = HeldMap /\ WordMap' = [WordMap EXCEPT ![p] = R]
    BY <1>4, <1>5, <2>1 DEF HeldMap, WordMap
  <2> HIDE DEF R
  <2>5. Promise!Say(p, R)
    BY <2>2, <2>3, <2>4 DEF Promise!Say, Promise!None, NoRoster, WordMap, HeldMap
  <2> QED
    BY <1>1, <2>5 DEF Promise!Next
<1> QED
  BY <1>6, <1>7

\* Every step of the system is a step of the promise or a stutter.
LEMMA StepKeepsPromise ==
  ASSUME IInv, WordOK, HeldOK, WordOK', HeldOK', [Next]_vars
  PROVE  [Promise!Next]_(Promise!vars)
<1>0. TypeOK
  BY DEF IInv
<1>1. ASSUME form' = form, net' = net PROVE [Promise!Next]_(Promise!vars)
  <2>1. WordMap' = WordMap /\ HeldMap' = HeldMap
    BY <1>1 DEF WordMap, HeldMap, Word, Held
  <2> QED
    BY <2>1 DEF Promise!vars, WordMap, HeldMap
<1>2. CASE UNCHANGED vars \/ MineBlock
  BY <1>1, <1>2 DEF vars, MineBlock
<1>3. ASSUME NEW p \in Honest,
             \/ AskBond(p) \/ BondLands(p) \/ BindStep(p) \/ FormAndJoin(p) \/ SeatStep(p)
             \/ StakesRecorded(p) \/ Restart(p)
             \/ \E m \in net : Receive(p, m) \/ DropEarly(p, m) \/ RefuseBond(p, m)
             \/ \E h \in {height - 1, height} : Tick(p, h)
      PROVE  [Promise!Next]_(Promise!vars)
  <2>1. net' = net
    BY <1>3 DEF AskBond, BondLands, BindStep, FormAndJoin, SeatStep, StakesRecorded, Restart,
                Receive, DropEarly, RefuseBond, Tick
  <2>2. \A q \in Honest \ {p} : form'[q] = form[q]
    <3>1. form' = form \/ \E g : form' = [form EXCEPT ![p] = g]
      BY <1>3 DEF AskBond, BondLands, BindStep, FormAndJoin, SeatStep, StakesRecorded, Restart,
                  Receive, DropEarly, RefuseBond, Tick
    <3> QED
      BY <1>0, <3>1 DEF TypeOK, Honest
  <2> QED
    BY <2>1, <2>2, QuietStep
<1>4. ASSUME NEW p \in Honest, PublishJoin(p) PROVE [Promise!Next]_(Promise!vars)
  <2>1. JoinMsg(p) \in Message /\ JoinMsg(p).kind = "join"
    BY DEF JoinMsg, Message, Honest
  <2>2. net \subseteq net' /\ \A n \in net' \ net : n = JoinMsg(p)
    BY <1>0, <1>4, <2>1, SendFacts DEF PublishJoin
  <2>3. form' = form
    BY <1>4 DEF PublishJoin
  <2> QED
    BY <2>1, <2>2, <2>3, QuietStep
<1>5. ASSUME NEW p \in Honest, Announce(p) PROVE [Promise!Next]_(Promise!vars)
  <2>1. RosterMsg(p, form[p].canonical) \in Message /\ RosterMsg(p, form[p].canonical).kind = "roster"
    BY <1>0 DEF TypeOK, RosterMsg, Message, FormationType, Honest
  <2>2. net \subseteq net' /\ \A n \in net' \ net : n = RosterMsg(p, form[p].canonical)
    <3>1. CASE form[p].state = "formed"
      BY <1>0, <1>5, <2>1, <3>1, SendFacts DEF Announce
    <3>2. CASE form[p].state # "formed"
      BY <1>5, <3>2 DEF Announce
    <3> QED
      BY <3>1, <3>2
  <2>3. \A q \in Honest \ {p} : form'[q] = form[q]
    BY <1>0, <1>5 DEF Announce, TypeOK, Honest
  <2> QED
    BY <2>1, <2>2, <2>3, QuietStep
<1>6. ASSUME NEW p \in Honest, SayCommit(p) PROVE [Promise!Next]_(Promise!vars)
  BY <1>6, SayStep
<1>7. ASSUME NEW p \in Equivocators, Equivocate(p) PROVE [Promise!Next]_(Promise!vars)
  <2>1. PICK m \in Claims(p) : net' = net \cup {m}
    BY <1>7 DEF Equivocate
  <2>2. m.from = p /\ p \notin Honest /\ form' = form
    BY <1>7, <2>1, EquivocatorsAssumption
       DEF Equivocate, Claims, JoinMsg, RosterMsg, CommitMsg, Honest
  <2>3. \A q \in Honest : Word(q)' = Word(q)
    BY <2>1, <2>2, WordSame
  <2>4. WordMap' = WordMap /\ HeldMap' = HeldMap
    BY <2>2, <2>3 DEF WordMap, HeldMap, Held
  <2> QED
    BY <2>4 DEF Promise!vars, WordMap, HeldMap
<1> QED
  BY <1>2, <1>3, <1>4, <1>5, <1>6, <1>7 DEF Next

\* Nothing is heard and nothing is held at first.
LEMMA InitKeepsPromise == Init => Promise!Init
<1> SUFFICES ASSUME Init PROVE Promise!Init
  OBVIOUS
<1>1. \A p \in Honest : Word(p) = {}
  BY DEF Init, Word
<1>2. \A p \in Honest : Held(p) = {}
  BY DEF Init, Held, Blank, NoRoster, Honest
<1> QED
  BY <1>1, <1>2 DEF Promise!Init, Promise!None

\* Forming a table over a lossy chat, through restarts, failed writes and keys that
\* sign anything, implements the promise of OneRoster.
THEOREM Implements == Spec => KeepsPromise
<1>1. IInv /\ IInv' /\ [Next]_vars => [Promise!Next]_(Promise!vars)
  <2> SUFFICES ASSUME IInv, IInv', [Next]_vars PROVE [Promise!Next]_(Promise!vars)
    OBVIOUS
  <2>1. WordOK /\ HeldOK
    BY WordsHold, TablesHold
  <2>2. WordOK'
    BY WordsHold, PTL
  <2>3. HeldOK'
    BY TablesHold, PTL
  <2> QED
    BY <2>1, <2>2, <2>3, StepKeepsPromise
<1> QED
  BY <1>1, Inductive, InitKeepsPromise, PTL DEF Spec, KeepsPromise, Promise!Spec

-----------------------------------------------------------------------------
(* What the promise is worth                                               *)

\* A held table that others share rests on the sharer's one word.
LEMMA BackedSeparates ==
  ASSUME Promise!TypeOK, Promise!Backed
  PROVE  Promise!OneTableEach
<1> SUFFICES ASSUME NEW p \in Honest, NEW q \in Honest,
                    NEW s \in Honest, s \in Held(p), s \in Held(q)
             PROVE  Held(p) = Held(q)
  BY DEF Promise!OneTableEach
<1> QED
  BY DEF Promise!Backed, Promise!None

\* Whoever keeps the promise of OneRoster holds no two tables with an honest member in
\* common: the words are single, so the tables are too.
THEOREM PromiseSafe == Promise!Spec => []Promise!OneTableEach
<1> DEFINE Inv == Promise!TypeOK /\ Promise!Backed
<1>1. Promise!Init => Inv
  BY DEF Promise!Init, Promise!TypeOK, Promise!Backed, Promise!None
<1>2. Inv /\ [Promise!Next]_(Promise!vars) => Inv'
  <2> SUFFICES ASSUME Inv, [Promise!Next]_(Promise!vars) PROVE Inv'
    OBVIOUS
  <2>1. CASE UNCHANGED Promise!vars
    BY <2>1 DEF Promise!vars, Promise!TypeOK, Promise!Backed
  <2>2. ASSUME NEW p \in Honest, Promise!LetGo(p) PROVE Inv'
    <3>1. Promise!TypeOK'
      BY <2>2 DEF Promise!LetGo, Promise!TypeOK, Promise!None
    <3>2. \A q \in Honest : Word(q)' = Word(q) /\ Held(q)' = IF q = p THEN Promise!None ELSE Held(q)
      BY <2>2 DEF Promise!LetGo
    <3>3. Promise!Backed'
      BY <3>2 DEF Promise!Backed, Promise!None
    <3> QED
      BY <3>1, <3>3
  <2>3. ASSUME NEW p \in Honest, NEW R \in SUBSET Peers, Promise!Say(p, R) PROVE Inv'
    <3>1. Promise!TypeOK'
      BY <2>3 DEF Promise!Say, Promise!TypeOK
    <3>2. /\ Word(p) = Promise!None /\ Held(p) \in {Promise!None, R}
          /\ \A q \in Honest : Held(q)' = Held(q) /\ Word(q)' = IF q = p THEN R ELSE Word(q)
      BY <2>3 DEF Promise!Say
    <3>3. Promise!Backed'
      BY <3>2 DEF Promise!Backed, Promise!None
    <3> QED
      BY <3>1, <3>3
  <2>4. ASSUME NEW p \in Honest, NEW R \in SUBSET Peers, Promise!Hold(p, R) PROVE Inv'
    <3>1. Promise!TypeOK'
      BY <2>4 DEF Promise!Hold, Promise!TypeOK
    <3>2. /\ p \in R /\ Word(p) \in {Promise!None, R}
          /\ \A k \in (R \cap Honest) \ {p} : Word(k) = R
          /\ \A q \in Honest : Word(q)' = Word(q) /\ Held(q)' = IF q = p THEN R ELSE Held(q)
      BY <2>4 DEF Promise!Hold
    <3>3. Promise!Backed'
      BY <3>2 DEF Promise!Backed, Promise!None
    <3> QED
      BY <3>1, <3>3
  <2> QED
    BY <2>1, <2>2, <2>3, <2>4 DEF Promise!Next
<1>3. Inv => Promise!OneTableEach
  BY BackedSeparates
<1> QED
  BY <1>1, <1>2, <1>3, PTL DEF Promise!Spec

\* Seating keeps it, so its settled tables do not overlap: Agreement once more, by way
\* of the abstract specification.
COROLLARY TablesSeparate == Spec => []Promise!OneTableEach
BY Implements, PromiseSafe, PTL DEF KeepsPromise

=============================================================================
