------------------------------ MODULE OneRoster ------------------------------
(***************************************************************************)
(* What forming a table promises, without saying how: every honest key     *)
(* gives its word once, to one roster, and a peer holds a table only when  *)
(* every other honest member's word is on that very roster.  A peer may    *)
(* let go of its table (the table lapses, a process comes back without     *)
(* it); nobody takes back a word.                                          *)
(***************************************************************************)
CONSTANTS Peers,   \* the session keys
          Honest   \* the keys whose only user is one runtime

VARIABLES word,    \* the roster each honest key is heard to have bound
          held     \* the roster of the table each honest peer holds

vars == <<word, held>>

None == {}

TypeOK ==
  /\ word \in [Honest -> SUBSET Peers]
  /\ held \in [Honest -> SUBSET Peers]

Init ==
  /\ word = [p \in Honest |-> None]
  /\ held = [p \in Honest |-> None]

\* A peer that already holds a table gives its word to that one.
Say(p, R) ==
  /\ word[p] = None
  /\ held[p] \in {None, R}
  /\ word' = [word EXCEPT ![p] = R]
  /\ UNCHANGED held

\* The word of p itself may still be on its way out.
Hold(p, R) ==
  /\ p \in R
  /\ word[p] \in {None, R}
  /\ \A k \in (R \cap Honest) \ {p} : word[k] = R
  /\ held' = [held EXCEPT ![p] = R]
  /\ UNCHANGED word

LetGo(p) ==
  /\ held' = [held EXCEPT ![p] = None]
  /\ UNCHANGED word

Next ==
  \E p \in Honest :
    \/ LetGo(p)
    \/ \E R \in SUBSET Peers : Say(p, R) \/ Hold(p, R)

Spec == Init /\ [][Next]_vars

\* Two tables that are held and share an honest member are the same table:
\* "settled" (formation.go, recompute) is a claim about everyone's commit.
OneTableEach ==
  \A p, q \in Honest :
    held[p] \cap held[q] \cap Honest # {} => held[p] = held[q]

\* Why: a held table rests on the words of its honest members.
Backed ==
  \A p \in Honest : held[p] # None =>
    /\ p \in held[p]
    /\ word[p] \in {None, held[p]}
    /\ \A k \in (held[p] \cap Honest) \ {p} : word[k] = held[p]

=============================================================================
