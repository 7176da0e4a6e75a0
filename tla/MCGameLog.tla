------------------------------- MODULE MCGameLog -------------------------------
(* The game log on small tables.                                           *)
EXTENDS GameLog

CONSTANTS a, b, c

\* A cheater opens and a straight seat answers.
CheaterThenA == <<c, a>>
=============================================================================
