------------------------------ MODULE Requests ------------------------------
(***************************************************************************)
(* What a game is told of its payment requests: the promise the bridge     *)
(* makes (Approvals implements it) and the one the runtime counts on       *)
(* (Funding is built on it).                                               *)
(*                                                                         *)
(* A deposit has one request at a time that stands; asking again is        *)
(* answered with it.  An answer is final, but for an approved payment that *)
(* can no longer confirm, which fails and frees its deposit.               *)
(***************************************************************************)

CONSTANTS Deposits,  \* what the money is for
          Ids,       \* request ids the bridge may issue
          None

VARIABLES of,        \* the deposit an id was issued for
          answer     \* what its game is told of it

requests == <<of, answer>>

\* What the game is told: spendProto() tells a broadcast as still pending.
Answers == {"none", "pending", "approved", "denied", "expired", "failed"}

Init ==
  /\ of = [i \in Ids |-> None]
  /\ answer = [i \in Ids |-> "none"]

Stands(i, d) == of[i] = d /\ answer[i] \notin {"none", "failed"}

\* A deposit no request stands for gets one.
Take(i, d) ==
  /\ of[i] = None
  /\ of' = [of EXCEPT ![i] = d]
  /\ \A j \in Ids : ~Stands(j, d)
  /\ answer' = [answer EXCEPT ![i] = "pending"]

Follows(a) ==
  CASE a = "pending"  -> Answers \ {"none"}
    [] a = "approved" -> {"approved", "failed"}
    [] OTHER          -> {a}

\* A person, the clock or the chain decides, for one request or several.
Decide ==
  /\ UNCHANGED of
  /\ answer' \in [Ids -> Answers]
  /\ \A i \in Ids : answer'[i] \in Follows(answer[i])

Next == Decide \/ \E i \in Ids, d \in Deposits : Take(i, d)

Spec == Init /\ [][Next]_requests

=============================================================================
