------------------------------- MODULE Outbox -------------------------------
(***************************************************************************)
(* What a bridge sends to a group chat (SendGamingFrame, the financial     *)
(* messages): a claim is on disk before Bison Relay is asked, so a frame   *)
(* goes out at most once, whatever is retried or restarted.                *)
(*                                                                         *)
(* A frame is one game, group, message id and text.  The relay answers     *)
(* that it took it, that it refused it (ErrNotSent), or not at all.        *)
(***************************************************************************)
EXTENDS Integers

CONSTANTS Frames,
          Senders,        \* calls that send
          MaxSendFaults   \* bound on failures

ASSUME SendBoundsAssumption == MaxSendFaults \in Nat

VARIABLES
  claims,     \* gamingOutbox.claims
  claimFile,  \* the same, as the outbox file reads
  sender,     \* what each call is at
  posted,     \* how often Bison Relay took each frame
  sendFaults

outbox == <<claims, claimFile, sender, posted, sendFaults>>

States == {"none", "claimed", "sent", "released"}
Ready == [at |-> "ready"]
Sending == {Ready} \cup [at : {"send", "mark", "release", "reconcile"}, frame : Frames]

TypeOK ==
  /\ claims \in [Frames -> States] /\ claimFile \in [Frames -> States]
  /\ sender \in [Senders -> Sending]
  /\ posted \in [Frames -> Nat]
  /\ sendFaults \in Nat

Init ==
  /\ claims = [f \in Frames |-> "none"] /\ claimFile = claims
  /\ sender = [s \in Senders |-> Ready]
  /\ posted = [f \in Frames |-> 0]
  /\ sendFaults = 0

Fail == sendFaults < MaxSendFaults /\ sendFaults' = sendFaults + 1

\* appendGamingSendClaimLocked(): the file, then the map.  An append that failed
\* may have reached the file.
AppendClaim(f, state) ==
  \/ /\ claims' = [claims EXCEPT ![f] = state]
     /\ claimFile' = [claimFile EXCEPT ![f] = state]
     /\ UNCHANGED sendFaults
  \/ /\ Fail
     /\ claimFile' \in {claimFile, [claimFile EXCEPT ![f] = state]}
     /\ UNCHANGED claims

Go(s, at, f) == sender' = [sender EXCEPT ![s] = [at |-> at, frame |-> f]]
Return(s) == sender' = [sender EXCEPT ![s] = Ready]
At(s, at, f) == sender[s] = [at |-> at, frame |-> f]

\* Slip: an uncertain claim is claimed again.
ClaimAgain(s, f) ==
  /\ sender[s] = Ready
  /\ claims[f] # "sent"
  /\ AppendClaim(f, "claimed")
  /\ IF claims'[f] = "claimed" THEN Go(s, "send", f) ELSE Return(s)
  /\ UNCHANGED posted

\* claimGamingFrameSend(): a claim nobody knows the outcome of is reconciled.
Claim(s, f) ==
  /\ sender[s] = Ready
  /\ \/ /\ claims[f] \in {"none", "released"}
        /\ AppendClaim(f, "claimed")
        /\ IF claims'[f] = "claimed" THEN Go(s, "send", f) ELSE Return(s)
     \/ /\ claims[f] = "claimed"
        /\ Go(s, "reconcile", f)
        /\ UNCHANGED <<claims, claimFile, sendFaults>>
  /\ UNCHANGED posted

\* claimOrReconcileGamingFrame(): what BR's own log of the group holds was sent.
Reconcile(s, f) ==
  /\ At(s, "reconcile", f)
  /\ IF posted[f] > 0 THEN Go(s, "mark", f) ELSE Return(s)
  /\ UNCHANGED <<claims, claimFile, posted, sendFaults>>

\* Slip: an unanswered send is taken for a refused one.
SendAssuming(s, f) ==
  /\ At(s, "send", f)
  /\ \/ posted' = [posted EXCEPT ![f] = @ + 1] /\ Go(s, "mark", f) /\ UNCHANGED sendFaults
     \/ Go(s, "release", f) /\ UNCHANGED <<posted, sendFaults>>
     \/ /\ Fail /\ Go(s, "release", f)
        /\ posted' \in {posted, [posted EXCEPT ![f] = @ + 1]}
  /\ UNCHANGED <<claims, claimFile>>

\* sendClaimedGamingFrame(): taken, refused, or no answer.
Send(s, f) ==
  /\ At(s, "send", f)
  /\ \/ posted' = [posted EXCEPT ![f] = @ + 1] /\ Go(s, "mark", f) /\ UNCHANGED sendFaults
     \/ Go(s, "release", f) /\ UNCHANGED <<posted, sendFaults>>
     \/ /\ Fail /\ Return(s)
        /\ posted' \in {posted, [posted EXCEPT ![f] = @ + 1]}
  /\ UNCHANGED <<claims, claimFile>>

\* markGamingFrameSent().
Mark(s, f) ==
  /\ At(s, "mark", f)
  /\ IF claims[f] \in {"none", "sent"} THEN UNCHANGED <<claims, claimFile, sendFaults>>
     ELSE AppendClaim(f, "sent")
  /\ Return(s)
  /\ UNCHANGED posted

\* releaseGamingFrameClaim(): only an open claim.
Release(s, f) ==
  /\ At(s, "release", f)
  /\ IF claims[f] = "claimed" THEN AppendClaim(f, "released")
     ELSE UNCHANGED <<claims, claimFile, sendFaults>>
  /\ Return(s)
  /\ UNCHANGED posted

\* The process stops; the next one reads the file.
Crash ==
  /\ Fail
  /\ claims' = claimFile
  /\ sender' = [s \in Senders |-> Ready]
  /\ UNCHANGED <<claimFile, posted>>

Step(s, f) == Claim(s, f) \/ Reconcile(s, f) \/ Send(s, f) \/ Mark(s, f) \/ Release(s, f)

Next == Crash \/ \E s \in Senders, f \in Frames : Step(s, f)

Spec == Init /\ [][Next]_outbox

-----------------------------------------------------------------------------
\* A frame is never sent twice, whatever fails, is retried or is restarted.
SentOnce == \A f \in Frames : posted[f] <= 1

\* What the outbox says was sent Bison Relay took, and what it says may be sent
\* (again) it did not take: in memory and on disk.
ClaimsAreTrue ==
  \A f \in Frames :
    /\ claims[f] = "sent" \/ claimFile[f] = "sent" => posted[f] = 1
    /\ claims[f] \in {"none", "released"} \/ claimFile[f] \in {"none", "released"} => posted[f] = 0

\* What the file calls sent it never calls anything else: a reader refuses the
\* whole file when a state went backwards.
NeverBackwards == [][\A f \in Frames : claimFile[f] = "sent" => claimFile'[f] = "sent"]_outbox

=============================================================================
