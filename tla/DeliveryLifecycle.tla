-------------------------- MODULE DeliveryLifecycle --------------------------
(***************************************************************************)
(* What the service promises of one (event, subscription) pair: the        *)
(* "Delivery State Machine" of docs/delivery-guarantees.md, with the       *)
(* number of the attempt that is next or was the last and the reply to the *)
(* POST that is being evaluated.  At most one POST is ever evaluated at a  *)
(* time, and none is made before "pending" or after "success".  A pair     *)
(* waiting for its retry time is "retryable" until the next attempt ends.  *)
(*                                                                         *)
(* While there is no trouble, "failed" is final too and every reply is     *)
(* evaluated.  Trouble, which may come with any step, lets a reply be      *)
(* forgotten and a failed delivery be tried again, and nothing else.       *)
(***************************************************************************)
EXTENDS Naturals

CONSTANTS Delivery,      \* the pairs
          MaxAttempts,   \* POSTs the service makes before it gives up
          NoReply        \* no POST is being evaluated

VARIABLES phase, attempt, reply,
          trouble        \* how many faults there have been

lifecycleVars == <<phase, attempt, reply, trouble>>

LifecycleInit ==
  /\ phase = [d \in Delivery |-> "none"]
  /\ attempt = [d \in Delivery |-> 0]
  /\ reply = [d \in Delivery |-> NoReply]
  /\ trouble = 0

Begin(d) ==
  /\ phase[d] = "none"
  /\ phase' = [phase EXCEPT ![d] = "pending"]
  /\ attempt' = [attempt EXCEPT ![d] = 1]
  /\ UNCHANGED reply

(* The event is POSTed; "lost" is a reply the service does not see. *)
Send(d) ==
  /\ \/ phase[d] \in {"pending", "retryable"}
     \/ phase[d] = "failed" /\ trouble > 0
  /\ reply[d] = NoReply
  /\ \E r \in {"ok", "client", "retry", "lost"} : reply' = [reply EXCEPT ![d] = r]
  /\ UNCHANGED <<phase, attempt>>

Conclude(d, end) ==
  /\ phase' = [phase EXCEPT ![d] = end]
  /\ reply' = [reply EXCEPT ![d] = NoReply]

Succeed(d) ==
  /\ reply[d] = "ok"
  /\ Conclude(d, "success")
  /\ UNCHANGED attempt

Reject(d) ==
  /\ reply[d] = "client"
  /\ Conclude(d, "failed")
  /\ UNCHANGED attempt

ScheduleRetry(d) ==
  /\ reply[d] \in {"retry", "lost"}
  /\ attempt[d] < MaxAttempts
  /\ Conclude(d, "retryable")
  /\ attempt' = [attempt EXCEPT ![d] = @ + 1]

GiveUp(d) ==
  /\ reply[d] \in {"retry", "lost"}
  /\ attempt[d] = MaxAttempts
  /\ Conclude(d, "failed")
  /\ UNCHANGED attempt

(* The reply is in nobody's hands any more: the attempt stays as it was. *)
Forget(d) ==
  /\ trouble' > trouble
  /\ reply[d] # NoReply
  /\ Conclude(d, phase[d])
  /\ UNCHANGED attempt

Progress(d) ==
  \/ Begin(d) \/ Send(d)
  \/ Succeed(d) \/ Reject(d) \/ ScheduleRetry(d) \/ GiveUp(d)
  \/ Forget(d)

LifecycleNext ==
  /\ trouble' \in {trouble, trouble + 1}
  /\ \/ \E d \in Delivery : Progress(d)
     \/ UNCHANGED <<phase, attempt, reply>>

LifecycleSpec == LifecycleInit /\ [][LifecycleNext]_lifecycleVars
==============================================================================
