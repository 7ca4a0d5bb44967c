---------------------------- MODULE Subscriptions ----------------------------
(***************************************************************************)
(* The subscription API: SubscriptionService over SubscriptionRepository.  *)
(* POST and DELETE are one SQL statement each; PUT reads the row, replaces *)
(* webhook_url and rules in the copy and writes the whole copy back, the   *)
(* active flag it read included.  Requests overlap freely: a DELETE or one *)
(* more PUT may come between a PUT's statements.  A handler that dies or   *)
(* fails between these just drops its copy; an UPDATE that reports failure *)
(* may have taken effect.                                                  *)
(***************************************************************************)
EXTENDS FanoutTypes

CONSTANTS Body,      \* request bodies: a webhook_url together with its rules
          Handler    \* PUTs that may be in progress at once; no requests
                     \* of the subscription API at all if it is empty

VARIABLES subs,      \* the subscriptions table
          put        \* the copy each PUT in progress has read

subVars == <<subs, put>>

SubRow == [state : {"absent", "active", "inactive"}, body : Body \cup {None}]
PutCopy == [sub : Sub, state : {"active", "inactive"}, body : Body]

Absent == [state |-> "absent", body |-> None]

(* The table outlives the servers: some subscriptions may exist already. *)
SubsInit ==
  /\ subs \in [Sub -> {Absent} \cup [state : {"active"}, body : Body]]
  /\ put = [h \in Handler |-> None]

SubsTypeOK ==
  /\ subs \in [Sub -> SubRow]
  /\ put \in [Handler -> PutCopy \cup {None}]

IsActive(s) == subs[s].state = "active"

(* POST: INSERT a new active row. *)
CreateSubscription(s, b) ==
  /\ subs[s].state = "absent"
  /\ subs' = [subs EXCEPT ![s] = [state |-> "active", body |-> b]]
  /\ UNCHANGED put

(* PUT, first statement: GetByID, which finds inactive rows too. *)
BeginUpdate(h, s, b) ==
  /\ put[h] = None
  /\ subs[s].state # "absent"
  /\ put' = [put EXCEPT ![h] = [sub |-> s, state |-> subs[s].state, body |-> b]]
  /\ UNCHANGED subs

\* A plausible bug: rebuild the row from the request, active as in POST.
FinishUpdateActivates(h) ==
  /\ put[h] # None
  /\ subs' = [subs EXCEPT ![put[h].sub] = [state |-> "active", body |-> put[h].body]]
  /\ put' = [put EXCEPT ![h] = None]

(* PUT, second statement: Update writes the copy, its stale active flag included. *)
FinishUpdate(h) ==
  /\ put[h] # None
  /\ subs' = [subs EXCEPT ![put[h].sub] = [state |-> put[h].state, body |-> put[h].body]]
  /\ put' = [put EXCEPT ![h] = None]

(* PUT's second statement fails without effect, or the handler dies. *)
AbortUpdate(h) ==
  /\ put[h] # None
  /\ put' = [put EXCEPT ![h] = None]
  /\ UNCHANGED subs

(* DELETE: a soft delete, which also succeeds on an inactive row. *)
DeleteSubscription(s) ==
  /\ subs[s].state # "absent"
  /\ subs' = [subs EXCEPT ![s].state = "inactive"]
  /\ UNCHANGED put

SubsStep(h) ==
  \/ \E s \in Sub, b \in Body : CreateSubscription(s, b) \/ BeginUpdate(h, s, b)
  \/ \E s \in Sub : DeleteSubscription(s)
  \/ FinishUpdate(h)
  \/ AbortUpdate(h)

SubsNext == \E h \in Handler : SubsStep(h)

SubsSpec == SubsInit /\ [][SubsNext]_subVars

-----------------------------------------------------------------------------
(* s is deleted, and no PUT in progress has read it before. *)
Gone(s) ==
  /\ subs[s].state = "inactive"
  /\ \A h \in Handler : put[h] # None /\ put[h].sub = s => put[h].state = "inactive"

(* A DELETE holds for good: no later or slower request brings the          *)
(* subscription back (IDs are never created again).  It is what stops the  *)
(* worker's ListAll from fanning out to a deleted subscriber.              *)
DeletedStaysInactive ==
  [][\A s \in Sub : subs[s].state = "inactive" => subs'[s].state = "inactive"]_subVars
==============================================================================
