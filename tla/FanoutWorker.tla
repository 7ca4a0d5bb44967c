----------------------------- MODULE FanoutWorker -----------------------------
(***************************************************************************)
(* cmd/worker: Processor.Run and the FanoutService it drives.  A worker    *)
(* is one goroutine that alternates a message loop (read or reclaim an     *)
(* entry, list the subscriptions, deliver to each that matches, ack) with  *)
(* a retry loop over the rows that are due.  Every Redis command, SQL      *)
(* statement and POST is a step of its own, and a worker keeps what it     *)
(* read across the steps of the others.                                    *)
(*                                                                         *)
(*   pc       init -> claim -> subs -> attempt [-> create] -> post         *)
(*            -> record -> attempt ... -> subs -> read or retries -> ...   *)
(*            "exited": Run has returned while its process lives on        *)
(*   resume   where the loop over a reclaimed batch goes when it is done   *)
(*                                                                         *)
(* SIGTERM cancels the context, which makes the calls in progress fail and *)
(* then ends the process: Crash.                                           *)
(***************************************************************************)
EXTENDS EventStream, Subscriptions, DeliveryStore, FaultModel

CONSTANTS Worker,       \* worker processes, one Processor each
          MaxRetries,   \* MAX_DELIVERY_RETRIES
          RetryBatch,   \* FANOUT_WORKER_POOL, the limit of both batches
          Answers,      \* what POSTs may come to in this instance; "lost":
                        \* the subscriber took the event, the worker saw an error
          Matches,      \* the <<event, body>> pairs whose rules match
          PostBound     \* bound: POSTs of one pair that are told apart

(* The environment variables behind MaxRetries and RetryBatch are not      *)
(* checked by the code; every deployment of the repository sets them > 0.  *)
ASSUME WorkerAssumption ==
  /\ MaxRetries \in Nat \ {0}
  /\ RetryBatch \in Nat \ {0}
  /\ PostBound \in Nat
  /\ Answers \subseteq {"ok", "client", "retry", "lost"}
  /\ None \notin Answers

VARIABLES pc, resume,
          entry,    \* ID of the stream entry being processed, 0 for none
          msgs,     \* IDs read or reclaimed and still to be processed
          todo,     \* matching subscriptions still to be delivered to
          batch,    \* copies of rows due for retry and still to be delivered
          att,      \* the attempt being delivered
          answer,   \* what its POST came to
          heard,    \* history: what the POSTs of each pair came to
          posts     \* history: how many there were, up to PostBound

workerVars == <<pc, resume, entry, msgs, todo, batch, att, answer, heard, posts>>

(* The worker has seen a 2xx for a POST of p. *)
Accepted(p) == "ok" \in heard[p]

(* The subscription is listed by ListAll and Matches accepts the event. *)
Due(e, s) == IsActive(s) /\ <<e, subs[s].body>> \in Matches

WorkerInit ==
  /\ pc = [w \in Worker |-> "init"]
  /\ resume = [w \in Worker |-> "read"]
  /\ entry = [w \in Worker |-> 0]
  /\ msgs = [w \in Worker |-> {}]
  /\ todo = [w \in Worker |-> {}]
  /\ batch = [w \in Worker |-> {}]
  /\ att = [w \in Worker |-> None]
  /\ answer = [w \in Worker |-> None]
  /\ heard = [p \in Pair |-> {}]
  /\ posts = [p \in Pair |-> 0]

Label == {"init", "exited", "claim", "read", "subs", "attempt", "create",
          "post", "record", "retries", "load"}

WorkerTypeOK ==
  /\ pc \in [Worker -> Label]
  /\ resume \in [Worker -> {"read", "retries"}]
  /\ entry \in [Worker -> 0 .. cursor]
  /\ msgs \in [Worker -> SUBSET (1 .. cursor)]
  /\ todo \in [Worker -> SUBSET Sub]
  /\ batch \in [Worker -> SUBSET Attempt]
  /\ att \in [Worker -> Attempt \cup {None}]
  /\ answer \in [Worker -> Answers \cup {None}]
  /\ heard \in [Pair -> SUBSET Answers]
  /\ posts \in [Pair -> 0 .. PostBound]

Goto(w, label) == pc' = [pc EXCEPT ![w] = label]

history == <<heard, posts>>

-----------------------------------------------------------------------------
(* Processor.Run, up to the loop. *)

(* InitConsumerGroup succeeds; the first reclaim precedes the loop. *)
Start(w) ==
  /\ pc[w] = "init"
  /\ XGroupCreate
  /\ Goto(w, "claim")
  /\ resume' = [resume EXCEPT ![w] = "read"]
  /\ UNCHANGED <<storeVars, faults, entry, msgs, todo, batch, att, answer, history>>

(* InitConsumerGroup fails: Run returns. *)
StartFails(w) ==
  /\ pc[w] = "init"
  /\ Fault("redis")
  /\ XGroupCreate \/ UNCHANGED streamVars
  /\ Goto(w, "exited")
  /\ UNCHANGED <<storeVars, resume, entry, msgs, todo, batch, att, answer, history>>

(* reclaimAndProcess takes a batch of idle entries. *)
Claim(w) ==
  /\ pc[w] = "claim"
  /\ XAutoClaim(RetryBatch)
  /\ msgs' = [msgs EXCEPT ![w] = Claimable(RetryBatch)]
  /\ Goto(w, "subs")
  /\ UNCHANGED <<storeVars, faults, resume, entry, todo, batch, att, answer, history>>

(* XAUTOCLAIM without the group is an error: no batch. *)
ClaimNoGroup(w) ==
  /\ pc[w] = "claim"
  /\ ~group
  /\ Goto(w, resume[w])
  /\ UNCHANGED <<streamVars, storeVars, faults, resume, entry, msgs, todo, batch, att,
                 answer, history>>

(* XAUTOCLAIM's reply is an error, or is lost with the batch it claimed. *)
ClaimFails(w) ==
  /\ pc[w] = "claim"
  /\ Fault("redis")
  /\ XAutoClaim(RetryBatch) \/ UNCHANGED streamVars
  /\ Goto(w, resume[w])
  /\ UNCHANGED <<storeVars, resume, entry, msgs, todo, batch, att, answer, history>>

(* ReadEvent returns a message.  Without the group it returns NOGROUP and  *)
(* Run calls it again: the worker stays at "read" and does nothing else.   *)
Read(w) ==
  /\ pc[w] = "read"
  /\ XReadGroup
  /\ msgs' = [msgs EXCEPT ![w] = {cursor + 1}]
  /\ resume' = [resume EXCEPT ![w] = "read"]
  /\ Goto(w, "subs")
  /\ UNCHANGED <<storeVars, faults, entry, todo, batch, att, answer, history>>

(* XREADGROUP's reply is lost: the entry is pending and nobody has it. *)
ReadFails(w) ==
  /\ pc[w] = "read"
  /\ Fault("redis")
  /\ XReadGroup
  /\ UNCHANGED <<storeVars, workerVars>>

\* A plausible bug: entries are reclaimed when the worker starts and never again.
ReadTimeoutNoReclaim(w) ==
  /\ pc[w] = "read"
  /\ group
  /\ ~HasNew
  /\ resume' = [resume EXCEPT ![w] = "retries"]
  /\ Goto(w, "retries")
  /\ UNCHANGED <<streamVars, storeVars, faults, entry, msgs, todo, batch, att, answer, history>>

(* Nothing arrived for readTimeout: only then is it the retry ticker's turn. *)
ReadTimeout(w) ==
  /\ pc[w] = "read"
  /\ group
  /\ ~HasNew
  /\ resume' = [resume EXCEPT ![w] = "retries"]
  /\ Goto(w, "claim")
  /\ UNCHANGED <<streamVars, storeVars, faults, entry, msgs, todo, batch, att, answer, history>>

-----------------------------------------------------------------------------
(* processMessage and ProcessEvent. *)

Oldest(ids) == {i \in ids : \A j \in ids : i <= j}

(* The next message of the batch: ListAll and Matches. *)
ListSubs(w) ==
  /\ pc[w] = "subs"
  /\ \E i \in Oldest(msgs[w]) :
       /\ entry' = [entry EXCEPT ![w] = i]
       /\ msgs' = [msgs EXCEPT ![w] = @ \ {i}]
       /\ todo' = [todo EXCEPT ![w] = {s \in Sub : Due(stream[i], s)}]
  /\ Goto(w, "attempt")
  /\ UNCHANGED <<streamVars, storeVars, faults, resume, batch, att, answer, history>>

(* ListAll fails: ProcessEvent returns the error and nothing is acked. *)
ListSubsFails(w) ==
  /\ pc[w] = "subs"
  /\ Fault("db")
  /\ \E i \in Oldest(msgs[w]) : msgs' = [msgs EXCEPT ![w] = @ \ {i}]
  /\ UNCHANGED <<streamVars, storeVars, pc, resume, entry, todo, batch, att, answer, history>>

MessagesDone(w) ==
  /\ pc[w] = "subs"
  /\ msgs[w] = {}
  /\ Goto(w, resume[w])
  /\ UNCHANGED <<streamVars, storeVars, faults, resume, entry, msgs, todo, batch, att,
                 answer, history>>

\* A plausible bug: the row's status is not looked at.
LookupIgnoresStatus(w) ==
  /\ pc[w] = "attempt"
  /\ \E s \in todo[w] :
       LET p == <<stream[entry[w]], s>> IN
         /\ att' = [att EXCEPT ![w] = IF Exists(p) THEN Copy(p) ELSE Fresh(p)]
         /\ Goto(w, IF Exists(p) THEN "post" ELSE "create")
  /\ UNCHANGED <<streamVars, storeVars, faults, resume, entry, msgs, todo, batch,
                 answer, history>>

(* GetOrCreateDeliveryAttempt's SELECT for the next matching subscription. *)
Lookup(w) ==
  /\ pc[w] = "attempt"
  /\ \E s \in todo[w] :
       LET p == <<stream[entry[w]], s>> IN
         \/ /\ Success(p)
            /\ todo' = [todo EXCEPT ![w] = @ \ {s}]
            /\ UNCHANGED <<pc, att>>
         \/ /\ Exists(p) /\ ~Success(p)
            /\ att' = [att EXCEPT ![w] = Copy(p)]
            /\ Goto(w, "post")
            /\ UNCHANGED todo
         \/ /\ ~Exists(p)
            /\ att' = [att EXCEPT ![w] = Fresh(p)]
            /\ Goto(w, "create")
            /\ UNCHANGED todo
  /\ UNCHANGED <<streamVars, storeVars, faults, resume, entry, msgs, batch, answer, history>>

(* ProcessEvent returns an error: the message is dropped without an ack. *)
Abandon(w) ==
  /\ entry' = [entry EXCEPT ![w] = 0]
  /\ todo' = [todo EXCEPT ![w] = {}]
  /\ att' = [att EXCEPT ![w] = None]
  /\ Goto(w, "subs")
  /\ UNCHANGED <<resume, msgs, batch, answer, history>>

\* A plausible bug: a failed attempt is logged and the next subscription tried.
LookupFailsSkips(w) ==
  /\ pc[w] = "attempt"
  /\ Fault("db")
  /\ \E s \in todo[w] : todo' = [todo EXCEPT ![w] = @ \ {s}]
  /\ UNCHANGED <<streamVars, storeVars, pc, resume, entry, msgs, batch, att, answer, history>>

LookupFails(w) ==
  /\ pc[w] = "attempt"
  /\ todo[w] # {}
  /\ Fault("db")
  /\ Abandon(w)
  /\ UNCHANGED <<streamVars, storeVars>>

(* GetOrCreateDeliveryAttempt's INSERT, whether or not it conflicts. *)
CreateAttempt(w) ==
  /\ pc[w] = "create"
  /\ Create(att[w].pair)
  /\ att' = [att EXCEPT ![w] = Created(@)]
  /\ Goto(w, "post")
  /\ UNCHANGED <<streamVars, faults, resume, entry, msgs, todo, batch, answer, history>>

CreateAttemptFails(w) ==
  /\ pc[w] = "create"
  /\ Fault("db")
  /\ Create(att[w].pair) \/ UNCHANGED storeVars
  /\ Abandon(w)
  /\ UNCHANGED streamVars

(* Every matching subscription was served: AckEvent. *)
Ack(w) ==
  /\ pc[w] = "attempt"
  /\ todo[w] = {}
  /\ XAck(entry[w])
  /\ entry' = [entry EXCEPT ![w] = 0]
  /\ Goto(w, "subs")
  /\ UNCHANGED <<storeVars, faults, resume, msgs, todo, batch, att, answer, history>>

(* XACK fails without effect, or after it: only logged. *)
AckFails(w) ==
  /\ pc[w] = "attempt"
  /\ todo[w] = {}
  /\ Fault("redis")
  /\ XAck(entry[w]) \/ UNCHANGED streamVars
  /\ entry' = [entry EXCEPT ![w] = 0]
  /\ Goto(w, "subs")
  /\ UNCHANGED <<storeVars, resume, msgs, todo, batch, att, answer, history>>

-----------------------------------------------------------------------------
(* deliverAttempt, for both loops. *)

Post(w) ==
  /\ pc[w] = "post"
  /\ \E a \in Answers :
       /\ answer' = [answer EXCEPT ![w] = a]
       /\ heard' = [heard EXCEPT ![att[w].pair] = @ \cup {a}]
  /\ posts' = [posts EXCEPT ![att[w].pair] = IF @ < PostBound THEN @ + 1 ELSE @]
  /\ Goto(w, "record")
  /\ UNCHANGED <<streamVars, storeVars, faults, resume, entry, msgs, todo, batch, att>>

\* Plausible off-by-ones: one attempt too many, one too few.
MarkFailureLate(a) ==
  \/ a.number > MaxRetries /\ UpdateStatus(a, "failed")
  \/ a.number <= MaxRetries /\ IncrementAttempt(a, a.number + 1)
MarkFailureEarly(a) ==
  \/ a.number + 1 >= MaxRetries /\ UpdateStatus(a, "failed")
  \/ a.number + 1 < MaxRetries /\ IncrementAttempt(a, a.number + 1)

(* markFailure schedules another attempt unless it would be past MaxRetries. *)
MarkFailure(a) ==
  \/ a.number + 1 > MaxRetries /\ UpdateStatus(a, "failed")
  \/ a.number + 1 <= MaxRetries /\ IncrementAttempt(a, a.number + 1)

\* A plausible bug: every answer below 500 counts as delivered.
SavesClientErrorAsSuccess(a, ans) ==
  \/ ans \in {"ok", "client"} /\ UpdateStatus(a, "success")
  \/ ans \in {"retry", "lost"} /\ MarkFailure(a)

(* 2xx: success.  4xx: failed for good.  Anything else is retried. *)
Saves(a, ans) ==
  \/ ans = "ok" /\ UpdateStatus(a, "success")
  \/ ans = "client" /\ UpdateStatus(a, "failed")
  \/ ans \in {"retry", "lost"} /\ MarkFailure(a)

(* Either loop goes on with its next delivery, whatever became of this one. *)
NextDelivery(w) ==
  /\ IF entry[w] # 0
     THEN Goto(w, "attempt") /\ todo' = [todo EXCEPT ![w] = @ \ {att[w].pair[2]}]
     ELSE Goto(w, "load") /\ UNCHANGED todo
  /\ att' = [att EXCEPT ![w] = None]
  /\ answer' = [answer EXCEPT ![w] = None]
  /\ UNCHANGED <<resume, entry, msgs, batch, history>>

Record(w) ==
  /\ pc[w] = "record"
  /\ Saves(att[w], answer[w])
  /\ NextDelivery(w)
  /\ UNCHANGED <<streamVars, faults>>

(* The UPDATE reports failure, whether or not it took effect: only logged. *)
RecordFails(w) ==
  /\ pc[w] = "record"
  /\ Fault("db")
  /\ Saves(att[w], answer[w]) \/ UNCHANGED storeVars
  /\ NextDelivery(w)
  /\ UNCHANGED streamVars

-----------------------------------------------------------------------------
(* ProcessPendingRetries. *)

ListRetries(w) ==
  /\ pc[w] = "retries"
  /\ \E due \in PendingRetries(RetryBatch) :
       batch' = [batch EXCEPT ![w] = {Copy(p) : p \in due}]
  /\ Goto(w, "load")
  /\ UNCHANGED <<streamVars, storeVars, faults, resume, entry, msgs, todo, att, answer, history>>

ListRetriesFails(w) ==
  /\ pc[w] = "retries"
  /\ Fault("db")
  /\ Goto(w, "read")
  /\ UNCHANGED <<streamVars, storeVars, resume, entry, msgs, todo, batch, att, answer, history>>

\* A plausible bug: the retry loop delivers to whatever subscription the row names.
LoadIgnoresActive(w) ==
  /\ pc[w] = "load"
  /\ \E a \in batch[w] :
       /\ batch' = [batch EXCEPT ![w] = @ \ {a}]
       /\ att' = [att EXCEPT ![w] = a]
  /\ Goto(w, "post")
  /\ UNCHANGED <<streamVars, storeVars, faults, resume, entry, msgs, todo, answer, history>>

(* The next copy: GetByID of its event and of its subscription, which is   *)
(* skipped when inactive; its rules are not looked at again.               *)
Load(w) ==
  /\ pc[w] = "load"
  /\ \E a \in batch[w] :
       /\ batch' = [batch EXCEPT ![w] = @ \ {a}]
       /\ IF IsActive(a.pair[2])
          THEN att' = [att EXCEPT ![w] = a] /\ Goto(w, "post")
          ELSE UNCHANGED <<att, pc>>
  /\ UNCHANGED <<streamVars, storeVars, faults, resume, entry, msgs, todo, answer, history>>

LoadFails(w) ==
  /\ pc[w] = "load"
  /\ Fault("db")
  /\ \E a \in batch[w] : batch' = [batch EXCEPT ![w] = @ \ {a}]
  /\ UNCHANGED <<streamVars, storeVars, pc, resume, entry, msgs, todo, att, answer, history>>

RetriesDone(w) ==
  /\ pc[w] = "load"
  /\ batch[w] = {}
  /\ Goto(w, "read")
  /\ UNCHANGED <<streamVars, storeVars, faults, resume, entry, msgs, todo, batch, att,
                 answer, history>>

-----------------------------------------------------------------------------
(* The process dies, at any point, and is started again. *)
Crash(w) ==
  /\ pc[w] # "init"
  /\ Fault("crash")
  /\ Goto(w, "init")
  /\ resume' = [resume EXCEPT ![w] = "read"]
  /\ entry' = [entry EXCEPT ![w] = 0]
  /\ msgs' = [msgs EXCEPT ![w] = {}]
  /\ todo' = [todo EXCEPT ![w] = {}]
  /\ batch' = [batch EXCEPT ![w] = {}]
  /\ att' = [att EXCEPT ![w] = None]
  /\ answer' = [answer EXCEPT ![w] = None]
  /\ UNCHANGED <<streamVars, storeVars, history>>

(* What the worker's own code does next while nothing fails. *)
Works(w) ==
  \/ Start(w)       \/ Claim(w)       \/ ClaimNoGroup(w)
  \/ Read(w)        \/ ReadTimeout(w)
  \/ ListSubs(w)    \/ MessagesDone(w)
  \/ Lookup(w)      \/ CreateAttempt(w) \/ Ack(w)
  \/ Post(w)        \/ Record(w)
  \/ ListRetries(w) \/ Load(w)        \/ RetriesDone(w)

Fails(w) ==
  \/ StartFails(w)  \/ ClaimFails(w)  \/ ReadFails(w)
  \/ ListSubsFails(w) \/ LookupFails(w) \/ CreateAttemptFails(w)
  \/ AckFails(w)    \/ RecordFails(w)
  \/ ListRetriesFails(w) \/ LoadFails(w)
  \/ Crash(w)
==============================================================================
