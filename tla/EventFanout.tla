----------------------------- MODULE EventFanout -----------------------------
(***************************************************************************)
(* The whole service: the event API, the subscription API, the workers,    *)
(* the stream and the tables they share, and the clocks of Redis and       *)
(* PostgreSQL.  One step is one Redis command, SQL statement, POST or      *)
(* fault of one of them.                                                   *)
(***************************************************************************)
EXTENDS EventIngest, FanoutWorker

VARIABLE owed   \* history: <<e, s>> such that s has been active, with rules
                \* that match e, ever since e was appended to the stream

vars == <<streamVars, faults, ingestVars, subVars, storeVars, workerVars, owed>>

Init ==
  /\ StreamInit
  /\ FaultInit
  /\ IngestInit
  /\ SubsInit
  /\ StoreInit
  /\ WorkerInit
  /\ owed = {}

TypeOK ==
  /\ StreamTypeOK
  /\ FaultTypeOK
  /\ IngestTypeOK
  /\ SubsTypeOK
  /\ StoreTypeOK
  /\ WorkerTypeOK
  /\ owed \subseteq Pair

(* A request of the event API takes its next step. *)
Ingest(e) ==
  /\ IngestStep(e)
  /\ owed' = owed \cup {p \in (Queued' \ Queued) \X Sub : Due(p[1], p[2])}
  /\ UNCHANGED <<subVars, storeVars, workerVars>>

(* A request of the subscription API takes its next step. *)
Administer(h) ==
  /\ SubsStep(h)
  /\ owed' = {p \in owed : Due(p[1], p[2])'}
  /\ UNCHANGED <<streamVars, faults, ingestVars, storeVars, workerVars>>

WorkerWorks(w) == Works(w) /\ UNCHANGED <<ingestVars, subVars, owed>>

WorkerFails(w) == Fails(w) /\ UNCHANGED <<ingestVars, subVars, owed>>

Age(i) ==
  /\ AgeEntry(i)
  /\ UNCHANGED <<faults, ingestVars, subVars, storeVars, workerVars, owed>>

ComeDue(p) ==
  /\ RetryComesDue(p)
  /\ UNCHANGED <<streamVars, faults, ingestVars, subVars, workerVars, owed>>

(* A server process starts, again or as one more replica, and creates the  *)
(* group as the workers do (a step that changes nothing if it exists).     *)
ServerStarts ==
  /\ ~group
  /\ XGroupCreate
  /\ UNCHANGED <<faults, ingestVars, subVars, storeVars, workerVars, owed>>

RedisLosesData ==
  /\ Fault("loss")
  /\ LoseStream
  /\ UNCHANGED <<ingestVars, subVars, storeVars, workerVars, owed>>

Next ==
  \/ \E e \in Event : Ingest(e)
  \/ \E h \in Handler : Administer(h)
  \/ \E w \in Worker : WorkerWorks(w) \/ WorkerFails(w)
  \/ \E i \in Entries : Age(i)
  \/ \E p \in Pair : ComeDue(p)
  \/ ServerStarts
  \/ RedisLosesData

Spec == Init /\ [][Next]_vars

(* Clocks run, and so does every worker process: its goroutine is always   *)
(* scheduled again, and a process that died is restarted by its Deployment *)
(* (a worker whose Run has returned is not: its process is still alive).   *)
(* No request need arrive, and no fault need happen.                       *)
Fairness ==
  /\ \A w \in Worker : WF_vars(WorkerWorks(w))
  /\ \A i \in 1 .. MaxEntries : WF_vars(Age(i))
  /\ \A p \in Pair : WF_vars(ComeDue(p))

FairSpec == Spec /\ Fairness

-----------------------------------------------------------------------------
(* Safety, whatever fails and however many workers there are. *)

(* An entry is acknowledged only when nothing depends on it any more:      *)
(* every subscription that was due the event when it was queued, and has   *)
(* been ever since, has a row, which the retry loop finds without the      *)
(* stream.  This is what the order "deliver, then XACK", the error return  *)
(* of GetOrCreateDeliveryAttempt and the pending entries list are for.     *)
NoDeliveryForgotten ==
  \A i \in Acked, s \in Sub :
    <<stream[i], s>> \in owed => Exists(<<stream[i], s>>)

(* A row says success only if the subscriber has answered 2xx for that     *)
(* event: no worker writes the answer of one delivery to another's row,    *)
(* and none writes success for an answer that was not.                     *)
SuccessIsEarned ==
  \A p \in Pair : Success(p) => Accepted(p)

(* The client's 201 means that the event is in the table and was queued. *)
AcceptedIsQueued ==
  \A e \in Event : request[e] = "201" => e \in events /\ e \in Queued

(* Whatever a worker can read from the stream it can deliver: the row of   *)
(* the event is there for delivery_attempts' foreign key and for the retry *)
(* loop's GetByID.                                                         *)
QueuedIsStored == Queued \subseteq events

(* attempt_number passes MaxRetries only through the upsert of Create, at  *)
(* most once for each further worker that saw no row.                      *)
AttemptNumberBounded ==
  \A p \in Pair : rows[p].number < MaxRetries + Cardinality(Worker)

(* The service gives a delivery up only after a 4xx or MaxRetries POSTs,   *)
(* or one less for every further worker, whose upsert may have used up an  *)
(* attempt number that was never POSTed.  MaxRetries is here what          *)
(* markFailure takes it for, the POSTs in all and not the retries that     *)
(* follow the first: see EveryRetryIsMade.                                 *)
GivesUpOnlyWhenExhausted ==
  \A p \in Pair :
    FailedForGood(p) =>
      "client" \in heard[p] \/ posts[p] + Cardinality(Worker) > MaxRetries

-----------------------------------------------------------------------------
(* MAX_DELIVERY_RETRIES as docs/delivery-guarantees.md has it, which lists *)
(* five delays for a value of 5: so many retries follow the first POST     *)
(* before a delivery is given up, unless a 4xx ends it.                    *)
EveryRetryIsMade ==
  \A p \in Pair :
    FailedForGood(p) => "client" \in heard[p] \/ posts[p] > MaxRetries

-----------------------------------------------------------------------------
(* Subscriptions that change while events are delivered. *)

(* w has a delivery to s in hand or in the rest of its list. *)
WillPost(w, s) ==
  \/ pc[w] = "post" /\ att[w].pair[2] = s
  \/ s \in todo[w] /\ ~(pc[w] = "record" /\ att[w].pair[2] = s)

(* Once a DELETE has taken effect no worker takes up a further delivery to *)
(* the subscription: what it had listed before may still be POSTed, once,  *)
(* and neither a reclaimed entry nor a retry that comes due adds to it.    *)
NoNewPostAfterDelete ==
  [][\A w \in Worker, s \in Sub :
       ~IsActive(s) /\ WillPost(w, s)' => WillPost(w, s)]_vars

(* Nothing more is in progress that could reach the deleted subscription. *)
Silent(s) == Gone(s) /\ \A w \in Worker : ~WillPost(w, s)

(* A deleted subscription hears nothing more, for good, once the PUTs that *)
(* read it before the DELETE and the deliveries that workers had in hand   *)
(* are over: no later request makes it active again, whichever overlap,    *)
(* and no reclaimed entry, due retry or restart finds its way back to it.  *)
DeletedFallsSilent ==
  [][\A s \in Sub : Silent(s) => Silent(s)']_vars

-----------------------------------------------------------------------------
(* Why the invariants above hold: what each worker's variables owe to the  *)
(* shared state while the other workers change it.                         *)

(* What is owed is what ListAll and Matches would return now. *)
OwedIsDue == \A p \in owed : Due(p[1], p[2])

(* A worker's locals are set whenever its next step reads them. *)
LocalsReady(w) ==
  /\ entry[w] # 0 => pc[w] \in {"attempt", "create", "post", "record"}
  /\ pc[w] \in {"attempt", "create"} => entry[w] # 0
  /\ pc[w] \in {"create", "post", "record"} => att[w] \in Attempt
  /\ pc[w] = "record" => answer[w] \in Answers

(* In the message loop every owed delivery of the entry still has to be    *)
(* done or has its row, the one in hand from Create on.                    *)
NothingDropped(w) ==
  entry[w] # 0 =>
    /\ pc[w] \in {"create", "post", "record"} => att[w].pair[1] = stream[entry[w]]
    /\ pc[w] \in {"post", "record"} => Exists(att[w].pair)
    /\ \A s \in Sub : LET p == <<stream[entry[w]], s>> IN
         p \in owed => s \in todo[w] \/ Exists(p)

(* The answer in hand is one the subscriber gave. *)
AnswerGenuine(w) ==
  pc[w] = "record" => answer[w] \in heard[att[w].pair]

Inv ==
  /\ TypeOK
  /\ NoDeliveryForgotten
  /\ SuccessIsEarned
  /\ OwedIsDue
  /\ \A w \in Worker : LocalsReady(w) /\ NothingDropped(w) /\ AnswerGenuine(w)

-----------------------------------------------------------------------------
(* Delivery by one worker, whatever fails. *)

(* A delivered pair stays delivered. *)
SuccessIsFinal ==
  [][\A p \in Pair : Success(p) => Success(p)']_vars

(* The audit's attempt number never goes back. *)
NumberNeverDecreases ==
  [][\A p \in Pair : rows'[p].number >= rows[p].number]_vars

(* Until something fails, a delivery is POSTed at most MaxRetries times,   *)
(* the first POST included, as markFailure counts them, although its       *)
(* entry, its row and a worker's copy of the row may each bring about one. *)
PostsWithinRetries ==
  faults = 0 => \A p \in Pair : posts[p] <= MaxRetries

-----------------------------------------------------------------------------
(* Why they hold: what a worker remembers of the table while no other      *)
(* writes it, and, until something fails, what it has yet to deliver.      *)

(* What it holds is what a SELECT would return now, and worth delivering.  *)
Current(w) ==
  /\ pc[w] = "create" =>
       ~Exists(att[w].pair) /\ att[w] = Fresh(att[w].pair)
  /\ pc[w] \in {"post", "record"} =>
       Exists(att[w].pair) /\ ~Success(att[w].pair) /\ att[w] = Copy(att[w].pair)
  /\ \A a \in batch[w] :
       /\ Exists(a.pair) /\ ~Success(a.pair) /\ a = Copy(a.pair)
       /\ pc[w] \in {"post", "record"} => a.pair # att[w].pair
  /\ batch[w] # {} => entry[w] = 0 /\ pc[w] \in {"load", "post", "record"}

Numbered ==
  \A p \in Pair : /\ ~Exists(p) => rows[p].number = 0
                  /\ rows[p].number <= MaxRetries

(* Every attempt number but the next has been POSTed. *)
Counted ==
  /\ \A p \in Pair : rows[p].number <= posts[p] + 1
  /\ \A w \in Worker : pc[w] = "record" => att[w].number <= posts[att[w].pair]

Unstarted(e) == \A s \in Sub : ~Exists(<<e, s>>)

(* An event is in the stream once, and is delivered only from there. *)
OnceInStream ==
  /\ \A i, j \in Entries : stream[i] = stream[j] => i = j
  /\ \A e \in Queued : request[e] \notin {"none", "stored"}
  /\ \A e \in Event : (\A i \in 1 .. cursor : stream[i] # e) => Unstarted(e)

(* What is pending is what the worker has, none of it delivered to before, *)
(* and nothing that was given up is in its hands.                          *)
OnceDelivered(w) ==
  /\ pending \subseteq msgs[w] \cup {entry[w]}
  /\ entry[w] \notin msgs[w]
  /\ msgs[w] # {} => entry[w] # 0 \/ pc[w] = "subs"
  /\ \A i \in msgs[w] : Unstarted(stream[i])
  /\ entry[w] # 0 =>
       \A s \in todo[w] :
         Exists(<<stream[entry[w]], s>>) => /\ pc[w] \in {"post", "record"}
                                           /\ att[w].pair[2] = s
  /\ pc[w] \in {"post", "record"} => ~FailedForGood(att[w].pair)
  /\ \A a \in batch[w] : ~FailedForGood(a.pair)

OneWorkerInv ==
  /\ \A w \in Worker : Current(w)
  /\ Numbered
  /\ Counted
  /\ faults = 0 => OnceInStream /\ \A w \in Worker : OnceDelivered(w)

-----------------------------------------------------------------------------
(* The state of each delivery, as the documented state machine has it. *)

PhaseOf(p) ==
  CASE ~Exists(p)       -> "none"
    [] Success(p)       -> "success"
    [] FailedForGood(p) -> "failed"
    [] rows[p].status = "pending" -> "pending"
    [] OTHER            -> "retryable"

ReplyTo(p) ==
  LET at == {w \in Worker : pc[w] = "record" /\ att[w].pair = p}
  IN  IF at = {} THEN None ELSE answer[CHOOSE w \in at : TRUE]

Lifecycle == INSTANCE DeliveryLifecycle
  WITH Delivery    <- Pair,
       MaxAttempts <- MaxRetries,
       NoReply     <- None,
       phase       <- [p \in Pair |-> PhaseOf(p)],
       attempt     <- [p \in Pair |-> rows[p].number],
       reply       <- [p \in Pair |-> ReplyTo(p)],
       trouble     <- faults

(* One worker implements the documented state machine, for any requests    *)
(* and any answers: no POST after success, none while one is evaluated,    *)
(* MaxRetries of them in all (the code's reading, see EveryRetryIsMade)    *)
(* and none after a failure as long as nothing has gone wrong; crashes,    *)
(* failed statements and lost replies make it forget the last reply or try *)
(* a failed delivery again, and do no other harm.                          *)
ImplementsLifecycle == Lifecycle!LifecycleSpec

(* The same state machine, whatever fails: a delivery that was given up is *)
(* never taken up again.                                                   *)
FailureIsFinal ==
  [][\A p \in Pair : FailedForGood(p) => FailedForGood(p)']_vars

-----------------------------------------------------------------------------
(* Liveness. *)

Settled(p) == Success(p) \/ FailedForGood(p)

(* A queued event reaches every subscription it is due to, or is given up  *)
(* for it, unless the subscription is deleted or changed first.            *)
EveryOwedDeliverySettles ==
  \A p \in Pair : p \in owed ~> Settled(p) \/ p \notin owed

(* Redis has lost every entry that carries p's event, and p has no row. *)
Lost(p) == ~Exists(p) /\ \A i \in Entries : stream[i] = p[1] => i \in lost

(* The same across crashes, failed statements, lost replies and the loss   *)
(* of Redis' data, with nothing but the pending entries list and the due   *)
(* rows to remember a delivery, and through batches it has to share.  What *)
(* is left out is what the code gives up: the work of a worker whose Run   *)
(* has returned, an event that only Redis remembered, and everything, rows *)
(* that PostgreSQL remembers included, for as long as no process is        *)
(* started that creates the lost consumer group again: a running worker    *)
(* does not, and has no empty read that would let it retry.                *)
OwedSettlesUnlessLost ==
  \A p \in Pair :
    p \in owed ~> \/ Settled(p)
                 \/ p \notin owed
                 \/ \A w \in Worker : pc[w] = "exited"
                 \/ [](~group \/ Lost(p))
==============================================================================
