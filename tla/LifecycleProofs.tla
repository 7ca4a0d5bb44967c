--------------------------- MODULE LifecycleProofs ----------------------------
(***************************************************************************)
(* One worker implements the documented state machine of a delivery, for   *)
(* any number of events, subscriptions, retries and faults.                *)
(***************************************************************************)
EXTENDS OneWorkerProofs

(* Until something fails every event is in the stream once and every entry *)
(* is delivered once.                                                      *)
Once == faults = 0 => OnceInStream /\ \A w \in Worker : OnceDelivered(w)

(* What has not failed by the end of a step has not failed in it. *)
LEMMA CalmStep ==
  ASSUME Typing, [Next]_vars, faults' = 0
  PROVE  /\ faults = 0
         /\ \/ \E e \in Event : /\ StoreEvent(e) \/ EnqueueEvent(e)
                                /\ UNCHANGED <<storeVars, workerVars>>
            \/ \E w \in Worker : Works(w) /\ UNCHANGED ingestVars
            \/ /\ UNCHANGED <<stream, cursor, pending, ingestVars, workerVars>>
               /\ UNCHANGED storeVars \/ \E p \in Pair : RetryComesDue(p)
<1>1. faults \in Nat
  BY FaultsAssumption DEF Typing, TypeOK, FaultTypeOK
<1>2. faults = 0 \/ UNCHANGED faults
  BY <1>1 DEF Next, Ingest, IngestStep, StoreEvent, StoreFails, EnqueueEvent, EnqueueTwice,
              EnqueueFails, ServerCrash, Administer, WorkerWorks, WorkerFails,
              Works, Fails, Start, Claim, ClaimNoGroup, Read, ReadTimeout, ListSubs,
              MessagesDone, Lookup, CreateAttempt, Ack, Post, Record, ListRetries, Load,
              RetriesDone, StartFails, ClaimFails, ReadFails, ListSubsFails, LookupFails,
              CreateAttemptFails, AckFails, RecordFails, ListRetriesFails, LoadFails,
              Crash, Age, ComeDue, ServerStarts, RedisLosesData, Fault, vars
<1>3. \A kind : ~Fault(kind)
  BY <1>1 DEF Fault
<1>4. ASSUME NEW e \in Event, IngestStep(e)
      PROVE  StoreEvent(e) \/ EnqueueEvent(e)
  BY <1>3, <1>4 DEF IngestStep, StoreFails, EnqueueTwice, EnqueueFails, ServerCrash
<1>5. \A w \in Worker : ~Fails(w)
  BY <1>3 DEF Fails, StartFails, ClaimFails, ReadFails, ListSubsFails, LookupFails,
              CreateAttemptFails, AckFails, RecordFails, ListRetriesFails, LoadFails, Crash
<1>6. UNCHANGED faults => faults = 0
  OBVIOUS
<1> QED
  BY <1>2, <1>3, <1>4, <1>5, <1>6
     DEF Next, Ingest, Administer, WorkerWorks, WorkerFails, Age, AgeEntry, ComeDue,
         ServerStarts, XGroupCreate, RedisLosesData, vars, streamVars

(* A row appears for an event only while its entry is being processed.     *)
LEMMA NewRow ==
  ASSUME Typing, Kept, Sole, [Next]_vars, NEW p \in Pair, Exists(p)', ~Exists(p)
  PROVE  \E w \in Worker : /\ pc[w] = "create" /\ att[w].pair = p
                           /\ entry[w] \in 1 .. cursor /\ p[1] = stream[entry[w]]
<1>1. PICK w \in Worker : pc[w] = "create" /\ att[w].pair = p
  <2>1. \A q \in Pair : rows[q].next = "later"
          /\ rows'[q] = [rows[q] EXCEPT !.next = "due"] => rows'[q].status = rows[q].status
    BY DEF Typing, TypeOK, StoreTypeOK, Row
  <2> QED
    BY <2>1, TableStep DEF Sole, Only, Exists, storeVars
<1>2. entry[w] # 0 /\ entry[w] \in 0 .. cursor /\ cursor \in Nat
  BY <1>1 DEF Typing, TypeOK, WorkerTypeOK, StreamTypeOK, LocalsReady
<1> QED
  BY <1>1, <1>2 DEF Kept, NothingDropped

LEMMA InStreamStep ==
  ASSUME Typing, Kept, Sole, OnceInStream, [Next]_vars, faults' = 0
  PROVE  OnceInStream'
<1>1. StreamTypeOK /\ IngestTypeOK /\ cursor \in Nat /\ Len(stream) \in Nat
      /\ cursor <= Len(stream)
  BY DEF Typing, TypeOK, StreamTypeOK
<1>2. cursor' \in Nat /\ cursor <= cursor' /\ \A i \in 1 .. cursor : stream'[i] = stream[i]
  BY EntriesStep
<1>3. ASSUME NEW e \in Event, \A i \in 1 .. cursor' : stream'[i] # e
      PROVE  Unstarted(e)'
  <2>1. \A i \in 1 .. cursor : stream[i] # e
    BY <1>1, <1>2, <1>3
  <2>2. Unstarted(e)
    BY <2>1 DEF OnceInStream
  <2>3. ASSUME NEW s \in Sub, Exists(<<e, s>>)'
        PROVE  FALSE
    <3>1. <<e, s>> \in Pair /\ ~Exists(<<e, s>>)
      BY <2>2 DEF Unstarted, Pair
    <3> QED
      BY <2>1, <2>3, <3>1, NewRow
  <2> QED
    BY <2>3 DEF Unstarted
<1> DEFINE Goal == /\ \A i, j \in Entries' : stream'[i] = stream'[j] => i = j
                   /\ \A e \in Queued' : request'[e] \notin {"none", "stored"}
<1>4. Goal
  <2>1. CASE UNCHANGED <<stream, request>>
    BY <2>1 DEF OnceInStream, Queued, Entries
  <2>2. ASSUME NEW e \in Event, StoreEvent(e)
        PROVE  Goal
    <3>1. stream' = stream /\ request[e] = "none" /\ request' = [request EXCEPT ![e] = "stored"]
      BY <2>2 DEF StoreEvent, streamVars, Answer
    <3>2. e \notin Queued /\ Queued' = Queued /\ Queued \subseteq Event
      BY <1>1, <3>1 DEF OnceInStream, Queued, Entries, StreamTypeOK
    <3>3. \A f \in Event \ {e} : request'[f] = request[f]
      BY <1>1, <3>1 DEF IngestTypeOK
    <3> QED
      BY <3>1, <3>2, <3>3 DEF OnceInStream, Entries
  <2>3. ASSUME NEW e \in Event, EnqueueEvent(e)
        PROVE  Goal
    <3>1. /\ request[e] = "stored" /\ request' = [request EXCEPT ![e] = "201"]
          /\ stream' = Append(stream, e) /\ Len(stream) < MaxEntries
      BY <2>3 DEF EnqueueEvent, XAdd, Answer
    <3>2. /\ Len(stream') = Len(stream) + 1
          /\ \A i \in 1 .. Len(stream) : stream'[i] = stream[i]
          /\ stream'[Len(stream) + 1] = e
      BY <1>1, <3>1, AppendLemma DEF StreamTypeOK
    <3>3. \A i \in 1 .. Len(stream) : stream[i] # e /\ stream[i] \in Event
      BY <1>1, <3>1 DEF OnceInStream, Queued, Entries, StreamTypeOK
    <3>4. \A f \in Event : request'[f] = IF f = e THEN "201" ELSE request[f]
      BY <1>1, <3>1 DEF IngestTypeOK
    <3>5. \A i, j \in Entries' : stream'[i] = stream'[j] => i = j
      BY <1>1, <3>2, <3>3 DEF OnceInStream, Entries
    <3>6. \A i \in Entries' : request'[stream'[i]] \notin {"none", "stored"}
      BY <1>1, <3>2, <3>3, <3>4 DEF OnceInStream, Queued, Entries
    <3> QED
      BY <3>5, <3>6 DEF Queued
  <2>4. ASSUME NEW w \in Worker, Works(w), UNCHANGED ingestVars
        PROVE  UNCHANGED <<stream, request>>
    BY <2>4, WorkerOutside DEF ingestVars
  <2> QED
    BY <2>1, <2>2, <2>3, <2>4, CalmStep DEF ingestVars
<1> QED
  BY <1>3, <1>4 DEF OnceInStream

(* The worker's own steps keep every entry apart from the others. *)
LEMMA DeliveredStep ==
  ASSUME Typing, Kept, Sole, OnceInStream, [Next]_vars,
         NEW w \in Worker, OnceDelivered(w), Works(w), faults' = 0
  PROVE  OnceDelivered(w)'
<1>1. /\ StreamTypeOK /\ StoreTypeOK /\ WorkerTypeOK /\ LocalsReady(w) /\ Current(w)
      /\ NothingDropped(w)
  BY DEF Typing, TypeOK, Sole, Kept
<1>2. /\ cursor \in Nat /\ Len(stream) \in Nat /\ cursor <= Len(stream)
      /\ pending \subseteq 1 .. cursor /\ msgs[w] \subseteq 1 .. cursor
      /\ stream' = stream
  BY <1>1, WorkerOutside DEF StreamTypeOK, WorkerTypeOK
<1>3. \A i \in 1 .. Len(stream) : stream[i] \in Event
  BY <1>1 DEF StreamTypeOK
<1>4. pc[w] \in {"init", "claim", "read", "retries", "load"} =>
        /\ entry[w] = 0 /\ msgs[w] = {} /\ pending = {}
        /\ pc[w] # "load" => batch[w] = {}
  BY <1>1, <1>2 DEF LocalsReady, OnceDelivered, Current
<1>5. CASE Claim(w)
  <2>1. pending = {} /\ UNCHANGED <<pending, entry, todo, batch>> /\ pc'[w] = "subs"
        /\ entry[w] = 0 /\ batch[w] = {}
    BY <1>1, <1>4, <1>5 DEF Claim, XAutoClaim, Goto, WorkerTypeOK
  <2>2. msgs'[w] = {}
    BY <1>1, <1>5, <2>1 DEF Claim, Claimable, StreamTypeOK, WorkerTypeOK
  <2> QED
    BY <2>1, <2>2 DEF OnceDelivered
<1>6. CASE Read(w)
  <2>1. /\ pending' = {cursor + 1} /\ msgs'[w] = {cursor + 1} /\ pc'[w] = "subs"
        /\ UNCHANGED <<entry, batch, storeVars>> /\ entry[w] = 0 /\ batch[w] = {}
        /\ cursor + 1 \in 1 .. Len(stream)
    <3>1. pending' = pending \cup {cursor + 1} /\ cursor < Len(stream) /\ pc[w] = "read"
      BY <1>6 DEF Read, XReadGroup, HasNew
    <3>2. /\ msgs'[w] = {cursor + 1} /\ pc'[w] = "subs"
          /\ UNCHANGED <<entry, batch, storeVars>>
      BY <1>1, <1>6 DEF Read, Goto, WorkerTypeOK
    <3>3. cursor + 1 \in 1 .. Len(stream)
      BY <1>2, <3>1
    <3>4. entry[w] = 0 /\ pending = {} /\ batch[w] = {}
      BY <1>4, <3>1
    <3> QED
      BY <3>1, <3>2, <3>3, <3>4
  <2>2. \A i \in 1 .. cursor : stream[i] # stream[cursor + 1]
    BY <1>2, <2>1 DEF OnceInStream, Entries
  <2>3. Unstarted(stream[cursor + 1])
    BY <1>3, <2>1, <2>2 DEF OnceInStream
  <2>4. \A s \in Sub : rows'[<<stream'[cursor + 1], s>>].status = "none"
    BY <1>2, <2>1, <2>3 DEF Unstarted, Exists, storeVars
  <2> QED
    BY <1>2, <2>1, <2>4 DEF OnceDelivered, Unstarted, Exists
<1>7. CASE ListSubs(w)
  <2>1. PICK i \in msgs[w] :
          /\ entry'[w] = i /\ msgs'[w] = msgs[w] \ {i} /\ todo'[w] \subseteq Sub
    BY <1>1, <1>7 DEF ListSubs, Oldest, WorkerTypeOK
  <2>2. /\ pc[w] = "subs" /\ pc'[w] = "attempt" /\ UNCHANGED <<pending, batch, storeVars>>
        /\ entry[w] = 0
    BY <1>1, <1>7 DEF ListSubs, Goto, WorkerTypeOK, LocalsReady, streamVars
  <2>3. /\ i # 0 /\ batch[w] = {} /\ pending \subseteq msgs[w]
        /\ \A j \in msgs[w] : Unstarted(stream[j])
    BY <1>1, <1>2, <2>2 DEF OnceDelivered, Current
  <2>4. \A j \in msgs[w], s \in Sub : rows'[<<stream'[j], s>>].status = "none"
    BY <1>2, <2>2, <2>3 DEF Unstarted, Exists, storeVars
  <2> QED
    BY <2>1, <2>2, <2>3, <2>4 DEF OnceDelivered, Unstarted, Exists
<1>8. CASE Lookup(w)
  <2>1. /\ pc[w] = "attempt" /\ entry[w] # 0 /\ batch[w] = {} /\ todo[w] \subseteq Sub
        /\ UNCHANGED <<pending, entry, msgs, batch, storeVars>>
    BY <1>1, <1>8 DEF Lookup, LocalsReady, Current, WorkerTypeOK, streamVars
  <2>2. \A s \in todo[w] : ~Exists(<<stream[entry[w]], s>>)
    BY <2>1 DEF OnceDelivered
  <2>3. pc'[w] \notin {"post", "record"} /\ todo'[w] \subseteq todo[w]
    BY <1>1, <1>8, <2>2 DEF Lookup, Goto, WorkerTypeOK
  <2> QED
    BY <1>2, <2>1, <2>2, <2>3 DEF OnceDelivered, Unstarted, Exists, storeVars
<1>9. CASE CreateAttempt(w)
  <2>1. /\ pc[w] = "create" /\ pc'[w] = "post" /\ entry[w] # 0 /\ batch[w] = {}
        /\ UNCHANGED <<pending, entry, msgs, todo, batch>>
        /\ att[w] \in Attempt /\ att'[w].pair = att[w].pair /\ Create(att[w].pair)
    BY <1>1, <1>9, CreatedLemma
       DEF CreateAttempt, Goto, WorkerTypeOK, LocalsReady, Current, streamVars
  <2> DEFINE q == att[w].pair
  <2>2. q \in Pair /\ q[1] = stream[entry[w]] /\ entry[w] \in 1 .. cursor
    BY <1>1, <1>2, <2>1 DEF NothingDropped, Attempt, WorkerTypeOK
  <2>3. rows'[q].status = "pending" /\ Only(q)
    BY <1>1, <2>1, <2>2 DEF Create, Put, StoreTypeOK, Only
  <2>4. \A i \in msgs[w] : i \in 1 .. Len(stream) /\ i # entry[w]
    BY <1>2 DEF OnceDelivered
  <2>5. \A i \in msgs[w] : stream[i] # stream[entry[w]] /\ stream[i] \in Event
    BY <1>2, <1>3, <2>2, <2>4 DEF OnceInStream, Entries
  <2>6. \A i \in msgs[w], s \in Sub : rows'[<<stream'[i], s>>].status = "none"
    <3>1. \A i \in msgs[w], s \in Sub :
            /\ <<stream[i], s>> \in Pair \ {q}
            /\ rows[<<stream[i], s>>].status = "none"
      BY <2>2, <2>5 DEF OnceDelivered, Unstarted, Exists, Pair
    <3> QED
      BY <1>2, <2>3, <3>1 DEF Only
  <2>7. \A s \in todo[w] : rows'[<<stream[entry[w]], s>>].status # "none" => s = q[2]
    <3>1. \A s \in todo[w] : ~Exists(<<stream[entry[w]], s>>) /\ s \in Sub
      BY <1>1, <2>1 DEF OnceDelivered, WorkerTypeOK
    <3>2. \A s \in Sub : <<stream[entry[w]], s>> \in Pair
      BY <1>2, <1>3, <2>2 DEF Pair
    <3> QED
      BY <2>2, <2>3, <3>1, <3>2 DEF Exists, Only
  <2> QED
    BY <1>2, <2>1, <2>3, <2>6, <2>7 DEF OnceDelivered, Unstarted, Exists, FailedForGood
<1>10. CASE Ack(w)
  <2>1. /\ pc[w] = "attempt" /\ pc'[w] = "subs" /\ todo[w] = {} /\ entry'[w] = 0
        /\ pending' = pending \ {entry[w]} /\ batch[w] = {}
        /\ UNCHANGED <<msgs, todo, batch, storeVars>>
    BY <1>1, <1>10 DEF Ack, XAck, Goto, WorkerTypeOK, LocalsReady, Current
  <2>2. pending' \subseteq msgs[w] /\ 0 \notin msgs[w] /\ \A i \in msgs[w] : Unstarted(stream[i])
    <3>1. pending' \subseteq msgs[w] /\ \A i \in msgs[w] : Unstarted(stream[i])
      BY <2>1 DEF OnceDelivered
    <3>2. 0 \notin msgs[w]
      BY <1>2
    <3> QED
      BY <3>1, <3>2
  <2>3. \A i \in msgs[w], s \in Sub : rows'[<<stream'[i], s>>].status = "none"
    BY <1>2, <2>1, <2>2 DEF Unstarted, Exists, storeVars
  <2> QED
    BY <2>1, <2>2, <2>3 DEF OnceDelivered, Unstarted, Exists
<1>11. CASE Post(w)
  <2>1. /\ pc[w] = "post" /\ pc'[w] = "record"
        /\ UNCHANGED <<pending, entry, msgs, todo, batch, att, storeVars>>
    BY <1>1, <1>11 DEF Post, Goto, WorkerTypeOK, streamVars
  <2> QED
    BY <1>2, <2>1 DEF OnceDelivered, Unstarted, Exists, FailedForGood, storeVars
<1>12. CASE Record(w)
  <2>1. /\ pc[w] = "record" /\ att[w] \in Attempt /\ att[w] = Copy(att[w].pair)
        /\ Exists(att[w].pair) /\ Saves(att[w], answer[w])
        /\ UNCHANGED <<pending, entry, msgs, batch>>
    BY <1>1, <1>12 DEF Record, NextDelivery, LocalsReady, Current, streamVars
  <2> DEFINE q == att[w].pair
  <2>2. q \in Pair /\ Saved(q, answer[w]) /\ Only(q)
    BY <1>1, <2>1, SavedLemma
  <2>3. \A p \in Pair : Exists(p)' => Exists(p)
    BY <2>1, <2>2 DEF Only, Exists
  <2>4. \A p \in Pair \ {q} : FailedForGood(p)' <=> FailedForGood(p)
    BY <2>2 DEF Only, FailedForGood
  <2>5. CASE entry[w] # 0
    <3>1. /\ pc'[w] = "attempt" /\ todo'[w] = todo[w] \ {q[2]} /\ batch[w] = {}
          /\ todo[w] \subseteq Sub
      BY <1>1, <1>12, <2>5 DEF Record, NextDelivery, Goto, WorkerTypeOK, Current
    <3>2. \A i \in msgs[w] : stream[i] \in Event /\ Unstarted(stream[i])
      BY <1>2, <1>3 DEF OnceDelivered
    <3>3. \A i \in msgs[w], s \in Sub : rows'[<<stream'[i], s>>].status = "none"
      BY <1>2, <2>3, <3>2 DEF Unstarted, Pair, Exists
    <3>4. entry[w] \in 1 .. Len(stream)
      BY <1>1, <1>2, <2>5 DEF WorkerTypeOK
    <3>5. \A s \in todo'[w] : rows'[<<stream'[entry'[w]], s>>].status = "none"
      <4>1. \A s \in todo'[w] : ~Exists(<<stream[entry[w]], s>>) /\ s \in Sub
        BY <2>1, <2>5, <3>1 DEF OnceDelivered
      <4>2. \A s \in todo'[w] : <<stream[entry[w]], s>> \in Pair
        BY <1>3, <3>4, <4>1 DEF Pair
      <4> QED
        BY <1>2, <2>1, <2>3, <4>1, <4>2 DEF Exists
    <3> QED
      BY <2>1, <2>5, <3>1, <3>3, <3>5 DEF OnceDelivered, Unstarted, Exists
  <2>6. CASE entry[w] = 0
    <3>1. pc'[w] = "load" /\ todo'[w] = todo[w] /\ msgs[w] = {}
      BY <1>1, <1>12, <2>1, <2>6 DEF Record, NextDelivery, Goto, WorkerTypeOK, OnceDelivered
    <3>2. \A a \in batch[w] : a.pair \in Pair \ {q}
      BY <1>1, <2>1 DEF Current, WorkerTypeOK, Attempt
    <3> QED
      BY <2>1, <2>4, <2>6, <3>1, <3>2 DEF OnceDelivered
  <2> QED
    BY <2>5, <2>6
<1>13. CASE ListRetries(w)
  <2>1. PICK due \in PendingRetries(RetryBatch) : batch'[w] = {Copy(p) : p \in due}
    BY <1>1, <1>13 DEF ListRetries, WorkerTypeOK
  <2>2. \A p \in due : ~FailedForGood(p) /\ Copy(p).pair = p
    BY <2>1 DEF PendingRetries, DueRows, FailedForGood, Copy
  <2>3. /\ pc[w] = "retries" /\ pc'[w] = "load"
        /\ UNCHANGED <<pending, entry, msgs, storeVars>>
    BY <1>1, <1>13 DEF ListRetries, Goto, WorkerTypeOK, streamVars
  <2>4. \A a \in batch'[w] : ~FailedForGood(a.pair)
    BY <2>1, <2>2
  <2> QED
    BY <1>4, <2>3, <2>4 DEF OnceDelivered, FailedForGood, storeVars
<1>14. CASE Load(w)
  <2>1. PICK a \in batch[w] : /\ batch'[w] = batch[w] \ {a}
                              /\ \/ att'[w] = a /\ pc'[w] = "post"
                                 \/ pc'[w] = "load"
    BY <1>1, <1>14 DEF Load, Goto, WorkerTypeOK
  <2>2. pc[w] = "load" /\ UNCHANGED <<pending, entry, msgs, storeVars>>
    BY <1>14 DEF Load, streamVars
  <2> QED
    BY <1>4, <2>1, <2>2 DEF OnceDelivered, FailedForGood, storeVars
<1>15. CASE /\ UNCHANGED <<storeVars, pending, entry, msgs, batch>> /\ entry[w] = 0
            /\ pc'[w] \notin {"subs", "post", "record"} /\ msgs[w] = {}
  BY <1>15 DEF OnceDelivered, FailedForGood, storeVars
<1>16. \/ Claim(w) \/ Read(w) \/ ListSubs(w) \/ Lookup(w) \/ CreateAttempt(w) \/ Ack(w)
       \/ Post(w) \/ Record(w) \/ ListRetries(w) \/ Load(w)
       \/ /\ UNCHANGED <<storeVars, pending, entry, msgs, batch>> /\ entry[w] = 0
          /\ pc'[w] \notin {"subs", "post", "record"} /\ msgs[w] = {}
  BY <1>1, <1>4
     DEF Works, Start, ClaimNoGroup, ReadTimeout, MessagesDone, RetriesDone,
         XGroupCreate, Goto, WorkerTypeOK, LocalsReady, streamVars
<1> QED
  BY <1>5, <1>6, <1>7, <1>8, <1>9, <1>10, <1>11, <1>12, <1>13, <1>14, <1>15, <1>16

LEMMA OnceStep ==
  ASSUME OneWorker, Typing, Kept, Sole, Once, [Next]_vars
  PROVE  Once'
<1> SUFFICES ASSUME faults' = 0
             PROVE  OnceInStream' /\ \A w \in Worker : OnceDelivered(w)'
  BY DEF Once
<1>1. OnceInStream /\ \A w \in Worker : OnceDelivered(w)
  BY CalmStep DEF Once
<1>2. /\ StreamTypeOK /\ StoreTypeOK /\ WorkerTypeOK
      /\ \A w \in Worker : LocalsReady(w)
      /\ cursor \in Nat /\ Len(stream) \in Nat /\ cursor <= Len(stream)
  BY DEF Typing, TypeOK, StreamTypeOK
<1>3. ASSUME UNCHANGED <<pending, workerVars>>,
             UNCHANGED storeVars \/ \E p \in Pair : RetryComesDue(p),
             NEW w \in Worker
      PROVE  OnceDelivered(w)'
  <2>1. \A p \in Pair : /\ Exists(p)' <=> Exists(p)
                        /\ FailedForGood(p)' <=> FailedForGood(p)
    BY <1>2, <1>3 DEF RetryComesDue, StoreTypeOK, Row, Exists, FailedForGood, storeVars
  <2>2. /\ \A i \in 1 .. cursor : stream'[i] = stream[i] /\ stream[i] \in Event
        /\ msgs[w] \subseteq 1 .. cursor /\ entry[w] \in 0 .. cursor /\ todo[w] \subseteq Sub
    <3>1. \A i \in 1 .. cursor : stream'[i] = stream[i]
      BY EntriesStep
    <3>2. \A i \in 1 .. cursor : stream[i] \in Event
      BY <1>2 DEF StreamTypeOK
    <3>3. msgs[w] \subseteq 1 .. cursor /\ entry[w] \in 0 .. cursor /\ todo[w] \subseteq Sub
      BY <1>2 DEF WorkerTypeOK
    <3> QED
      BY <3>1, <3>2, <3>3
  <2>3. \A i \in msgs[w], s \in Sub : rows'[<<stream'[i], s>>].status = "none"
    BY <1>1, <2>1, <2>2 DEF OnceDelivered, Unstarted, Exists, Pair
  <2>4. ASSUME entry[w] # 0, NEW s \in todo[w], rows'[<<stream'[entry[w]], s>>].status # "none"
        PROVE  pc[w] \in {"post", "record"} /\ att[w].pair[2] = s
    <3>1. stream'[entry[w]] = stream[entry[w]] /\ <<stream[entry[w]], s>> \in Pair
      BY <1>2, <2>2, <2>4 DEF Pair
    <3> QED
      BY <1>1, <2>1, <2>4, <3>1 DEF OnceDelivered, Exists
  <2>5. /\ pc[w] \in {"post", "record"} => ~FailedForGood(att[w].pair)'
        /\ \A a \in batch[w] : ~FailedForGood(a.pair)'
    <3>1. /\ pc[w] \in {"post", "record"} => att[w].pair \in Pair
          /\ \A a \in batch[w] : a.pair \in Pair
      BY <1>2 DEF LocalsReady, WorkerTypeOK, Attempt
    <3> QED
      BY <1>1, <1>3, <2>1, <3>1 DEF OnceDelivered, FailedForGood, workerVars
  <2>6. UNCHANGED <<pending, pc, entry, msgs, todo, batch, att>>
    BY <1>3 DEF workerVars
  <2> QED
    BY <1>1, <2>3, <2>4, <2>5, <2>6 DEF OnceDelivered, Unstarted, Exists, FailedForGood
<1>4. ASSUME NEW e \in Event, StoreEvent(e) \/ EnqueueEvent(e)
      PROVE  UNCHANGED pending
  BY <1>2, <1>4, IngestStream DEF IngestStep
<1>5. ASSUME NEW v \in Worker, Works(v), NEW w \in Worker
      PROVE  OnceDelivered(w)'
  BY <1>1, <1>5, DeliveredStep DEF OneWorker
<1> QED
  BY <1>1, <1>3, <1>4, <1>5, CalmStep, InStreamStep

LEMMA OnceInvariant == OneWorker => (Spec => []Once)
<1> SUFFICES ASSUME OneWorker PROVE Spec => []Once
  OBVIOUS
<1>1. Init => Once
  BY DEF Init, StreamInit, IngestInit, StoreInit, NoRow, WorkerInit, Once, OnceInStream,
         OnceDelivered, Unstarted, Exists, Entries, Queued, Pair
<1>2. Typing /\ Kept /\ Sole /\ Once /\ [Next]_vars => Once'
  BY OnceStep
<1> QED
  BY <1>1, <1>2, TypingInvariant, KeptInvariant, SoleInvariant, PTL DEF Spec

(* The invariant that one worker keeps, as TLC checks it.                  *)
THEOREM OneWorkerInvariance == OneWorker /\ PostsTold => (Spec => []OneWorkerInv)
<1> SUFFICES ASSUME OneWorker, PostsTold PROVE Spec => []OneWorkerInv
  OBVIOUS
<1>1. Sole /\ Counted /\ Once => OneWorkerInv
  BY DEF Sole, Once, OneWorkerInv
<1> QED
  BY <1>1, SoleInvariant, CountedInvariant, OnceInvariant, PTL

(* A delivery is given up for good by the UPDATE of a worker that, as long *)
(* as nothing fails, holds no delivery that was given up before.           *)
LEMMA FailedStep ==
  ASSUME OneWorker, MaxFaults = 0, Typing, Sole, Once, [Next]_vars, NEW p \in Pair,
         FailedForGood(p)
  PROVE  FailedForGood(p)'
<1>1. faults = 0 /\ \A w \in Worker : OnceDelivered(w)
  BY DEF Typing, TypeOK, FaultTypeOK, Once
<1>2. rows[p].status = "failed" /\ rows[p].next = "null"
  BY DEF FailedForGood
<1>3. CASE UNCHANGED storeVars
  BY <1>3 DEF FailedForGood, storeVars
<1>4. ASSUME NEW q \in Pair, Only(q), q # p
      PROVE  FailedForGood(p)'
  BY <1>4 DEF FailedForGood, Only
<1>5. ASSUME NEW w \in Worker, NEW q \in Pair, q = att[w].pair, Only(q),
             \/ pc[w] = "create" /\ ~Exists(q)
             \/ pc[w] = "record"
      PROVE  FailedForGood(p)'
  <2>1. q # p
    BY <1>1, <1>2, <1>5 DEF OnceDelivered, Exists
  <2> QED
    BY <1>4, <1>5, <2>1
<1>6. ASSUME NEW q \in Pair, rows[q].next = "later", Only(q)
      PROVE  FailedForGood(p)'
  BY <1>2, <1>4, <1>6
<1>7. (\A w \in Worker : Current(w)) /\ Numbered
  BY DEF Sole
<1> QED
  BY <1>3, <1>5, <1>6, <1>7, TableStep

(* Where nothing fails, a delivery that was given up for good is never     *)
(* taken up again.                                                         *)
THEOREM FailureFinal == OneWorker /\ MaxFaults = 0 => (Spec => FailureIsFinal)
<1> SUFFICES ASSUME OneWorker, MaxFaults = 0 PROVE Spec => FailureIsFinal
  OBVIOUS
<1> DEFINE Step == \A p \in Pair : FailedForGood(p) => FailedForGood(p)'
<1>1. Typing /\ Sole /\ Once /\ [Next]_vars => [Step]_vars
  BY FailedStep
<1> QED
  BY <1>1, SoleInvariant, TypingInvariant, OnceInvariant, PTL DEF Spec, FailureIsFinal

-----------------------------------------------------------------------------
(* Until something fails, a row counts the POSTs of its delivery: all but  *)
(* the one that is next have been made, and where that one has been made,  *)
(* its answer is in hand or has ended the delivery.                        *)
Evaluated(p) == \E w \in Worker : pc[w] = "record" /\ att[w].pair = p

Spent(p) ==
  /\ posts[p] <= rows[p].number
  /\ Exists(p) /\ posts[p] = rows[p].number =>
       Success(p) \/ FailedForGood(p) \/ Evaluated(p)

AllSpent == faults = 0 => \A p \in Pair : Spent(p)

LEMMA SpentByWorker ==
  ASSUME OneWorker, Typing, Sole, NEW w \in Worker, Works(w), OnceDelivered(w),
         \A q \in Pair : Spent(q), NEW p \in Pair
  PROVE  Spent(p)'
<1>1. /\ StoreTypeOK /\ WorkerTypeOK /\ LocalsReady(w) /\ Current(w) /\ Numbered
      /\ rows[p] \in Row /\ rows[p].number \in Nat /\ posts[p] \in Nat
      /\ posts \in [Pair -> Nat]
  BY DEF Typing, TypeOK, StoreTypeOK, WorkerTypeOK, Row, Sole
<1>2. Evaluated(p) <=> pc[w] = "record" /\ att[w].pair = p
  BY DEF Evaluated, OneWorker
<1>3. ASSUME posts'[p] = posts[p], rows'[p] = rows[p], ~Evaluated(p)
      PROVE  Spent(p)'
  BY <1>3 DEF Spent, Exists, Success, FailedForGood
<1>4. CASE Post(w)
  <2>1. /\ pc[w] = "post" /\ pc'[w] = "record" /\ att'[w] = att[w] /\ rows' = rows
        /\ att[w].pair \in Pair
        /\ posts' = [posts EXCEPT ![att[w].pair] = IF @ < PostBound THEN @ + 1 ELSE @]
    BY <1>1, <1>4 DEF Post, Goto, WorkerTypeOK, LocalsReady, Attempt, storeVars
  <2>2. CASE p # att[w].pair
    BY <1>1, <1>2, <1>3, <2>1, <2>2
  <2>3. CASE p = att[w].pair
    <3>1. Exists(p) /\ ~Success(p) /\ ~FailedForGood(p)
      BY <1>1, <2>1, <2>3 DEF Current, OnceDelivered
    <3>2. posts[p] <= rows[p].number /\ posts[p] # rows[p].number
      BY <1>2, <2>1, <3>1 DEF Spent
    <3>3. posts'[p] <= posts[p] + 1 /\ posts'[p] \in Nat
      BY <1>1, <2>1, <2>3
    <3>4. Evaluated(p)'
      BY <2>1, <2>3 DEF Evaluated
    <3> QED
      BY <1>1, <2>1, <3>2, <3>3, <3>4 DEF Spent
  <2> QED
    BY <2>2, <2>3
<1>5. CASE Record(w)
  <2>1. /\ pc[w] = "record" /\ posts' = posts /\ att[w] \in Attempt
        /\ att[w] = Copy(att[w].pair) /\ Saves(att[w], answer[w])
    BY <1>1, <1>5 DEF Record, NextDelivery, history, Current, LocalsReady
  <2>2. Saved(att[w].pair, answer[w]) /\ Only(att[w].pair)
    BY <1>1, <2>1, SavedLemma
  <2>3. CASE p # att[w].pair
    BY <1>2, <1>3, <2>1, <2>2, <2>3 DEF Only
  <2>4. CASE p = att[w].pair
    <3>1. posts[p] <= rows[p].number
      BY DEF Spent
    <3>2. \/ Success(p)' /\ rows'[p].number = rows[p].number
          \/ FailedForGood(p)' /\ rows'[p].number = rows[p].number
          \/ rows'[p].number = rows[p].number + 1
      BY <2>2, <2>4 DEF Saved, Success, FailedForGood
    <3> QED
      BY <1>1, <2>1, <3>1, <3>2 DEF Spent
  <2> QED
    BY <2>3, <2>4
<1>6. CASE ~Post(w) /\ ~Record(w)
  <2>1. posts' = posts /\ pc[w] # "record"
    BY <1>6 DEF Works, Start, Claim, ClaimNoGroup, Read, ReadTimeout, ListSubs,
                MessagesDone, Lookup, CreateAttempt, Ack, ListRetries, Load, RetriesDone,
                history, workerVars
  <2>2. CASE UNCHANGED storeVars
    BY <1>2, <1>3, <2>1, <2>2 DEF storeVars
  <2>3. CASE pc[w] = "create" /\ Create(att[w].pair)
    <3>1. att[w].pair \in Pair /\ ~Exists(att[w].pair) /\ rows[att[w].pair].number = 0
      BY <1>1, <2>3 DEF Current, LocalsReady, Attempt, Numbered
    <3>2. Only(att[w].pair) /\ rows'[att[w].pair].number = 1
      BY <1>1, <2>3, <3>1 DEF Create, Put, StoreTypeOK, Only
    <3>3. CASE p = att[w].pair
      BY <1>1, <2>1, <3>1, <3>2, <3>3 DEF Spent
    <3> QED
      BY <1>2, <1>3, <2>1, <3>2, <3>3 DEF Only
  <2> QED
    BY <1>6, <2>1, <2>2, <2>3, WorkerStore
<1> QED
  BY <1>4, <1>5, <1>6

LEMMA SpentStep ==
  ASSUME OneWorker, Typing, Sole, Once, AllSpent, [Next]_vars
  PROVE  AllSpent'
<1> SUFFICES ASSUME faults' = 0, NEW p \in Pair
             PROVE  Spent(p)'
  BY DEF AllSpent
<1>1. faults = 0 /\ \A q \in Pair : Spent(q)
  BY CalmStep DEF AllSpent
<1>2. CASE UNCHANGED <<storeVars, workerVars>>
  BY <1>1, <1>2 DEF storeVars, workerVars, Spent, Evaluated, Exists, Success, FailedForGood
<1>3. ASSUME NEW q \in Pair, RetryComesDue(q), UNCHANGED workerVars
      PROVE  Spent(p)'
  <2>1. /\ rows'[p].number = rows[p].number /\ rows'[p].status = rows[p].status
        /\ rows[p].next = "null" => rows'[p].next = "null"
    BY <1>3 DEF Typing, TypeOK, StoreTypeOK, Row, RetryComesDue
  <2> QED
    BY <1>1, <1>3, <2>1
       DEF workerVars, Spent, Evaluated, Exists, Success, FailedForGood
<1>4. ASSUME NEW w \in Worker, Works(w)
      PROVE  Spent(p)'
  BY <1>1, <1>4, SpentByWorker DEF Once
<1> QED
  BY <1>2, <1>3, <1>4, CalmStep

(* Until something fails, one worker POSTs a delivery at most MaxRetries   *)
(* times, through both of its loops and for as long as it runs.            *)
THEOREM PostsBounded == OneWorker => (Spec => []PostsWithinRetries)
<1> SUFFICES ASSUME OneWorker PROVE Spec => []PostsWithinRetries
  OBVIOUS
<1>1. Init => AllSpent
  BY DEF Init, StoreInit, NoRow, WorkerInit, AllSpent, Spent, Exists
<1>2. Typing /\ Sole /\ Once /\ AllSpent /\ [Next]_vars => AllSpent'
  BY SpentStep
<1>3. Typing /\ Sole /\ AllSpent => PostsWithinRetries
  <2> SUFFICES ASSUME Typing, Sole, AllSpent, faults = 0, NEW p \in Pair
               PROVE  posts[p] <= MaxRetries
    BY DEF PostsWithinRetries
  <2>1. posts[p] \in Nat /\ rows[p].number \in Nat /\ MaxRetries \in Nat
    BY WorkerAssumption DEF Typing, TypeOK, WorkerTypeOK, StoreTypeOK, Row
  <2>2. posts[p] <= rows[p].number /\ rows[p].number <= MaxRetries
    BY DEF AllSpent, Spent, Sole, Numbered
  <2> QED
    BY <2>1, <2>2
<1> QED
  BY <1>1, <1>2, <1>3, SoleInvariant, OnceInvariant, TypingInvariant, PTL DEF Spec

-----------------------------------------------------------------------------
(* The state of a delivery depends on its row alone. *)
LEMMA PhaseLemma ==
  ASSUME NEW p \in Pair
  PROVE  /\ rows'[p] = rows[p] => PhaseOf(p)' = PhaseOf(p)
         /\ ~Exists(p) => PhaseOf(p) = "none"
         /\ Exists(p) /\ ~Success(p) =>
              PhaseOf(p) = IF FailedForGood(p) THEN "failed"
                           ELSE IF rows[p].status = "pending" THEN "pending"
                                                              ELSE "retryable"
         /\ rows'[p].status = "pending" => PhaseOf(p)' = "pending"
         /\ rows'[p].status = "success" => PhaseOf(p)' = "success"
         /\ rows'[p].status = "failed" /\ rows'[p].next = "null" => PhaseOf(p)' = "failed"
         /\ rows'[p].status = "failed" /\ rows'[p].next = "later" => PhaseOf(p)' = "retryable"
         /\ rows[p] \in Row /\ rows[p].next = "later"
              /\ rows'[p] = [rows[p] EXCEPT !.next = "due"] => PhaseOf(p)' = PhaseOf(p)
BY DEF PhaseOf, Exists, Success, FailedForGood, Row

(* With one worker the reply to a POST is what that worker holds. *)
LEMMA ReplyLemma ==
  ASSUME OneWorker, NEW w \in Worker, NEW p \in Pair
  PROVE  /\ ReplyTo(p) = IF pc[w] = "record" /\ att[w].pair = p THEN answer[w] ELSE None
         /\ ReplyTo(p)' = IF pc'[w] = "record" /\ att'[w].pair = p THEN answer'[w] ELSE None
<1>1. ASSUME NEW S, S \subseteq Worker
      PROVE  S = {} \/ (w \in S /\ (CHOOSE v \in S : TRUE) = w)
  BY <1>1 DEF OneWorker
<1> DEFINE at == {v \in Worker : pc[v] = "record" /\ att[v].pair = p}
           next == {v \in Worker : pc'[v] = "record" /\ att'[v].pair = p}
<1>2. /\ ReplyTo(p) = IF at = {} THEN None ELSE answer[CHOOSE v \in at : TRUE]
      /\ ReplyTo(p)' = IF next = {} THEN None ELSE answer'[CHOOSE v \in next : TRUE]
  BY DEF ReplyTo
<1>3. /\ at = {} <=> ~(pc[w] = "record" /\ att[w].pair = p)
      /\ next = {} <=> ~(pc'[w] = "record" /\ att'[w].pair = p)
  BY DEF OneWorker
<1>4. /\ at = {} \/ (CHOOSE v \in at : TRUE) = w
      /\ next = {} \/ (CHOOSE v \in next : TRUE) = w
  BY <1>1
<1> QED
  BY <1>2, <1>3, <1>4

(* How much trouble a step may add. *)
LEMMA TroubleStep ==
  ASSUME Typing, [Next]_vars
  PROVE  /\ faults \in Nat /\ faults' \in {faults, faults + 1}
         /\ \A w \in Worker : Fails(w) => faults' = faults + 1
<1>1. faults \in Nat
  BY FaultsAssumption DEF Typing, TypeOK, FaultTypeOK
<1>2. \A kind : Fault(kind) => faults' = faults + 1
  BY DEF Fault
<1>3. \A w \in Worker : Fails(w) => faults' = faults + 1
  BY <1>2
     DEF Fails, StartFails, ClaimFails, ReadFails, ListSubsFails, LookupFails,
         CreateAttemptFails, AckFails, RecordFails, ListRetriesFails, LoadFails, Crash
<1>4. \A w \in Worker : Works(w) => UNCHANGED faults
  BY DEF Works, Start, Claim, ClaimNoGroup, Read, ReadTimeout, ListSubs,
         MessagesDone, Lookup, CreateAttempt, Ack, Post, Record, ListRetries, Load,
         RetriesDone
<1>5. \A e \in Event : Ingest(e) => faults' \in {faults, faults + 1}
  BY <1>2 DEF Ingest, IngestStep, StoreEvent, StoreFails, EnqueueEvent, EnqueueTwice,
              EnqueueFails, ServerCrash
<1> QED
  BY <1>1, <1>2, <1>3, <1>4, <1>5
     DEF Next, Administer, WorkerWorks, WorkerFails, Age, ComeDue, ServerStarts,
         RedisLosesData, vars

(* What a step does to the state of the deliveries. *)
SamePhase(p) == PhaseOf(p)' = PhaseOf(p) /\ rows'[p].number = rows[p].number
SameReply(p) == ReplyTo(p)' = ReplyTo(p)

LEMMA OthersSame ==
  ASSUME NEW p \in Pair, Only(p)
  PROVE  \A q \in Pair \ {p} : SamePhase(q)
BY PhaseLemma DEF Only, SamePhase

LEMMA ClockSame ==
  ASSUME StoreTypeOK, UNCHANGED storeVars \/ \E p \in Pair : RetryComesDue(p)
  PROVE  \A q \in Pair : SamePhase(q)
<1>1. CASE UNCHANGED storeVars
  BY <1>1, PhaseLemma DEF storeVars, SamePhase
<1>2. ASSUME NEW p \in Pair, RetryComesDue(p)
      PROVE  \A q \in Pair : SamePhase(q)
  <2>1. /\ Only(p) /\ rows[p] \in Row /\ rows[p].next = "later"
        /\ rows'[p] = [rows[p] EXCEPT !.next = "due"]
    BY <1>2 DEF RetryComesDue, StoreTypeOK, Only
  <2>2. PhaseOf(p)' = PhaseOf(p) /\ rows'[p].number = rows[p].number
    BY <2>1, PhaseLemma DEF Row
  <2> QED
    BY <2>1, <2>2, OthersSame DEF SamePhase
<1> QED
  BY <1>1, <1>2

(* Nothing happens to any delivery. *)
LEMMA Stutters ==
  ASSUME \A p \in Pair : SamePhase(p) /\ SameReply(p), faults' \in {faults, faults + 1}
  PROVE  Lifecycle!LifecycleNext
BY DEF SamePhase, SameReply, Lifecycle!LifecycleNext

(* An INSERT begins a delivery. *)
LEMMA Begins ==
  ASSUME NEW p \in Pair, Numbered, ~Exists(p), Only(p),
         rows'[p] = [number |-> 1, status |-> "pending", next |-> "null"],
         \A q \in Pair : SameReply(q)
  PROVE  Lifecycle!Begin(p)
<1>1. PhaseOf(p) = "none" /\ PhaseOf(p)' = "pending" /\ rows'[p].number = 1
  <2>1. rows'[p].status = "pending" /\ rows'[p].number = 1
    OBVIOUS
  <2> QED
    BY <2>1, PhaseLemma
<1>2. \A q \in Pair \ {p} : PhaseOf(q)' = PhaseOf(q) /\ rows'[q].number = rows[q].number
  BY OthersSame DEF SamePhase
<1>3. \A q \in Pair : ReplyTo(q)' = ReplyTo(q)
  BY DEF SameReply
<1> QED
  BY <1>1, <1>2, <1>3 DEF Lifecycle!Begin

(* A POST is made of a delivery that may be attempted. *)
LEMMA Sends ==
  ASSUME NEW p \in Pair, Exists(p), ~Success(p), FailedForGood(p) => faults > 0,
         ReplyTo(p) = None, ReplyTo(p)' \in Answers,
         \A q \in Pair : SamePhase(q), \A q \in Pair \ {p} : SameReply(q)
  PROVE  Lifecycle!Send(p)
<1>1. \/ PhaseOf(p) \in {"pending", "retryable"}
      \/ PhaseOf(p) = "failed" /\ faults > 0
  BY PhaseLemma
<1>2. \A q \in Pair : PhaseOf(q)' = PhaseOf(q) /\ rows'[q].number = rows[q].number
  BY DEF SamePhase
<1>3. \A q \in Pair \ {p} : ReplyTo(q)' = ReplyTo(q)
  BY DEF SameReply
<1>4. ReplyTo(p)' \in {"ok", "client", "retry", "lost"}
  BY WorkerAssumption
<1> QED
  BY <1>1, <1>2, <1>3, <1>4 DEF Lifecycle!Send

(* The UPDATE concludes what the reply calls for. *)
LEMMA Concludes ==
  ASSUME NEW p \in Pair, Numbered, rows[p].number \in Nat, Exists(p), ~Success(p), Only(p),
         ReplyTo(p) \in Answers, Saved(p, ReplyTo(p)), ReplyTo(p)' = None,
         \A q \in Pair \ {p} : SameReply(q)
  PROVE  \/ Lifecycle!Succeed(p) \/ Lifecycle!Reject(p)
         \/ Lifecycle!ScheduleRetry(p) \/ Lifecycle!GiveUp(p)
<1>1. MaxRetries \in Nat \ {0} /\ rows[p].number <= MaxRetries
  BY WorkerAssumption DEF Numbered
<1>2. \A q \in Pair \ {p} : PhaseOf(q)' = PhaseOf(q) /\ rows'[q].number = rows[q].number
  BY OthersSame DEF SamePhase
<1>3. \A q \in Pair \ {p} : ReplyTo(q)' = ReplyTo(q)
  BY DEF SameReply
<1>4. CASE ReplyTo(p) = "ok"
  <2>1. PhaseOf(p)' = "success" /\ rows'[p].number = rows[p].number
    <3>1. rows'[p].status = "success" /\ rows'[p].number = rows[p].number
      BY <1>4 DEF Saved
    <3> QED
      BY <3>1, PhaseLemma
  <2> QED
    BY <1>2, <1>3, <1>4, <2>1 DEF Lifecycle!Succeed, Lifecycle!Conclude
<1>5. CASE ReplyTo(p) = "client"
  <2>1. PhaseOf(p)' = "failed" /\ rows'[p].number = rows[p].number
    <3>1. rows'[p].status = "failed" /\ rows'[p].next = "null" /\ rows'[p].number = rows[p].number
      BY <1>5 DEF Saved
    <3> QED
      BY <3>1, PhaseLemma
  <2> QED
    BY <1>2, <1>3, <1>5, <2>1 DEF Lifecycle!Reject, Lifecycle!Conclude
<1>6. CASE ReplyTo(p) \in {"retry", "lost"} /\ rows[p].number + 1 > MaxRetries
  <2>1. PhaseOf(p)' = "failed" /\ rows'[p].number = rows[p].number
    <3>1. rows'[p].status = "failed" /\ rows'[p].next = "null" /\ rows'[p].number = rows[p].number
      BY <1>1, <1>6 DEF Saved
    <3> QED
      BY <3>1, PhaseLemma
  <2>2. rows[p].number = MaxRetries
    BY <1>1, <1>6
  <2> QED
    BY <1>2, <1>3, <1>6, <2>1, <2>2 DEF Lifecycle!GiveUp, Lifecycle!Conclude
<1>7. CASE ReplyTo(p) \in {"retry", "lost"} /\ rows[p].number + 1 <= MaxRetries
  <2>1. PhaseOf(p)' = "retryable" /\ rows'[p].number = rows[p].number + 1
    <3>1. rows'[p].status = "failed" /\ rows'[p].next = "later" /\ rows'[p].number = rows[p].number + 1
      BY <1>1, <1>7 DEF Saved
    <3> QED
      BY <3>1, PhaseLemma
  <2>2. rows[p].number < MaxRetries
    BY <1>1, <1>7
  <2> QED
    BY <1>2, <1>3, <1>7, <2>1, <2>2 DEF Lifecycle!ScheduleRetry, Lifecycle!Conclude
<1> QED
  BY <1>1, <1>4, <1>5, <1>6, <1>7 DEF Saved

(* A crash, or an UPDATE that is not made, forgets the reply in hand.      *)
LEMMA Forgets ==
  ASSUME NEW p \in Pair, faults \in Nat, faults' = faults + 1,
         ReplyTo(p) \in Answers, ReplyTo(p)' = None,
         \A q \in Pair : SamePhase(q), \A q \in Pair \ {p} : SameReply(q)
  PROVE  Lifecycle!Forget(p)
<1>1. \A q \in Pair : PhaseOf(q)' = PhaseOf(q) /\ rows'[q].number = rows[q].number
  BY DEF SamePhase
<1>2. \A q \in Pair \ {p} : ReplyTo(q)' = ReplyTo(q)
  BY DEF SameReply
<1>3. ReplyTo(p) # None /\ faults' > faults
  BY WorkerAssumption
<1>4. [q \in Pair |-> PhaseOf(q)][p] = PhaseOf(p) /\ [q \in Pair |-> ReplyTo(q)][p] # None
  BY <1>3
<1>5. Lifecycle!Conclude(p, PhaseOf(p))
  BY <1>1, <1>2 DEF Lifecycle!Conclude
<1>6. UNCHANGED [q \in Pair |-> rows[q].number]
  BY <1>1
<1> QED
  BY <1>3, <1>4, <1>5, <1>6 DEF Lifecycle!Forget

(* A step of the worker is a step of the delivery it has in hand, or of    *)
(* none.                                                                   *)
LEMMA WorkerRefines ==
  ASSUME OneWorker, Typing, Kept, Sole, Once, [Next]_vars,
         NEW w \in Worker, Works(w) \/ Fails(w)
  PROVE  Lifecycle!LifecycleNext
<1>1. /\ StoreTypeOK /\ WorkerTypeOK /\ StoreTypeOK' /\ Numbered /\ Current(w)
      /\ LocalsReady(w) /\ LocalsReady(w)'
  BY TypingStep DEF Typing, TypeOK, Sole
<1>2. faults \in Nat /\ faults' \in {faults, faults + 1} /\ (Fails(w) => faults' = faults + 1)
  BY TroubleStep
<1>3. /\ \A p \in Pair : ReplyTo(p) = IF pc[w] = "record" /\ att[w].pair = p
                                      THEN answer[w] ELSE None
      /\ \A p \in Pair : ReplyTo(p)' = IF pc'[w] = "record" /\ att'[w].pair = p
                                       THEN answer'[w] ELSE None
  BY ReplyLemma
<1>4. pc[w] \in {"create", "post", "record"} => att[w] \in Attempt /\ att[w].pair \in Pair
  BY <1>1 DEF LocalsReady, Attempt
<1>5. ASSUME NEW q \in Pair, q = att[w].pair, pc[w] = "create", Create(q)
      PROVE  Lifecycle!LifecycleNext
  <2>1. ~Exists(q) /\ rows[q].number = 0
    BY <1>1, <1>5 DEF Current, Numbered
  <2>2. rows'[q] = [number |-> 1, status |-> "pending", next |-> "null"] /\ Only(q)
    BY <1>1, <1>5, <2>1 DEF Create, Put, StoreTypeOK, Only
  <2>3. pc'[w] # "record"
    BY <1>1, <1>5
       DEF Works, Fails, Start, Claim, ClaimNoGroup, Read, ReadTimeout, ListSubs,
           MessagesDone, Lookup, CreateAttempt, Ack, Post, Record, ListRetries, Load,
           RetriesDone, StartFails, ClaimFails, ReadFails, ListSubsFails, LookupFails,
           CreateAttemptFails, AckFails, RecordFails, ListRetriesFails, LoadFails, Crash,
           Abandon, Goto, WorkerTypeOK
  <2>4. \A p \in Pair : SameReply(p)
    BY <1>3, <1>5, <2>3 DEF SameReply
  <2>5. Lifecycle!Begin(q)
    BY <1>1, <2>1, <2>2, <2>4, Begins
  <2> QED
    BY <1>2, <2>1, <2>5 DEF Lifecycle!LifecycleNext, Lifecycle!Progress
<1>6. ASSUME NEW q \in Pair, q = att[w].pair, Post(w)
      PROVE  Lifecycle!LifecycleNext
  <2>1. /\ pc[w] = "post" /\ pc'[w] = "record" /\ att'[w] = att[w]
        /\ answer'[w] \in Answers /\ UNCHANGED storeVars
    BY <1>1, <1>6 DEF Post, Goto, WorkerTypeOK
  <2>2. Exists(q) /\ ~Success(q) /\ (FailedForGood(q) => faults > 0)
    BY <1>1, <1>2, <1>6, <2>1 DEF Current, Once, OnceDelivered
  <2>3. /\ ReplyTo(q) = None /\ ReplyTo(q)' \in Answers
        /\ \A p \in Pair \ {q} : SameReply(p)
    BY <1>3, <1>6, <2>1 DEF SameReply
  <2>4. \A p \in Pair : SamePhase(p)
    BY <1>1, <2>1, ClockSame
  <2>5. Lifecycle!Send(q)
    BY <2>2, <2>3, <2>4, Sends
  <2> QED
    BY <1>2, <2>5 DEF Lifecycle!LifecycleNext, Lifecycle!Progress
<1>7. ASSUME NEW q \in Pair, q = att[w].pair, pc[w] = "record", pc'[w] # "record",
             Saves(att[w], answer[w])
      PROVE  Lifecycle!LifecycleNext
  <2>1. /\ Exists(q) /\ ~Success(q) /\ att[w] = Copy(q)
        /\ answer[w] \in Answers /\ rows[q].number \in Nat
    BY <1>1, <1>4, <1>7 DEF Current, LocalsReady, StoreTypeOK, Row
  <2>2. Saved(q, answer[w]) /\ Only(q)
    BY <1>1, <1>4, <1>7, <2>1, SavedLemma
  <2>3. /\ ReplyTo(q) = answer[w] /\ ReplyTo(q)' = None
        /\ \A p \in Pair \ {q} : SameReply(p)
    BY <1>3, <1>7, <2>1 DEF SameReply
  <2>4. ReplyTo(q) \in Answers /\ Saved(q, ReplyTo(q))
    BY <2>1, <2>2, <2>3
  <2>5. \/ Lifecycle!Succeed(q) \/ Lifecycle!Reject(q)
        \/ Lifecycle!ScheduleRetry(q) \/ Lifecycle!GiveUp(q)
    BY <1>1, <2>1, <2>2, <2>3, <2>4, Concludes
  <2> QED
    BY <1>2, <2>1, <2>5 DEF Lifecycle!LifecycleNext, Lifecycle!Progress
<1>8. ASSUME NEW q \in Pair, q = att[w].pair, pc[w] = "record", pc'[w] # "record",
             UNCHANGED storeVars, Fails(w)
      PROVE  Lifecycle!LifecycleNext
  <2>1. answer[w] \in Answers
    BY <1>1, <1>8 DEF LocalsReady
  <2>2. /\ ReplyTo(q) = answer[w] /\ ReplyTo(q)' = None
        /\ \A p \in Pair \ {q} : SameReply(p)
    BY <1>3, <1>8, <2>1 DEF SameReply
  <2>3. \A p \in Pair : SamePhase(p)
    BY <1>1, <1>8, ClockSame
  <2>4. Lifecycle!Forget(q)
    BY <1>2, <1>8, <2>1, <2>2, <2>3, Forgets
  <2> QED
    BY <1>2, <2>1, <2>4 DEF Lifecycle!LifecycleNext, Lifecycle!Progress
<1>9. CASE pc[w] # "record" /\ pc'[w] # "record" /\ UNCHANGED storeVars
  <2>1. \A p \in Pair : SamePhase(p) /\ SameReply(p)
    BY <1>1, <1>3, <1>9, ClockSame DEF SameReply
  <2> QED
    BY <1>2, <2>1, Stutters
<1>10. CASE pc[w] = "record"
  <2>1. Record(w) \/ RecordFails(w) \/ Crash(w)
    BY <1>10
       DEF Works, Fails, Start, Claim, ClaimNoGroup, Read, ReadTimeout, ListSubs,
           MessagesDone, Lookup, CreateAttempt, Ack, Post, ListRetries, Load,
           RetriesDone, StartFails, ClaimFails, ReadFails, ListSubsFails, LookupFails,
           CreateAttemptFails, AckFails, ListRetriesFails, LoadFails
  <2>2. pc'[w] # "record"
    BY <1>1, <2>1 DEF Record, RecordFails, Crash, NextDelivery, Goto, WorkerTypeOK
  <2>3. Saves(att[w], answer[w]) \/ (UNCHANGED storeVars /\ Fails(w))
    BY <2>1 DEF Record, RecordFails, Crash, Fails
  <2> QED
    BY <1>4, <1>7, <1>8, <1>10, <2>2, <2>3
<1>11. CASE pc[w] # "record" /\ ~Post(w)
  <2>1. pc'[w] # "record"
    BY <1>1, <1>11
       DEF Works, Fails, Start, Claim, ClaimNoGroup, Read, ReadTimeout, ListSubs,
           MessagesDone, Lookup, CreateAttempt, Ack, Record, ListRetries, Load,
           RetriesDone, StartFails, ClaimFails, ReadFails, ListSubsFails, LookupFails,
           CreateAttemptFails, AckFails, RecordFails, ListRetriesFails, LoadFails, Crash,
           Abandon, Goto, WorkerTypeOK, workerVars
  <2> QED
    BY <1>4, <1>5, <1>9, <1>11, <2>1, WorkerStore
<1>12. CASE Post(w)
  BY <1>4, <1>6, <1>12 DEF Post
<1> QED
  BY <1>10, <1>11, <1>12

LEMMA NextRefines ==
  ASSUME OneWorker, Typing, Kept, Sole, Once, [Next]_vars
  PROVE  Lifecycle!LifecycleNext
<1>1. CASE \E w \in Worker : Works(w) \/ Fails(w)
  BY <1>1, WorkerRefines
<1>2. CASE UNCHANGED workerVars /\ (UNCHANGED storeVars \/ \E p \in Pair : RetryComesDue(p))
  <2>1. \A p \in Pair : SamePhase(p)
    BY <1>2, ClockSame DEF Typing, TypeOK
  <2>2. \A p \in Pair : SameReply(p)
    BY <1>2 DEF SameReply, ReplyTo, workerVars
  <2> QED
    BY <2>1, <2>2, TroubleStep, Stutters
<1> QED
  BY <1>1, <1>2, WhoseStep

(* One worker implements DeliveryLifecycle: it evaluates one POST of a     *)
(* delivery at a time, makes none after a success and, as long as nothing  *)
(* fails, evaluates every reply and never takes a failed delivery up       *)
(* again; what fails makes it forget the reply it holds, and no more.      *)
THEOREM LifecycleImplemented == OneWorker => (Spec => ImplementsLifecycle)
<1> SUFFICES ASSUME OneWorker PROVE Spec => ImplementsLifecycle
  OBVIOUS
<1>1. Init => Lifecycle!LifecycleInit
  <2> SUFFICES ASSUME Init PROVE Lifecycle!LifecycleInit
    OBVIOUS
  <2>1. \A p \in Pair : PhaseOf(p) = "none" /\ rows[p].number = 0
    <3>1. \A p \in Pair : ~Exists(p) /\ rows[p].number = 0
      BY DEF Init, StoreInit, NoRow, Exists
    <3> QED
      BY <3>1, PhaseLemma
  <2>2. \A p \in Pair : ReplyTo(p) = None
    BY DEF Init, WorkerInit, ReplyTo
  <2>3. faults = 0
    BY DEF Init, FaultInit
  <2> QED
    BY <2>1, <2>2, <2>3 DEF Lifecycle!LifecycleInit
<1>2. Typing /\ Kept /\ Sole /\ Once /\ [Next]_vars
        => [Lifecycle!LifecycleNext]_(Lifecycle!lifecycleVars)
  BY NextRefines
<1> QED
  BY <1>1, <1>2, TypingInvariant, KeptInvariant, SoleInvariant, OnceInvariant, PTL
     DEF Spec, ImplementsLifecycle, Lifecycle!LifecycleSpec
==============================================================================
