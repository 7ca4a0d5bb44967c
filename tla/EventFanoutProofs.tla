-------------------------- MODULE EventFanoutProofs --------------------------
(* Proofs about EventFanout. *)
EXTENDS EventFanout, TLAPS

(* Writing a row of the right form keeps the table's type, and no write    *)
(* ever removes a row.                                                     *)
LEMMA PutLemma ==
  ASSUME StoreTypeOK, NEW p \in Pair, NEW row \in Row, Put(p, row),
         row.status # "none"
  PROVE  /\ StoreTypeOK'
         /\ \A q \in Pair : Exists(q) => Exists(q)'
         /\ Exists(p)'
         /\ \A q \in Pair : Success(q)' => Success(q) \/ (q = p /\ row.status = "success")
BY DEF StoreTypeOK, Put, Exists, Success

(* The upsert leaves a pending row behind and makes no row a success. *)
LEMMA CreateLemma ==
  ASSUME StoreTypeOK, NEW p \in Pair, Create(p)
  PROVE  /\ StoreTypeOK'
         /\ \A q \in Pair : Exists(q) => Exists(q)'
         /\ Exists(p)'
         /\ \A q \in Pair : Success(q)' => Success(q)
<1> DEFINE new == [number |-> rows[p].number + 1, status |-> "pending", next |-> "null"]
<1>1. new \in Row
  BY DEF StoreTypeOK, Row
<1>2. Put(p, new) /\ new.status = "pending"
  BY DEF Create
<1> QED
  BY <1>1, <1>2, PutLemma

(* An UPDATE by an attempt's id writes that attempt's row or nothing. *)
LEMMA WriteLemma ==
  ASSUME StoreTypeOK, NEW a \in Attempt, NEW row \in Row, Write(a, row),
         row.status # "none"
  PROVE  /\ StoreTypeOK'
         /\ \A q \in Pair : Exists(q) => Exists(q)'
         /\ \A q \in Pair :
              Success(q)' => Success(q) \/ (q = a.pair /\ row.status = "success")
<1>1. CASE a.id = "row"
  BY <1>1, PutLemma DEF Write, Attempt
<1>2. CASE a.id # "row"
  BY <1>2 DEF Write, storeVars, StoreTypeOK, Exists, Success
<1> QED
  BY <1>1, <1>2

(* Whatever a worker saves keeps the table's type and every row, and only  *)
(* an "ok" makes a row a success.                                          *)
LEMMA SavesLemma ==
  ASSUME StoreTypeOK, NEW a \in Attempt, NEW ans, Saves(a, ans)
  PROVE  /\ StoreTypeOK'
         /\ \A q \in Pair : Exists(q) => Exists(q)'
         /\ \A q \in Pair : Success(q)' => Success(q) \/ (q = a.pair /\ ans = "ok")
<1> DEFINE status(st) == [rows[a.pair] EXCEPT !.status = st, !.next = "null"]
           retry == [number |-> a.number + 1, status |-> "failed", next |-> "later"]
<1>1. rows[a.pair] \in Row
  BY DEF StoreTypeOK, Attempt
<1>2. \A st \in {"success", "failed"} : status(st) \in Row /\ status(st).status = st
  BY <1>1 DEF Row
<1>3. retry \in Row /\ retry.status = "failed"
  BY DEF Row, Attempt
<1>4. \/ ans = "ok" /\ Write(a, status("success"))
      \/ Write(a, status("failed"))
      \/ Write(a, retry)
  BY DEF Saves, MarkFailure, UpdateStatus, IncrementAttempt
<1> QED
  BY <1>2, <1>3, <1>4, WriteLemma

-----------------------------------------------------------------------------
(* Every Redis command, and every fault of Redis, keeps the stream's type  *)
(* and moves the cursor only forward, over the entries there are.          *)
LEMMA CommandLemma ==
  ASSUME StreamTypeOK, NEW n,
         \/ XGroupCreate
         \/ XReadGroup
         \/ XAck(n)
         \/ XAutoClaim(n)
         \/ AgeEntry(n)
         \/ LoseStream
         \/ UNCHANGED streamVars
  PROVE  StreamTypeOK' /\ cursor' >= cursor /\ stream' = stream
<1>1. /\ Len(stream) \in Nat
      /\ cursor \in Nat
      /\ cursor <= Len(stream)
  BY DEF StreamTypeOK
<1>2. CASE XGroupCreate
  BY <1>1, <1>2 DEF StreamTypeOK, XGroupCreate
<1>3. CASE UNCHANGED streamVars
  BY <1>1, <1>3 DEF StreamTypeOK, streamVars
<1>4. CASE XReadGroup
  BY <1>1, <1>4 DEF StreamTypeOK, XReadGroup, HasNew
<1>5. ASSUME UNCHANGED <<stream, cursor, group, lost>>,
             pending' \subseteq pending, idle' \subseteq pending'
      PROVE  StreamTypeOK' /\ cursor' >= cursor /\ stream' = stream
  BY <1>1, <1>5 DEF StreamTypeOK
<1>6. CASE XAck(n)
  <2>1. idle \subseteq pending
    BY DEF StreamTypeOK
  <2> QED
    BY <1>5, <1>6, <2>1 DEF XAck
<1>7. CASE XAutoClaim(n) \/ AgeEntry(n)
  <2>1. idle \subseteq pending
    BY DEF StreamTypeOK
  <2> QED
    BY <1>5, <1>7, <2>1 DEF XAutoClaim, AgeEntry
<1>8. CASE LoseStream
  <2>1. lost' \subseteq 1 .. Len(stream)
    <3>1. 1 .. cursor \subseteq 1 .. Len(stream)
      BY <1>1
    <3>2. cursor + 1 .. Len(stream) \subseteq 1 .. Len(stream)
      BY <1>1
    <3>3. lost \subseteq 1 .. cursor /\ pending \subseteq 1 .. cursor
      BY DEF StreamTypeOK
    <3>4. lost' = lost \cup pending \cup (cursor + 1 .. Len(stream))
      BY <1>8 DEF LoseStream
    <3> QED
      BY <3>1, <3>2, <3>3, <3>4
  <2>2. pending' = {} /\ idle' = {} /\ group' \in BOOLEAN
    BY <1>8 DEF LoseStream
  <2>3. cursor' = Len(stream) /\ stream' = stream
    BY <1>8 DEF LoseStream
  <2> QED
    BY <1>1, <2>1, <2>2, <2>3 DEF StreamTypeOK
<1> QED
  BY <1>2, <1>3, <1>4, <1>6, <1>7, <1>8

(* XADD keeps the stream a sequence of events. *)
LEMMA AppendLemma ==
  ASSUME StreamTypeOK, NEW e \in Event, Len(stream) < MaxEntries
  PROVE  /\ Append(stream, e) \in Seq(Event)
         /\ Len(Append(stream, e)) = Len(stream) + 1
         /\ \A i \in 1 .. Len(stream) : Append(stream, e)[i] = stream[i]
BY DEF StreamTypeOK

(* A fault is counted within the bound. *)
LEMMA FaultLemma ==
  ASSUME FaultTypeOK, NEW kind, Fault(kind) \/ UNCHANGED faults
  PROVE  FaultTypeOK'
BY FaultsAssumption DEF FaultTypeOK, Fault

Typing == TypeOK /\ \A w \in Worker : LocalsReady(w)

(* A worker writes the table only by the INSERT and by the UPDATEs. *)
LEMMA WorkerStore ==
  ASSUME NEW w \in Worker, Works(w) \/ Fails(w)
  PROVE  \/ UNCHANGED storeVars
         \/ pc[w] = "create" /\ Create(att[w].pair)
         \/ pc[w] = "record" /\ Saves(att[w], answer[w])
BY DEF Works, Fails, Start, Claim, ClaimNoGroup, Read, ReadTimeout, ListSubs,
       MessagesDone, Lookup, CreateAttempt, Ack, Post, Record, ListRetries, Load,
       RetriesDone, StartFails, ClaimFails, ReadFails, ListSubsFails, LookupFails,
       CreateAttemptFails, AckFails, RecordFails, ListRetriesFails, LoadFails, Crash

(* What a worker's step may do to the state outside it. *)
LEMMA WorkerOutside ==
  ASSUME Typing, NEW w \in Worker, Works(w) \/ Fails(w)
  PROVE  /\ StreamTypeOK' /\ cursor' >= cursor /\ stream' = stream
         /\ FaultTypeOK'
         /\ StoreTypeOK'
<1> USE DEF Typing, TypeOK
<1>1. StreamTypeOK' /\ cursor' >= cursor /\ stream' = stream
  BY CommandLemma
     DEF Works, Fails, Start, Claim, ClaimNoGroup, Read, ReadTimeout, ListSubs,
         MessagesDone, Lookup, CreateAttempt, Ack, Post, Record, ListRetries, Load,
         RetriesDone, StartFails, ClaimFails, ReadFails, ListSubsFails, LookupFails,
         CreateAttemptFails, AckFails, RecordFails, ListRetriesFails, LoadFails, Crash
<1>2. FaultTypeOK'
  BY FaultLemma
     DEF Works, Fails, Start, Claim, ClaimNoGroup, Read, ReadTimeout, ListSubs,
         MessagesDone, Lookup, CreateAttempt, Ack, Post, Record, ListRetries, Load,
         RetriesDone, StartFails, ClaimFails, ReadFails, ListSubsFails, LookupFails,
         CreateAttemptFails, AckFails, RecordFails, ListRetriesFails, LoadFails, Crash
<1>3. \/ UNCHANGED storeVars
      \/ pc[w] = "create" /\ Create(att[w].pair)
      \/ pc[w] = "record" /\ Saves(att[w], answer[w])
  BY WorkerStore
<1>4. pc[w] \in {"create", "record"} => att[w] \in Attempt /\ att[w].pair \in Pair
  BY DEF LocalsReady, Attempt
<1>5. StoreTypeOK'
  <2>1. CASE UNCHANGED storeVars
    BY <2>1 DEF storeVars, StoreTypeOK
  <2>2. CASE pc[w] = "create" /\ Create(att[w].pair)
    BY <2>2, <1>4, CreateLemma
  <2>3. CASE pc[w] = "record" /\ Saves(att[w], answer[w])
    BY <2>3, <1>4, SavesLemma
  <2> QED
    BY <1>3, <2>1, <2>2, <2>3
<1> QED
  BY <1>1, <1>2, <1>5

(* Both ways of getting an attempt yield one for the pair asked for. *)
LEMMA FreshLemma ==
  ASSUME StoreTypeOK, NEW p \in Pair
  PROVE  /\ Copy(p) \in Attempt /\ Copy(p).pair = p
         /\ Fresh(p) \in Attempt /\ Fresh(p).pair = p
<1>1. rows[p].number \in Nat
  BY DEF StoreTypeOK, Row
<1> QED
  BY <1>1 DEF Copy, Fresh, Attempt

(* The INSERT does not change which pair an attempt is for. *)
LEMMA CreatedLemma ==
  ASSUME NEW a \in Attempt
  PROVE  Created(a) \in Attempt /\ Created(a).pair = a.pair
BY DEF Created, Attempt

(* What a worker's step may do to the locals of the workers. *)
LEMMA WorkerInside ==
  ASSUME Typing, NEW w \in Worker, Works(w) \/ Fails(w)
  PROVE  WorkerTypeOK' /\ \A v \in Worker : LocalsReady(v)'
<1>1. /\ cursor \in Nat /\ cursor' \in Nat /\ cursor <= cursor'
      /\ StreamTypeOK /\ StoreTypeOK /\ WorkerTypeOK
      /\ \A v \in Worker : LocalsReady(v)
  BY WorkerOutside DEF StreamTypeOK, Typing, TypeOK
<1>2. CASE Start(w) \/ StartFails(w)
  BY <1>1, <1>2 DEF Start, StartFails, WorkerTypeOK, LocalsReady, Goto, Label, history
<1>3. CASE Claim(w)
  BY <1>1, <1>3
     DEF Claim, XAutoClaim, Claimable, StreamTypeOK, WorkerTypeOK, LocalsReady, Goto, Label, history
<1>4. CASE ClaimFails(w) \/ ClaimNoGroup(w)
  BY <1>1, <1>4
     DEF ClaimFails, ClaimNoGroup, WorkerTypeOK, LocalsReady, Goto, Label, history
<1>5. CASE Read(w)
  BY <1>1, <1>5 DEF Read, XReadGroup, WorkerTypeOK, LocalsReady, Goto, Label, history
<1>6. CASE ReadFails(w)
  BY <1>1, <1>6 DEF ReadFails, WorkerTypeOK, LocalsReady, workerVars
<1>7. CASE ReadTimeout(w)
  BY <1>1, <1>7 DEF ReadTimeout, WorkerTypeOK, LocalsReady, Goto, Label, history
<1>8. CASE ListSubs(w)
  BY <1>1, <1>8 DEF ListSubs, Oldest, WorkerTypeOK, LocalsReady, Goto, Label, history
<1>9. CASE ListSubsFails(w)
  BY <1>1, <1>9 DEF ListSubsFails, Oldest, WorkerTypeOK, LocalsReady, Goto, Label, history
<1>10. CASE MessagesDone(w)
  BY <1>1, <1>10 DEF MessagesDone, WorkerTypeOK, LocalsReady, Goto, Label, history
<1>11. CASE Lookup(w)
  <2>1. PICK s \in todo[w] :
          LET p == <<stream[entry[w]], s>> IN
            \/ todo' = [todo EXCEPT ![w] = @ \ {s}] /\ UNCHANGED <<pc, att>>
            \/ att' = [att EXCEPT ![w] = Copy(p)] /\ Goto(w, "post") /\ UNCHANGED todo
            \/ att' = [att EXCEPT ![w] = Fresh(p)] /\ Goto(w, "create") /\ UNCHANGED todo
    BY <1>11 DEF Lookup
  <2>2. entry[w] \in 1 .. Len(stream)
    BY <1>1, <1>11 DEF Lookup, LocalsReady, WorkerTypeOK, StreamTypeOK
  <2>3. <<stream[entry[w]], s>> \in Pair
    BY <1>1, <2>1, <2>2 DEF WorkerTypeOK, StreamTypeOK, Pair
  <2> DEFINE p == <<stream[entry[w]], s>>
  <2>4. Copy(p) \in Attempt /\ Fresh(p) \in Attempt
    BY <1>1, <2>3, FreshLemma
  <2>5. /\ pc[w] = "attempt"
        /\ UNCHANGED <<resume, entry, msgs, batch, answer, history>>
    BY <1>11 DEF Lookup
  <2> HIDE DEF p
  <2>6. \/ todo' = [todo EXCEPT ![w] = @ \ {s}] /\ UNCHANGED <<pc, att>>
        \/ /\ \E a \in Attempt : att' = [att EXCEPT ![w] = a]
           /\ \E l \in {"post", "create"} : Goto(w, l)
           /\ UNCHANGED todo
    BY <2>1, <2>4 DEF p
  <2> QED
    BY <1>1, <2>5, <2>6 DEF WorkerTypeOK, LocalsReady, Goto, Label, history
<1>12. CASE LookupFails(w) \/ CreateAttemptFails(w)
  BY <1>1, <1>12
     DEF LookupFails, CreateAttemptFails, Abandon, WorkerTypeOK, LocalsReady, Goto, Label, history
<1>13. CASE CreateAttempt(w)
  <2>1. att[w] \in Attempt /\ Created(att[w]) \in Attempt
    BY <1>1, <1>13, CreatedLemma DEF CreateAttempt, LocalsReady
  <2> QED
    BY <1>1, <1>13, <2>1 DEF CreateAttempt, WorkerTypeOK, LocalsReady, Goto, Label, history
<1>14. CASE Ack(w) \/ AckFails(w)
  BY <1>1, <1>14 DEF Ack, AckFails, WorkerTypeOK, LocalsReady, Goto, Label, history
<1>15. CASE Post(w)
  <2>1. att[w].pair \in Pair
    BY <1>1, <1>15 DEF Post, LocalsReady, Attempt
  <2>2. PICK a \in Answers : /\ answer' = [answer EXCEPT ![w] = a]
                             /\ heard' = [heard EXCEPT ![att[w].pair] = @ \cup {a}]
    BY <1>15 DEF Post
  <2>3. heard' \in [Pair -> SUBSET Answers]
    BY <1>1, <2>1, <2>2 DEF WorkerTypeOK
  <2>4. posts' \in [Pair -> 0 .. PostBound]
    BY <1>1, <1>15, <2>1, WorkerAssumption DEF Post, WorkerTypeOK
  <2> QED
    BY <1>1, <1>15, <2>2, <2>3, <2>4 DEF Post, WorkerTypeOK, LocalsReady, Goto, Label
<1>16. CASE Record(w) \/ RecordFails(w)
  BY <1>1, <1>16
     DEF Record, RecordFails, NextDelivery, WorkerTypeOK, LocalsReady, Goto, Label, history
<1>17. CASE ListRetries(w)
  <2>1. PICK due \in PendingRetries(RetryBatch) :
          batch' = [batch EXCEPT ![w] = {Copy(p) : p \in due}]
    BY <1>17 DEF ListRetries
  <2>2. {Copy(p) : p \in due} \in SUBSET Attempt
    BY <1>1, FreshLemma DEF PendingRetries, DueRows
  <2>3. batch' \in [Worker -> SUBSET Attempt]
    BY <1>1, <2>1, <2>2 DEF WorkerTypeOK
  <2>4. /\ pc[w] = "retries" /\ Goto(w, "load")
        /\ UNCHANGED <<resume, entry, msgs, todo, att, answer, history>>
    BY <1>17 DEF ListRetries
  <2> QED
    BY <1>1, <2>3, <2>4 DEF WorkerTypeOK, LocalsReady, Goto, Label, history
<1>18. CASE ListRetriesFails(w) \/ RetriesDone(w) \/ LoadFails(w)
  BY <1>1, <1>18
     DEF ListRetriesFails, RetriesDone, LoadFails, WorkerTypeOK, LocalsReady, Goto, Label, history
<1>19. CASE Load(w)
  BY <1>1, <1>19 DEF Load, WorkerTypeOK, LocalsReady, Goto, Label, history
<1>20. CASE Crash(w)
  BY <1>1, <1>20 DEF Crash, WorkerTypeOK, LocalsReady, Goto, Label, history
<1> QED
  BY <1>2, <1>3, <1>4, <1>5, <1>6, <1>7, <1>8, <1>9, <1>10, <1>11, <1>12, <1>13,
     <1>14, <1>15, <1>16, <1>17, <1>18, <1>19, <1>20 DEF Works, Fails

-----------------------------------------------------------------------------
(* What a step of the event API does to the stream: it only appends, the   *)
(* event of the request alone, and moves nothing else.                     *)
LEMMA IngestStream ==
  ASSUME StreamTypeOK, NEW e \in Event, IngestStep(e)
  PROVE  /\ StreamTypeOK'
         /\ UNCHANGED <<cursor, pending, lost>>
         /\ \A i \in 1 .. cursor : stream'[i] = stream[i]
         /\ Queued' \subseteq Queued \cup {e}
<1>1. cursor \in Nat /\ Len(stream) \in Nat /\ cursor <= Len(stream)
  BY DEF StreamTypeOK
<1>2. CASE UNCHANGED streamVars
  BY <1>2 DEF streamVars, StreamTypeOK, Queued, Entries
<1>3. CASE XAdd(e)
  <2>1. Len(stream) < MaxEntries
    BY <1>3 DEF XAdd
  <2>2. /\ stream' \in Seq(Event) /\ Len(stream') = Len(stream) + 1
        /\ \A i \in 1 .. Len(stream) : stream'[i] = stream[i]
        /\ stream'[Len(stream) + 1] = e
    BY <1>3, <2>1, AppendLemma DEF XAdd, StreamTypeOK
  <2> QED
    BY <1>1, <1>3, <2>1, <2>2, MaxEntriesAssumption DEF XAdd, StreamTypeOK, Queued, Entries
<1>4. CASE EnqueueTwice(e)
  <2>1. Len(stream) + 2 <= MaxEntries /\ stream' = Append(Append(stream, e), e)
    BY <1>4 DEF EnqueueTwice
  <2>2. /\ stream' \in Seq(Event) /\ Len(stream') = Len(stream) + 2
        /\ \A i \in 1 .. Len(stream) : stream'[i] = stream[i]
        /\ stream'[Len(stream) + 1] = e /\ stream'[Len(stream) + 2] = e
    BY <2>1 DEF StreamTypeOK
  <2> QED
    BY <1>1, <1>4, <2>1, <2>2, MaxEntriesAssumption
       DEF EnqueueTwice, StreamTypeOK, Queued, Entries
<1> QED
  BY <1>2, <1>3, <1>4
     DEF IngestStep, StoreEvent, StoreFails, EnqueueEvent, EnqueueFails, ServerCrash

(* A step of the event API keeps the types of its table and requests. *)
LEMMA IngestRequests ==
  ASSUME IngestTypeOK, FaultTypeOK, NEW e \in Event, IngestStep(e)
  PROVE  IngestTypeOK' /\ FaultTypeOK'
<1>1. \E code \in RequestState : Answer(e, code)
  BY DEF IngestStep, StoreEvent, StoreFails, EnqueueEvent, EnqueueTwice, EnqueueFails,
         ServerCrash, RequestState
<1>2. events' \subseteq Event
  BY DEF IngestTypeOK, IngestStep, StoreEvent, StoreFails, EnqueueEvent, EnqueueTwice,
         EnqueueFails, ServerCrash
<1>3. FaultTypeOK'
  BY FaultLemma
     DEF IngestStep, StoreEvent, StoreFails, EnqueueEvent, EnqueueTwice, EnqueueFails,
         ServerCrash
<1> QED
  BY <1>1, <1>2, <1>3 DEF IngestTypeOK, Answer

(* A step of the subscription API keeps the types of its table and copies. *)
LEMMA SubsTypeLemma ==
  ASSUME SubsTypeOK, NEW h \in Handler, SubsStep(h)
  PROVE  SubsTypeOK'
<1> USE DEF SubsTypeOK, SubRow, PutCopy
<1>1. ASSUME NEW s \in Sub, NEW b \in Body, CreateSubscription(s, b)
      PROVE  SubsTypeOK'
  BY <1>1 DEF CreateSubscription
<1>2. ASSUME NEW s \in Sub, NEW b \in Body, BeginUpdate(h, s, b)
      PROVE  SubsTypeOK'
  BY <1>2 DEF BeginUpdate
<1>3. ASSUME NEW s \in Sub, DeleteSubscription(s)
      PROVE  SubsTypeOK'
  BY <1>3 DEF DeleteSubscription
<1>4. CASE FinishUpdate(h)
  BY <1>4 DEF FinishUpdate
<1>5. CASE AbortUpdate(h)
  BY <1>5 DEF AbortUpdate
<1> QED
  BY <1>1, <1>2, <1>3, <1>4, <1>5 DEF SubsStep

-----------------------------------------------------------------------------
(* Every step keeps Typing. *)
LEMMA TypingStep == Typing /\ [Next]_vars => Typing'
<1> SUFFICES ASSUME Typing, [Next]_vars PROVE Typing'
  OBVIOUS
<1>1. /\ StreamTypeOK /\ FaultTypeOK /\ IngestTypeOK /\ SubsTypeOK /\ StoreTypeOK
      /\ WorkerTypeOK /\ owed \subseteq Pair /\ \A w \in Worker : LocalsReady(w)
  BY DEF Typing, TypeOK
<1>2. ASSUME StreamTypeOK', cursor' >= cursor, UNCHANGED workerVars
      PROVE  WorkerTypeOK' /\ \A w \in Worker : LocalsReady(w)'
  <2>1. cursor \in Nat /\ cursor' \in Nat
    BY <1>1, <1>2 DEF StreamTypeOK
  <2> QED
    BY <1>1, <1>2, <2>1 DEF workerVars, WorkerTypeOK, LocalsReady
<1>3. UNCHANGED ingestVars => IngestTypeOK'
  BY <1>1 DEF ingestVars, IngestTypeOK
<1>4. UNCHANGED subVars => SubsTypeOK'
  BY <1>1 DEF subVars, SubsTypeOK
<1>5. UNCHANGED storeVars => StoreTypeOK'
  BY <1>1 DEF storeVars, StoreTypeOK
<1>6. UNCHANGED faults => FaultTypeOK'
  BY <1>1 DEF FaultTypeOK
<1>7. UNCHANGED streamVars => StreamTypeOK' /\ cursor' >= cursor
  BY <1>1, CommandLemma
<1>8. ASSUME NEW e \in Event, Ingest(e)
      PROVE  Typing'
  <2>1. StreamTypeOK' /\ cursor' >= cursor
    BY <1>1, <1>8, IngestStream DEF Ingest, StreamTypeOK
  <2>2. IngestTypeOK' /\ FaultTypeOK'
    BY <1>1, <1>8, IngestRequests DEF Ingest
  <2>3. Queued' \subseteq Event
    BY <2>1 DEF Queued, Entries, StreamTypeOK
  <2>4. owed' \subseteq Pair
    BY <1>1, <1>8, <2>3 DEF Ingest, Pair
  <2> QED
    BY <1>2, <1>4, <1>5, <1>8, <2>1, <2>2, <2>4 DEF Ingest, Typing, TypeOK
<1>9. ASSUME NEW h \in Handler, Administer(h)
      PROVE  Typing'
  <2>1. SubsTypeOK'
    BY <1>1, <1>9, SubsTypeLemma DEF Administer
  <2>2. owed' \subseteq Pair
    BY <1>1, <1>9 DEF Administer
  <2> QED
    BY <1>2, <1>3, <1>5, <1>6, <1>7, <1>9, <2>1, <2>2 DEF Administer, Typing, TypeOK
<1>10. ASSUME NEW w \in Worker, WorkerWorks(w) \/ WorkerFails(w)
       PROVE  Typing'
  BY <1>1, <1>3, <1>4, <1>10, WorkerOutside, WorkerInside
     DEF WorkerWorks, WorkerFails, Typing, TypeOK
<1>11. ASSUME NEW i \in Entries, Age(i)
       PROVE  Typing'
  BY <1>1, <1>2, <1>3, <1>4, <1>5, <1>6, <1>11, CommandLemma DEF Age, Typing, TypeOK
<1>12. ASSUME NEW p \in Pair, ComeDue(p)
       PROVE  Typing'
  <2>1. StoreTypeOK'
    BY <1>1, <1>12 DEF ComeDue, RetryComesDue, StoreTypeOK, Row
  <2> QED
    BY <1>1, <1>2, <1>3, <1>4, <1>6, <1>7, <1>12, <2>1 DEF ComeDue, Typing, TypeOK
<1>13. CASE RedisLosesData
  BY <1>1, <1>2, <1>3, <1>4, <1>5, <1>13, CommandLemma, FaultLemma
     DEF RedisLosesData, Typing, TypeOK
<1>14. CASE ServerStarts
  BY <1>1, <1>2, <1>3, <1>4, <1>5, <1>6, <1>14, CommandLemma
     DEF ServerStarts, Typing, TypeOK
<1>15. CASE UNCHANGED vars
  BY <1>1, <1>2, <1>3, <1>4, <1>5, <1>6, <1>7, <1>15 DEF vars, Typing, TypeOK
<1> QED
  BY <1>8, <1>9, <1>10, <1>11, <1>12, <1>13, <1>14, <1>15 DEF Next

(* Typing is an invariant. *)
LEMMA TypingInvariant == Spec => []Typing
<1>1. Init => Typing
  <2> SUFFICES ASSUME Init PROVE Typing
    OBVIOUS
  <2>1. StreamTypeOK
    <3>1. stream = << >> /\ Len(stream) = 0 /\ stream \in Seq(Event)
      BY DEF Init, StreamInit
    <3>2. cursor = 0 /\ pending = {} /\ idle = {} /\ lost = {} /\ group = FALSE
      BY DEF Init, StreamInit
    <3>3. Len(stream) <= MaxEntries /\ cursor \in 0 .. Len(stream)
      BY <3>1, <3>2, MaxEntriesAssumption
    <3> QED
      BY <3>1, <3>2, <3>3 DEF StreamTypeOK
  <2>2. FaultTypeOK /\ IngestTypeOK
    BY FaultsAssumption
       DEF Init, FaultInit, FaultTypeOK, IngestInit, IngestTypeOK, RequestState
  <2>3. SubsTypeOK
    BY DEF Init, SubsInit, Absent, SubsTypeOK, SubRow
  <2>4. StoreTypeOK
    BY DEF Init, StoreInit, StoreTypeOK, NoRow, Row
  <2>5. WorkerTypeOK /\ \A w \in Worker : LocalsReady(w)
    BY <2>1, WorkerAssumption
       DEF Init, StreamInit, WorkerInit, WorkerTypeOK, Label, LocalsReady
  <2> QED
    BY <2>1, <2>2, <2>3, <2>4, <2>5 DEF Init, Typing, TypeOK
<1> QED
  BY <1>1, TypingStep, PTL DEF Spec

(* Every variable keeps its type, for any number of events, subscriptions, *)
(* workers and faults.                                                     *)
THEOREM TypeCorrect == Spec => []TypeOK
BY TypingInvariant, PTL DEF Typing

-----------------------------------------------------------------------------
(* Facts about a step of any kind. *)

(* A row is never removed, and only a worker that holds the answer "ok" to *)
(* its POST makes it a success.                                            *)
LEMMA RowsStep ==
  ASSUME Typing, [Next]_vars
  PROVE  /\ \A q \in Pair : Exists(q) => Exists(q)'
         /\ \A q \in Pair :
              Success(q)' => \/ Success(q)
                             \/ \E w \in Worker : /\ pc[w] = "record"
                                                 /\ att[w].pair = q
                                                 /\ answer[w] = "ok"
<1>1. StoreTypeOK /\ \A w \in Worker : LocalsReady(w)
  BY DEF Typing, TypeOK
<1>2. CASE UNCHANGED storeVars
  BY <1>2 DEF storeVars, Exists, Success
<1>3. ASSUME NEW w \in Worker, pc[w] = "create", Create(att[w].pair)
      PROVE  /\ \A q \in Pair : Exists(q) => Exists(q)'
             /\ \A q \in Pair : Success(q)' => Success(q)
  <2>1. att[w].pair \in Pair
    BY <1>1, <1>3 DEF LocalsReady, Attempt
  <2> QED
    BY <1>1, <1>3, <2>1, CreateLemma
<1>4. ASSUME NEW w \in Worker, pc[w] = "record", Saves(att[w], answer[w])
      PROVE  /\ \A q \in Pair : Exists(q) => Exists(q)'
             /\ \A q \in Pair :
                  Success(q)' => Success(q) \/ (att[w].pair = q /\ answer[w] = "ok")
  <2>1. att[w] \in Attempt
    BY <1>1, <1>4 DEF LocalsReady
  <2> QED
    BY <1>1, <1>4, <2>1, SavesLemma
<1>5. ASSUME NEW p \in Pair, ComeDue(p)
      PROVE  \A q \in Pair : (Exists(q) <=> Exists(q)') /\ (Success(q) <=> Success(q)')
  BY <1>1, <1>5 DEF ComeDue, RetryComesDue, StoreTypeOK, Row, Exists, Success
<1>6. \/ UNCHANGED storeVars
      \/ \E w \in Worker : pc[w] = "create" /\ Create(att[w].pair)
      \/ \E w \in Worker : pc[w] = "record" /\ Saves(att[w], answer[w])
      \/ \E p \in Pair : ComeDue(p)
  BY WorkerStore
     DEF Next, Ingest, Administer, WorkerWorks, WorkerFails, Age,
         ServerStarts, RedisLosesData, vars
<1> QED
  BY <1>2, <1>3, <1>4, <1>5, <1>6

(* The entries handed out so far never change, and what is owed for them   *)
(* never grows.                                                            *)
LEMMA EntriesStep ==
  ASSUME Typing, [Next]_vars
  PROVE  /\ cursor \in Nat /\ cursor' \in Nat /\ cursor <= cursor'
         /\ \A i \in 1 .. cursor : stream'[i] = stream[i]
         /\ \A i \in 1 .. cursor, s \in Sub :
              <<stream[i], s>> \in owed' => <<stream[i], s>> \in owed
<1>1. StreamTypeOK /\ StreamTypeOK'
  BY TypingStep DEF Typing, TypeOK
<1>2. cursor \in Nat /\ cursor' \in Nat
  BY <1>1 DEF StreamTypeOK
<1>3. ASSUME NEW e \in Event, Ingest(e)
      PROVE  /\ cursor' = cursor
             /\ \A i \in 1 .. cursor : stream'[i] = stream[i]
             /\ \A i \in 1 .. cursor, s \in Sub :
                  <<stream[i], s>> \in owed' => <<stream[i], s>> \in owed
  <2>1. \A i \in 1 .. cursor : stream[i] \in Queued
    BY <1>1 DEF Queued, Entries, StreamTypeOK
  <2> QED
    BY <1>1, <1>3, <2>1, IngestStream DEF Ingest
<1>4. CASE ~ \E e \in Event : Ingest(e)
  <2>1. cursor <= cursor' /\ stream' = stream
    BY <1>1, <1>2, <1>4, WorkerOutside, CommandLemma
       DEF Next, Administer, WorkerWorks, WorkerFails, Age, ComeDue,
           ServerStarts, RedisLosesData, vars
  <2>2. owed' \subseteq owed
    BY <1>4 DEF Next, Administer, WorkerWorks, WorkerFails, Age, ComeDue,
                ServerStarts, RedisLosesData, vars
  <2> QED
    BY <1>2, <2>1, <2>2
<1> QED
  BY <1>2, <1>3, <1>4

(* A worker's step leaves the locals of the others alone. *)
LEMMA OthersStay ==
  ASSUME WorkerTypeOK, NEW w \in Worker, Works(w) \/ Fails(w), NEW v \in Worker \ {w}
  PROVE  UNCHANGED <<pc[v], entry[v], msgs[v], todo[v], batch[v], att[v], answer[v]>>
<1>1. CASE Works(w)
  <2>1. CASE Lookup(w) \/ CreateAttempt(w) \/ Post(w) \/ Record(w) \/ Load(w)
    BY <2>1 DEF Lookup, CreateAttempt, Post, Record, Load, NextDelivery, Goto,
                WorkerTypeOK, workerVars
  <2>2. CASE ~(Lookup(w) \/ CreateAttempt(w) \/ Post(w) \/ Record(w) \/ Load(w))
    BY <1>1, <2>2
       DEF Works, Start, Claim, ClaimNoGroup, Read, ReadTimeout, ListSubs,
           MessagesDone, Ack, ListRetries, RetriesDone, Goto, WorkerTypeOK, workerVars
  <2> QED
    BY <2>1, <2>2
<1>2. CASE Fails(w)
  BY <1>2
     DEF Fails, StartFails, ClaimFails, ReadFails, ListSubsFails, LookupFails,
         CreateAttemptFails, AckFails, RecordFails, ListRetriesFails, LoadFails, Crash,
         NextDelivery, Abandon, Goto, WorkerTypeOK, workerVars
<1> QED
  BY <1>1, <1>2

(* The history of answers only grows, and a worker that holds an answer    *)
(* has just put it there or has held it before.                            *)
LEMMA AnswersStep ==
  ASSUME Typing, [Next]_vars
  PROVE  /\ \A q \in Pair : heard[q] \subseteq heard'[q]
         /\ \A w \in Worker :
              pc'[w] = "record" =>
                \/ answer'[w] \in heard'[att'[w].pair]
                \/ pc[w] = "record" /\ att'[w] = att[w] /\ answer'[w] = answer[w]
<1>1. WorkerTypeOK /\ \A w \in Worker : LocalsReady(w)
  BY DEF Typing, TypeOK
<1>2. ASSUME NEW w \in Worker, Post(w)
      PROVE  /\ \A q \in Pair : heard[q] \subseteq heard'[q]
             /\ answer'[w] \in heard'[att'[w].pair]
             /\ \A v \in Worker \ {w} :
                  pc'[v] = pc[v] /\ att'[v] = att[v] /\ answer'[v] = answer[v]
  <2>1. att[w].pair \in Pair
    BY <1>1, <1>2 DEF Post, LocalsReady, Attempt
  <2> QED
    BY <1>1, <1>2, <2>1 DEF Post, WorkerTypeOK, Goto
<1>3. ASSUME NEW w \in Worker, Works(w) \/ Fails(w), ~Post(w)
      PROVE  /\ UNCHANGED heard
             /\ pc'[w] = "record" => UNCHANGED <<pc[w], att[w], answer[w]>>
             /\ \A v \in Worker \ {w} : UNCHANGED <<pc[v], att[v], answer[v]>>
  <2>1. UNCHANGED heard
    BY <1>3
       DEF Works, Start, Claim, ClaimNoGroup, Read, ReadTimeout, ListSubs,
           MessagesDone, Lookup, CreateAttempt, Ack, Record, ListRetries, Load,
           RetriesDone, Fails, StartFails, ClaimFails, ReadFails, ListSubsFails,
           LookupFails, CreateAttemptFails, AckFails, RecordFails, ListRetriesFails,
           LoadFails, Crash, Abandon, NextDelivery, Goto, history, workerVars
  <2>2. CASE Works(w)
    <3>1. pc'[w] # "record"
      BY <1>1, <1>3, <2>2
         DEF Works, Start, Claim, ClaimNoGroup, Read, ReadTimeout, ListSubs,
             MessagesDone, Lookup, CreateAttempt, Ack, Record, ListRetries, Load,
             RetriesDone, NextDelivery, Goto, WorkerTypeOK, workerVars
    <3> QED
      BY <1>3, <1>1, <2>1, <3>1, OthersStay
  <2>3. CASE Fails(w)
    <3>1. pc'[w] = "record" => UNCHANGED <<pc[w], att[w], answer[w]>>
      BY <1>1, <1>3, <2>3
         DEF Fails, StartFails, ClaimFails, ReadFails, ListSubsFails, LookupFails,
             CreateAttemptFails, AckFails, RecordFails, ListRetriesFails, LoadFails, Crash,
             Abandon, NextDelivery, Goto, WorkerTypeOK, workerVars
    <3> QED
      BY <1>3, <1>1, <2>1, <3>1, OthersStay
  <2> QED
    BY <1>3, <2>2, <2>3
<1>4. CASE UNCHANGED workerVars
  BY <1>4 DEF workerVars
<1>5. ASSUME NEW w \in Worker, WorkerWorks(w) \/ WorkerFails(w)
      PROVE  /\ \A q \in Pair : heard[q] \subseteq heard'[q]
             /\ \A v \in Worker :
                  pc'[v] = "record" =>
                    \/ answer'[v] \in heard'[att'[v].pair]
                    \/ pc[v] = "record" /\ att'[v] = att[v] /\ answer'[v] = answer[v]
  <2>1. CASE Post(w)
    BY <1>2, <2>1
  <2>2. CASE ~Post(w)
    BY <1>3, <1>5, <2>2 DEF WorkerWorks, WorkerFails
  <2> QED
    BY <2>1, <2>2
<1> QED
  BY <1>4, <1>5 DEF Next, Ingest, Administer, Age, ComeDue,
                    ServerStarts, RedisLosesData, vars

-----------------------------------------------------------------------------
Earned == SuccessIsEarned /\ \A w \in Worker : AnswerGenuine(w)

(* Success is written from an answer in hand, which the subscriber gave.   *)
LEMMA EarnedInvariant == Spec => []Earned
<1>1. Init => Earned
  BY DEF Earned, Init, StoreInit, NoRow, WorkerInit, Success, SuccessIsEarned, AnswerGenuine
<1>2. Typing /\ Earned /\ [Next]_vars => Earned'
  <2> SUFFICES ASSUME Typing, Earned, [Next]_vars PROVE Earned'
    OBVIOUS
  <2>1. \A w \in Worker : pc[w] = "record" => att[w].pair \in Pair
    BY DEF Typing, LocalsReady, Attempt
  <2>2. \A w \in Worker : AnswerGenuine(w)'
    BY <2>1, AnswersStep DEF Earned, AnswerGenuine
  <2>3. \A q \in Pair : Success(q)' => Accepted(q)'
    BY <2>1, AnswersStep, RowsStep DEF Earned, AnswerGenuine, SuccessIsEarned, Accepted
  <2> QED
    BY <2>2, <2>3 DEF Earned, SuccessIsEarned
<1> QED
  BY <1>1, <1>2, TypingInvariant, PTL DEF Spec

(* No row is ever marked success unless the subscriber answered 2xx to a   *)
(* POST of that very pair: for any number of workers, subscription         *)
(* requests and faults.                                                    *)
THEOREM SuccessEarned == Spec => []SuccessIsEarned
<1>1. Earned => SuccessIsEarned
  BY DEF Earned
<1> QED
  BY <1>1, EarnedInvariant, PTL

-----------------------------------------------------------------------------
(* An acknowledgement reaches only an entry that is being processed and    *)
(* has no subscription left to be served.                                  *)
LEMMA AckedStep ==
  ASSUME Typing, [Next]_vars, NEW i \in Acked'
  PROVE  \/ i \in Acked
         \/ \E w \in Worker : entry[w] = i /\ entry[w] # 0 /\ todo[w] = {}
<1>1. StreamTypeOK /\ StreamTypeOK' /\ cursor <= cursor' /\ cursor \in Nat
      /\ \A w \in Worker : LocalsReady(w)
  BY TypingStep, EntriesStep DEF Typing, TypeOK
<1>2. ASSUME NEW w \in Worker, XAck(entry[w]), pc[w] = "attempt", todo[w] = {}
      PROVE  \/ i \in Acked
             \/ entry[w] = i /\ entry[w] # 0 /\ todo[w] = {}
  BY <1>1, <1>2 DEF XAck, Acked, LocalsReady
<1>3. CASE XReadGroup
  BY <1>1, <1>3 DEF XReadGroup, Acked
<1>4. CASE LoseStream
  <2>1. i \in 1 .. Len(stream) /\ i \notin pending /\ i \notin lost
        /\ i \notin cursor + 1 .. Len(stream)
    BY <1>4 DEF LoseStream, Acked
  <2> QED
    BY <1>1, <2>1 DEF Acked, StreamTypeOK
<1>5. CASE UNCHANGED <<cursor, pending, lost>>
  BY <1>5 DEF Acked
<1>6. ASSUME NEW e \in Event, Ingest(e)
      PROVE  UNCHANGED <<cursor, pending, lost>>
  BY <1>1, <1>6, IngestStream DEF Ingest
<1>7. ASSUME NEW w \in Worker, Works(w) \/ Fails(w)
      PROVE  \/ XAck(entry[w]) /\ pc[w] = "attempt" /\ todo[w] = {}
             \/ XReadGroup
             \/ UNCHANGED <<cursor, pending, lost>>
  BY <1>7
     DEF Works, Fails, Start, Claim, ClaimNoGroup, Read, ReadTimeout, ListSubs,
         MessagesDone, Lookup, CreateAttempt, Ack, Post, Record, ListRetries, Load,
         RetriesDone, StartFails, ClaimFails, ReadFails, ListSubsFails, LookupFails,
         CreateAttemptFails, AckFails, RecordFails, ListRetriesFails, LoadFails, Crash,
         XGroupCreate, XAutoClaim, streamVars
<1>8. \/ \E w \in Worker : XAck(entry[w]) /\ pc[w] = "attempt" /\ todo[w] = {}
      \/ XReadGroup \/ LoseStream
      \/ UNCHANGED <<cursor, pending, lost>>
  BY <1>6, <1>7
     DEF Next, Administer, WorkerWorks, WorkerFails, Age, AgeEntry, ComeDue,
         ServerStarts, XGroupCreate, RedisLosesData, vars, streamVars
<1> QED
  BY <1>2, <1>3, <1>4, <1>5, <1>8

(* What is owed stays what the worker's ListAll and Matches would find. *)
LEMMA OwedStep ==
  ASSUME OwedIsDue, [Next]_vars
  PROVE  OwedIsDue'
<1>1. ASSUME NEW e \in Event, Ingest(e)
      PROVE  OwedIsDue'
  BY <1>1 DEF Ingest, OwedIsDue, Due, IsActive, subVars
<1>2. ASSUME NEW h \in Handler, Administer(h)
      PROVE  OwedIsDue'
  BY <1>2 DEF Administer, OwedIsDue
<1>3. CASE UNCHANGED <<subVars, owed>>
  BY <1>3 DEF OwedIsDue, Due, IsActive, subVars
<1> QED
  BY <1>1, <1>2, <1>3
     DEF Next, WorkerWorks, WorkerFails, Age, ComeDue, ServerStarts, RedisLosesData, vars

(* The message loop drops nothing: the heart of the matter.  The rows and  *)
(* the debts may change under a worker's hands, but rows only appear and   *)
(* debts of an entry already read only disappear.                          *)
LEMMA DroppedStep ==
  ASSUME Typing, OwedIsDue, \A w \in Worker : NothingDropped(w), [Next]_vars
  PROVE  \A w \in Worker : NothingDropped(w)'
<1>1. /\ WorkerTypeOK /\ StreamTypeOK /\ StoreTypeOK
      /\ \A w \in Worker : LocalsReady(w) /\ LocalsReady(w)'
  BY TypingStep DEF Typing, TypeOK
<1>2. \A w \in Worker :
        entry[w] # 0 => /\ entry[w] \in 1 .. cursor
                        /\ stream'[entry[w]] = stream[entry[w]]
                        /\ \A s \in Sub : <<stream[entry[w]], s>> \in Pair
  BY <1>1, EntriesStep DEF WorkerTypeOK, StreamTypeOK, Pair
<1>3. ASSUME NEW w \in Worker, UNCHANGED <<entry[w], pc[w], att[w], todo[w]>>
      PROVE  NothingDropped(w)'
  <2>1. SUFFICES ASSUME entry[w] # 0 PROVE NothingDropped(w)'
    BY <1>3 DEF NothingDropped
  <2>2. pc[w] \in {"post", "record"} => att[w].pair \in Pair
    BY <1>1 DEF LocalsReady, Attempt
  <2> QED
    BY <1>2, <1>3, <2>1, <2>2, EntriesStep, RowsStep DEF NothingDropped
<1>4. ASSUME NEW w \in Worker, Works(w) \/ Fails(w), WorkerWorks(w) \/ WorkerFails(w)
      PROVE  NothingDropped(w)'
  <2>1. stream' = stream /\ owed' = owed /\ UNCHANGED subVars
    BY <1>4, WorkerOutside DEF WorkerWorks, WorkerFails
  <2>2. CASE entry'[w] = 0
    BY <2>2 DEF NothingDropped
  <2>3. CASE ListSubs(w)
    <3>1. PICK i \in Oldest(msgs[w]) :
            /\ entry' = [entry EXCEPT ![w] = i]
            /\ todo' = [todo EXCEPT ![w] = {s \in Sub : Due(stream[i], s)}]
      BY <2>3 DEF ListSubs
    <3>2. /\ entry'[w] = i /\ pc'[w] = "attempt"
          /\ todo'[w] = {s \in Sub : Due(stream[i], s)}
      BY <1>1, <2>3, <3>1 DEF ListSubs, Goto, WorkerTypeOK
    <3> QED
      BY <2>1, <3>2 DEF NothingDropped, OwedIsDue
  <2>4. CASE Lookup(w)
    <3>1. entry[w] # 0 /\ entry'[w] = entry[w] /\ UNCHANGED storeVars
      BY <1>1, <2>4 DEF Lookup, LocalsReady
    <3>2. PICK s \in Sub :
            \/ /\ Success(<<stream[entry[w]], s>>)
               /\ todo'[w] = todo[w] \ {s}
               /\ UNCHANGED pc
            \/ /\ Exists(<<stream[entry[w]], s>>)
               /\ att'[w] = Copy(<<stream[entry[w]], s>>)
               /\ UNCHANGED todo
            \/ /\ att'[w] = Fresh(<<stream[entry[w]], s>>)
               /\ pc'[w] = "create"
               /\ UNCHANGED todo
      BY <1>1, <2>4 DEF Lookup, WorkerTypeOK, Goto
    <3>3. \A q \in Pair : (Exists(q) <=> Exists(q)') /\ (Success(q) => Exists(q))
      BY <3>1 DEF storeVars, Exists, Success
    <3>4. pc[w] = "attempt"
      BY <2>4 DEF Lookup
    <3>5. /\ <<stream[entry[w]], s>> \in Pair
          /\ Copy(<<stream[entry[w]], s>>).pair = <<stream[entry[w]], s>>
          /\ Fresh(<<stream[entry[w]], s>>).pair = <<stream[entry[w]], s>>
      BY <1>1, <1>2, <3>1, FreshLemma
    <3> QED
      BY <1>2, <2>1, <3>1, <3>2, <3>3, <3>4, <3>5 DEF NothingDropped
  <2>5. CASE CreateAttempt(w)
    <3>1. /\ att[w] \in Attempt /\ entry[w] # 0 /\ entry'[w] = entry[w]
          /\ UNCHANGED todo /\ Create(att[w].pair)
      BY <1>1, <2>5 DEF CreateAttempt, LocalsReady
    <3>2. att[w].pair \in Pair
      BY <3>1 DEF Attempt
    <3>3. att'[w].pair = att[w].pair
      BY <1>1, <2>5, <3>1, CreatedLemma DEF CreateAttempt, WorkerTypeOK
    <3>4. /\ rows'[att[w].pair].status # "none"
          /\ \A q \in Pair : Exists(q) => Exists(q)'
      <4>1. ASSUME NEW p \in Pair, Create(p)
            PROVE  rows'[p].status # "none" /\ \A q \in Pair : Exists(q) => Exists(q)'
        BY <1>1, <4>1, CreateLemma DEF Exists
      <4> QED
        BY <3>1, <3>2, <4>1
    <3>5. att[w].pair[1] = stream[entry[w]] /\ rows'[att'[w].pair].status # "none"
      BY <2>5, <3>1, <3>3, <3>4 DEF CreateAttempt, NothingDropped
    <3> QED
      BY <1>2, <2>1, <3>1, <3>3, <3>4, <3>5 DEF NothingDropped, Exists
  <2>6. CASE Post(w)
    <3>1. /\ UNCHANGED <<entry, att, todo, storeVars>>
          /\ pc[w] = "post"
      BY <2>6 DEF Post
    <3> QED
      BY <2>1, <3>1 DEF NothingDropped, Exists, storeVars
  <2>7. CASE Record(w) \/ RecordFails(w)
    <3>1. SUFFICES ASSUME entry[w] # 0 PROVE NothingDropped(w)'
      BY <2>2, <2>7 DEF Record, RecordFails, NextDelivery
    <3>2. /\ pc[w] = "record" /\ pc'[w] = "attempt" /\ entry' = entry
          /\ todo'[w] = todo[w] \ {att[w].pair[2]}
      BY <1>1, <2>7, <3>1 DEF Record, RecordFails, NextDelivery, Goto, WorkerTypeOK
    <3>3. /\ att[w].pair \in Pair /\ Exists(att[w].pair)
          /\ att[w].pair[1] = stream[entry[w]]
      BY <1>1, <3>1, <3>2 DEF NothingDropped, LocalsReady, Attempt
    <3>4. <<stream[entry[w]], att[w].pair[2]>> = att[w].pair
      BY <3>3 DEF Pair
    <3> QED
      BY <1>2, <2>1, <3>1, <3>2, <3>3, <3>4, RowsStep DEF NothingDropped
  <2>8. \/ entry'[w] = 0
        \/ ListSubs(w) \/ Lookup(w) \/ CreateAttempt(w) \/ Post(w)
        \/ Record(w) \/ RecordFails(w)
    BY <1>1, <1>4
       DEF Works, Fails, Start, Claim, ClaimNoGroup, Read, ReadTimeout, MessagesDone,
           Ack, ListRetries, Load, RetriesDone, StartFails, ClaimFails, ReadFails,
           ListSubsFails, LookupFails, CreateAttemptFails, AckFails, ListRetriesFails,
           LoadFails, Crash, Abandon, LocalsReady, WorkerTypeOK, workerVars
  <2> QED
    BY <2>2, <2>3, <2>4, <2>5, <2>6, <2>7, <2>8
<1>5. ASSUME NEW w \in Worker, Works(w) \/ Fails(w), NEW v \in Worker \ {w}
      PROVE  UNCHANGED <<entry[v], pc[v], att[v], todo[v]>>
  BY <1>1, <1>5, OthersStay
<1>6. CASE UNCHANGED workerVars
  BY <1>3, <1>6 DEF workerVars
<1>7. ASSUME NEW w \in Worker, WorkerWorks(w) \/ WorkerFails(w)
      PROVE  \A v \in Worker : NothingDropped(v)'
  <2>1. Works(w) \/ Fails(w)
    BY <1>7 DEF WorkerWorks, WorkerFails
  <2> QED
    BY <1>3, <1>4, <1>5, <1>7, <2>1
<1> QED
  BY <1>6, <1>7 DEF Next, Ingest, Administer, Age, ComeDue,
                    ServerStarts, RedisLosesData, vars

Kept == /\ NoDeliveryForgotten
        /\ OwedIsDue
        /\ \A w \in Worker : NothingDropped(w)

(* What is acknowledged has its rows, because the message loop drops none. *)
LEMMA KeptInvariant == Spec => []Kept
<1>1. Init => Kept
  BY DEF Kept, Init, StreamInit, WorkerInit, NoDeliveryForgotten, OwedIsDue, NothingDropped
<1>2. Typing /\ Kept /\ [Next]_vars => Kept'
  <2> SUFFICES ASSUME Typing, Kept, [Next]_vars PROVE Kept'
    OBVIOUS
  <2>1. OwedIsDue' /\ \A w \in Worker : NothingDropped(w)'
    BY OwedStep, DroppedStep DEF Kept
  <2>2. ASSUME NEW i \in Acked', NEW s \in Sub, <<stream'[i], s>> \in owed'
        PROVE  rows'[<<stream'[i], s>>].status # "none"
    <3>1. /\ StreamTypeOK /\ StreamTypeOK' /\ WorkerTypeOK
          /\ \A w \in Worker : LocalsReady(w)
      BY TypingStep DEF Typing, TypeOK
    <3>2. i \in 1 .. cursor
      BY <3>1, AckedStep DEF Acked, WorkerTypeOK
    <3>3. /\ stream'[i] = stream[i] /\ <<stream[i], s>> \in Pair
          /\ <<stream[i], s>> \in owed
      BY <2>2, <3>1, <3>2, EntriesStep DEF StreamTypeOK, Pair
    <3>4. Exists(<<stream[i], s>>)
      BY <3>3, AckedStep DEF Kept, NoDeliveryForgotten, NothingDropped
    <3> QED
      BY <3>3, <3>4, RowsStep DEF Exists
  <2> QED
    BY <2>1, <2>2 DEF Kept, NoDeliveryForgotten, Exists
<1> QED
  BY <1>1, <1>2, TypingInvariant, PTL DEF Spec

(* An entry is acknowledged only when every subscription that has been due *)
(* its event since it was queued has a delivery_attempts row: for any      *)
(* number of workers that share or steal entries, and any pattern of       *)
(* crashes, failed statements, lost replies and lost Redis data.           *)
THEOREM NothingForgotten == Spec => []NoDeliveryForgotten
<1>1. Kept => NoDeliveryForgotten
  BY DEF Kept
<1> QED
  BY <1>1, KeptInvariant, PTL

(* The invariant the runs check as a whole: the types, the two promises    *)
(* above, and what every worker's locals owe to the shared state that the  *)
(* other workers and the requests change under its hands.                  *)
THEOREM Invariance == Spec => []Inv
<1>1. Typing /\ Earned /\ Kept => Inv
  BY DEF Typing, Earned, Kept, Inv
<1> QED
  BY <1>1, TypingInvariant, EarnedInvariant, KeptInvariant, PTL
==============================================================================
