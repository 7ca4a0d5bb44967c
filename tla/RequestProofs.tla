---------------------------- MODULE RequestProofs ----------------------------
(***************************************************************************)
(* What the event API promises its clients, in the service as a whole: an  *)
(* event that was accepted will be found, by the workers and by the audit. *)
(***************************************************************************)
EXTENDS EventFanoutProofs

(* What each answer of POST /events has behind it, and that nothing is in  *)
(* the stream that is not in the table.                                    *)
RequestBacked ==
  /\ QueuedIsStored
  /\ \A e \in Event : request[e] \in {"stored", "201"} => e \in events
  /\ \A e \in Event : request[e] = "201" => e \in Queued

(* Nothing but the event API touches its table, its requests or what is in *)
(* the stream.                                                             *)
LEMMA OutsideIngest ==
  ASSUME Typing, [Next]_vars, ~ \E e \in Event : Ingest(e)
  PROVE  UNCHANGED ingestVars /\ Queued' = Queued
<1>1. stream' = stream
  <2>1. StreamTypeOK
    BY DEF Typing, TypeOK
  <2> QED
    BY <2>1, WorkerOutside, CommandLemma
       DEF Next, Administer, WorkerWorks, WorkerFails, Age, ComeDue,
           ServerStarts, RedisLosesData, vars
<1>2. UNCHANGED ingestVars
  BY DEF Next, Administer, WorkerWorks, WorkerFails, Age, ComeDue,
         ServerStarts, RedisLosesData, vars
<1> QED
  BY <1>1, <1>2 DEF Queued, Entries

(* XADD, sent once or twice, keeps what is queued and adds the event.      *)
LEMMA AddedLemma ==
  ASSUME StreamTypeOK, NEW e \in Event, XAdd(e) \/ EnqueueTwice(e)
  PROVE  Queued' = Queued \cup {e}
<1>1. CASE XAdd(e)
  BY <1>1, AppendLemma DEF XAdd, Queued, Entries, StreamTypeOK
<1>2. CASE EnqueueTwice(e)
  <2>1. /\ Len(stream') = Len(stream) + 2
        /\ \A i \in 1 .. Len(stream) : stream'[i] = stream[i]
        /\ stream'[Len(stream) + 1] = e /\ stream'[Len(stream) + 2] = e
    BY <1>2 DEF EnqueueTwice, StreamTypeOK
  <2>2. Len(stream) \in Nat
    BY DEF StreamTypeOK
  <2> QED
    BY <2>1, <2>2 DEF Queued, Entries
<1> QED
  BY <1>1, <1>2

(* A request is stored before it is queued, and queued before its 201.     *)
LEMMA BackedStep ==
  ASSUME Typing, RequestBacked, NEW e \in Event, IngestStep(e)
  PROVE  RequestBacked'
<1> USE DEF RequestBacked, QueuedIsStored
<1>1. StreamTypeOK /\ IngestTypeOK
  BY DEF Typing, TypeOK
<1>2. ASSUME NEW code, Answer(e, code)
      PROVE  /\ request'[e] = code
             /\ \A f \in Event \ {e} : request'[f] = request[f]
  BY <1>1, <1>2 DEF Answer, IngestTypeOK
<1>3. CASE StoreEvent(e) \/ StoreFails(e)
  <2>1. Queued' = Queued
    BY <1>3 DEF StoreEvent, StoreFails, streamVars, Queued, Entries
  <2> QED
    BY <1>2, <1>3, <2>1 DEF StoreEvent, StoreFails
<1>4. CASE EnqueueEvent(e) \/ EnqueueTwice(e)
  <2>1. Queued' = Queued \cup {e} /\ UNCHANGED events
    BY <1>1, <1>4, AddedLemma DEF EnqueueEvent, EnqueueTwice
  <2> QED
    BY <1>2, <1>4, <2>1 DEF EnqueueEvent, EnqueueTwice
<1>5. CASE EnqueueFails(e) \/ ServerCrash(e)
  <2>1. Queued' \in {Queued, Queued \cup {e}} /\ UNCHANGED events
    BY <1>1, <1>5, AddedLemma DEF EnqueueFails, ServerCrash, streamVars, Queued, Entries
  <2> QED
    BY <1>2, <1>5, <2>1 DEF EnqueueFails, ServerCrash
<1> QED
  BY <1>3, <1>4, <1>5 DEF IngestStep

LEMMA BackedInvariant == Spec => []RequestBacked
<1>1. Init => RequestBacked
  BY DEF Init, StreamInit, IngestInit, RequestBacked, QueuedIsStored, Queued, Entries
<1>2. Typing /\ RequestBacked /\ [Next]_vars => RequestBacked'
  <2> SUFFICES ASSUME Typing, RequestBacked, [Next]_vars PROVE RequestBacked'
    OBVIOUS
  <2>1. CASE \E e \in Event : Ingest(e)
    BY <2>1, BackedStep DEF Ingest
  <2>2. CASE ~ \E e \in Event : Ingest(e)
    BY <2>2, OutsideIngest DEF RequestBacked, QueuedIsStored, ingestVars
  <2> QED
    BY <2>1, <2>2
<1> QED
  BY <1>1, <1>2, TypingInvariant, PTL DEF Spec

(* A client that got its 201 has its event in the table, and it has been   *)
(* appended to the stream: whatever fails between IngestEvent's two writes *)
(* and however often the client library sends the second.                  *)
THEOREM AcceptedQueued == Spec => []AcceptedIsQueued
<1>1. RequestBacked => AcceptedIsQueued
  BY DEF RequestBacked, AcceptedIsQueued
<1> QED
  BY <1>1, BackedInvariant, PTL

(* Whatever entry a worker reads, the event's row is there for the foreign *)
(* key of delivery_attempts and for the retry loop.                        *)
THEOREM QueuedStored == Spec => []QueuedIsStored
<1>1. RequestBacked => QueuedIsStored
  BY DEF RequestBacked
<1> QED
  BY <1>1, BackedInvariant, PTL

==============================================================================
