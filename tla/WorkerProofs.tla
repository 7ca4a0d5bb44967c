---------------------------- MODULE WorkerProofs -----------------------------
(***************************************************************************)
(* What the workers do with the attempts they hold: the attempt number     *)
(* under their races, and deliveries to a subscription that is deleted.    *)
(***************************************************************************)
EXTENDS EventFanoutProofs, FiniteSetTheorems

(* Only Lookup leads to the INSERT, for a pair that has no row, and what   *)
(* follows the INSERT is not another one.                                  *)
LEMMA ToCreate ==
  ASSUME Typing, NEW w \in Worker, Works(w) \/ Fails(w), pc'[w] = "create"
  PROVE  ~Exists(att'[w].pair) /\ UNCHANGED storeVars
<1>1. WorkerTypeOK /\ StoreTypeOK /\ StreamTypeOK /\ LocalsReady(w)
  BY DEF Typing, TypeOK
<1>2. Lookup(w)
  BY <1>1
     DEF Works, Fails, Start, Claim, ClaimNoGroup, Read, ReadTimeout, ListSubs,
         MessagesDone, CreateAttempt, Ack, Post, Record, ListRetries, Load,
         RetriesDone, StartFails, ClaimFails, ReadFails, ListSubsFails, LookupFails,
         CreateAttemptFails, AckFails, RecordFails, ListRetriesFails, LoadFails, Crash,
         NextDelivery, Abandon, Goto, WorkerTypeOK, workerVars
<1>3. pc[w] = "attempt" /\ UNCHANGED storeVars
  BY <1>2 DEF Lookup
<1>4. PICK s \in todo[w] :
        /\ ~Exists(<<stream[entry[w]], s>>)
        /\ att' = [att EXCEPT ![w] = Fresh(<<stream[entry[w]], s>>)]
  BY <1>1, <1>2, <1>3 DEF Lookup, Goto, WorkerTypeOK
<1> QED
  BY <1>1, <1>3, <1>4 DEF Fresh, WorkerTypeOK

-----------------------------------------------------------------------------
(* The workers that have seen no row for p and are about to INSERT one.    *)
Creators(p) == {w \in Worker : pc[w] = "create" /\ att[w].pair = p}

(* Once there is a row no worker joins them. *)
LEMMA CreatorsStep ==
  ASSUME Typing, [Next]_vars, NEW p \in Pair, Exists(p)
  PROVE  Creators(p)' \subseteq Creators(p)
<1>1. WorkerTypeOK
  BY DEF Typing, TypeOK
<1>2. ASSUME NEW w \in Worker, WorkerWorks(w) \/ WorkerFails(w)
      PROVE  Creators(p)' \subseteq Creators(p)
  <2>1. Works(w) \/ Fails(w)
    BY <1>2 DEF WorkerWorks, WorkerFails
  <2>2. w \notin Creators(p)'
    BY <2>1, ToCreate DEF Creators, Exists
  <2>3. \A v \in Worker \ {w} : UNCHANGED <<pc[v], att[v]>>
    BY <1>1, <2>1, OthersStay
  <2> QED
    BY <2>2, <2>3 DEF Creators
<1>3. CASE UNCHANGED workerVars
  BY <1>3 DEF workerVars, Creators
<1> QED
  BY <1>2, <1>3 DEF Next, Ingest, Administer, Age, ComeDue, ServerStarts,
                    RedisLosesData, vars

(* The number of a row that exists and those that may still be added to it *)
(* by the INSERTs under way leave the bound room.                          *)
NumbersLeaveRoom ==
  \A p \in Pair :
    /\ ~Exists(p) => rows[p].number = 0
    /\ Exists(p) => /\ Cardinality(Creators(p)) < Cardinality(Worker)
                    /\ rows[p].number + Cardinality(Creators(p))
                         < MaxRetries + Cardinality(Worker)

(* An UPDATE never takes a number past MaxRetries. *)
LEMMA SavesNumber ==
  ASSUME StoreTypeOK, NEW a \in Attempt, NEW ans, Saves(a, ans), NEW p \in Pair
  PROVE  \/ rows'[p].number = rows[p].number
         \/ Exists(p)' /\ rows'[p].number \in 0 .. MaxRetries
<1>1. a.pair \in Pair /\ a.number \in Nat /\ MaxRetries \in Nat
  BY WorkerAssumption DEF Attempt
<1>2. rows[p] \in Row /\ rows[a.pair] \in Row
  BY <1>1 DEF StoreTypeOK
<1>3. CASE UNCHANGED storeVars
  BY <1>3 DEF storeVars
<1>4. ASSUME NEW st, Put(a.pair, [rows[a.pair] EXCEPT !.status = st, !.next = "null"])
      PROVE  rows'[p].number = rows[p].number
  BY <1>1, <1>2, <1>4 DEF Put, StoreTypeOK, Row
<1>5. ASSUME a.number + 1 <= MaxRetries,
             Put(a.pair, [number |-> a.number + 1, status |-> "failed", next |-> "later"])
      PROVE  \/ rows'[p].number = rows[p].number
             \/ Exists(p)' /\ rows'[p].number \in 0 .. MaxRetries
  BY <1>1, <1>2, <1>5 DEF Put, StoreTypeOK, Exists
<1>6. \/ UNCHANGED storeVars
      \/ \E st : Put(a.pair, [rows[a.pair] EXCEPT !.status = st, !.next = "null"])
      \/ /\ a.number + 1 <= MaxRetries
         /\ Put(a.pair, [number |-> a.number + 1, status |-> "failed", next |-> "later"])
  BY DEF Saves, MarkFailure, UpdateStatus, IncrementAttempt, Write
<1> QED
  BY <1>3, <1>4, <1>5, <1>6

(* How a step may change the table: by the INSERT of a worker that goes on *)
(* from there, by the UPDATE of a worker that is not about to INSERT, or   *)
(* by the clock.                                                           *)
LEMMA StoreStep ==
  ASSUME Typing, [Next]_vars
  PROVE  \/ UNCHANGED storeVars
         \/ \E w \in Worker : /\ pc[w] = "create" /\ pc'[w] # "create"
                              /\ att[w].pair \in Pair /\ Create(att[w].pair)
         \/ \E w \in Worker : /\ pc[w] = "record" /\ pc'[w] # "create"
                              /\ att[w] \in Attempt /\ Saves(att[w], answer[w])
         \/ \E p \in Pair : RetryComesDue(p)
<1>1. \A w \in Worker : pc[w] \in {"create", "record"} => att[w] \in Attempt
  BY DEF Typing, LocalsReady
<1>2. ASSUME NEW w \in Worker, WorkerWorks(w) \/ WorkerFails(w)
      PROVE  \/ UNCHANGED storeVars
             \/ /\ pc[w] = "create" /\ pc'[w] # "create"
                /\ att[w].pair \in Pair /\ Create(att[w].pair)
             \/ /\ pc[w] = "record" /\ pc'[w] # "create"
                /\ att[w] \in Attempt /\ Saves(att[w], answer[w])
  <2>1. Works(w) \/ Fails(w)
    BY <1>2 DEF WorkerWorks, WorkerFails
  <2>2. pc'[w] = "create" => UNCHANGED storeVars
    BY <2>1, ToCreate
  <2> QED
    BY <1>1, <2>1, <2>2, WorkerStore DEF Attempt
<1> QED
  BY <1>2 DEF Next, Ingest, Administer, Age, ComeDue, ServerStarts, RedisLosesData, vars

LEMMA RoomStep ==
  ASSUME IsFiniteSet(Worker), Typing, NumbersLeaveRoom, [Next]_vars
  PROVE  NumbersLeaveRoom'
<1>1. StoreTypeOK /\ StoreTypeOK'
  BY TypingStep DEF Typing, TypeOK
<1>2. MaxRetries \in Nat \ {0} /\ Cardinality(Worker) \in Nat
  BY WorkerAssumption, FS_CardinalityType
<1> SUFFICES ASSUME NEW p \in Pair
             PROVE  /\ ~Exists(p)' => rows'[p].number = 0
                    /\ Exists(p)' => /\ Cardinality(Creators(p)') < Cardinality(Worker)
                                     /\ rows'[p].number + Cardinality(Creators(p)')
                                          < MaxRetries + Cardinality(Worker)
  BY DEF NumbersLeaveRoom
<1>3. rows[p].number \in Nat /\ rows'[p].number \in Nat
  BY <1>1 DEF StoreTypeOK, Row
<1>4. /\ IsFiniteSet(Creators(p)) /\ IsFiniteSet(Creators(p)')
      /\ Cardinality(Creators(p)) \in Nat /\ Cardinality(Creators(p)') \in Nat
  <2>1. Creators(p) \in SUBSET Worker /\ Creators(p)' \in SUBSET Worker
    BY DEF Creators
  <2> QED
    BY <2>1, FS_Subset, FS_CardinalityType
<1>5. Exists(p) => /\ Creators(p)' \in SUBSET Creators(p)
                   /\ Cardinality(Creators(p)') <= Cardinality(Creators(p))
  BY <1>4, CreatorsStep, FS_Subset
<1>6. CASE /\ Exists(p)' <=> Exists(p)
           /\ rows'[p].number = rows[p].number
  BY <1>2, <1>3, <1>4, <1>5, <1>6 DEF NumbersLeaveRoom
<1>7. ASSUME NEW w \in Worker, w \notin Creators(p)'
      PROVE  Cardinality(Creators(p)') < Cardinality(Worker)
  <2>1. Creators(p)' \in SUBSET Worker /\ Creators(p)' # Worker
    BY <1>7 DEF Creators
  <2> QED
    BY <1>2, <1>4, <2>1, FS_Subset
<1>8. ASSUME NEW w \in Worker, pc[w] = "create", pc'[w] # "create", att[w].pair = p, Create(p)
      PROVE  /\ Exists(p)'
             /\ Cardinality(Creators(p)') < Cardinality(Worker)
             /\ rows'[p].number + Cardinality(Creators(p)') < MaxRetries + Cardinality(Worker)
  <2>1. rows'[p].number = rows[p].number + 1 /\ Exists(p)'
    BY <1>1, <1>8 DEF Create, Put, StoreTypeOK, Exists
  <2>2. w \in Creators(p) /\ w \notin Creators(p)'
    BY <1>8 DEF Creators
  <2>3. Cardinality(Creators(p)') < Cardinality(Worker)
    BY <1>7, <2>2
  <2>4. CASE Exists(p)
    <3>1. Cardinality(Creators(p)') < Cardinality(Creators(p))
      BY <1>4, <1>5, <2>2, <2>4, FS_Subset
    <3> QED
      BY <1>2, <1>3, <1>4, <2>1, <2>3, <2>4, <3>1 DEF NumbersLeaveRoom
  <2>5. CASE ~Exists(p)
    BY <1>2, <1>3, <1>4, <2>1, <2>3, <2>5 DEF NumbersLeaveRoom
  <2> QED
    BY <2>1, <2>3, <2>4, <2>5
<1>9. ASSUME NEW w \in Worker, pc[w] = "create", att[w].pair # p,
             att[w].pair \in Pair, Create(att[w].pair)
      PROVE  rows'[p] = rows[p]
  BY <1>1, <1>9 DEF Create, Put, StoreTypeOK
<1>10. ASSUME NEW w \in Worker, pc'[w] # "create", att[w] \in Attempt,
              Saves(att[w], answer[w])
       PROVE  /\ ~Exists(p)' => rows'[p].number = 0
              /\ Exists(p)' => /\ Cardinality(Creators(p)') < Cardinality(Worker)
                               /\ rows'[p].number + Cardinality(Creators(p)')
                                    < MaxRetries + Cardinality(Worker)
  <2>1. Cardinality(Creators(p)') < Cardinality(Worker)
    BY <1>7, <1>10 DEF Creators
  <2>2. \/ rows'[p].number = rows[p].number
        \/ Exists(p)' /\ rows'[p].number \in 0 .. MaxRetries
    BY <1>1, <1>10, SavesNumber
  <2>3. Exists(p) => Exists(p)'
    BY <1>1, <1>10, SavesLemma
  <2> QED
    BY <1>2, <1>3, <1>4, <1>5, <2>1, <2>2, <2>3 DEF NumbersLeaveRoom
<1>11. ASSUME NEW q \in Pair, RetryComesDue(q)
       PROVE  (Exists(p)' <=> Exists(p)) /\ rows'[p].number = rows[p].number
  BY <1>1, <1>11 DEF RetryComesDue, StoreTypeOK, Row, Exists
<1>12. CASE UNCHANGED storeVars
  BY <1>6, <1>12 DEF storeVars, Exists
<1>13. ASSUME NEW w \in Worker, pc[w] = "create", pc'[w] # "create",
              att[w].pair \in Pair, Create(att[w].pair)
       PROVE  /\ ~Exists(p)' => rows'[p].number = 0
              /\ Exists(p)' => /\ Cardinality(Creators(p)') < Cardinality(Worker)
                               /\ rows'[p].number + Cardinality(Creators(p)')
                                    < MaxRetries + Cardinality(Worker)
  <2>1. CASE att[w].pair = p
    BY <1>8, <1>13, <2>1
  <2>2. CASE att[w].pair # p
    BY <1>6, <1>9, <1>13, <2>2 DEF Exists
  <2> QED
    BY <2>1, <2>2
<1> QED
  BY <1>6, <1>10, <1>11, <1>12, <1>13, StoreStep

LEMMA RoomInvariant == IsFiniteSet(Worker) => (Spec => []NumbersLeaveRoom)
<1> SUFFICES ASSUME IsFiniteSet(Worker) PROVE Spec => []NumbersLeaveRoom
  OBVIOUS
<1>1. Init => NumbersLeaveRoom
  BY DEF Init, StoreInit, NoRow, NumbersLeaveRoom, Exists
<1>2. Typing /\ NumbersLeaveRoom /\ [Next]_vars => NumbersLeaveRoom'
  BY RoomStep
<1> QED
  BY <1>1, <1>2, TypingInvariant, PTL DEF Spec

(* However many workers deliver the same event at the same time, and what- *)
(* ever fails, the number of a row passes MaxRetries only by the upserts   *)
(* of workers that saw no row, at most once for each but the first.        *)
THEOREM AttemptsBounded ==
  IsFiniteSet(Worker) => (Spec => []AttemptNumberBounded)
<1> SUFFICES ASSUME IsFiniteSet(Worker) PROVE Spec => []AttemptNumberBounded
  OBVIOUS
<1>1. Typing /\ NumbersLeaveRoom => AttemptNumberBounded
  <2> SUFFICES ASSUME Typing, NumbersLeaveRoom, NEW p \in Pair
               PROVE  rows[p].number < MaxRetries + Cardinality(Worker)
    BY DEF AttemptNumberBounded
  <2>1. Cardinality(Worker) \in Nat /\ MaxRetries \in Nat \ {0} /\ rows[p].number \in Nat
    BY FS_CardinalityType, WorkerAssumption DEF Typing, TypeOK, StoreTypeOK, Row
  <2>2. Cardinality(Creators(p)) \in Nat
    <3>1. Creators(p) \in SUBSET Worker
      BY DEF Creators
    <3> QED
      BY <3>1, FS_Subset, FS_CardinalityType
  <2> QED
    BY <2>1, <2>2 DEF NumbersLeaveRoom
<1> QED
  BY <1>1, RoomInvariant, TypingInvariant, PTL

-----------------------------------------------------------------------------
(* A step of one worker, or one that leaves the workers alone. *)
LEMMA WhoseStep ==
  ASSUME [Next]_vars
  PROVE  \/ UNCHANGED workerVars /\ (UNCHANGED storeVars \/ \E p \in Pair : RetryComesDue(p))
         \/ \E w \in Worker : Works(w) \/ Fails(w)
BY DEF Next, Ingest, Administer, WorkerWorks, WorkerFails, Age, ComeDue,
       ServerStarts, RedisLosesData, vars

(* The POSTs are counted, and only a POST puts an answer into a worker's   *)
(* hands.                                                                  *)
LEMMA PostsStep ==
  ASSUME Typing, [Next]_vars
  PROVE  /\ \A p \in Pair : posts[p] \in Nat /\ posts'[p] \in Nat /\ posts[p] <= posts'[p]
         /\ \A w \in Worker : pc'[w] = "record" =>
              /\ att'[w] = att[w] /\ att[w].pair \in Pair
              /\ \/ pc[w] = "record"
                 \/ LET n == posts[att[w].pair] IN
                    /\ pc[w] = "post"
                    /\ posts'[att[w].pair] = IF n < PostBound THEN n + 1 ELSE n
<1>1. WorkerTypeOK /\ \A w \in Worker : LocalsReady(w)
  BY DEF Typing, TypeOK
<1>2. \A p \in Pair : posts[p] \in Nat
  BY <1>1 DEF WorkerTypeOK
<1>3. \A w \in Worker : pc[w] \in {"post", "record"} => att[w].pair \in Pair
  BY <1>1 DEF LocalsReady, Attempt
<1>4. ASSUME NEW w \in Worker, Post(w)
      PROVE  /\ \A p \in Pair : posts'[p] \in Nat /\ posts[p] <= posts'[p]
             /\ att' = att /\ pc[w] = "post" /\ pc'[w] = "record"
             /\ \A v \in Worker \ {w} : pc'[v] = pc[v]
             /\ posts'[att[w].pair] = IF posts[att[w].pair] < PostBound
                                      THEN posts[att[w].pair] + 1
                                      ELSE posts[att[w].pair]
  <2>1. att[w].pair \in Pair
    BY <1>3, <1>4 DEF Post
  <2>2. /\ posts' = [posts EXCEPT ![att[w].pair] = IF @ < PostBound THEN @ + 1 ELSE @]
        /\ att' = att /\ pc[w] = "post" /\ pc' = [pc EXCEPT ![w] = "record"]
    BY <1>4 DEF Post, Goto
  <2>3. posts \in [Pair -> Nat] /\ pc \in [Worker -> Label]
    BY <1>1 DEF WorkerTypeOK
  <2> QED
    BY <2>1, <2>2, <2>3
<1>5. ASSUME NEW w \in Worker, Works(w) \/ Fails(w), ~Post(w)
      PROVE  /\ UNCHANGED posts
             /\ pc'[w] = "record" => UNCHANGED <<pc[w], att[w]>>
             /\ \A v \in Worker \ {w} : UNCHANGED <<pc[v], att[v]>>
  <2>1. UNCHANGED posts
    BY <1>5
       DEF Works, Start, Claim, ClaimNoGroup, Read, ReadTimeout, ListSubs,
           MessagesDone, Lookup, CreateAttempt, Ack, Record, ListRetries, Load,
           RetriesDone, Fails, StartFails, ClaimFails, ReadFails, ListSubsFails,
           LookupFails, CreateAttemptFails, AckFails, RecordFails, ListRetriesFails,
           LoadFails, Crash, Abandon, NextDelivery, Goto, history, workerVars
  <2>2. CASE Works(w)
    <3>1. pc'[w] # "record"
      BY <1>1, <1>5, <2>2
         DEF Works, Start, Claim, ClaimNoGroup, Read, ReadTimeout, ListSubs,
             MessagesDone, Lookup, CreateAttempt, Ack, Record, ListRetries, Load,
             RetriesDone, NextDelivery, Goto, WorkerTypeOK, workerVars
    <3> QED
      BY <1>5, <1>1, <2>1, <3>1, OthersStay
  <2>3. CASE Fails(w)
    <3>1. pc'[w] = "record" => UNCHANGED <<pc[w], att[w]>>
      BY <1>1, <1>5, <2>3
         DEF Fails, StartFails, ClaimFails, ReadFails, ListSubsFails, LookupFails,
             CreateAttemptFails, AckFails, RecordFails, ListRetriesFails, LoadFails, Crash,
             Abandon, NextDelivery, Goto, WorkerTypeOK, workerVars
    <3> QED
      BY <1>5, <1>1, <2>1, <3>1, OthersStay
  <2> QED
    BY <1>5, <2>2, <2>3
<1>6. CASE UNCHANGED workerVars
  BY <1>2, <1>3, <1>6 DEF workerVars
<1>7. CASE \E w \in Worker : Works(w) \/ Fails(w)
  BY <1>2, <1>3, <1>4, <1>5, <1>7
<1> QED
  BY <1>6, <1>7, WhoseStep

(* A worker copies what the row says, or starts with 1 where it sees none, *)
(* and keeps the attempts it has.                                          *)
LEMMA HeldStep ==
  ASSUME Typing, [Next]_vars, NEW v \in Worker
  PROVE  /\ pc'[v] = "create" => (pc[v] = "create" /\ att'[v] = att[v]) \/ att'[v].number = 1
         /\ pc'[v] = "post" =>
              \/ pc[v] = "post" /\ att'[v] = att[v]
              \/ pc[v] = "create" /\ att'[v].pair = att[v].pair /\ att'[v].number = att[v].number
                 /\ Create(att[v].pair) /\ att[v].pair \in Pair
              \/ att'[v] \in batch[v]
              \/ UNCHANGED storeVars /\ \E q \in Pair : Exists(q) /\ att'[v] = Copy(q)
         /\ \A a \in batch'[v] :
              \/ a \in batch[v]
              \/ UNCHANGED storeVars /\ \E q \in Pair : Exists(q) /\ a = Copy(q)
<1> DEFINE Same == /\ batch'[v] \subseteq batch[v]
                   /\ pc'[v] \in {"create", "post"} => UNCHANGED <<pc[v], att[v]>>
<1>1. WorkerTypeOK /\ StoreTypeOK /\ StreamTypeOK /\ LocalsReady(v)
  BY DEF Typing, TypeOK
<1>2. CASE Lookup(v)
  <2>1. entry[v] \in 1 .. Len(stream) /\ batch'[v] = batch[v] /\ UNCHANGED storeVars
    BY <1>1, <1>2 DEF Lookup, LocalsReady, WorkerTypeOK, StreamTypeOK
  <2>2. PICK s \in todo[v] : LET p == <<stream[entry[v]], s>> IN
          \/ pc'[v] = "attempt"
          \/ Exists(p) /\ att'[v] = Copy(p) /\ pc'[v] = "post"
          \/ att'[v] = Fresh(p) /\ pc'[v] = "create"
    BY <1>1, <1>2 DEF Lookup, Goto, WorkerTypeOK
  <2>3. <<stream[entry[v]], s>> \in Pair
    BY <1>1, <2>1 DEF WorkerTypeOK, StreamTypeOK, Pair
  <2> QED
    BY <2>1, <2>2, <2>3 DEF Fresh
<1>3. CASE CreateAttempt(v)
  <2>1. /\ pc[v] = "create" /\ pc'[v] = "post" /\ batch'[v] = batch[v]
        /\ att'[v] = Created(att[v]) /\ Create(att[v].pair) /\ att[v] \in Attempt
    BY <1>1, <1>3 DEF CreateAttempt, Goto, WorkerTypeOK, LocalsReady
  <2> QED
    BY <2>1 DEF Created, Attempt
<1>4. CASE ListRetries(v)
  <2>1. PICK due \in PendingRetries(RetryBatch) : batch'[v] = {Copy(p) : p \in due}
    BY <1>1, <1>4 DEF ListRetries, WorkerTypeOK
  <2>2. \A p \in due : p \in Pair /\ Exists(p)
    BY <2>1 DEF PendingRetries, DueRows, Exists
  <2>3. pc'[v] = "load" /\ UNCHANGED storeVars
    BY <1>1, <1>4 DEF ListRetries, Goto, WorkerTypeOK
  <2> QED
    BY <2>1, <2>2, <2>3
<1>5. CASE Load(v)
  <2>1. /\ batch'[v] \subseteq batch[v] /\ pc'[v] # "create"
        /\ pc'[v] = "post" => att'[v] \in batch[v]
    BY <1>1, <1>5 DEF Load, Goto, WorkerTypeOK
  <2> QED
    BY <2>1
<1>6. CASE Same
  BY <1>6
<1>7. ASSUME Works(v) \/ Fails(v), ~(Lookup(v) \/ CreateAttempt(v) \/ ListRetries(v) \/ Load(v))
      PROVE  Same
  BY <1>1, <1>7
     DEF Works, Fails, Start, Claim, ClaimNoGroup, Read, ReadTimeout, ListSubs,
         MessagesDone, Ack, Post, Record, RetriesDone, StartFails, ClaimFails, ReadFails,
         ListSubsFails, LookupFails, CreateAttemptFails, AckFails, RecordFails,
         ListRetriesFails, LoadFails, Crash, NextDelivery, Abandon, Goto, WorkerTypeOK,
         workerVars
<1>8. ASSUME NEW w \in Worker \ {v}, Works(w) \/ Fails(w)
      PROVE  Same
  BY <1>1, <1>8, OthersStay
<1>9. CASE UNCHANGED workerVars
  BY <1>6, <1>9 DEF workerVars
<1> QED
  BY <1>2, <1>3, <1>4, <1>5, <1>6, <1>7, <1>8, <1>9, WhoseStep

(* The attempts of p that are accounted for: its POSTs, and what workers   *)
(* that raced have added to its number or no longer can.                   *)
Slack(p) == posts[p] + Cardinality(Worker) - Cardinality(Creators(p))

(* Once there is a row, every POST adds to these, as does the INSERT of    *)
(* each worker that had seen none.                                         *)
LEMMA SlackStep ==
  ASSUME IsFiniteSet(Worker), Typing, [Next]_vars, NEW p \in Pair
  PROVE  /\ Slack(p) \in Int /\ Slack(p)' \in Int
         /\ posts[p] \in Nat /\ posts'[p] \in Nat /\ posts[p] <= posts'[p]
         /\ Exists(p) => Slack(p) <= Slack(p)'
         /\ \A w \in Worker :
              Exists(p) /\ pc[w] = "post" /\ pc'[w] = "record" /\ att[w].pair = p
                => posts[p] >= PostBound \/ Slack(p) + 1 <= Slack(p)'
         /\ \A w \in Worker :
              Exists(p) /\ pc[w] = "create" /\ pc'[w] # "create" /\ att[w].pair = p
                => Slack(p) + 1 <= Slack(p)'
         /\ \A w \in Worker : pc'[w] # "create" => 1 <= Slack(p)'
<1>1. /\ posts[p] \in Nat /\ posts'[p] \in Nat /\ posts[p] <= posts'[p]
      /\ Cardinality(Worker) \in Nat /\ PostBound \in Nat
  BY PostsStep, FS_CardinalityType, WorkerAssumption
<1>2. /\ Creators(p) \in SUBSET Worker /\ Creators(p)' \in SUBSET Worker
      /\ IsFiniteSet(Creators(p)) /\ IsFiniteSet(Creators(p)')
      /\ Cardinality(Creators(p)) \in Nat /\ Cardinality(Creators(p)') \in Nat
  <2>1. Creators(p) \in SUBSET Worker /\ Creators(p)' \in SUBSET Worker
    BY DEF Creators
  <2> QED
    BY <2>1, FS_Subset, FS_CardinalityType
<1>3. /\ Slack(p) = posts[p] + Cardinality(Worker) - Cardinality(Creators(p))
      /\ Slack(p)' = posts'[p] + Cardinality(Worker) - Cardinality(Creators(p)')
  BY DEF Slack
<1>4. Exists(p) => /\ Creators(p)' \in SUBSET Creators(p)
                   /\ Cardinality(Creators(p)') <= Cardinality(Creators(p))
  BY <1>2, CreatorsStep, FS_Subset
<1>5. ASSUME NEW w \in Worker, Exists(p), pc[w] = "post", pc'[w] = "record", att[w].pair = p,
             posts[p] < PostBound
      PROVE  posts'[p] = posts[p] + 1
  BY <1>5, PostsStep
<1>6. ASSUME NEW w \in Worker, Exists(p), pc[w] = "create", pc'[w] # "create", att[w].pair = p
      PROVE  Cardinality(Creators(p)') < Cardinality(Creators(p))
  <2>1. w \in Creators(p) /\ w \notin Creators(p)'
    BY <1>6 DEF Creators
  <2> QED
    BY <1>2, <1>4, <1>6, <2>1, FS_Subset
<1>7. ASSUME NEW w \in Worker, pc'[w] # "create"
      PROVE  Cardinality(Creators(p)') < Cardinality(Worker)
  <2>1. Creators(p)' \in SUBSET Worker /\ Creators(p)' # Worker
    BY <1>7 DEF Creators
  <2> QED
    BY <1>1, <1>2, <2>1, FS_Subset
<1> HIDE DEF Slack
<1>8. Slack(p) \in Int /\ Slack(p)' \in Int /\ (Exists(p) => Slack(p) <= Slack(p)')
  BY <1>1, <1>2, <1>3, <1>4
<1>9. ASSUME NEW w \in Worker, Exists(p), pc[w] = "post", pc'[w] = "record", att[w].pair = p
      PROVE  posts[p] >= PostBound \/ Slack(p) + 1 <= Slack(p)'
  BY <1>1, <1>2, <1>3, <1>4, <1>5, <1>9
<1>10. ASSUME NEW w \in Worker, Exists(p), pc[w] = "create", pc'[w] # "create", att[w].pair = p
       PROVE  Slack(p) + 1 <= Slack(p)'
  BY <1>1, <1>2, <1>3, <1>6, <1>10
<1>11. ASSUME NEW w \in Worker, pc'[w] # "create"
       PROVE  1 <= Slack(p)'
  BY <1>1, <1>2, <1>3, <1>7, <1>11
<1> QED
  BY <1>1, <1>8, <1>9, <1>10, <1>11

(* An attempt with number n for p is accounted for (or the POSTs of p are   *)
(* more than are told apart).                                              *)
Covered(p, n) == posts[p] >= PostBound \/ n <= Slack(p)

(* So are all there are: those in the table, those in the workers' hands   *)
(* and in their lists, and where an answer is in, the one that comes next. *)
AttemptsCovered ==
  /\ \A p \in Pair : Exists(p) => Covered(p, rows[p].number)
  /\ \A w \in Worker :
       /\ pc[w] = "create" => att[w].number = 1
       /\ pc[w] = "post" => Exists(att[w].pair) /\ Covered(att[w].pair, att[w].number)
       /\ pc[w] = "record" => Exists(att[w].pair) /\ Covered(att[w].pair, att[w].number + 1)
       /\ \A a \in batch[w] : Exists(a.pair) /\ Covered(a.pair, a.number)

LEMMA CoveredStep ==
  ASSUME IsFiniteSet(Worker), Typing, [Next]_vars, NEW p \in Pair, Exists(p),
         NEW n \in Int
  PROVE  /\ Covered(p, n) => Covered(p, n)'
         /\ \A w \in Worker :
              Covered(p, n) /\ pc[w] = "post" /\ pc'[w] = "record" /\ att[w].pair = p
                => Covered(p, n + 1)'
         /\ \A w \in Worker :
              Covered(p, n) /\ pc[w] = "create" /\ pc'[w] # "create" /\ att[w].pair = p
                => Covered(p, n + 1)'
<1>1. PostBound \in Nat
  BY WorkerAssumption
<1> QED
  BY <1>1, SlackStep DEF Covered

(* What an UPDATE makes of the number, and when it is the last one.        *)
LEMMA SavesTable ==
  ASSUME StoreTypeOK, NEW a \in Attempt, NEW ans, Saves(a, ans), NEW p \in Pair
  PROVE  /\ \/ rows'[p].number = rows[p].number
            \/ p = a.pair /\ rows'[p].number = a.number + 1
         /\ p # a.pair => rows'[p] = rows[p]
         /\ FailedForGood(p)' =>
              \/ FailedForGood(p)
              \/ p = a.pair /\ (ans = "client" \/ a.number + 1 > MaxRetries)
<1>1. a.pair \in Pair /\ a.number \in Nat
  BY DEF Attempt
<1>2. rows[p] \in Row /\ rows[a.pair] \in Row
  BY <1>1 DEF StoreTypeOK
<1>3. CASE UNCHANGED storeVars
  BY <1>3 DEF storeVars, FailedForGood
<1>4. ASSUME NEW row \in Row, Put(a.pair, row)
      PROVE  rows'[p] = IF p = a.pair THEN row ELSE rows[p]
  BY <1>1, <1>4 DEF Put, StoreTypeOK
<1>5. ASSUME NEW st \in {"success", "failed"}, UpdateStatus(a, st)
      PROVE  /\ rows'[p].number = rows[p].number
             /\ p # a.pair => rows'[p] = rows[p]
             /\ FailedForGood(p)' => FailedForGood(p) \/ (p = a.pair /\ st = "failed")
  <2>1. PICK row : row = [rows[a.pair] EXCEPT !.status = st, !.next = "null"]
    OBVIOUS
  <2>2. /\ row \in Row /\ row.number = rows[a.pair].number /\ row.status = st
        /\ UNCHANGED storeVars \/ Put(a.pair, row)
    BY <1>2, <1>5, <2>1 DEF UpdateStatus, Write, Row
  <2>3. CASE UNCHANGED storeVars
    BY <1>3, <2>3 DEF FailedForGood, storeVars
  <2>4. CASE Put(a.pair, row)
    <3>1. rows'[p] = IF p = a.pair THEN row ELSE rows[p]
      BY <1>4, <2>2, <2>4
    <3> QED
      BY <2>2, <3>1 DEF FailedForGood
  <2> QED
    BY <2>2, <2>3, <2>4
<1>6. ASSUME IncrementAttempt(a, a.number + 1)
      PROVE  /\ \/ rows'[p].number = rows[p].number
                \/ p = a.pair /\ rows'[p].number = a.number + 1
             /\ p # a.pair => rows'[p] = rows[p]
             /\ FailedForGood(p)' => FailedForGood(p)
  <2>1. PICK row : row = [number |-> a.number + 1, status |-> "failed", next |-> "later"]
    OBVIOUS
  <2>2. /\ row \in Row /\ row.number = a.number + 1 /\ row.next = "later"
        /\ UNCHANGED storeVars \/ Put(a.pair, row)
    BY <1>1, <1>6, <2>1 DEF IncrementAttempt, Write, Row
  <2> QED
    BY <1>3, <1>4, <2>2 DEF FailedForGood, storeVars
<1>7. \/ ans = "ok" /\ UpdateStatus(a, "success")
      \/ ans = "client" /\ UpdateStatus(a, "failed")
      \/ a.number + 1 > MaxRetries /\ UpdateStatus(a, "failed")
      \/ IncrementAttempt(a, a.number + 1)
  BY DEF Saves, MarkFailure
<1> QED
  BY <1>5, <1>6, <1>7

(* The table's part of the invariant: a number grows by the INSERT of a    *)
(* worker that saw no row, or is the next one after an answer.             *)
LEMMA CoveredTable ==
  ASSUME IsFiniteSet(Worker), Typing, NumbersLeaveRoom, AttemptsCovered, [Next]_vars,
         NEW p \in Pair, Exists(p)', NEW n \in Nat, n = rows'[p].number
  PROVE  Covered(p, n)'
<1>1. StoreTypeOK /\ rows[p].number \in Nat
  BY DEF Typing, TypeOK, StoreTypeOK, Row
<1>2. ASSUME Exists(p), rows'[p].number = rows[p].number
      PROVE  Covered(p, n)'
  BY <1>1, <1>2, CoveredStep DEF AttemptsCovered
<1>3. ASSUME NEW w \in Worker, pc[w] = "create", pc'[w] # "create", att[w].pair = p, Create(p)
      PROVE  Covered(p, n)'
  <2>1. rows'[p].number = rows[p].number + 1
    BY <1>1, <1>3 DEF Create, Put, StoreTypeOK
  <2>2. CASE Exists(p)
    BY <1>1, <1>3, <2>1, <2>2, CoveredStep DEF AttemptsCovered
  <2>3. CASE ~Exists(p)
    <3>1. rows'[p].number = 1 /\ 1 <= Slack(p)'
      BY <1>3, <2>1, <2>3, SlackStep DEF NumbersLeaveRoom
    <3> QED
      BY <3>1 DEF Covered
  <2> QED
    BY <2>2, <2>3
<1>4. ASSUME NEW w \in Worker, pc[w] = "record", att[w] \in Attempt, Saves(att[w], answer[w])
      PROVE  Covered(p, n)'
  <2>1. CASE p = att[w].pair /\ rows'[p].number = att[w].number + 1
    <3>1. Exists(p) /\ Covered(p, att[w].number + 1) /\ att[w].number + 1 \in Int
      BY <1>4, <2>1 DEF AttemptsCovered, Attempt
    <3> QED
      BY <2>1, <3>1, CoveredStep
  <2>2. CASE rows'[p].number = rows[p].number /\ ~(p = att[w].pair)
    <3>1. Exists(p)
      BY <1>1, <1>4, <2>2, SavesTable DEF Exists
    <3> QED
      BY <1>2, <2>2, <3>1
  <2>3. CASE rows'[p].number = rows[p].number /\ p = att[w].pair
    <3>1. Exists(p)
      BY <1>4, <2>3 DEF AttemptsCovered
    <3> QED
      BY <1>2, <2>3, <3>1
  <2> QED
    BY <1>1, <1>4, <2>1, <2>2, <2>3, SavesTable
<1>5. ASSUME NEW q \in Pair, \/ RetryComesDue(q)
                             \/ q # p /\ Create(q)
                             \/ UNCHANGED storeVars
      PROVE  Exists(p) /\ rows'[p].number = rows[p].number
  BY <1>1, <1>5 DEF RetryComesDue, Create, Put, StoreTypeOK, Row, Exists, storeVars
<1> QED
  BY <1>2, <1>3, <1>4, <1>5, StoreStep

(* The workers' part: what they hold is copied from the table, begun by    *)
(* themselves, or kept.                                                    *)
LEMMA CoveredHolder ==
  ASSUME IsFiniteSet(Worker), Typing, NumbersLeaveRoom, AttemptsCovered, [Next]_vars,
         NEW w \in Worker
  PROVE  /\ pc'[w] = "create" => att'[w].number = 1
         /\ pc'[w] = "post" =>
              Exists(att[w].pair)' /\ Covered(att[w].pair, att[w].number)'
         /\ pc'[w] = "record" =>
              Exists(att[w].pair)' /\ Covered(att[w].pair, att[w].number + 1)'
         /\ \A a \in batch'[w] : Exists(a.pair)' /\ Covered(a.pair, a.number)'
<1>1. /\ StoreTypeOK /\ Typing'
      /\ \A p \in Pair : rows[p].number \in Nat
      /\ \A a \in batch[w] : a \in Attempt /\ a.pair \in Pair /\ a.number \in Nat
      /\ pc[w] \in {"create", "post", "record"} =>
           att[w] \in Attempt /\ att[w].pair \in Pair /\ att[w].number \in Nat
  BY TypingStep DEF Typing, TypeOK, StoreTypeOK, Row, WorkerTypeOK, LocalsReady, Attempt
<1>2. ASSUME NEW p \in Pair, NEW n \in Nat, Exists(p), Covered(p, n)
      PROVE  Exists(p)' /\ Covered(p, n)'
  BY <1>2, RowsStep, CoveredStep
<1>3. ASSUME NEW p \in Pair, Exists(p), NEW a, a = Copy(p)
      PROVE  Exists(a.pair)' /\ Covered(a.pair, a.number)'
  <2>1. a.pair = p /\ a.number \in Nat /\ a.number = rows[p].number
    BY <1>1, <1>3 DEF Copy
  <2> QED
    BY <1>2, <1>3, <2>1 DEF AttemptsCovered
<1>4. ASSUME NEW a \in batch[w]
      PROVE  Exists(a.pair)' /\ Covered(a.pair, a.number)'
  BY <1>1, <1>2, <1>4 DEF AttemptsCovered
<1>5. pc'[w] = "create" => att'[w].number = 1
  BY HeldStep DEF AttemptsCovered
<1>6. ASSUME pc'[w] = "post", NEW a, a = att'[w]
      PROVE  Exists(a.pair)' /\ Covered(a.pair, a.number)'
  <2>1. CASE pc[w] = "post" /\ a = att[w]
    BY <1>1, <1>2, <2>1 DEF AttemptsCovered
  <2>2. CASE /\ pc[w] = "create" /\ a.pair = att[w].pair /\ a.number = att[w].number
             /\ Create(att[w].pair) /\ att[w].pair \in Pair
    <3>1. Exists(a.pair)'
      BY <1>1, <2>2 DEF Create, Put, StoreTypeOK, Exists
    <3>2. 1 <= Slack(a.pair)'
      BY <1>6, <2>2, SlackStep
    <3> QED
      BY <2>2, <3>1, <3>2 DEF Covered, AttemptsCovered
  <2>3. CASE a \in batch[w]
    BY <1>4, <2>3
  <2>4. CASE \E q \in Pair : Exists(q) /\ a = Copy(q)
    BY <1>3, <2>4
  <2> QED
    BY <1>6, <2>1, <2>2, <2>3, <2>4, HeldStep
<1>7. ASSUME pc'[w] = "record", NEW a, a = att'[w]
      PROVE  Exists(a.pair)' /\ Covered(a.pair, a.number + 1)'
  <2>1. a = att[w] /\ pc[w] \in {"post", "record"}
    BY <1>7, PostsStep
  <2>2. a.pair \in Pair /\ a.number \in Nat /\ Exists(a.pair)
    BY <1>1, <2>1 DEF AttemptsCovered
  <2>3. CASE pc[w] = "record"
    BY <1>2, <2>1, <2>2, <2>3 DEF AttemptsCovered
  <2>4. CASE pc[w] = "post"
    BY <1>2, <1>7, <2>1, <2>2, <2>4, RowsStep, CoveredStep DEF AttemptsCovered
  <2> QED
    BY <2>1, <2>3, <2>4
<1>8. ASSUME NEW a \in batch'[w]
      PROVE  Exists(a.pair)' /\ Covered(a.pair, a.number)'
  BY <1>3, <1>4, <1>8, HeldStep
<1> QED
  BY <1>5, <1>6, <1>7, <1>8 DEF Exists, Covered, Slack, Creators

(* Every attempt number has been POSTed, or was used up by a worker that   *)
(* raced for the INSERT, whatever fails.                                   *)
LEMMA CoveredInvariant == IsFiniteSet(Worker) => (Spec => []AttemptsCovered)
<1> SUFFICES ASSUME IsFiniteSet(Worker) PROVE Spec => []AttemptsCovered
  OBVIOUS
<1>1. Init => AttemptsCovered
  BY DEF Init, StoreInit, NoRow, WorkerInit, AttemptsCovered, Exists
<1>2. Typing /\ NumbersLeaveRoom /\ AttemptsCovered /\ [Next]_vars => AttemptsCovered'
  <2> SUFFICES ASSUME Typing, NumbersLeaveRoom, AttemptsCovered, [Next]_vars
               PROVE  AttemptsCovered'
    OBVIOUS
  <2>1. ASSUME NEW p \in Pair, Exists(p)'
        PROVE  Covered(p, rows[p].number)'
    <3>1. PICK n \in Nat : n = rows'[p].number
      BY TypingStep DEF Typing, TypeOK, StoreTypeOK, Row
    <3>2. Covered(p, n)'
      BY <2>1, <3>1, CoveredTable
    <3> QED
      BY <3>1, <3>2 DEF Covered, Slack, Creators
  <2> QED
    BY <2>1, CoveredHolder DEF AttemptsCovered
<1> QED
  BY <1>1, <1>2, RoomInvariant, TypingInvariant, PTL DEF Spec

(* POSTs are told apart up to the number that a delivery is given up with. *)
PostsTold == PostBound + Cardinality(Worker) > MaxRetries

LEMMA GivesUpStep ==
  ASSUME IsFiniteSet(Worker), PostsTold, Typing, Earned, AttemptsCovered,
         GivesUpOnlyWhenExhausted, [Next]_vars, NEW p \in Pair, FailedForGood(p)'
  PROVE  "client" \in heard'[p] \/ posts'[p] + Cardinality(Worker) > MaxRetries
<1>1. /\ StoreTypeOK
      /\ PostBound \in Nat /\ MaxRetries \in Nat /\ Cardinality(Worker) \in Nat
      /\ posts[p] \in Nat /\ posts'[p] \in Nat /\ posts[p] <= posts'[p]
      /\ heard[p] \subseteq heard'[p]
  BY WorkerAssumption, FS_CardinalityType, PostsStep, AnswersStep DEF Typing, TypeOK
<1>2. CASE FailedForGood(p)
  BY <1>1, <1>2 DEF GivesUpOnlyWhenExhausted
<1>3. ASSUME NEW w \in Worker, pc[w] = "record", att[w] \in Attempt, att[w].pair = p,
             answer[w] = "client" \/ att[w].number + 1 > MaxRetries
      PROVE  "client" \in heard[p] \/ posts[p] + Cardinality(Worker) > MaxRetries
  <2>1. answer[w] \in heard[p] /\ Covered(p, att[w].number + 1) /\ att[w].number \in Nat
    BY <1>3 DEF Earned, AnswerGenuine, AttemptsCovered, Attempt
  <2>2. /\ Slack(p) = posts[p] + Cardinality(Worker) - Cardinality(Creators(p))
        /\ Cardinality(Creators(p)) \in Nat
    <3>1. Creators(p) \in SUBSET Worker
      BY DEF Creators
    <3> QED
      BY <3>1, FS_Subset, FS_CardinalityType DEF Slack
  <2> QED
    BY <1>1, <1>3, <2>1, <2>2 DEF Covered, PostsTold
<1>4. ASSUME NEW w \in Worker, pc[w] = "record", att[w] \in Attempt, Saves(att[w], answer[w])
      PROVE  \/ FailedForGood(p)
             \/ att[w].pair = p /\ (answer[w] = "client" \/ att[w].number + 1 > MaxRetries)
  BY <1>1, <1>4, SavesTable
<1>5. ASSUME NEW q \in Pair, Create(q) \/ RetryComesDue(q) \/ UNCHANGED storeVars
      PROVE  FailedForGood(p)
  BY <1>1, <1>5 DEF Create, Put, RetryComesDue, StoreTypeOK, Row, FailedForGood, storeVars
<1> QED
  BY <1>1, <1>2, <1>3, <1>4, <1>5, StoreStep

(* However many workers deliver the same event at the same time, and what- *)
(* ever fails, a delivery is given up only after a 4xx or MaxRetries       *)
(* POSTs, but for those whose number a racing INSERT has used up.          *)
THEOREM GivesUp ==
  IsFiniteSet(Worker) /\ PostsTold => (Spec => []GivesUpOnlyWhenExhausted)
<1> SUFFICES ASSUME IsFiniteSet(Worker), PostsTold
             PROVE  Spec => []GivesUpOnlyWhenExhausted
  OBVIOUS
<1>1. Init => GivesUpOnlyWhenExhausted
  BY DEF Init, StoreInit, NoRow, GivesUpOnlyWhenExhausted, FailedForGood
<1>2. Typing /\ Earned /\ AttemptsCovered /\ GivesUpOnlyWhenExhausted /\ [Next]_vars
        => GivesUpOnlyWhenExhausted'
  BY GivesUpStep DEF GivesUpOnlyWhenExhausted
<1> QED
  BY <1>1, <1>2, CoveredInvariant, EarnedInvariant, TypingInvariant, PTL DEF Spec

-----------------------------------------------------------------------------
(* In the message loop the delivery in hand is still on the list of those  *)
(* to be made, and outside it there is no list.                            *)
InHand(w) ==
  /\ entry[w] = 0 => todo[w] = {}
  /\ entry[w] # 0 /\ pc[w] \in {"create", "post", "record"} => att[w].pair[2] \in todo[w]

(* A worker takes up a delivery only from ListAll and from the retry loop, *)
(* and both look at whether the subscription is active.                    *)
LEMMA TakesUpActive ==
  ASSUME Typing, NEW w \in Worker, InHand(w), Works(w) \/ Fails(w)
  PROVE  /\ InHand(w)'
         /\ \A s \in Sub : ~IsActive(s) /\ WillPost(w, s)' => WillPost(w, s)
<1>1. /\ WorkerTypeOK /\ StoreTypeOK /\ StreamTypeOK /\ LocalsReady(w)
  BY DEF Typing, TypeOK
<1>2. CASE ListSubs(w)
  <2>1. PICK i \in Oldest(msgs[w]) :
          /\ entry' = [entry EXCEPT ![w] = i]
          /\ todo' = [todo EXCEPT ![w] = {s \in Sub : Due(stream[i], s)}]
    BY <1>2 DEF ListSubs
  <2>2. i # 0 /\ entry'[w] = i /\ pc'[w] = "attempt"
        /\ \A s \in todo'[w] : IsActive(s)
    BY <1>1, <1>2, <2>1 DEF ListSubs, Oldest, Goto, WorkerTypeOK, Due
  <2> QED
    BY <2>2 DEF InHand, WillPost
<1>3. CASE Lookup(w)
  <2>1. pc[w] = "attempt" /\ entry[w] # 0 /\ entry'[w] = entry[w]
    BY <1>1, <1>3 DEF Lookup, LocalsReady
  <2>2. \/ pc'[w] = "attempt" /\ todo'[w] \subseteq todo[w]
        \/ todo'[w] = todo[w] /\ att'[w].pair[2] \in todo[w]
    BY <1>1, <1>3 DEF Lookup, Goto, WorkerTypeOK, Copy, Fresh
  <2> QED
    BY <2>1, <2>2 DEF InHand, WillPost
<1>4. CASE CreateAttempt(w)
  <2>1. /\ pc[w] = "create" /\ pc'[w] = "post" /\ entry[w] # 0
        /\ UNCHANGED <<entry, todo>> /\ att'[w].pair = att[w].pair
    BY <1>1, <1>4 DEF CreateAttempt, Goto, WorkerTypeOK, LocalsReady, Created, Attempt
  <2> QED
    BY <2>1 DEF InHand, WillPost
<1>5. CASE Post(w)
  <2>1. pc[w] = "post" /\ pc'[w] = "record" /\ UNCHANGED <<entry, todo, att>>
    BY <1>1, <1>5 DEF Post, Goto, WorkerTypeOK
  <2> QED
    BY <2>1 DEF InHand, WillPost
<1>6. CASE Record(w) \/ RecordFails(w)
  <2>1. /\ pc[w] = "record" /\ UNCHANGED entry
        /\ \/ /\ entry[w] # 0 /\ pc'[w] = "attempt"
              /\ todo'[w] = todo[w] \ {att[w].pair[2]}
           \/ entry[w] = 0 /\ pc'[w] = "load" /\ todo'[w] = todo[w]
    BY <1>1, <1>6 DEF Record, RecordFails, NextDelivery, Goto, WorkerTypeOK
  <2> QED
    BY <2>1 DEF InHand, WillPost
<1>7. CASE Load(w)
  <2>1. /\ entry[w] = 0 /\ UNCHANGED <<entry, todo>>
        /\ pc'[w] = "post" => IsActive(att'[w].pair[2])
    BY <1>1, <1>7 DEF Load, LocalsReady, WorkerTypeOK, Goto
  <2> QED
    BY <2>1 DEF InHand, WillPost
<1>8. CASE UNCHANGED <<entry, todo>> /\ pc[w] # "record"
           /\ pc'[w] \notin {"create", "post", "record"}
  BY <1>8 DEF InHand, WillPost
<1>9. CASE todo'[w] = {} /\ pc'[w] \notin {"create", "post", "record"}
  BY <1>9 DEF InHand, WillPost
<1>10. \/ ListSubs(w) \/ Lookup(w) \/ CreateAttempt(w) \/ Post(w)
       \/ Record(w) \/ RecordFails(w) \/ Load(w)
       \/ /\ UNCHANGED <<entry, todo>> /\ pc[w] # "record"
          /\ pc'[w] \notin {"create", "post", "record"}
       \/ todo'[w] = {} /\ pc'[w] \notin {"create", "post", "record"}
  BY <1>1
     DEF Works, Fails, Start, Claim, ClaimNoGroup, Read, ReadTimeout, MessagesDone,
         Ack, ListRetries, RetriesDone, StartFails, ClaimFails, ReadFails,
         ListSubsFails, LookupFails, CreateAttemptFails, AckFails, ListRetriesFails,
         LoadFails, Crash, Abandon, Goto, WorkerTypeOK, workerVars
<1> QED
  BY <1>2, <1>3, <1>4, <1>5, <1>6, <1>7, <1>8, <1>9, <1>10

AllInHand == \A w \in Worker : InHand(w)

(* So does any step of the service. *)
LEMMA TakesUpStep ==
  ASSUME Typing, AllInHand, [Next]_vars
  PROVE  /\ AllInHand'
         /\ \A w \in Worker, s \in Sub : ~IsActive(s) /\ WillPost(w, s)' => WillPost(w, s)
<1> SUFFICES ASSUME NEW v \in Worker
             PROVE  /\ InHand(v)'
                    /\ \A s \in Sub : ~IsActive(s) /\ WillPost(v, s)' => WillPost(v, s)
  BY DEF AllInHand
<1> USE DEF AllInHand
<1>1. ASSUME UNCHANGED <<pc[v], entry[v], todo[v], att[v]>>
      PROVE  InHand(v)' /\ \A s \in Sub : WillPost(v, s)' <=> WillPost(v, s)
  BY <1>1 DEF InHand, WillPost
<1>2. CASE UNCHANGED workerVars
  BY <1>1, <1>2 DEF workerVars
<1>3. ASSUME NEW w \in Worker, Works(w) \/ Fails(w)
      PROVE  /\ InHand(v)'
             /\ \A s \in Sub : ~IsActive(s) /\ WillPost(v, s)' => WillPost(v, s)
  <2>1. CASE v = w
    BY <1>3, <2>1, TakesUpActive
  <2>2. CASE v # w
    <3>1. WorkerTypeOK
      BY DEF Typing, TypeOK
    <3> QED
      BY <1>1, <1>3, <2>2, <3>1, OthersStay
  <2> QED
    BY <2>1, <2>2
<1> QED
  BY <1>2, <1>3 DEF Next, Ingest, Administer, WorkerWorks, WorkerFails, Age, ComeDue,
                    ServerStarts, RedisLosesData, vars

LEMMA InHandInvariant == Spec => []AllInHand
<1>1. Init => AllInHand
  BY DEF Init, WorkerInit, AllInHand, InHand
<1>2. Typing /\ AllInHand /\ [Next]_vars => AllInHand'
  BY TakesUpStep
<1> QED
  BY <1>1, <1>2, TypingInvariant, PTL DEF Spec

(* Once a DELETE has taken effect no worker takes up a further delivery to *)
(* the subscription: for any number of workers and requests, and whatever  *)
(* fails, reclaimed entries and due retries included.                      *)
THEOREM NoneTakenUpAfterDelete == Spec => NoNewPostAfterDelete
<1> DEFINE Step == \A w \in Worker, s \in Sub :
                     ~IsActive(s) /\ WillPost(w, s)' => WillPost(w, s)
<1>1. Typing /\ AllInHand /\ [Next]_vars => [Step]_vars
  BY TakesUpStep
<1> QED
  BY <1>1, InHandInvariant, TypingInvariant, PTL DEF Spec, NoNewPostAfterDelete

(* A request can bring a deleted subscription back only with a copy that   *)
(* was read before the DELETE: a PUT that begins later reads "inactive".   *)
LEMMA GoneStep ==
  ASSUME SubsTypeOK, NEW s \in Sub, Gone(s), NEW h \in Handler, SubsStep(h)
  PROVE  Gone(s)'
<1> USE DEF Gone, SubsTypeOK
<1>1. ASSUME NEW t \in Sub, NEW b \in Body, CreateSubscription(t, b)
      PROVE  Gone(s)'
  BY <1>1 DEF CreateSubscription
<1>2. ASSUME NEW t \in Sub, NEW b \in Body, BeginUpdate(h, t, b)
      PROVE  Gone(s)'
  <2>1. /\ subs' = subs
        /\ \A g \in Handler \ {h} : put'[g] = put[g]
        /\ put'[h] = [sub |-> t, state |-> subs[t].state, body |-> b]
    BY <1>2 DEF BeginUpdate
  <2> QED
    BY <2>1
<1>3. ASSUME NEW t \in Sub, DeleteSubscription(t)
      PROVE  Gone(s)'
  <2>1. put' = put /\ subs'[s].state = "inactive"
    BY <1>3 DEF DeleteSubscription, SubRow
  <2> QED
    BY <2>1
<1>4. CASE FinishUpdate(h)
  <2>1. /\ \A g \in Handler \ {h} : put'[g] = put[g]
        /\ put'[h] = None
    BY <1>4 DEF FinishUpdate
  <2>2. subs'[s].state = "inactive"
    BY <1>4 DEF FinishUpdate
  <2> QED
    BY <2>1, <2>2
<1>5. CASE AbortUpdate(h)
  <2>1. /\ subs' = subs
        /\ \A g \in Handler \ {h} : put'[g] = put[g]
        /\ put'[h] = None
    BY <1>5 DEF AbortUpdate
  <2> QED
    BY <2>1
<1> QED
  BY <1>1, <1>2, <1>3, <1>4, <1>5 DEF SubsStep

(* A deleted subscription hears nothing more, for good, once the PUTs and  *)
(* the deliveries are over that were in progress when it was deleted: for  *)
(* any number of workers and of requests that overlap, and whatever fails. *)
THEOREM FallsSilent == Spec => DeletedFallsSilent
<1> DEFINE Step == \A s \in Sub : Silent(s) => Silent(s)'
<1>1. Typing /\ AllInHand /\ [Next]_vars => [Step]_vars
  <2> SUFFICES ASSUME Typing, AllInHand, [Next]_vars, NEW s \in Sub, Silent(s)
               PROVE  Silent(s)'
    OBVIOUS
  <2>1. Gone(s) /\ ~IsActive(s) /\ \A w \in Worker : ~WillPost(w, s)
    BY DEF Silent, Gone, IsActive
  <2>2. Gone(s)'
    <3>1. SubsTypeOK
      BY DEF Typing, TypeOK
    <3>2. CASE \E h \in Handler : Administer(h)
      BY <2>1, <3>1, <3>2, GoneStep DEF Administer
    <3>3. CASE UNCHANGED subVars
      BY <2>1, <3>3 DEF subVars, Gone
    <3> QED
      BY <3>2, <3>3 DEF Next, Ingest, WorkerWorks, WorkerFails, Age, ComeDue,
                        ServerStarts, RedisLosesData, vars
  <2> QED
    BY <2>1, <2>2, TakesUpStep DEF Silent
<1> QED
  BY <1>1, InHandInvariant, TypingInvariant, PTL DEF Spec, DeletedFallsSilent
==============================================================================
