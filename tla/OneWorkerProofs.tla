--------------------------- MODULE OneWorkerProofs ----------------------------
(***************************************************************************)
(* What one worker, as docker-compose and values-doks.yaml run it, makes   *)
(* of each delivery, for any number of events, subscriptions and faults.   *)
(***************************************************************************)
EXTENDS WorkerProofs

OneWorker == \A v, w \in Worker : v = w

(* What saving the answer of a POST makes of the row. *)
Saved(p, ans) ==
  LET n == rows[p].number
  IN  \/ /\ ans = "ok"
         /\ rows'[p] = [number |-> n, status |-> "success", next |-> "null"]
      \/ /\ \/ ans = "client"
            \/ ans \in {"retry", "lost"} /\ n + 1 > MaxRetries
         /\ rows'[p] = [number |-> n, status |-> "failed", next |-> "null"]
      \/ /\ ans \in {"retry", "lost"} /\ n + 1 <= MaxRetries
         /\ rows'[p] = [number |-> n + 1, status |-> "failed", next |-> "later"]

(* No row but p's is written. *)
Only(p) == \A q \in Pair \ {p} : rows'[q] = rows[q]

LEMMA SavedLemma ==
  ASSUME StoreTypeOK, NEW a \in Attempt, NEW ans, a = Copy(a.pair), Saves(a, ans)
  PROVE  a.pair \in Pair /\ Saved(a.pair, ans) /\ Only(a.pair)
<1>1. a.pair \in Pair /\ a.id = "row" /\ a.number = rows[a.pair].number
  BY DEF Attempt, Copy
<1>2. rows[a.pair] \in Row
  BY <1>1 DEF StoreTypeOK
<1>3. ASSUME NEW st \in {"success", "failed"}, UpdateStatus(a, st)
      PROVE  /\ rows'[a.pair] = [number |-> rows[a.pair].number, status |-> st, next |-> "null"]
             /\ Only(a.pair)
  BY <1>1, <1>2, <1>3 DEF UpdateStatus, Write, Put, StoreTypeOK, Row, Only
<1>4. ASSUME NEW n, IncrementAttempt(a, n)
      PROVE  /\ rows'[a.pair] = [number |-> n, status |-> "failed", next |-> "later"]
             /\ Only(a.pair)
  BY <1>1, <1>4 DEF IncrementAttempt, Write, Put, StoreTypeOK, Only
<1> QED
  BY <1>1, <1>3, <1>4 DEF Saves, MarkFailure, Saved

(* A step that writes the table begins a delivery, saves its answer or is  *)
(* the clock's.                                                            *)
LEMMA TableStep ==
  ASSUME Typing, [Next]_vars, \A w \in Worker : Current(w), Numbered
  PROVE  \/ UNCHANGED storeVars
         \/ \E w \in Worker : LET p == att[w].pair IN
              /\ pc[w] = "create" /\ p \in Pair /\ ~Exists(p) /\ Only(p)
              /\ rows'[p] = [number |-> 1, status |-> "pending", next |-> "null"]
         \/ \E w \in Worker : LET p == att[w].pair IN
              /\ pc[w] = "record" /\ p \in Pair /\ Exists(p) /\ ~Success(p) /\ Only(p)
              /\ att[w].number = rows[p].number
              /\ Saved(p, answer[w])
         \/ \E p \in Pair :
              /\ rows[p].next = "later" /\ Only(p)
              /\ rows'[p] = [rows[p] EXCEPT !.next = "due"]
<1>1. StoreTypeOK
  BY DEF Typing, TypeOK
<1>2. ASSUME NEW w \in Worker, pc[w] = "create", att[w].pair \in Pair, Create(att[w].pair)
      PROVE  LET p == att[w].pair IN
             /\ ~Exists(p) /\ Only(p)
             /\ rows'[p] = [number |-> 1, status |-> "pending", next |-> "null"]
  <2>1. ~Exists(att[w].pair) /\ rows[att[w].pair].number = 0
    BY <1>2 DEF Current, Numbered
  <2> QED
    BY <1>1, <1>2, <2>1 DEF Create, Put, StoreTypeOK, Only
<1>3. ASSUME NEW w \in Worker, pc[w] = "record", att[w] \in Attempt,
             Saves(att[w], answer[w])
      PROVE  LET p == att[w].pair IN
             /\ p \in Pair /\ Exists(p) /\ ~Success(p) /\ Only(p)
             /\ att[w].number = rows[p].number
             /\ Saved(p, answer[w])
  <2>1. att[w] = Copy(att[w].pair) /\ Exists(att[w].pair) /\ ~Success(att[w].pair)
    BY <1>3 DEF Current
  <2>2. att[w].number = rows[att[w].pair].number
    BY <2>1 DEF Copy
  <2> QED
    BY <1>1, <1>3, <2>1, <2>2, SavedLemma
<1>4. ASSUME NEW p \in Pair, RetryComesDue(p)
      PROVE  /\ rows[p].next = "later" /\ Only(p)
             /\ rows'[p] = [rows[p] EXCEPT !.next = "due"]
  BY <1>1, <1>4 DEF RetryComesDue, StoreTypeOK, Only
<1> QED
  BY <1>2, <1>3, <1>4, StoreStep

(* The worker's own steps keep what it holds up to date. *)
LEMMA CurrentStep ==
  ASSUME Typing, Numbered, NEW w \in Worker, Current(w), Works(w) \/ Fails(w)
  PROVE  Current(w)'
<1>1. StoreTypeOK /\ StreamTypeOK /\ WorkerTypeOK /\ LocalsReady(w)
  BY DEF Typing, TypeOK
<1>2. CASE Lookup(w)
  <2>1. entry[w] \in 1 .. Len(stream) /\ pc[w] = "attempt"
    BY <1>1, <1>2 DEF Lookup, LocalsReady, WorkerTypeOK, StreamTypeOK
  <2>2. batch'[w] = {} /\ UNCHANGED storeVars
    BY <1>2, <2>1 DEF Lookup, Current
  <2>3. PICK s \in todo[w] : LET p == <<stream[entry[w]], s>> IN
          \/ pc'[w] = "attempt"
          \/ /\ Exists(p) /\ ~Success(p) /\ att'[w] = Copy(p) /\ pc'[w] = "post"
          \/ /\ ~Exists(p) /\ att'[w] = Fresh(p) /\ pc'[w] = "create"
    BY <1>1, <1>2 DEF Lookup, Goto, WorkerTypeOK
  <2>4. <<stream[entry[w]], s>> \in Pair
    BY <1>1, <2>1 DEF WorkerTypeOK, StreamTypeOK, Pair
  <2> DEFINE q == <<stream[entry[w]], s>>
  <2>5. /\ Copy(q).pair = q /\ Fresh(q).pair = q
        /\ \/ pc'[w] = "attempt"
           \/ /\ Exists(q) /\ ~Success(q) /\ att'[w] = Copy(q) /\ pc'[w] = "post"
           \/ /\ ~Exists(q) /\ att'[w] = Fresh(q) /\ pc'[w] = "create"
    BY <1>1, <2>3, <2>4, FreshLemma
  <2> HIDE DEF q
  <2> QED
    BY <2>2, <2>5 DEF Current, storeVars, Exists, Success, Copy, Fresh
<1>3. CASE CreateAttempt(w)
  <2>1. /\ pc[w] = "create" /\ pc'[w] = "post" /\ batch'[w] = {}
        /\ att'[w] = Created(att[w]) /\ Create(att[w].pair)
        /\ att[w] = Fresh(att[w].pair) /\ ~Exists(att[w].pair) /\ att[w].pair \in Pair
    BY <1>1, <1>3 DEF CreateAttempt, Goto, WorkerTypeOK, Current, LocalsReady, Attempt
  <2> DEFINE q == att[w].pair
  <2>2. att'[w] = [pair |-> q, number |-> 1, id |-> "row"]
    BY <2>1 DEF Fresh, Created
  <2>3. rows'[q] = [number |-> 1, status |-> "pending", next |-> "null"]
    BY <1>1, <2>1 DEF Numbered, Create, Put, StoreTypeOK
  <2> QED
    BY <2>1, <2>2, <2>3 DEF Current, Exists, Success, Copy
<1>4. CASE Post(w)
  <2>1. /\ UNCHANGED <<storeVars, entry, batch, att>>
        /\ pc[w] = "post" /\ pc'[w] = "record"
    BY <1>1, <1>4 DEF Post, Goto, WorkerTypeOK
  <2> QED
    BY <2>1 DEF Current, storeVars, Exists, Success, Copy
<1>5. CASE (Record(w) \/ RecordFails(w)) /\ entry[w] = 0
  <2>1. /\ pc[w] = "record" /\ pc'[w] = "load" /\ entry'[w] = 0 /\ batch'[w] = batch[w]
        /\ att[w] \in Attempt /\ att[w] = Copy(att[w].pair)
    BY <1>1, <1>5
       DEF Record, RecordFails, NextDelivery, Goto, WorkerTypeOK, LocalsReady, Current
  <2>2. Saves(att[w], answer[w]) \/ UNCHANGED storeVars
    BY <1>5 DEF Record, RecordFails
  <2>3. Only(att[w].pair)
    BY <1>1, <2>1, <2>2, SavedLemma DEF storeVars, Only
  <2>4. \A a \in batch[w] : a.pair \in Pair /\ rows'[a.pair] = rows[a.pair]
    BY <1>1, <2>1, <2>3 DEF Only, Current, WorkerTypeOK, Attempt
  <2> QED
    BY <2>1, <2>4 DEF Current, Exists, Success, Copy
<1>6. CASE ListRetries(w)
  <2>1. PICK due \in PendingRetries(RetryBatch) : batch'[w] = {Copy(p) : p \in due}
    BY <1>1, <1>6 DEF ListRetries, WorkerTypeOK
  <2>2. \A p \in due : p \in Pair /\ Exists(p) /\ ~Success(p) /\ Copy(p).pair = p
    BY <1>1, <2>1 DEF PendingRetries, DueRows, Exists, Success, Copy
  <2>3. entry'[w] = 0 /\ pc'[w] = "load" /\ UNCHANGED storeVars
    BY <1>1, <1>6 DEF ListRetries, Goto, WorkerTypeOK, LocalsReady
  <2> QED
    BY <2>1, <2>2, <2>3 DEF Current, storeVars, Exists, Success, Copy
<1>7. CASE Load(w)
  <2>1. PICK a \in batch[w] : /\ batch'[w] = batch[w] \ {a}
                              /\ \/ att'[w] = a /\ pc'[w] = "post"
                                 \/ pc'[w] = "load"
    BY <1>1, <1>7 DEF Load, Goto, WorkerTypeOK
  <2>2. UNCHANGED <<storeVars, entry>>
    BY <1>7 DEF Load
  <2> QED
    BY <2>1, <2>2 DEF Current, storeVars, Exists, Success, Copy
<1>8. CASE LoadFails(w)
  <2>1. batch'[w] \subseteq batch[w] /\ UNCHANGED <<storeVars, entry, pc>> /\ pc[w] = "load"
    BY <1>1, <1>8 DEF LoadFails, WorkerTypeOK
  <2> QED
    BY <2>1 DEF Current, storeVars, Exists, Success, Copy
<1>9. CASE batch'[w] = {} /\ pc'[w] \notin {"create", "post", "record"}
  BY <1>9 DEF Current
<1>10. \/ Lookup(w) \/ CreateAttempt(w) \/ Post(w)
       \/ (Record(w) \/ RecordFails(w)) /\ entry[w] = 0
       \/ ListRetries(w) \/ Load(w) \/ LoadFails(w)
       \/ batch'[w] = {} /\ pc'[w] \notin {"create", "post", "record"}
  BY <1>1
     DEF Works, Fails, Start, Claim, ClaimNoGroup, Read, ReadTimeout, ListSubs,
         MessagesDone, Ack, Record, RetriesDone, StartFails, ClaimFails, ReadFails,
         ListSubsFails, LookupFails, CreateAttemptFails, AckFails, RecordFails,
         ListRetriesFails, Crash, NextDelivery, Abandon, Goto, WorkerTypeOK, workerVars,
         Current
<1> QED
  BY <1>2, <1>3, <1>4, <1>5, <1>6, <1>7, <1>8, <1>9, <1>10

-----------------------------------------------------------------------------
Sole == Numbered /\ \A w \in Worker : Current(w)

LEMMA NumberedStep ==
  ASSUME Typing, Sole, [Next]_vars
  PROVE  Numbered'
<1> SUFFICES ASSUME NEW p \in Pair
             PROVE  /\ ~Exists(p)' => rows'[p].number = 0
                    /\ rows'[p].number <= MaxRetries
  BY DEF Numbered
<1>1. /\ MaxRetries \in Nat \ {0} /\ rows[p] \in Row /\ rows[p].number \in Nat
      /\ ~Exists(p) => rows[p].number = 0
      /\ rows[p].number <= MaxRetries
  BY WorkerAssumption DEF Typing, TypeOK, StoreTypeOK, Row, Sole, Numbered
<1>2. CASE rows'[p] = rows[p]
  BY <1>1, <1>2 DEF Exists
<1>3. CASE rows'[p] = [number |-> 1, status |-> "pending", next |-> "null"]
  BY <1>1, <1>3 DEF Exists
<1>4. ASSUME NEW ans, Saved(p, ans)
      PROVE  /\ rows'[p].status # "none"
             /\ \/ rows'[p].number = rows[p].number
                \/ rows'[p].number = rows[p].number + 1 /\ rows[p].number + 1 <= MaxRetries
  BY <1>4 DEF Saved
<1>5. CASE rows'[p] = [rows[p] EXCEPT !.next = "due"]
  BY <1>1, <1>5 DEF Row, Exists
<1> QED
  BY <1>1, <1>2, <1>3, <1>4, <1>5, TableStep DEF Sole, Exists, Only, storeVars

LEMMA SoleStep ==
  ASSUME OneWorker, Typing, Sole, [Next]_vars
  PROVE  Sole'
<1>1. StoreTypeOK /\ Numbered /\ \A w \in Worker : LocalsReady(w) /\ Current(w)
  BY DEF Typing, TypeOK, Sole
<1>2. ASSUME NEW w \in Worker
      PROVE  Current(w)'
  <2>1. CASE UNCHANGED <<workerVars, storeVars>>
    BY <1>1, <2>1 DEF workerVars, storeVars, Current, Exists, Success, Copy, Fresh
  <2>2. ASSUME NEW p \in Pair, RetryComesDue(p), UNCHANGED workerVars
        PROVE  Current(w)'
    <3>1. \A q \in Pair : /\ Exists(q)' <=> Exists(q)
                          /\ Success(q)' <=> Success(q)
                          /\ rows'[q].number = rows[q].number
      BY <1>1, <2>2 DEF RetryComesDue, StoreTypeOK, Row, Exists, Success
    <3>2. /\ UNCHANGED <<pc, att, batch, entry>>
          /\ pc[w] \in {"create", "post", "record"} => att[w].pair \in Pair
          /\ \A a \in batch[w] : a.pair \in Pair
      BY <1>1, <2>2 DEF workerVars, LocalsReady, Typing, TypeOK, WorkerTypeOK, Attempt
    <3> QED
      BY <1>1, <3>1, <3>2 DEF Current, Copy, Fresh
  <2>3. CASE \E v \in Worker : Works(v) \/ Fails(v)
    BY <1>1, <2>3, CurrentStep DEF OneWorker
  <2> QED
    BY <2>1, <2>2, <2>3, WhoseStep
<1> QED
  BY <1>2, NumberedStep DEF Sole

(* What one worker holds is what the table says, whatever has failed.      *)
LEMMA SoleInvariant == OneWorker => (Spec => []Sole)
<1> SUFFICES ASSUME OneWorker PROVE Spec => []Sole
  OBVIOUS
<1>1. Init => Sole
  BY WorkerAssumption
     DEF Init, StoreInit, NoRow, WorkerInit, Sole, Numbered, Current, Exists
<1>2. Typing /\ Sole /\ [Next]_vars => Sole'
  BY SoleStep
<1> QED
  BY <1>1, <1>2, TypingInvariant, PTL DEF Spec

(* A row of the table is written again only for a delivery that has not    *)
(* succeeded, and its number is at least what it was.                      *)
LEMMA RowStep ==
  ASSUME Typing, Sole, [Next]_vars, NEW p \in Pair
  PROVE  /\ Success(p) => Success(p)'
         /\ rows'[p].number >= rows[p].number
<1>1. rows[p].number \in Nat /\ rows[p] \in Row
  BY DEF Typing, TypeOK, StoreTypeOK, Row
<1>2. CASE rows'[p] = rows[p]
  BY <1>1, <1>2 DEF Success
<1>3. CASE ~Exists(p) /\ rows'[p] = [number |-> 1, status |-> "pending", next |-> "null"]
  <2>1. rows[p].number = 0 /\ ~Success(p)
    BY <1>3 DEF Sole, Numbered, Exists, Success
  <2> QED
    BY <1>3, <2>1
<1>4. ASSUME ~Success(p), NEW ans, Saved(p, ans)
      PROVE  rows'[p].number >= rows[p].number
  <2>1. rows'[p].number \in {rows[p].number, rows[p].number + 1}
    BY <1>4 DEF Saved
  <2> QED
    BY <1>1, <2>1
<1>5. CASE rows'[p] = [rows[p] EXCEPT !.next = "due"]
  BY <1>1, <1>5 DEF Row, Success
<1> QED
  BY <1>2, <1>3, <1>4, <1>5, TableStep DEF Sole, Only, storeVars

(* A delivery that succeeded stays a success: no redelivered or reclaimed  *)
(* entry, stale copy or crash makes one worker write its row again.        *)
THEOREM SuccessStays == OneWorker => (Spec => SuccessIsFinal)
<1> SUFFICES ASSUME OneWorker PROVE Spec => SuccessIsFinal
  OBVIOUS
<1> DEFINE Step == \A p \in Pair : Success(p) => Success(p)'
<1>1. Typing /\ Sole /\ [Next]_vars => [Step]_vars
  BY RowStep
<1> QED
  BY <1>1, SoleInvariant, TypingInvariant, PTL DEF Spec, SuccessIsFinal

(* The attempt number that the audit queries show never goes back.         *)
THEOREM NumberStays == OneWorker => (Spec => NumberNeverDecreases)
<1> SUFFICES ASSUME OneWorker PROVE Spec => NumberNeverDecreases
  OBVIOUS
<1> DEFINE Step == \A p \in Pair : rows'[p].number >= rows[p].number
<1>1. Typing /\ Sole /\ [Next]_vars => [Step]_vars
  BY RowStep
<1> QED
  BY <1>1, SoleInvariant, TypingInvariant, PTL DEF Spec, NumberNeverDecreases

-----------------------------------------------------------------------------
LEMMA SolePosts ==
  ASSUME OneWorker, PostsTold
  PROVE  PostBound >= MaxRetries
<1>1. PostBound \in Nat /\ MaxRetries \in Nat
  BY WorkerAssumption
<1>2. Cardinality(Worker) \in {0, 1}
  <2>1. CASE Worker = {}
    BY <2>1, FS_EmptySet
  <2>2. CASE Worker # {}
    <3>1. PICK w \in Worker : TRUE
      BY <2>2
    <3>2. Worker = {w}
      BY <3>1 DEF OneWorker
    <3> QED
      BY <3>2, FS_Singleton
  <2> QED
    BY <2>1, <2>2
<1> QED
  BY <1>1, <1>2 DEF PostsTold

(* The number of a row that is given another attempt has been POSTed.      *)
LEMMA CountedStep ==
  ASSUME OneWorker, PostsTold, Typing, Sole, Counted, [Next]_vars
  PROVE  Counted'
<1>1. StoreTypeOK /\ StoreTypeOK' /\ \A w \in Worker : LocalsReady(w)
  BY TypingStep DEF Typing, TypeOK
<1>2. /\ MaxRetries \in Nat \ {0} /\ PostBound \in Nat /\ PostBound >= MaxRetries
      /\ \A p \in Pair : rows[p] \in Row /\ rows[p].number \in Nat
  BY <1>1, SolePosts, WorkerAssumption DEF StoreTypeOK, Row
<1>3. ASSUME NEW w \in Worker, pc'[w] = "record"
      PROVE  att'[w].number <= posts'[att'[w].pair]
  <2>1. /\ att'[w] = att[w] /\ att[w].pair \in Pair
        /\ pc[w] \in {"post", "record"}
    BY <1>3, PostsStep
  <2>2. att[w].number = rows[att[w].pair].number
    <3>1. att[w] = Copy(att[w].pair)
      BY <2>1 DEF Sole, Current
    <3> QED
      BY <3>1 DEF Copy
  <2>3. att[w].number \in Nat
    BY <1>2, <2>1, <2>2
  <2>4. posts[att[w].pair] \in Nat /\ posts'[att[w].pair] \in Nat
    BY <2>1, PostsStep
  <2>5. CASE pc[w] = "record"
    <3>1. att[w].number <= posts[att[w].pair]
      BY <2>5 DEF Counted
    <3> QED
      BY <2>1, <2>3, <2>4, <3>1, PostsStep
  <2>6. CASE pc[w] = "post"
    <3>1. posts'[att[w].pair] = IF posts[att[w].pair] < PostBound
                                THEN posts[att[w].pair] + 1 ELSE posts[att[w].pair]
      BY <1>3, <2>6, PostsStep
    <3>2. att[w].number <= MaxRetries /\ att[w].number <= posts[att[w].pair] + 1
      BY <2>1, <2>2 DEF Sole, Numbered, Counted
    <3> QED
      BY <1>2, <2>1, <2>3, <2>4, <3>1, <3>2
  <2> QED
    BY <2>1, <2>5, <2>6
<1>4. ASSUME NEW p \in Pair
      PROVE  rows'[p].number <= posts'[p] + 1
  <2>1. /\ posts[p] \in Nat /\ posts'[p] \in Nat /\ posts[p] <= posts'[p]
        /\ rows[p].number <= posts[p] + 1
    BY PostsStep DEF Counted
  <2>2. CASE rows'[p].number = rows[p].number
    BY <1>2, <2>1, <2>2
  <2>3. CASE rows'[p] = [number |-> 1, status |-> "pending", next |-> "null"]
    BY <1>2, <2>1, <2>3
  <2>4. ASSUME NEW w \in Worker, pc[w] = "record", att[w].pair = p,
               att[w].number = rows[p].number, Saved(p, answer[w])
        PROVE  rows'[p].number <= posts'[p] + 1
    <3>1. rows[p].number <= posts[p]
      BY <2>4 DEF Counted
    <3>2. rows'[p].number \in {rows[p].number, rows[p].number + 1}
      BY <2>4 DEF Saved
    <3> QED
      BY <1>2, <2>1, <3>1, <3>2
  <2>5. CASE rows'[p] = [rows[p] EXCEPT !.next = "due"]
    BY <1>2, <2>2, <2>5 DEF Row
  <2>6. CASE rows'[p] = rows[p]
    BY <2>2, <2>6
  <2> QED
    BY <2>3, <2>4, <2>5, <2>6, TableStep DEF Sole, Only, storeVars
<1> QED
  BY <1>3, <1>4 DEF Counted

LEMMA CountedInvariant == OneWorker /\ PostsTold => (Spec => []Counted)
<1> SUFFICES ASSUME OneWorker, PostsTold PROVE Spec => []Counted
  OBVIOUS
<1>1. Init => Counted
  BY DEF Init, StoreInit, NoRow, WorkerInit, Counted
<1>2. Typing /\ Sole /\ Counted /\ [Next]_vars => Counted'
  BY CountedStep
<1> QED
  BY <1>1, <1>2, SoleInvariant, TypingInvariant, PTL DEF Spec
==============================================================================
