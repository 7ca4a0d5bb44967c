---------------------------- MODULE PollLoopProofs ----------------------------
(***************************************************************************)
(* The backoff of PollLoop, for every period, delay, amount of work and    *)
(* number of retries.                                                      *)
(***************************************************************************)
EXTENDS PollLoop, TLAPS

(* The types of the row's own variables. *)
RowTypes ==
  /\ number \in {0} \cup 2 .. MaxRetries
  /\ due \in Nat
  /\ ahead \in 0 .. MaxAhead
  /\ since \in 0 .. SinceBound
  /\ listed \in BOOLEAN

(* Until the row is due, the seconds that are gone and those still to wait *)
(* make up the delay; a row in the batch was due when it was listed.       *)
Waiting ==
  /\ number # 0 => since + due >= Delay(number - 1)
  /\ listed => number # 0 /\ due = 0

BackoffInv == RowTypes /\ Waiting

LEMMA Bounds ==
  /\ MaxRetries \in Nat \ {0}
  /\ SinceBound \in Nat /\ MaxAhead \in Nat
  /\ RetryBatch \in Nat \ {0} /\ Skipped \in Nat
BY PollAssumption

LEMMA DelayType ==
  ASSUME NEW n \in 1 .. MaxRetries
  PROVE  Delay(n) \in Nat /\ Delay(n) <= SinceBound
BY PollAssumption

(* A failed attempt starts the delay that its number calls for. *)
LEMMA FailStep ==
  ASSUME RowTypes, NEW n \in 1 .. MaxRetries, FailAttempt(n), listed' = FALSE
  PROVE  RowTypes' /\ Waiting'
<1>. USE Bounds
<1>1. CASE n + 1 > MaxRetries
  <2>1. number' = 0 /\ due' = due /\ ahead' = ahead /\ since' = since
    BY <1>1 DEF FailAttempt, Unscheduled
  <2>. QED
    BY <2>1 DEF RowTypes, Waiting
<1>2. CASE n + 1 <= MaxRetries
  <2>1. number' = n + 1 /\ due' = Delay(n) /\ ahead' \in 0 .. MaxAhead /\ since' = 0
    BY <1>2 DEF FailAttempt, Schedule
  <2>2. Delay(n) \in Nat
    BY DelayType
  <2>3. number' - 1 = n
    BY <2>1
  <2>4. RowTypes'
    <3>1. n + 1 \in 2 .. MaxRetries /\ 0 \in 0 .. SinceBound
      BY <1>2
    <3>. QED
      BY <2>1, <2>2, <3>1 DEF RowTypes
  <2>5. since' + due' >= Delay(number' - 1)
    BY <2>1, <2>2, <2>3
  <2>. QED
    BY <2>1, <2>4, <2>5 DEF Waiting
<1>. QED
  BY <1>1, <1>2

LEMMA BackoffStart ==
  ASSUME PollInit
  PROVE  BackoffInv
<1>1. number = 0 /\ due = 0 /\ ahead = 0 /\ since = 0 /\ listed = FALSE
  BY DEF PollInit
<1>2. 0 \in 0 .. SinceBound /\ 0 \in 0 .. MaxAhead
  BY Bounds
<1>. QED
  BY <1>1, <1>2 DEF BackoffInv, RowTypes, Waiting

LEMMA BackoffStep ==
  ASSUME BackoffInv, [PollNext]_pollVars
  PROVE  BackoffInv'
<1>. USE Bounds DEF BackoffInv
<1>1. CASE UNCHANGED rowVars
  BY <1>1 DEF RowTypes, Waiting, rowVars, Delay
<1>2. CASE FinishEvent
  <2>1. CASE number = 0 /\ FailAttempt(1)
    <3>1. listed' = FALSE
      BY <1>2, <2>1 DEF FinishEvent, Waiting, RowTypes
    <3>2. 1 \in 1 .. MaxRetries
      OBVIOUS
    <3>. QED
      BY <2>1, <3>1, <3>2, FailStep
  <2>2. CASE UNCHANGED <<number, due, ahead, since>>
    BY <1>2, <2>2 DEF FinishEvent, RowTypes, Waiting, Delay
  <2>. QED
    BY <1>2, <2>1, <2>2 DEF FinishEvent, Unscheduled
<1>3. CASE ListDue
  <2>1. UNCHANGED <<number, due, since>> /\ ahead' \in 0 .. MaxAhead
    BY <1>3 DEF ListDue, InBatch, MovesUp, AtMost, RowTypes
  <2>2. (InBatch /\ listed' = TRUE) \/ listed' = listed
    BY <1>3 DEF ListDue
  <2>3. listed' \in BOOLEAN /\ (listed' => number # 0 /\ due = 0)
    <3>1. listed \in BOOLEAN /\ (listed => number # 0 /\ due = 0)
      BY DEF RowTypes, Waiting
    <3>2. InBatch => number # 0 /\ due = 0
      BY DEF InBatch, IsDue
    <3>3. CASE InBatch /\ listed' = TRUE
      BY <3>2, <3>3
    <3>4. CASE listed' = listed
      BY <3>1, <3>4
    <3>. QED
      BY <2>2, <3>3, <3>4
  <2>. QED
    BY <2>1, <2>3 DEF RowTypes, Waiting, Delay
<1>4. CASE Retry
  <2>1. number \in 1 .. MaxRetries /\ listed' = FALSE
    BY <1>4 DEF Retry, RowTypes, Waiting
  <2>2. CASE FailAttempt(number)
    BY <2>1, <2>2, FailStep
  <2>3. CASE number' = 0 /\ Unscheduled
    <3>1. number' = 0 /\ due' = due /\ ahead' = ahead /\ since' = since
      BY <2>3 DEF Unscheduled
    <3>. QED
      BY <2>1, <3>1 DEF RowTypes, Waiting
  <2>. QED
    BY <1>4, <2>2, <2>3 DEF Retry
<1>5. CASE Arrive
  BY <1>5 DEF Arrive, RowTypes, Waiting, Delay
<1>6. CASE Second
  <2>1. /\ since' = IF since + 1 < SinceBound THEN since + 1 ELSE SinceBound
        /\ due' = IF due > 0 THEN due - 1 ELSE 0
        /\ UNCHANGED <<number, ahead, listed>>
    BY <1>6 DEF Second, AtMost
  <2>2. RowTypes'
    BY <2>1 DEF RowTypes
  <2>3. ASSUME number # 0
        PROVE  since' + due' >= Delay(number - 1)
    <3>1. number - 1 \in 1 .. MaxRetries
      BY <2>3 DEF RowTypes
    <3>2. Delay(number - 1) \in Nat /\ Delay(number - 1) <= SinceBound
      BY <3>1, DelayType
    <3>3. since + due >= Delay(number - 1)
      BY <2>3 DEF Waiting
    <3>. QED
      BY <2>1, <3>2, <3>3 DEF RowTypes
  <2>4. Waiting'
    BY <2>1, <2>3 DEF Waiting, RowTypes, Delay
  <2>. QED
    BY <2>2, <2>4
<1>. QED
  BY <1>1, <1>2, <1>3, <1>4, <1>5, <1>6
  DEF PollNext, WorkerStep, TakeEvent, ReadTimesOut, Wake, FinishRetries, pollVars, rowVars

(* No retry is made before the backoff that docs/delivery-guarantees.md    *)
(* gives for the attempt that failed.                                      *)
THEOREM Backoff == PollSpec => []BackoffHonoured
<1>1. PollInit => BackoffInv
  BY BackoffStart
<1>2. BackoffInv /\ [PollNext]_pollVars => BackoffInv'
  BY BackoffStep
<1>3. BackoffInv => BackoffHonoured
  <2>. SUFFICES ASSUME BackoffInv, listed
                PROVE  since >= 2 ^ (number - 2) * BaseDelay
    BY DEF BackoffHonoured
  <2>1. number - 1 \in 1 .. MaxRetries /\ (number - 1) - 1 = number - 2
    BY Bounds DEF BackoffInv, RowTypes, Waiting
  <2>2. since >= Delay(number - 1)
    BY <2>1 DEF BackoffInv, RowTypes, Waiting
  <2>. QED
    BY <2>1, <2>2 DEF Delay
<1>. QED
  BY <1>1, <1>2, <1>3, PTL DEF PollSpec

-----------------------------------------------------------------------------
(* The clock of the worker.  While it reads or waits, the ticker fires     *)
(* within one period of the moment the read began: that is what bounds the *)
(* wait of an idle worker.                                                 *)
Timed ==
  /\ at \in {"read", "event", "wait", "reclaim", "retry"}
  /\ toTick \in 1 .. PollInterval
  /\ tick \in BOOLEAN
  /\ at = "read" =>
       /\ left \in 0 .. ReadTimeout
       /\ tick \/ toTick + (ReadTimeout - left) <= PollInterval
  /\ at = "wait" =>
       /\ left = 0
       /\ tick \/ toTick + ReadTimeout <= PollInterval
  /\ at \in {"event", "reclaim", "retry"} => left \in 0 .. MaxWork

LEMMA Periods ==
  /\ PollInterval \in Nat \ {0} /\ ReadTimeout \in Nat \ {0}
  /\ MaxWork \in Nat /\ MaxBacklog \in Nat
  /\ ReadTimeout <= PollInterval
BY PollAssumption

LEMMA TimedStep ==
  ASSUME Timed, [PollNext]_pollVars
  PROVE  Timed'
<1>. USE Periods DEF Timed
<1>1. CASE TakeEvent
  BY <1>1 DEF TakeEvent, Starts
<1>2. CASE FinishEvent
  BY <1>2 DEF FinishEvent, Reads, Starts
<1>3. CASE ReadTimesOut
  BY <1>3 DEF ReadTimesOut, Starts
<1>4. CASE Wake
  BY <1>4 DEF Wake, Starts
<1>5. CASE ListDue
  BY <1>5 DEF ListDue, Starts
<1>6. CASE FinishRetries
  BY <1>6 DEF FinishRetries, Reads, Starts
<1>7. CASE Second
  <2>1. /\ toTick' = IF toTick = 1 THEN PollInterval ELSE toTick - 1
        /\ tick' \in BOOLEAN
        /\ ~tick' => ~tick /\ toTick' = toTick - 1
        /\ left' = IF left > 0 THEN left - 1 ELSE 0
        /\ at' = at
    BY <1>7 DEF Second, Ticker
  <2>2. at = "read" => left > 0 /\ left' = left - 1
    BY <1>7, <2>1 DEF Second, Occupied
  <2>3. toTick' \in 1 .. PollInterval
    BY <2>1
  <2>. QED
    BY <2>1, <2>2, <2>3
<1>8. CASE UNCHANGED <<at, left, toTick, tick>>
  BY <1>8
<1>. QED
  BY <1>1, <1>2, <1>3, <1>4, <1>5, <1>6, <1>7, <1>8
  DEF PollNext, WorkerStep, Retry, Arrive, loopVars, pollVars

(* The entries and the row that wait. *)
Waits ==
  /\ backlog \in Seq(Nat)
  /\ Len(backlog) <= MaxBacklog
  /\ late \in Nat

(* A step of the worker takes the first entry or none.                     *)
LEMMA BacklogStep ==
  ASSUME Waits, PollNext
  PROVE  \/ TakeEvent \/ Arrive \/ Second
         \/ backlog' = backlog
BY DEF PollNext, WorkerStep, TakeEvent, FinishEvent, ReadTimesOut, Wake, ListDue,
       Retry, FinishRetries, Arrive, loopVars

LEMMA WaitsStep ==
  ASSUME Waits, [PollNext]_pollVars
  PROVE  Waits'
<1>. USE Periods DEF Waits
<1>1. late' \in Nat
  BY DEF PollNext, WorkerStep, TakeEvent, FinishEvent, ReadTimesOut, Wake, ListDue,
         Retry, FinishRetries, Arrive, Second, rowVars, pollVars
<1>2. CASE TakeEvent
  BY <1>1, <1>2 DEF TakeEvent
<1>3. CASE Arrive
  BY <1>1, <1>3 DEF Arrive
<1>4. CASE Second
  BY <1>1, <1>4 DEF Second
<1>5. CASE backlog' = backlog
  BY <1>1, <1>5
<1>. QED
  BY <1>2, <1>3, <1>4, <1>5, BacklogStep DEF pollVars, loopVars

LEMMA PollStart ==
  ASSUME PollInit
  PROVE  Timed /\ Waits
<1>. USE Periods
<1>1. Timed
  <2>1. at = "read" /\ left = ReadTimeout /\ toTick = PollInterval
    BY DEF PollInit
  <2>2. tick \in BOOLEAN
    BY DEF PollInit
  <2>. QED
    BY <2>1, <2>2 DEF Timed
<1>2. backlog = << >> /\ late = 0
  BY DEF PollInit
<1>. QED
  BY <1>1, <1>2 DEF Waits

(* The types, with room for the longest read, message or batch. *)
THEOREM PollTypes == PollSpec => []PollTypeOK
<1>1. PollInit => BackoffInv /\ Timed /\ Waits
  BY BackoffStart, PollStart
<1>2. BackoffInv /\ Timed /\ Waits /\ [PollNext]_pollVars => (BackoffInv /\ Timed /\ Waits)'
  BY BackoffStep, TimedStep, WaitsStep
<1>3. BackoffInv /\ Timed /\ Waits => PollTypeOK
  BY Bounds, Periods DEF BackoffInv, RowTypes, Timed, Waits, PollTypeOK
<1>. QED
  BY <1>1, <1>2, <1>3, PTL DEF PollSpec

-----------------------------------------------------------------------------
(* Seconds to the next tick that the worker has not received. *)
ToTick == IF tick THEN 0 ELSE toTick

(* Seconds, at most, until the worker reads the stream again. *)
ToRead == CASE at = "read" -> 0
            [] at = "wait" -> ToTick + 2 * MaxWork
            [] at = "reclaim" -> left + MaxWork
            [] OTHER -> left

(* Seconds that EventPrompt allows the entry in place i. *)
Allowed(i) == PollInterval - ReadTimeout + (2 + MaxBacklog - i) * MaxWork

(* No entry will have waited for too long when the worker reads again. *)
Queueing == \A i \in DOMAIN backlog : backlog[i] + ToRead <= Allowed(i)

LEMMA AllowedLemma ==
  ASSUME NEW i \in 1 .. MaxBacklog
  PROVE  /\ Allowed(i) \in Int
         /\ Allowed(i + 1) = Allowed(i) - MaxWork
         /\ Allowed(i) >= PollInterval - ReadTimeout + 2 * MaxWork
<1>. USE Periods
<1>. DEFINE k == MaxBacklog - i
<1>1. k \in Nat /\ k * MaxWork \in Nat
  OBVIOUS
<1>2. /\ (2 + MaxBacklog - i) * MaxWork = k * MaxWork + 2 * MaxWork
      /\ (2 + MaxBacklog - (i + 1)) * MaxWork = k * MaxWork + MaxWork
  OBVIOUS
<1>3. /\ Allowed(i) = PollInterval - ReadTimeout + k * MaxWork + 2 * MaxWork
      /\ Allowed(i + 1) = PollInterval - ReadTimeout + k * MaxWork + MaxWork
  BY <1>1, <1>2 DEF Allowed
<1>. HIDE DEF k
<1>. QED
  BY <1>1, <1>3

LEMMA ToReadLemma ==
  ASSUME Timed
  PROVE  ToRead \in Nat /\ ToRead <= PollInterval - ReadTimeout + 2 * MaxWork
BY Periods DEF Timed, ToRead, ToTick

LEMMA QueueingStep ==
  ASSUME Timed, Waits, Queueing, [PollNext]_pollVars
  PROVE  Queueing'
<1>. USE Periods
<1>1. Timed' /\ Waits'
  BY TimedStep, WaitsStep
<1>2. /\ ToRead \in Nat /\ ToRead' \in Nat
      /\ ToRead' <= PollInterval - ReadTimeout + 2 * MaxWork
  BY <1>1, ToReadLemma DEF ToRead, ToTick, Timed
<1>3. \A i \in DOMAIN backlog : i \in 1 .. MaxBacklog /\ backlog[i] \in Nat /\ Allowed(i) \in Int
  <2>1. \A i \in DOMAIN backlog : i \in 1 .. MaxBacklog /\ backlog[i] \in Nat
    BY DEF Waits
  <2>. QED
    BY <2>1, AllowedLemma
<1>4. CASE backlog' = backlog /\ ToRead' <= ToRead
  BY <1>2, <1>3, <1>4 DEF Queueing, Allowed
<1>5. CASE TakeEvent
  <2>1. /\ backlog # << >> /\ backlog' = Tail(backlog)
        /\ at = "read" /\ at' = "event" /\ left' \in 0 .. MaxWork
    BY <1>5 DEF TakeEvent, Starts
  <2>2. ToRead = 0 /\ ToRead' <= MaxWork
    BY <2>1 DEF ToRead
  <2>3. \A i \in DOMAIN backlog' : i + 1 \in DOMAIN backlog /\ backlog'[i] = backlog[i + 1]
    BY <2>1 DEF Waits
  <2>4. \A i \in DOMAIN backlog' : i \in 1 .. MaxBacklog
    BY <1>1 DEF Waits
  <2>5. ASSUME NEW i \in DOMAIN backlog'
        PROVE  backlog'[i] + ToRead' <= Allowed(i)
    <3>1. backlog[i + 1] \in Nat /\ backlog[i + 1] <= Allowed(i + 1)
      BY <1>3, <2>2, <2>3, <2>5 DEF Queueing
    <3>2. Allowed(i) \in Int /\ Allowed(i + 1) = Allowed(i) - MaxWork
      BY <2>4, <2>5, AllowedLemma
    <3>. QED
      BY <1>2, <2>2, <2>3, <2>5, <3>1, <3>2
  <2>. QED
    BY <2>5 DEF Queueing, Allowed
<1>6. CASE Arrive
  <2>1. /\ backlog' = Append(backlog, 0) /\ Len(backlog) < MaxBacklog
        /\ UNCHANGED <<at, left, toTick, tick>>
    BY <1>6 DEF Arrive
  <2>2. ToRead' = ToRead
    BY <2>1 DEF ToRead, ToTick
  <2>3. ASSUME NEW i \in DOMAIN backlog'
        PROVE  backlog'[i] + ToRead' <= Allowed(i)
    <3>1. CASE i \in DOMAIN backlog
      <4>1. backlog'[i] = backlog[i]
        BY <2>1, <3>1 DEF Waits
      <4>. QED
        BY <2>2, <3>1, <4>1 DEF Queueing
    <3>2. CASE i = Len(backlog) + 1
      <4>1. backlog'[i] = 0 /\ i \in 1 .. MaxBacklog
        BY <2>1, <3>2 DEF Waits
      <4>2. Allowed(i) \in Int /\ Allowed(i) >= PollInterval - ReadTimeout + 2 * MaxWork
        BY <4>1, AllowedLemma
      <4>. QED
        BY <1>2, <4>1, <4>2
    <3>. QED
      BY <2>1, <2>3, <3>1, <3>2 DEF Waits
  <2>. QED
    BY <2>3 DEF Queueing, Allowed
<1>7. CASE Second /\ backlog # << >>
  <2>1. /\ backlog' = [i \in DOMAIN backlog |-> backlog[i] + 1]
        /\ at' = at /\ left' = (IF left > 0 THEN left - 1 ELSE 0)
    BY <1>7 DEF Second
  <2>2. ToRead' <= ToRead - 1
    <3>1. CASE at = "wait" /\ ~tick
      <4>1. /\ toTick' = IF toTick = 1 THEN PollInterval ELSE toTick - 1
            /\ toTick = 1 => tick'
            /\ toTick # 1 => ~tick'
        BY <1>7, <3>1 DEF Second, Ticker, Timed
      <4>2. ToTick = toTick /\ toTick \in Nat \ {0} /\ ToTick' = toTick - 1
        BY <3>1, <4>1 DEF Timed, ToTick
      <4>. QED
        BY <2>1, <3>1, <4>2 DEF ToRead
    <3>2. CASE at \in {"event", "reclaim", "retry"} /\ left > 0
      <4>1. left \in Nat /\ left' = left - 1
        BY <2>1, <3>2 DEF Timed
      <4>. QED
        BY <2>1, <3>2, <4>1 DEF ToRead
    <3>. QED
      BY <1>7, <3>1, <3>2 DEF Second, Occupied
  <2>3. \A i \in DOMAIN backlog : backlog'[i] + ToRead' <= Allowed(i)
    BY <1>2, <1>3, <2>1, <2>2 DEF Queueing
  <2>4. DOMAIN backlog' = DOMAIN backlog
    BY <2>1
  <2>. QED
    BY <2>3, <2>4 DEF Queueing, Allowed
<1>8. CASE backlog' = << >>
  BY <1>8 DEF Queueing
<1>9. CASE Second /\ backlog = << >>
  BY <1>8, <1>9 DEF Second
<1>10. CASE WorkerStep /\ ~TakeEvent
  <2>1. backlog' = backlog
    BY <1>10 DEF WorkerStep, FinishEvent, ReadTimesOut, Wake, ListDue, Retry, FinishRetries, loopVars
  <2>2. backlog = << >> \/ ToRead' <= ToRead
    BY <1>10 DEF WorkerStep, FinishEvent, ReadTimesOut, Wake, ListDue, Retry, FinishRetries,
                 loopVars, Reads, Starts, Timed, ToRead, ToTick
  <2>. QED
    BY <1>4, <1>8, <2>1, <2>2
<1>11. CASE UNCHANGED pollVars
  <2>1. backlog' = backlog /\ ToRead' = ToRead
    BY <1>11 DEF pollVars, loopVars, ToRead, ToTick
  <2>. QED
    BY <1>2, <1>4, <2>1
<1>. QED
  BY <1>5, <1>6, <1>7, <1>9, <1>10, <1>11 DEF PollNext

(* No entry waits longer than one round of an idle worker and the entries  *)
(* before it take.                                                         *)
THEOREM EventsPrompt == PollSpec => []EventPrompt
<1>1. PollInit => Timed /\ Waits /\ Queueing
  <2>. SUFFICES ASSUME PollInit PROVE Timed /\ Waits /\ Queueing
    OBVIOUS
  <2>1. backlog = << >>
    BY DEF PollInit
  <2>. QED
    BY <2>1, PollStart DEF Queueing
<1>2. Timed /\ Waits /\ Queueing /\ [PollNext]_pollVars => (Timed /\ Waits /\ Queueing)'
  BY TimedStep, WaitsStep, QueueingStep
<1>3. Timed /\ Waits /\ Queueing => EventPrompt
  <2>. SUFFICES ASSUME Timed, Waits, Queueing, NEW i \in DOMAIN backlog
                PROVE  backlog[i] <= Allowed(i)
    BY DEF EventPrompt, Allowed
  <2>1. i \in 1 .. MaxBacklog /\ backlog[i] \in Nat
    BY Periods DEF Waits
  <2>2. Allowed(i) \in Int
    BY <2>1, AllowedLemma
  <2>3. ToRead \in Nat
    BY ToReadLemma
  <2>. QED
    BY <2>1, <2>2, <2>3 DEF Queueing
<1>. QED
  BY <1>1, <1>2, <1>3, PTL DEF PollSpec

-----------------------------------------------------------------------------
(* Seconds, at most, until the worker lists the due rows, if no event      *)
(* comes: it goes on to the end of what it does and of one empty read, or  *)
(* to the next tick if that is later, and reclaims.                        *)
ToList == CASE at = "wait" -> ToTick + MaxWork
            [] at = "reclaim" -> left
            [] at = "read" -> AtLeast(left, ToTick) + MaxWork
            [] OTHER -> AtLeast(left + ReadTimeout, ToTick) + MaxWork

(* Seconds, at most, until the row is listed, with a round for each of the *)
(* passes that may have to go by before it is among the first RetryBatch.  *)
ToTurn == ToList + Further(ahead) * Round

Limit == (1 + Further(MaxAhead)) * Round

(* A row that has been due for a while, with no event in the way, will be  *)
(* listed in time.                                                         *)
Listing ==
  late > 0 => /\ IsDue /\ ~listed /\ backlog = << >>
              /\ late + ToTurn <= Limit

LEMMA ToListLemma ==
  ASSUME Timed
  PROVE  ToList \in Nat /\ ToList <= Round /\ Round \in Nat
<1>. USE Periods
<1>1. ToTick \in Nat /\ ToTick <= PollInterval
  BY DEF Timed, ToTick
<1>2. Round \in Nat /\ Round >= MaxWork + PollInterval /\ Round >= MaxWork + MaxWork + ReadTimeout
  BY DEF Round, AtLeast
<1>. QED
  BY <1>1, <1>2 DEF Timed, ToList, AtLeast

LEMMA ToListAfter ==
  ASSUME Timed'
  PROVE  ToList' \in Nat /\ ToList' <= Round
<1>. USE Periods
<1>1. ToTick' \in Nat /\ ToTick' <= PollInterval
  BY DEF Timed, ToTick
<1>2. Round \in Nat /\ Round >= MaxWork + PollInterval /\ Round >= MaxWork + MaxWork + ReadTimeout
  BY DEF Round, AtLeast
<1>. QED
  BY <1>1, <1>2 DEF Timed, ToList, AtLeast

LEMMA Times ==
  ASSUME NEW m \in Nat, NEW n \in Nat, NEW r \in Nat
  PROVE  /\ m * r \in Nat
         /\ (1 + m) * r = r + m * r
         /\ m <= n => m * r <= n * r
<1>1. m * r \in Nat /\ n * r \in Nat /\ (1 + m) * r = r + m * r
  OBVIOUS
<1>2. ASSUME m <= n PROVE m * r <= n * r
  <2>. DEFINE d == n - m
  <2>1. d \in Nat /\ n = m + d
    BY <1>2
  <2>. HIDE DEF d
  <2>2. n * r = m * r + d * r /\ d * r \in Nat
    BY <2>1
  <2>. QED
    BY <1>1, <2>2
<1>. QED
  BY <1>1, <1>2

LEMMA FurtherLemma ==
  ASSUME NEW a \in 0 .. MaxAhead
  PROVE  /\ Further(a) \in Nat /\ Further(MaxAhead) \in Nat
         /\ Further(a) <= Further(MaxAhead)
         /\ \A b \in 0 .. a - 1 : a >= RetryBatch => Further(b) + 1 <= Further(a)
BY Bounds DEF Further, AtLeast

LEMMA ToTurnLemma ==
  ASSUME Timed, RowTypes
  PROVE  ToTurn \in Nat /\ ToTurn <= Limit /\ Limit \in Nat
<1>1. ToList \in Nat /\ ToList <= Round /\ Round \in Nat
  BY ToListLemma
<1>2. /\ Further(ahead) \in Nat /\ Further(MaxAhead) \in Nat
      /\ Further(ahead) <= Further(MaxAhead)
  BY FurtherLemma DEF RowTypes
<1>3. /\ Further(ahead) * Round \in Nat
      /\ Further(MaxAhead) * Round \in Nat
      /\ Further(ahead) * Round <= Further(MaxAhead) * Round
      /\ (1 + Further(MaxAhead)) * Round = Round + Further(MaxAhead) * Round
  BY <1>1, <1>2, Times
<1>. HIDE DEF Further, Round
<1>. QED
  BY <1>1, <1>3 DEF ToTurn, Limit

LEMMA ToTurnAfter ==
  ASSUME Timed', RowTypes'
  PROVE  ToTurn' \in Nat /\ ToTurn' = ToList' + Further(ahead') * Round
<1>1. ToList' \in Nat
  BY ToListAfter
<1>2. Round \in Nat
  BY Periods DEF Round, AtLeast
<1>3. Further(ahead') \in Nat
  BY FurtherLemma DEF RowTypes
<1>4. ToTurn' = ToList' + Further(ahead') * Round
  BY DEF ToTurn, Further, Round, AtLeast
<1>5. Further(ahead') * Round \in Nat
  BY <1>2, <1>3, Times
<1>. QED
  BY <1>1, <1>4, <1>5

(* As long as the rows before it stay, what remains changes with the round. *)
LEMMA SameRows ==
  ASSUME Timed, Timed', RowTypes, ahead' = ahead
  PROVE  /\ ToList' <= ToList => ToTurn' <= ToTurn
         /\ ToList' <= ToList - 1 => ToTurn' <= ToTurn - 1
<1>1. ToList \in Nat /\ ToList' \in Nat /\ Round \in Nat
  BY ToListLemma, ToListAfter
<1>2. Further(ahead) * Round \in Nat
  BY <1>1, FurtherLemma, Times DEF RowTypes
<1>3. ToTurn = ToList + Further(ahead) * Round /\ ToTurn' = ToList' + Further(ahead) * Round
  BY <1>1 DEF ToTurn, Further, AtLeast, Round
<1>. QED
  BY <1>1, <1>2, <1>3

(* A pass over a full batch of other rows brings the row a round nearer.   *)
LEMMA PassStep ==
  ASSUME Timed, Timed', RowTypes, RowTypes', ListDue, IsDue, ~InBatch, Skipped < RetryBatch
  PROVE  ToTurn' <= ToTurn
<1>. USE Bounds
<1>1. ahead' \in 0 .. ahead - 1 /\ ahead >= RetryBatch
  BY DEF ListDue, InBatch, MovesUp, AtMost, RowTypes
<1>2. ToList \in Nat /\ ToList' <= Round /\ ToList' \in Nat /\ Round \in Nat
  BY ToListLemma, ToListAfter
<1>3. /\ Further(ahead') \in Nat /\ Further(ahead) \in Nat
      /\ 1 + Further(ahead') <= Further(ahead)
  <2>1. ahead \in 0 .. MaxAhead /\ ahead' \in 0 .. MaxAhead
    BY DEF RowTypes
  <2>2. Further(ahead') + 1 <= Further(ahead) /\ Further(ahead) \in Nat
    BY <1>1, <2>1, FurtherLemma
  <2>3. Further(ahead') \in Nat
    BY <2>1, FurtherLemma
  <2>. QED
    BY <2>2, <2>3
<1>4. Round + Further(ahead') * Round <= Further(ahead) * Round
  <2>1. 1 + Further(ahead') \in Nat
    BY <1>3
  <2>2. (1 + Further(ahead')) * Round <= Further(ahead) * Round
    BY <1>2, <1>3, <2>1, Times
  <2>. QED
    BY <1>2, <1>3, <2>2, Times
<1>5. ToTurn' = ToList' + Further(ahead') * Round
  BY ToTurnAfter
<1>6. Further(ahead') * Round \in Nat /\ Further(ahead) * Round \in Nat
  BY <1>2, <1>3, Times
<1>7. ToList' + Further(ahead') * Round <= ToList + Further(ahead) * Round
  BY <1>2, <1>4, <1>6
<1>. QED
  BY <1>5, <1>7 DEF ToTurn

(* A second of the clock brings the listing a second nearer. *)
LEMMA SecondStep ==
  ASSUME Timed, Second
  PROVE  ToList' <= ToList - 1
<1>. USE Periods
<1>1. /\ at' = at
      /\ left' = IF left > 0 THEN left - 1 ELSE 0
      /\ toTick' = IF toTick = 1 THEN PollInterval ELSE toTick - 1
      /\ tick \/ toTick = 1 => tick'
      /\ ~(tick \/ toTick = 1) => ~tick'
  BY DEF Second, Ticker, Timed
<1>2. /\ toTick \in Nat \ {0}
      /\ ToTick \in Nat
      /\ ToTick' = IF ToTick > 0 THEN ToTick - 1 ELSE 0
  BY <1>1 DEF Timed, ToTick
<1>3. CASE at = "wait" /\ ~tick
  <2>1. ToTick > 0
    BY <1>2, <1>3 DEF ToTick
  <2>. QED
    BY <1>1, <1>2, <1>3, <2>1 DEF ToList
<1>4. CASE at = "read" /\ left > 0
  <2>1. left \in Nat \ {0} /\ left' = left - 1
    BY <1>1, <1>4 DEF Timed
  <2>. QED
    BY <1>1, <1>2, <1>4, <2>1 DEF ToList, AtLeast
<1>5. CASE at = "reclaim" /\ left > 0
  <2>1. left \in Nat \ {0} /\ left' = left - 1
    BY <1>1, <1>5 DEF Timed
  <2>. QED
    BY <1>1, <1>5, <2>1 DEF ToList
<1>6. CASE at \in {"event", "retry"} /\ left > 0
  <2>1. left \in Nat \ {0} /\ left' = left - 1
    BY <1>1, <1>6 DEF Timed
  <2>. QED
    BY <1>1, <1>2, <1>6, <2>1 DEF ToList, AtLeast
<1>. QED
  BY <1>3, <1>4, <1>5, <1>6 DEF Second, Occupied

(* What has waited for l seconds and will wait for n more keeps the limit  *)
(* r that held with t, and a second that passes takes one from n.          *)
LEMMA InTime ==
  \A l, n, t, r \in Nat : l + t <= r =>
    /\ n <= t => l + n <= r
    /\ n <= t - 1 => (l + 1) + n <= r
OBVIOUS

LEMMA ListingStep ==
  ASSUME Timed, Waits, RowTypes, RowTypes', Listing, [PollNext]_pollVars,
         Skipped < RetryBatch
  PROVE  Listing'
<1>. USE Periods
<1>1. late \in Nat /\ late' \in Nat /\ Timed'
  BY TimedStep, WaitsStep DEF Waits
<1>2. ToTurn \in Nat /\ ToTurn <= Limit /\ ToTurn' \in Nat /\ Limit \in Nat /\ Limit' = Limit
  <2>1. Limit' = Limit
    BY DEF Limit, Round, Further, AtLeast
  <2>2. ToTurn' \in Nat
    BY <1>1, ToTurnAfter
  <2>. QED
    BY <2>1, <2>2, ToTurnLemma
<1>3. CASE late' = 0
  BY <1>3 DEF Listing
<1>4. CASE /\ late' = late /\ (late > 0 => UNCHANGED <<number, due, listed, backlog>>)
           /\ (late > 0 => ToTurn' <= ToTurn)
  <2>1. SUFFICES ASSUME late > 0 PROVE Listing'
    BY <1>4 DEF Listing
  <2>2. late + ToTurn <= Limit
    BY <2>1 DEF Listing
  <2>3. late' + ToTurn' <= Limit
    <3>1. late' = late /\ late \in Nat
      BY <1>1, <1>4
    <3>2. ToTurn' <= ToTurn
      BY <1>4, <2>1
    <3>3. ToTurn \in Nat /\ ToTurn' \in Nat /\ Limit \in Nat
      BY <1>2
    <3>4. late + ToTurn' <= Limit
      BY <2>2, <3>1, <3>2, <3>3, InTime
    <3>. QED
      BY <3>1, <3>4, Zenon
  <2>. QED
    BY <1>2, <1>4, <2>1, <2>3 DEF Listing, IsDue
<1>5. CASE TakeEvent \/ Retry
  <2>1. late = 0 /\ late' = late
    BY <1>1, <1>5 DEF TakeEvent, Retry, rowVars, Listing
  <2>. QED
    BY <1>3, <2>1
<1>6. CASE FinishEvent
  <2>1. ToList' = ToList
    BY <1>6 DEF FinishEvent, Reads, Starts, ToList, ToTick
  <2>2. late > 0 => UNCHANGED <<number, due, ahead, listed, backlog>>
    BY <1>6 DEF FinishEvent, Unscheduled, Listing, IsDue
  <2>3. late' = late
    BY <1>6 DEF FinishEvent
  <2>. QED
    BY <1>1, <1>4, <2>1, <2>2, <2>3, SameRows, ToListLemma
<1>7. CASE ReadTimesOut
  <2>1. ToList' = ToList
    BY <1>7 DEF ReadTimesOut, Starts, ToList, ToTick, AtLeast, Timed
  <2>. QED
    BY <1>1, <1>4, <1>7, <2>1, SameRows, ToListLemma DEF ReadTimesOut, rowVars
<1>8. CASE Wake
  <2>1. ToList' <= ToList
    BY <1>8 DEF Wake, Starts, ToList, ToTick
  <2>. QED
    BY <1>1, <1>4, <1>8, <2>1, SameRows DEF Wake, rowVars
<1>9. CASE ListDue
  <2>1. CASE IsDue /\ ~InBatch
    <3>1. ToTurn' <= ToTurn
      BY <1>1, <1>9, <2>1, PassStep
    <3>. QED
      BY <1>4, <1>9, <2>1, <3>1 DEF ListDue
  <2>2. CASE ~(IsDue /\ ~InBatch)
    <3>1. late' = 0
      BY <1>1, <1>9, <2>2 DEF ListDue, Listing
    <3>. QED
      BY <1>3, <3>1
  <2>. QED
    BY <2>1, <2>2
<1>10. CASE FinishRetries
  <2>1. ToList' = ToList
    BY <1>10 DEF FinishRetries, Reads, Starts, ToList, ToTick
  <2>. QED
    BY <1>1, <1>4, <1>10, <2>1, SameRows, ToListLemma DEF FinishRetries, rowVars
<1>11. CASE Arrive
  BY <1>3, <1>11 DEF Arrive
<1>12. CASE Second
  <2>1. CASE IsDue /\ ~listed /\ backlog = << >>
    <3>1. /\ late' = late + 1 /\ number' = number /\ due' = 0 /\ listed' = listed
          /\ backlog' = << >> /\ ahead' = ahead
      BY <1>12, <2>1 DEF Second, IsDue
    <3>2. late + ToTurn <= Limit
      BY <1>1, <1>2 DEF Listing
    <3>3. ToTurn' <= ToTurn - 1
      BY <1>1, <1>12, <3>1, SameRows, SecondStep
    <3>4. late' + ToTurn' <= Limit
      BY <1>1, <1>2, <3>1, <3>2, <3>3, InTime
    <3>. QED
      BY <1>2, <2>1, <3>1, <3>4 DEF Listing, IsDue
  <2>2. CASE ~(IsDue /\ ~listed /\ backlog = << >>)
    <3>1. late = 0 /\ late' = late
      BY <1>1, <1>12, <2>2 DEF Second, Listing
    <3>. QED
      BY <1>3, <3>1
  <2>. QED
    BY <2>1, <2>2
<1>13. CASE UNCHANGED pollVars
  <2>1. ToList' = ToList
    BY <1>13 DEF pollVars, loopVars, ToList, ToTick
  <2>. QED
    BY <1>1, <1>4, <1>13, <2>1, SameRows, ToListLemma DEF pollVars, loopVars, rowVars
<1>. QED
  BY <1>5, <1>6, <1>7, <1>8, <1>9, <1>10, <1>11, <1>12, <1>13 DEF PollNext, WorkerStep

(* While the stream is empty, a due row is listed in the round in which    *)
(* the batch reaches it: the first if fewer than RetryBatch rows are due   *)
(* before it, and later by one round at most for each that is too many, as *)
(* long as the rows of inactive subscriptions are fewer than RetryBatch.   *)
THEOREM RetriesPrompt == PollSpec => []RetryPrompt
<1>1. CASE Skipped >= RetryBatch
  <2>1. RetryPrompt
    BY <1>1, Bounds DEF RetryPrompt
  <2>. QED
    BY <2>1, PTL
<1>2. CASE Skipped < RetryBatch
  <2>1. PollInit => BackoffInv /\ Timed /\ Waits /\ Listing
    <3>. SUFFICES ASSUME PollInit PROVE BackoffInv /\ Timed /\ Waits /\ Listing
      OBVIOUS
    <3>1. late = 0
      BY DEF PollInit
    <3>. QED
      BY <3>1, BackoffStart, PollStart DEF Listing
  <2>2. BackoffInv /\ Timed /\ Waits /\ Listing /\ [PollNext]_pollVars
          => (BackoffInv /\ Timed /\ Waits /\ Listing)'
    <3>. SUFFICES ASSUME BackoffInv, Timed, Waits, Listing, [PollNext]_pollVars
                  PROVE  (BackoffInv /\ Timed /\ Waits /\ Listing)'
      OBVIOUS
    <3>1. BackoffInv' /\ Timed' /\ Waits'
      BY BackoffStep, TimedStep, WaitsStep
    <3>. QED
      BY <1>2, <3>1, ListingStep DEF BackoffInv
  <2>3. BackoffInv /\ Timed /\ Waits /\ Listing => RetryPrompt
    <3>. SUFFICES ASSUME BackoffInv, Timed, Waits, Listing PROVE late <= Limit
      BY DEF RetryPrompt, Limit
    <3>. QED
      BY ToTurnLemma DEF Listing, Waits, BackoffInv
  <2>. QED
    BY <2>1, <2>2, <2>3, PTL DEF PollSpec
<1>. QED
  BY <1>1, <1>2, Bounds
==============================================================================
