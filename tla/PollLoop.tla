------------------------------- MODULE PollLoop -------------------------------
(***************************************************************************)
(* Processor.Run against the clock: when one worker gets to the entries    *)
(* that wait in the stream and to a row that waits for its retry.  Time is *)
(* counted in seconds and passes only when the worker has nothing to do at *)
(* once.  Nothing fails here; FanoutWorker has the faults and the steps    *)
(* that this module times as a whole.  The row shares the retry query with *)
(* others, of which some may be skipped for ever.                          *)
(*                                                                         *)
(*   at   read -> event -> read              a message was read            *)
(*        read -> wait -> reclaim -> retry -> read   none for ReadTimeout  *)
(***************************************************************************)
EXTENDS Integers, Sequences

CONSTANTS PollInterval,  \* period of the retry ticker
          ReadTimeout,   \* how long XREADGROUP blocks
          BaseDelay,     \* RETRY_BASE_DELAY_SECONDS
          MaxRetries,    \* MAX_DELIVERY_RETRIES
          RetryBatch,    \* FANOUT_WORKER_POOL, the LIMIT of the retry query
          Skipped,       \* due rows whose subscription is inactive
          MaxAhead,      \* bound: due rows that come before the row
          MaxWork,       \* bound: seconds one message, or the batch of one
                         \* reclaim or of one retry pass, takes
          MaxBacklog,    \* bound: entries that wait in the stream
          SinceBound     \* bound: seconds since a POST that are told apart

VARIABLES at,       \* what the worker is doing
          left,     \* for how many seconds more, at most if it is reading
          toTick,   \* seconds until the ticker fires next
          tick,     \* whether its channel, of capacity 1, holds a tick
          backlog,  \* seconds each entry of the stream has been waiting
          number,   \* attempt_number of a row to be retried, 0 for no row
          due,      \* seconds until its next_retry_at
          ahead,    \* due rows with an earlier next_retry_at, once it is due
          listed,   \* whether it is in the batch of the pass in progress
          since,    \* seconds since its last POST, as far as they matter
          late      \* seconds it has been due while the stream was empty

loopVars == <<at, left, toTick, tick, backlog>>
rowVars  == <<number, due, ahead, listed, since, late>>
pollVars == <<loopVars, rowVars>>

\* A plausible bug: a linear backoff.
DelayLinear(n) == n * BaseDelay

(* What markFailure waits after attempt n. *)
Delay(n) == 2 ^ (n - 1) * BaseDelay

ASSUME PollAssumption ==
  /\ {PollInterval, ReadTimeout, MaxRetries, RetryBatch} \subseteq Nat \ {0}
  /\ {BaseDelay, Skipped, MaxAhead, MaxWork, MaxBacklog, SinceBound} \subseteq Nat
  /\ ReadTimeout <= PollInterval
  /\ \A n \in 1 .. MaxRetries : Delay(n) \in 0 .. SinceBound

PollInit ==
  /\ at = "read"
  /\ left = ReadTimeout
  /\ toTick = PollInterval
  /\ tick = FALSE
  /\ backlog = << >>
  /\ number = 0
  /\ due = 0
  /\ ahead = 0
  /\ listed = FALSE
  /\ since = 0
  /\ late = 0

PollTypeOK ==
  /\ at \in {"read", "event", "wait", "reclaim", "retry"}
  /\ left \in 0 .. ReadTimeout \cup 0 .. MaxWork
  /\ toTick \in 1 .. PollInterval
  /\ tick \in BOOLEAN
  /\ backlog \in Seq(Nat) /\ Len(backlog) <= MaxBacklog
  /\ number \in 0 .. MaxRetries
  /\ due \in Nat
  /\ ahead \in 0 .. MaxAhead
  /\ listed \in BOOLEAN
  /\ since \in 0 .. SinceBound
  /\ late \in Nat

AtMost(n, bound) == IF n < bound THEN n ELSE bound

AtLeast(n, bound) == IF n > bound THEN n ELSE bound

Starts(activity, seconds) ==
  /\ at' = activity
  /\ left' \in seconds

Reads == Starts("read", {ReadTimeout})

-----------------------------------------------------------------------------
(* The next attempt must wait, and then find its place among the due rows. *)
Schedule(n) ==
  /\ number' = n + 1
  /\ due' = Delay(n)
  /\ ahead' \in 0 .. MaxAhead
  /\ since' = 0

Unscheduled == UNCHANGED <<due, ahead, since>>

\* A plausible off-by-one: one attempt too many is scheduled.
FailAttemptUnbounded(n) ==
  \/ n > MaxRetries /\ number' = 0 /\ Unscheduled
  \/ n <= MaxRetries /\ Schedule(n)

(* markFailure after attempt n. *)
FailAttempt(n) ==
  \/ n + 1 > MaxRetries /\ number' = 0 /\ Unscheduled
  \/ n + 1 <= MaxRetries /\ Schedule(n)

(* XREADGROUP returns the first waiting entry at once. *)
TakeEvent ==
  /\ at = "read"
  /\ backlog # << >>
  /\ backlog' = Tail(backlog)
  /\ Starts("event", 0 .. MaxWork)
  /\ UNCHANGED <<toTick, tick, rowVars>>

\* A plausible bug: the loop does not go on reading after a message.
FinishEventWaits ==
  /\ at = "event"
  /\ left = 0
  /\ Starts("wait", {0})
  /\ IF number = 0
     THEN FailAttempt(1) \/ (number' = 0 /\ Unscheduled)
     ELSE UNCHANGED number /\ Unscheduled
  /\ UNCHANGED <<toTick, tick, backlog, listed, late>>

(* The message is done; the first POST of some pair may have failed. *)
FinishEvent ==
  /\ at = "event"
  /\ left = 0
  /\ Reads
  /\ IF number = 0
     THEN FailAttempt(1) \/ (number' = 0 /\ Unscheduled)
     ELSE UNCHANGED number /\ Unscheduled
  /\ UNCHANGED <<toTick, tick, backlog, listed, late>>

(* Nothing came for ReadTimeout: from here on only the ticker is heard. *)
ReadTimesOut ==
  /\ at = "read"
  /\ left = 0
  /\ backlog = << >>
  /\ Starts("wait", {0})
  /\ UNCHANGED <<toTick, tick, backlog, rowVars>>

Wake ==
  /\ at = "wait"
  /\ tick
  /\ tick' = FALSE
  /\ Starts("reclaim", 0 .. MaxWork)
  /\ UNCHANGED <<toTick, backlog, rowVars>>

(* The row meets the WHERE of ListPendingRetries. *)
IsDue == number # 0 /\ due = 0

(* It is among the first RetryBatch in the order of next_retry_at. *)
InBatch == IsDue /\ ahead < RetryBatch

(* A batch was taken from the rows before it.  Delivered or given up, they *)
(* are no longer due, or scheduled again they come after it; but those the *)
(* pass skips stay where they are.                                         *)
MovesUp == ahead' \in ahead - RetryBatch .. ahead - RetryBatch + AtMost(Skipped, RetryBatch)

(* reclaimAndProcess is done, and the batch of due rows is listed. *)
ListDue ==
  /\ at = "reclaim"
  /\ left = 0
  /\ Starts("retry", 0 .. MaxWork)
  /\ \/ InBatch /\ listed' = TRUE /\ late' = 0 /\ UNCHANGED ahead
     \/ IsDue /\ ~InBatch /\ MovesUp /\ UNCHANGED <<listed, late>>
     \/ ~IsDue /\ UNCHANGED <<listed, late, ahead>>
  /\ UNCHANGED <<toTick, tick, backlog, number, due, since>>

(* The listed row is POSTed: delivered or failed for good, or to wait again. *)
Retry ==
  /\ at = "retry"
  /\ listed
  /\ listed' = FALSE
  /\ \/ FailAttempt(number)
     \/ number' = 0 /\ Unscheduled
  /\ UNCHANGED <<loopVars, late>>

FinishRetries ==
  /\ at = "retry"
  /\ left = 0
  /\ ~listed
  /\ Reads
  /\ UNCHANGED <<toTick, tick, backlog, rowVars>>

WorkerStep ==
  \/ TakeEvent \/ FinishEvent \/ ReadTimesOut
  \/ Wake \/ ListDue \/ Retry \/ FinishRetries

-----------------------------------------------------------------------------
(* An event is appended to the stream. *)
Arrive ==
  /\ Len(backlog) < MaxBacklog
  /\ backlog' = Append(backlog, 0)
  /\ late' = 0
  /\ UNCHANGED <<at, left, toTick, tick, number, due, ahead, listed, since>>

(* The worker is blocked, or at work for another second. *)
Occupied ==
  \/ at = "wait" /\ ~tick
  \/ at = "read" /\ backlog = << >> /\ left > 0
  \/ at \in {"event", "reclaim", "retry"} /\ left > 0

\* A plausible bug: a timer made anew for every wait instead of one ticker.
TickerFromWait ==
  IF at = "wait"
  THEN /\ tick' = (toTick = 1)
       /\ toTick' = IF toTick = 1 THEN PollInterval ELSE toTick - 1
  ELSE tick' = FALSE /\ toTick' = PollInterval

(* A tick is dropped if the last one has not been received. *)
Ticker ==
  /\ tick' = (tick \/ toTick = 1)
  /\ toTick' = IF toTick = 1 THEN PollInterval ELSE toTick - 1

Second ==
  /\ Occupied
  /\ Ticker
  /\ left' = IF left > 0 THEN left - 1 ELSE 0
  /\ backlog' = [i \in DOMAIN backlog |-> backlog[i] + 1]
  /\ due' = IF due > 0 THEN due - 1 ELSE 0
  /\ since' = AtMost(since + 1, SinceBound)
  /\ late' = IF IsDue /\ ~listed /\ backlog = << >> THEN late + 1 ELSE late
  /\ UNCHANGED <<at, number, ahead, listed>>

PollNext == WorkerStep \/ Arrive \/ Second

PollSpec == PollInit /\ [][PollNext]_pollVars

(* The worker's goroutine runs and time passes; no event need ever come. *)
PollFairSpec == PollSpec /\ WF_pollVars(WorkerStep) /\ WF_pollVars(Second)

-----------------------------------------------------------------------------
(* The retry loop makes attempt n + 1 no earlier than 2^(n - 1) base delays *)
(* after attempt n failed, however the ticker and the work before it fall. *)
BackoffHonoured == listed => since >= 2 ^ (number - 2) * BaseDelay

(* An entry waits for one round of the ticker, the reclaim and the retries *)
(* at most, which an idle worker may just have begun, and then for the     *)
(* entries that came before it.                                            *)
EventPrompt ==
  \A i \in DOMAIN backlog :
    backlog[i] <= PollInterval - ReadTimeout + (2 + MaxBacklog - i) * MaxWork

(* The longest a round can be: the next tick comes, or has come after what *)
(* the worker is doing and one empty read; then it reclaims.               *)
Round == MaxWork + AtLeast(PollInterval, MaxWork + ReadTimeout)

(* Passes that may go by before the row is listed, if each delivers one of *)
(* the rows before it at least.                                            *)
Further(rowsAhead) == AtLeast(rowsAhead + 1 - RetryBatch, 0)

(* While the stream is empty a due row is listed in the first round, or    *)
(* where more rows come before it than the batch holds in as many more as  *)
(* there are too many; unless the rows that are skipped, which stay due    *)
(* and come first for ever, can fill the batch.                            *)
RetryPrompt ==
  Skipped < RetryBatch => late <= (1 + Further(MaxAhead)) * Round

(* A row that is due is retried, however busy the stream is. *)
DueIsRetried == IsDue ~> listed
==============================================================================
