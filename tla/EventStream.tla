----------------------------- MODULE EventStream -----------------------------
(***************************************************************************)
(* internal/queue: the Redis stream events:stream and its one consumer     *)
(* group fanout-workers, as the commands the queue layer issues see them.  *)
(*                                                                         *)
(* The stream is kept whole (the service never trims it), so an entry's ID *)
(* is its position and stays valid for ever.  Consumer names are left out: *)
(* XACK and XAUTOCLAIM, the only commands the service applies to pending   *)
(* entries, work on any consumer's entries.                                *)
(***************************************************************************)
EXTENDS FanoutTypes, Integers, Sequences, FiniteSets

CONSTANT MaxEntries     \* bound: entries the stream may ever hold

ASSUME MaxEntriesAssumption == MaxEntries \in Nat

VARIABLES stream,   \* the event carried by each entry, in XADD order
          cursor,   \* ID of the last entry XREADGROUP has handed out
          pending,  \* IDs handed out and not acknowledged (the PEL)
          idle,     \* pending IDs untouched for 30 s, which XAUTOCLAIM takes
          group,    \* whether the consumer group exists
          lost      \* IDs Redis lost before they were acknowledged

streamVars == <<stream, cursor, pending, idle, group, lost>>

Entries == 1 .. Len(stream)
Acked   == (1 .. cursor) \ (pending \cup lost)
Queued  == {stream[i] : i \in Entries}

StreamInit ==
  /\ stream = << >>
  /\ cursor = 0
  /\ pending = {}
  /\ idle = {}
  /\ group = FALSE
  /\ lost = {}

StreamTypeOK ==
  /\ stream \in Seq(Event)
  /\ Len(stream) <= MaxEntries
  /\ cursor \in 0 .. Len(stream)
  /\ pending \subseteq 1 .. cursor
  /\ idle \subseteq pending
  /\ group \in BOOLEAN
  /\ lost \subseteq (1 .. cursor) \ pending

(* XADD: EnqueueEvent appends one entry. *)
XAdd(e) ==
  /\ Len(stream) < MaxEntries
  /\ stream' = Append(stream, e)
  /\ UNCHANGED <<cursor, pending, idle, group, lost>>

(* XGROUP CREATE ... 0 MKSTREAM; an existing group (BUSYGROUP) is no error. *)
XGroupCreate ==
  /\ group' = TRUE
  /\ UNCHANGED <<stream, cursor, pending, idle, lost>>

HasNew == cursor < Len(stream)

(* XREADGROUP with ID ">" and COUNT 1: the next entry nobody was given. *)
XReadGroup ==
  /\ group
  /\ HasNew
  /\ cursor' = cursor + 1
  /\ pending' = pending \cup {cursor + 1}
  /\ UNCHANGED <<stream, idle, group, lost>>

(* XACK: a no-op for an ID that is not pending any more. *)
XAck(i) ==
  /\ pending' = pending \ {i}
  /\ idle' = idle \ {i}
  /\ UNCHANGED <<stream, cursor, group, lost>>

(* The count oldest idle entries: XAUTOCLAIM scans the PEL from 0-0.  That *)
(* it looks at no more than 10 * count pending entries in one call, so     *)
(* that fresh ones may hide idle ones from it for a while, is left out.    *)
Claimable(count) ==
  {i \in idle : Cardinality({j \in idle : j < i}) < count}

(* XAUTOCLAIM: claiming an entry resets its idle time. *)
XAutoClaim(count) ==
  /\ group
  /\ idle' = idle \ Claimable(count)
  /\ UNCHANGED <<stream, cursor, pending, group, lost>>

(* Redis's clock: entry i has now been pending for the 30 s of minIdle. *)
AgeEntry(i) ==
  /\ i \in pending \ idle
  /\ idle' = idle \cup {i}
  /\ UNCHANGED <<stream, cursor, pending, group, lost>>

(* Redis loses its data, the consumer group with it. *)
LoseStream ==
  /\ cursor' = Len(stream)
  /\ lost' = lost \cup pending \cup (cursor + 1 .. Len(stream))
  /\ pending' = {}
  /\ idle' = {}
  /\ group' = FALSE
  /\ UNCHANGED stream
==============================================================================
