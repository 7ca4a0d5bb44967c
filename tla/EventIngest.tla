----------------------------- MODULE EventIngest -----------------------------
(***************************************************************************)
(* POST /api/v1/events: EventService.IngestEvent stores the event in       *)
(* PostgreSQL and then, in a second step with nothing that ties the two    *)
(* together, appends it to the stream.  A request is named by the event it *)
(* creates: every call makes a fresh UUID, so a client's retry is another  *)
(* request and another event.                                              *)
(***************************************************************************)
EXTENDS EventStream, FaultModel

VARIABLES events,    \* rows of the events table
          request    \* how far the request for each event has come

ingestVars == <<events, request>>

RequestState == {"none", "stored", "201", "500", "gone"}

IngestInit ==
  /\ events = {}
  /\ request = [e \in Event |-> "none"]

IngestTypeOK ==
  /\ events \subseteq Event
  /\ request \in [Event -> RequestState]

Answer(e, code) == request' = [request EXCEPT ![e] = code]

(* The INSERT into events succeeds. *)
StoreEvent(e) ==
  /\ request[e] = "none"
  /\ events' = events \cup {e}
  /\ Answer(e, "stored")
  /\ UNCHANGED <<streamVars, faults>>

\* A plausible bug: log the failed INSERT and enqueue the event all the same.
StoreFailsIgnored(e) ==
  /\ request[e] = "none"
  /\ Fault("db")
  /\ events' \in {events, events \cup {e}}
  /\ Answer(e, "stored")
  /\ UNCHANGED streamVars

(* The INSERT reports failure, whether or not it took effect: a 500. *)
StoreFails(e) ==
  /\ request[e] = "none"
  /\ Fault("db")
  /\ events' \in {events, events \cup {e}}
  /\ Answer(e, "500")
  /\ UNCHANGED streamVars

(* The stored event is appended to the stream and the client gets its 201. *)
EnqueueEvent(e) ==
  /\ request[e] = "stored"
  /\ XAdd(e)
  /\ Answer(e, "201")
  /\ UNCHANGED <<events, faults>>

(* The Redis client library lost XADD's reply and sent it again: a second  *)
(* entry for the same event.                                               *)
EnqueueTwice(e) ==
  /\ request[e] = "stored"
  /\ Fault("redis")
  /\ Len(stream) + 2 <= MaxEntries
  /\ stream' = Append(Append(stream, e), e)
  /\ Answer(e, "201")
  /\ UNCHANGED <<cursor, pending, idle, group, lost, events>>

\* A plausible bug: a failed enqueue is logged and answered with 201.
EnqueueFailsIgnored(e) ==
  /\ request[e] = "stored"
  /\ Fault("redis")
  /\ XAdd(e) \/ UNCHANGED streamVars
  /\ Answer(e, "201")
  /\ UNCHANGED events

(* XADD reports failure, whether or not it took effect: a 500 for an event *)
(* that stays in the table.                                                *)
EnqueueFails(e) ==
  /\ request[e] = "stored"
  /\ Fault("redis")
  /\ XAdd(e) \/ UNCHANGED streamVars
  /\ Answer(e, "500")
  /\ UNCHANGED events

(* The server dies between the two writes and the client gets no answer. *)
ServerCrash(e) ==
  /\ request[e] = "stored"
  /\ Fault("crash")
  /\ Answer(e, "gone")
  /\ UNCHANGED <<streamVars, events>>

IngestStep(e) ==
  \/ StoreEvent(e)   \/ StoreFails(e)
  \/ EnqueueEvent(e) \/ EnqueueTwice(e) \/ EnqueueFails(e)
  \/ ServerCrash(e)
==============================================================================
