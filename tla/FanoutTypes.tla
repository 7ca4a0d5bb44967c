----------------------------- MODULE FanoutTypes -----------------------------
(***************************************************************************)
(* What the components name in common: events and subscriptions (rows, in  *)
(* PostgreSQL, that the other tables and the stream refer to by UUID).     *)
(***************************************************************************)
CONSTANTS Event,   \* events, each named by the UUID IngestEvent gave it
          Sub,     \* subscriptions, each named by the UUID POST gave it
          None     \* the absence of a value

(* The unit of delivery: at most one delivery_attempts row for each. *)
Pair == Event \X Sub
==============================================================================
