---------------------------- MODULE DeliveryStore ----------------------------
(***************************************************************************)
(* internal/repository/delivery_repo.go: the delivery_attempts table, one  *)
(* row per (event, subscription) by the unique constraint, and the SQL     *)
(* statements the fanout service runs on it, each atomic.                  *)
(*                                                                         *)
(* next_retry_at is NULL, in the future ("later") or reached ("due"); as   *)
(* rows come due in the order of their next_retry_at, that order is all    *)
(* the model keeps of the times.  A row is never deleted and its id never  *)
(* changes, so of an attempt's id the model keeps whether it names the row *)
(* or no row at all.                                                       *)
(***************************************************************************)
EXTENDS FanoutTypes, Integers, FiniteSets

VARIABLES rows,   \* the delivery_attempts table
          older   \* the due rows' order: <<p, q>> if p has come due before q

storeVars == <<rows, older>>

NoRow == [number |-> 0, status |-> "none", next |-> "null"]

Row == [number : Nat,
        status : {"none", "pending", "success", "failed"},
        next   : {"null", "later", "due"}]

(* A models.DeliveryAttempt in a worker's memory. *)
Attempt == [pair : Pair, number : Nat, id : {"row", "orphan"}]

Exists(p)  == rows[p].status # "none"
Success(p) == rows[p].status = "success"
FailedForGood(p) == rows[p].status = "failed" /\ rows[p].next = "null"

StoreInit ==
  /\ rows = [p \in Pair |-> NoRow]
  /\ older = {}

StoreTypeOK ==
  /\ rows \in [Pair -> Row]
  /\ older \subseteq Pair \X Pair

(* A row is written, its next_retry_at with it. *)
Put(p, row) ==
  /\ rows' = [rows EXCEPT ![p] = row]
  /\ older' = {o \in older : p \notin {o[1], o[2]}}

(* The copy a SELECT of an existing row returns. *)
Copy(p) == [pair |-> p, number |-> rows[p].number, id |-> "row"]

(* The attempt GetOrCreateDeliveryAttempt builds when there is no row: its *)
(* fresh id names no row, and after Create the new one unless the INSERT   *)
(* conflicted, which keeps the old row's id.                               *)
Fresh(p) == [pair |-> p, number |-> 1, id |-> "orphan"]
Created(a) == [a EXCEPT !.id = IF Exists(a.pair) THEN "orphan" ELSE "row"]

(* Create: INSERT with attempt_number 1, ON CONFLICT one more than stored. *)
Create(p) ==
  Put(p, [number |-> rows[p].number + 1, status |-> "pending", next |-> "null"])

(* UPDATE ... WHERE id = a.id: no row is affected by an orphan's id. *)
Write(a, row) ==
  IF a.id = "row" THEN Put(a.pair, row) ELSE UNCHANGED storeVars

\* A plausible bug: the UPDATE leaves next_retry_at as it was.
UpdateStatusKeepsRetry(a, status) ==
  Write(a, [rows[a.pair] EXCEPT !.status = status])

\* A plausible bug: the whole row is saved, from an attempt built anew.
UpdateStatusResetsNumber(a, status) ==
  Write(a, [number |-> 1, status |-> status, next |-> "null"])

(* UpdateStatus, which the service always calls with a NULL next_retry_at. *)
UpdateStatus(a, status) ==
  Write(a, [rows[a.pair] EXCEPT !.status = status, !.next = "null"])

(* IncrementAttempt: the new number comes from the caller, not the row. *)
IncrementAttempt(a, number) ==
  Write(a, [number |-> number, status |-> "failed", next |-> "later"])

(* PostgreSQL's clock: next_retry_at <= NOW() from here on. *)
RetryComesDue(p) ==
  /\ rows[p].next = "later"
  /\ rows' = [rows EXCEPT ![p].next = "due"]
  /\ older' = older \cup ({q \in Pair : rows[q].next = "due"} \X {p})

DueRows == {p \in Pair : rows[p].status = "pending"
                         \/ (rows[p].status = "failed" /\ rows[p].next = "due")}

(* p comes before q in ORDER BY next_retry_at ASC NULLS FIRST. *)
Before(p, q) ==
  <<p, q>> \in older \/ (rows[p].next = "null" /\ rows[q].next # "null")

(* ListPendingRetries: the first limit of the due rows, in any one of the  *)
(* orders that ORDER BY allows (those with a NULL are all equal).          *)
PendingRetries(limit) ==
  {B \in SUBSET DueRows :
     /\ Cardinality(B) <= limit
     /\ B # DueRows => Cardinality(B) = limit
     /\ \A p \in B, q \in DueRows \ B : ~Before(q, p)}
==============================================================================
