------------------------------ MODULE FaultModel ------------------------------
(***************************************************************************)
(* Faults of the environment: which kinds may happen and how many in all.  *)
(*   "db"     a PostgreSQL statement fails, or succeeds but reports failure *)
(*   "redis"  the same for a Redis command                                  *)
(*   "crash"  a server or worker process dies                               *)
(*   "loss"   Redis loses its data                                          *)
(***************************************************************************)
EXTENDS Naturals

CONSTANTS Faults,      \* the kinds of fault this instance may suffer
          MaxFaults    \* bound on their number

ASSUME FaultsAssumption ==
  /\ Faults \subseteq {"db", "redis", "crash", "loss"}
  /\ MaxFaults \in Nat

VARIABLE faults        \* how many have happened

FaultInit == faults = 0

FaultTypeOK == faults \in 0 .. MaxFaults

Fault(kind) ==
  /\ kind \in Faults
  /\ faults < MaxFaults
  /\ faults' = faults + 1
==============================================================================
