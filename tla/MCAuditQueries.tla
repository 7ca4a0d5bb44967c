---------------------------- MODULE MCAuditQueries ----------------------------
(* The subscriptions of an instance of AuditQueries are interchangeable. *)
EXTENDS AuditQueries, TLC

SubSymmetry == Permutations(Sub)
==============================================================================
