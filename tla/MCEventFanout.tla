---------------------------- MODULE MCEventFanout ----------------------------
(* Values for EventFanout's constants, shared by its configurations. *)
EXTENDS EventFanout, TLC

CONSTANTS b1, b2   \* bodies: every event matches b1's rules, none b2's

MatchesB1 == Event \X {b1}

PeerSymmetry == Permutations(Worker) \cup Permutations(Sub)
==============================================================================
