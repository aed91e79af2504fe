---------------------------- MODULE MCEventLog ----------------------------
(* Instances of EventLog for TLC. *)
EXTENDS EventLogInv, TLC

CONSTANTS o1, o2, create1, paid1, odd1, create2, replay1, replay2, q1, q2, w1, w2

MCOrderOf == [e \in Webhooks \cup Replays |->
                IF e \in {create2, replay2} THEN o2 ELSE o1]

Symmetry == Permutations(Requests) \cup Permutations(Workers)
=============================================================================
