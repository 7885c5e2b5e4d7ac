---------------------------- MODULE MCWarmQueue ----------------------------
(* A small instance of WarmQueue for TLC: one urgent follow-up probe, which *)
(* two threads queue, claim, warm and cancel at once.                       *)
EXTENDS WarmQueue, TLC

MCStudents == {"ada"}
MCSessions == {"s1"}
MCTargets == {"kc1"}
MCRequestProbe ==
    [fp \in {"probe"} |->
        [student |-> "ada", session |-> "s1", targets |-> {"kc1"},
         class |-> "urgent", score |-> 820]]
=============================================================================
