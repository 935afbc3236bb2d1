-------------------------- MODULE MCSequenceEngine -------------------------
(* A wait of no hours, a welcome mail, a branch that skips the wait for    *)
(* those who engaged, a wait and a second mail.                            *)
EXTENDS SequenceEngine

Drip == <<[type |-> "wait", hours |-> 0], [type |-> "send"], [type |-> "branch", goto |-> 5],
          [type |-> "wait", hours |-> 1], [type |-> "send"]>>
=============================================================================
