------------------------------- MODULE WorkQueue -------------------------------
(* What a queue consumer promises its publishers, without channels, workers or *)
(* shutdown: a message leaves the queue only after its effect is in the store, *)
(* and a message that cannot be decoded leaves it without one.  ConsumerPool   *)
(* implements this.                                                            *)
CONSTANTS Messages,     \* what was published
          Malformed     \* the messages whose body does not decode

VARIABLES pending,      \* messages the broker still owes a consumer
          stored        \* messages whose effect is in the store

Init == pending = Messages /\ stored = {}

\* The handler's write; it may come again for the same message.
Store(m) == /\ m \in pending \ Malformed
            /\ stored' = stored \cup {m}
            /\ UNCHANGED pending

\* The acknowledgement.
Remove(m) == /\ m \in pending
             /\ m \in stored \cup Malformed
             /\ pending' = pending \ {m}
             /\ UNCHANGED stored

Next == \E m \in Messages : Store(m) \/ Remove(m)

Spec == Init /\ [][Next]_<<pending, stored>>

===============================================================================
