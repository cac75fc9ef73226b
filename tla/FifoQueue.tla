------------------------------- MODULE FifoQueue -------------------------------
(* What the users of MPSCQueue rely on: elements leave in the order in which   *)
(* they entered, each once.  An element may be used again once it has left.    *)
EXTENDS Sequences

CONSTANT Elements
VARIABLE queue

Enqueue(e) ==
    /\ \A i \in DOMAIN queue : queue[i] # e
    /\ queue' = Append(queue, e)

Dequeue ==
    /\ queue # <<>>
    /\ queue' = Tail(queue)

Init == queue = <<>>
Next == Dequeue \/ \E e \in Elements : Enqueue(e)
Spec == Init /\ [][Next]_queue
=============================================================================
