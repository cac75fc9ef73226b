------------------------------- MODULE MPSCQueue -------------------------------
(* MPSCQueueIntrusive, the queue of packets between the threads that send on a *)
(* WorldSocket and the network thread: any number of producers, one consumer,  *)
(* no lock.  An action is one access to memory the threads share.  A node is   *)
(* the address of an element; after Dequeue returned it, it is deleted and the *)
(* address can be allocated again.                                             *)
EXTENDS Integers, Sequences

CONSTANTS Nodes, Producers, Dummy, Null, Nobody

ASSUME DummyAssumption == Dummy \notin Nodes /\ Null \notin Nodes \cup {Dummy}
ASSUME NobodyAssumption == Nobody \notin Producers /\ "queue" \notin Producers \cup {Nobody}

VARIABLES
    next,       \* the IntrusiveLink of every node and of the dummy
    head,       \* _head
    tail,       \* _tail
    owner,      \* the producer that is enqueueing a node, "queue", or Nobody
    ppc, prev,  \* per producer: its place in Enqueue, its prevHead
    cpc, cprev, \* the consumer's place in Dequeue, its prevHead
    chain       \* history: the nodes from tail to head, in the order of the exchanges

vars == <<next, head, tail, owner, ppc, prev, cpc, cprev, chain>>
producer == <<ppc, prev>>
consumer == <<cpc, cprev>>

AllNodes == Nodes \cup {Dummy}

(* A sequence without the first occurrence of n.                               *)
Occurs(c, n) == \E i \in DOMAIN c : c[i] = n
Place(c, n) == CHOOSE i \in DOMAIN c : c[i] = n
Without(c, n) ==
    IF Occurs(c, n)
    THEN [i \in 1..(Len(c) - 1) |-> IF i < Place(c, n) THEN c[i] ELSE c[i + 1]]
    ELSE c

TypeOK ==
    /\ next \in [AllNodes -> AllNodes \cup {Null}]
    /\ head \in AllNodes
    /\ tail \in AllNodes
    /\ owner \in [Nodes -> Producers \cup {"queue", Nobody}]
    /\ ppc \in [Producers -> {"idle", "exchange", "link"}]
    /\ prev \in [Producers -> AllNodes]
    /\ cpc \in {"idle", "second", "head", "clear", "exchange", "link", "third"}
    /\ cprev \in AllNodes
    /\ chain \in Seq(AllNodes)

Init ==
    /\ next = [n \in AllNodes |-> Null]
    /\ head = Dummy /\ tail = Dummy
    /\ owner = [n \in Nodes |-> Nobody]
    /\ ppc = [p \in Producers |-> "idle"] /\ prev = [p \in Producers |-> Dummy]
    /\ cpc = "idle" /\ cprev = Dummy
    /\ chain = <<Dummy>>
-----------------------------------------------------------------------------
(* Enqueue(n), the store that ends the list at the new node.                   *)
Enqueue(p, n) ==
    /\ ppc[p] = "idle" /\ owner[n] = Nobody
    /\ owner' = [owner EXCEPT ![n] = p]
    /\ next' = [next EXCEPT ![n] = Null]
    /\ ppc' = [ppc EXCEPT ![p] = "exchange"]
    /\ UNCHANGED <<head, tail, prev, consumer, chain>>

(* _head.exchange(input): from here on the node is in the queue.               *)
Exchange(p, n) ==
    /\ ppc[p] = "exchange" /\ owner[n] = p
    /\ prev' = [prev EXCEPT ![p] = head]
    /\ head' = n
    /\ chain' = Append(chain, n)
    /\ ppc' = [ppc EXCEPT ![p] = "link"]
    /\ UNCHANGED <<next, tail, owner, consumer>>

(* The node that was head is linked to the new one.                            *)
Link(p, n) ==
    /\ ppc[p] = "link" /\ owner[n] = p
    /\ next' = [next EXCEPT ![prev[p]] = n]
    /\ owner' = [owner EXCEPT ![n] = "queue"]
    /\ ppc' = [ppc EXCEPT ![p] = "idle"]
    /\ UNCHANGED <<head, tail, prev, consumer, chain>>
-----------------------------------------------------------------------------
(* Dequeue returns the tail, n follows it.  Variant: it returns n.             *)
ReturnNext(n) ==
    /\ tail' = n
    /\ chain' = Without(chain, n)
    /\ owner' = [owner EXCEPT ![n] = Nobody]
    /\ cpc' = "idle"

Return(n) ==
    /\ tail' = n
    /\ chain' = Without(chain, tail)
    /\ owner' = [owner EXCEPT ![tail] = Nobody]
    /\ cpc' = "idle"

(* Dequeue, the first load of the tail's link: the dummy is skipped when a     *)
(* node follows it; a tail with a successor is returned.                       *)
Dequeue ==
    /\ cpc = "idle"
    /\ LET n == next[tail] IN
          \/ /\ tail = Dummy /\ n = Null
             /\ UNCHANGED <<tail, chain, owner, cpc>>
          \/ /\ tail = Dummy /\ n # Null
             /\ tail' = n
             /\ chain' = Without(chain, Dummy)
             /\ cpc' = "second"
             /\ UNCHANGED owner
          \/ /\ tail # Dummy /\ n # Null
             /\ Return(n)
          \/ /\ tail # Dummy /\ n = Null
             /\ cpc' = "head"
             /\ UNCHANGED <<tail, chain, owner>>
    /\ UNCHANGED <<next, head, producer, cprev>>

(* The load of the link of the node behind the dummy.                          *)
SecondLoad ==
    /\ cpc = "second"
    /\ LET n == next[tail] IN
          \/ n # Null /\ Return(n)
          \/ n = Null /\ cpc' = "head" /\ UNCHANGED <<tail, chain, owner>>
    /\ UNCHANGED <<next, head, producer, cprev>>

(* The tail has no successor.  If it is not the head, a producer has yet to    *)
(* link the next node and Dequeue returns false.  Variants: the test is left   *)
(* out, or Dequeue returns false in either case.                               *)
HeadUntested ==
    /\ cpc = "head"
    /\ cpc' = "clear"
    /\ UNCHANGED <<next, head, tail, owner, producer, cprev, chain>>

HeadGivesUp ==
    /\ cpc = "head"
    /\ cpc' = "idle"
    /\ UNCHANGED <<next, head, tail, owner, producer, cprev, chain>>

HeadLoad ==
    /\ cpc = "head"
    /\ cpc' = IF tail # head THEN "idle" ELSE "clear"
    /\ UNCHANGED <<next, head, tail, owner, producer, cprev, chain>>

(* Enqueue(_dummyPtr), in three steps like any Enqueue.                        *)
DummyEnqueue ==
    /\ cpc = "clear"
    /\ next' = [next EXCEPT ![Dummy] = Null]
    /\ cpc' = "exchange"
    /\ UNCHANGED <<head, tail, owner, producer, cprev, chain>>

DummyExchange ==
    /\ cpc = "exchange"
    /\ cprev' = head
    /\ head' = Dummy
    /\ chain' = Append(chain, Dummy)
    /\ cpc' = "link"
    /\ UNCHANGED <<next, tail, owner, producer>>

DummyLink ==
    /\ cpc = "link"
    /\ next' = [next EXCEPT ![cprev] = Dummy]
    /\ cpc' = "third"
    /\ UNCHANGED <<head, tail, owner, producer, cprev, chain>>

(* The last load of the tail's link.                                           *)
ThirdLoad ==
    /\ cpc = "third"
    /\ LET n == next[tail] IN
          \/ n # Null /\ Return(n)
          \/ n = Null /\ cpc' = "idle" /\ UNCHANGED <<tail, chain, owner>>
    /\ UNCHANGED <<next, head, producer, cprev>>
-----------------------------------------------------------------------------
Produce(p) == \E n \in Nodes : Enqueue(p, n)
Complete(p) == \E n \in Nodes : Exchange(p, n) \/ Link(p, n)
Consume ==
    \/ Dequeue \/ SecondLoad \/ HeadLoad \/ DummyEnqueue \/ DummyExchange \/ DummyLink
    \/ ThirdLoad

Next == Consume \/ \E p \in Producers : Produce(p) \/ Complete(p)

(* A producer that has begun Enqueue ends it, and the network thread calls     *)
(* Dequeue at every tick.                                                      *)
Spec ==
    /\ Init /\ [][Next]_vars
    /\ WF_vars(Consume)
    /\ \A p \in Producers : WF_vars(Complete(p))
-----------------------------------------------------------------------------
InChain(n) == Occurs(chain, n)
Adjacent(a, b) == \E i \in 1..(Len(chain) - 1) : chain[i] = a /\ chain[i + 1] = b

(* The link from a to b has not been stored yet by the thread that will do it. *)
Linking(a, b) ==
    \/ \E p \in Producers : ppc[p] = "link" /\ prev[p] = a /\ b \in Nodes /\ owner[b] = p
    \/ cpc = "link" /\ cprev = a /\ b = Dummy

(* The chain is what the links say, but for the links that producers have not  *)
(* stored yet: no node is lost, skipped or met twice.                          *)
ChainLinked ==
    /\ Len(chain) > 0
    /\ chain[1] = tail /\ chain[Len(chain)] = head /\ next[head] = Null
    /\ \A i, j \in DOMAIN chain : chain[i] = chain[j] => i = j
    /\ \A i \in 1..(Len(chain) - 1) :
          \/ next[chain[i]] = chain[i + 1]
          \/ next[chain[i]] = Null /\ Linking(chain[i], chain[i + 1])

(* A thread about to store into its prevHead stores into a node that Dequeue   *)
(* has not returned, so it is not deleted, whose link is unset, and the store  *)
(* links it to the node that followed it in the order of the exchanges.        *)
PrevHeadAlive ==
    /\ \A p \in Producers, n \in Nodes :
          ppc[p] = "link" /\ owner[n] = p => next[prev[p]] = Null /\ Adjacent(prev[p], n)
    /\ cpc = "link" => next[cprev] = Null /\ Adjacent(cprev, Dummy)

(* What makes the two inductive: who holds which node, and where the dummy is. *)
OwnersInv ==
    /\ \A m, n \in Nodes : owner[m] = owner[n] /\ owner[n] \in Producers => m = n
    /\ \A n \in Nodes : owner[n] \in Producers => ppc[owner[n]] # "idle"
    /\ \A n \in Nodes : owner[n] \in Producers /\ ppc[owner[n]] = "exchange" =>
          next[n] = Null /\ ~InChain(n)
    /\ \A n \in Nodes : owner[n] = Nobody => ~InChain(n)
    /\ cpc # "idle" => tail # Dummy
    /\ cpc \in {"clear", "exchange"} => ~InChain(Dummy)
    /\ cpc = "exchange" => next[Dummy] = Null

(* The elements in the queue: the chain without the dummy.                     *)
Contents == Without(chain, Dummy)

(* The queue is a FIFO queue: an element is in it from the exchange on, and    *)
(* Dequeue returns the first one, once.                                        *)
Fifo == INSTANCE FifoQueue WITH Elements <- Nodes, queue <- Contents
RefinesFifo == Fifo!Spec

(* Whatever was enqueued is dequeued, although Dequeue gives up when it meets  *)
(* a link that is not stored yet.                                              *)
Drains == \A n \in Nodes : InChain(n) ~> ~InChain(n)
=============================================================================
