---------------------------- MODULE MPSCQueueProofs ----------------------------
(* Proofs that the intrusive MPSC queue stays linked, never stores into a node *)
(* that was returned, and is a FIFO queue, for any producers and addresses.    *)
EXTENDS MPSCQueue, SequenceTheorems, TLAPS

Inv == TypeOK /\ ChainLinked /\ PrevHeadAlive /\ OwnersInv

Distinct(c) == \A i, j \in DOMAIN c : c[i] = c[j] => i = j

(* Taking the first node off a chain of distinct nodes.                        *)
LEMMA WithoutFirst ==
    ASSUME NEW c \in Seq(AllNodes), Len(c) > 0, Distinct(c)
    PROVE  /\ Without(c, c[1]) \in Seq(AllNodes)
           /\ Len(Without(c, c[1])) = Len(c) - 1
           /\ \A i \in 1..(Len(c) - 1) : Without(c, c[1])[i] = c[i + 1]
<1>1. 1 \in DOMAIN c /\ DOMAIN c = 1..Len(c)
  OBVIOUS
<1>2. Occurs(c, c[1]) /\ Place(c, c[1]) = 1
  BY <1>1 DEF Occurs, Place, Distinct
<1>3. Without(c, c[1]) = [i \in 1..(Len(c) - 1) |-> c[i + 1]]
  BY <1>2 DEF Without
<1> QED
  BY <1>3

(* The first node does not occur in what is left.                              *)
LEMMA FirstGone ==
    ASSUME NEW c \in Seq(AllNodes), Len(c) > 0, Distinct(c)
    PROVE  /\ Without(c, c[1]) \in Seq(AllNodes) /\ Distinct(Without(c, c[1]))
           /\ ~Occurs(Without(c, c[1]), c[1])
<1> DEFINE d == Without(c, c[1])
<1>1. d \in Seq(AllNodes) /\ Len(d) = Len(c) - 1 /\ \A i \in 1..(Len(c) - 1) : d[i] = c[i + 1]
  BY WithoutFirst
<1> HIDE DEF d
<1>2. DOMAIN d = 1..(Len(c) - 1) /\ DOMAIN c = 1..Len(c) /\ Len(c) \in Nat
  BY <1>1
<1>3. \A i \in DOMAIN d : i + 1 \in DOMAIN c /\ d[i] = c[i + 1] /\ i + 1 # 1 /\ i \in Nat
  BY <1>1, <1>2
<1>4. 1 \in DOMAIN c
  BY <1>2
<1>5. Distinct(d)
  BY <1>3 DEF Distinct
<1>6. ~Occurs(d, c[1])
  BY <1>3, <1>4 DEF Distinct, Occurs
<1> QED
  BY <1>1, <1>5, <1>6 DEF d

(* The facts about the chain that every step below starts from.                *)
LEMMA ChainFacts ==
    ASSUME Inv
    PROVE  /\ chain \in Seq(AllNodes) /\ Len(chain) \in Nat /\ Len(chain) > 0
           /\ DOMAIN chain = 1..Len(chain) /\ Distinct(chain)
           /\ \A i \in DOMAIN chain : chain[i] \in AllNodes
           /\ InChain(head) /\ InChain(tail)
           /\ next[tail] # Null => Len(chain) > 1 /\ chain[2] = next[tail]
<1>1. chain \in Seq(AllNodes) /\ Len(chain) \in Nat /\ Len(chain) > 0 /\ DOMAIN chain = 1..Len(chain)
  BY DEF Inv, TypeOK, ChainLinked
<1>2. Distinct(chain)
  BY DEF Inv, ChainLinked, Distinct
<1>3. \A i \in DOMAIN chain : chain[i] \in AllNodes
  BY <1>1
<1>4. InChain(head) /\ InChain(tail)
  BY <1>1 DEF Inv, ChainLinked, InChain, Occurs
<1>5. ASSUME next[tail] # Null
      PROVE  Len(chain) > 1 /\ chain[2] = next[tail]
  <2>1. Len(chain) # 1
    BY <1>5 DEF Inv, ChainLinked
  <2>2. 1 \in 1..(Len(chain) - 1)
    BY <1>1, <2>1
  <2>3. chain[1] = tail
    BY DEF Inv, ChainLinked
  <2>4. next[chain[1]] = chain[1 + 1]
    BY <1>5, <2>2, <2>3 DEF Inv, ChainLinked
  <2> QED
    BY <1>1, <2>1, <2>3, <2>4
<1> QED
  BY <1>1, <1>2, <1>3, <1>4, <1>5
-----------------------------------------------------------------------------
(* Enqueue clears the link of a node that is not in the chain.                 *)
LEMMA EnqueueKeeps ==
    ASSUME Inv, NEW p \in Producers, NEW n \in Nodes, Enqueue(p, n)
    PROVE  Inv'
<1>1. /\ ppc[p] = "idle" /\ owner[n] = Nobody
      /\ owner' = [owner EXCEPT ![n] = p]
      /\ next' = [next EXCEPT ![n] = Null]
      /\ ppc' = [ppc EXCEPT ![p] = "exchange"]
      /\ UNCHANGED <<head, tail, prev, cpc, cprev, chain>>
  BY DEF Enqueue, consumer
<1> USE DEF Inv
<1>2. TypeOK'
  BY <1>1 DEF TypeOK, AllNodes
<1>3. ~InChain(n)
  BY <1>1 DEF OwnersInv
<1>4. \A i \in DOMAIN chain : chain[i] # n /\ next'[chain[i]] = next[chain[i]]
  BY <1>1, <1>3, ChainFacts DEF InChain, Occurs, TypeOK
<1>5. \A m \in Nodes : owner[m] \in Producers /\ ppc[owner[m]] = "link" =>
         m # n /\ owner'[m] = owner[m] /\ ppc'[owner[m]] = "link"
  BY <1>1, NobodyAssumption DEF TypeOK
<1>6. ChainLinked'
  <2>1. \A a, b : Linking(a, b) => Linking(a, b)'
    BY <1>1, <1>5 DEF Linking
  <2>2. chain[Len(chain)] = head /\ Len(chain) \in DOMAIN chain
    BY ChainFacts DEF ChainLinked
  <2>3. next'[head] = Null
    BY <1>4, <2>2 DEF ChainLinked
  <2>4. \A i \in 1..(Len(chain) - 1) : next'[chain[i]] = next[chain[i]]
    BY <1>4, ChainFacts
  <2> QED
    BY <1>1, <2>1, <2>3, <2>4 DEF ChainLinked
<1>7. PrevHeadAlive'
  <2>1. \A q \in Producers, m \in Nodes : ppc'[q] = "link" /\ owner'[m] = q =>
           ppc[q] = "link" /\ owner[m] = q
    BY <1>1 DEF TypeOK
  <2>2. \A a, b : Adjacent(a, b) => Adjacent(a, b)' /\ (next[a] = Null => next'[a] = Null)
    BY <1>1, <1>4, ChainFacts DEF Adjacent
  <2> QED
    BY <1>1, <2>1, <2>2 DEF PrevHeadAlive
<1>8. OwnersInv'
  <2>1. \A m \in Nodes : m # n => owner'[m] = owner[m] /\ owner[m] # p
    BY <1>1 DEF TypeOK, OwnersInv
  <2>2. owner'[n] = p /\ ppc'[p] = "exchange" /\ next'[n] = Null
    BY <1>1 DEF TypeOK, AllNodes
  <2>3. \A x : InChain(x)' <=> InChain(x)
    BY <1>1 DEF InChain
  <2>4. \A x \in AllNodes : next[x] = Null => next'[x] = Null
    BY <1>1 DEF TypeOK, AllNodes
  <2>5. \A q \in Producers : q # p => ppc'[q] = ppc[q]
    BY <1>1 DEF TypeOK
  <2>6. \A m, k \in Nodes : owner'[m] = owner'[k] /\ owner'[k] \in Producers => m = k
    BY <2>1, <2>2 DEF OwnersInv
  <2>7. \A m \in Nodes : owner'[m] \in Producers => ppc'[owner'[m]] # "idle"
    BY <2>1, <2>2, <2>5 DEF OwnersInv
  <2>8. \A m \in Nodes : owner'[m] \in Producers /\ ppc'[owner'[m]] = "exchange" =>
           next'[m] = Null /\ ~InChain(m)'
    BY <1>3, <2>1, <2>2, <2>3, <2>4, <2>5 DEF OwnersInv, AllNodes
  <2>9. \A m \in Nodes : owner'[m] = Nobody => ~InChain(m)'
    BY <2>1, <2>2, <2>3, NobodyAssumption DEF OwnersInv
  <2> QED
    BY <1>1, <2>3, <2>4, <2>6, <2>7, <2>8, <2>9 DEF OwnersInv, AllNodes
<1> QED
  BY <1>2, <1>6, <1>7, <1>8
(* An exchange of the head: the new node ends the chain, behind the old head   *)
(* it will be linked to.                                                       *)
LEMMA AppendKeeps ==
    ASSUME Inv, NEW x \in AllNodes, NEW h, h = head, ~InChain(x), next[x] = Null,
           chain' = Append(chain, x), head' = x, UNCHANGED <<next, tail>>,
           Linking(h, x)', \A a, b : Linking(a, b) => Linking(a, b)'
    PROVE  /\ chain' \in Seq(AllNodes)
           /\ ChainLinked'
           /\ Adjacent(h, x)'
           /\ \A a, b : Adjacent(a, b) => Adjacent(a, b)'
           /\ \A y : InChain(y)' <=> InChain(y) \/ y = x
<1> DEFINE l == Len(chain)
<1>1. /\ chain \in Seq(AllNodes) /\ l \in Nat /\ l > 0
      /\ DOMAIN chain = 1..l /\ Distinct(chain)
  BY ChainFacts
<1>2. /\ chain' \in Seq(AllNodes) /\ Len(chain') = l + 1 /\ DOMAIN chain' = 1..(l + 1)
      /\ chain'[l + 1] = x /\ \A i \in 1..l : chain'[i] = chain[i]
  BY <1>1
<1>3. \A i \in 1..l : chain[i] # x
  BY <1>1 DEF InChain, Occurs
<1> HIDE DEF l
<1>4. chain[l] = head /\ chain[1] = tail /\ next[head] = Null
  BY DEF Inv, ChainLinked, l
<1>5. \A i, j \in DOMAIN chain' : chain'[i] = chain'[j] => i = j
  BY <1>1, <1>2, <1>3 DEF Distinct
<1>6. \A i \in 1..l :
         \/ next'[chain'[i]] = chain'[i + 1]
         \/ next'[chain'[i]] = Null /\ Linking(chain[i], chain[i + 1])'
  <2> TAKE i \in 1..l
  <2>1. CASE i = l
    <3>1. chain'[i] = h /\ chain'[i + 1] = x /\ next'[h] = Null
      BY <1>1, <1>2, <1>4, <2>1
    <3> QED
      BY <3>1
  <2>2. CASE i # l
    <3>1. i \in 1..(l - 1) /\ i + 1 \in 1..l
      BY <1>1, <2>2
    <3>2. \/ next[chain[i]] = chain[i + 1]
          \/ next[chain[i]] = Null /\ Linking(chain[i], chain[i + 1])
      BY <3>1 DEF Inv, ChainLinked, l
    <3>3. chain'[i] = chain[i] /\ chain'[i + 1] = chain[i + 1]
      BY <1>2, <3>1
    <3>4. \A u, v : Linking(u, v) /\ u = chain'[i] /\ v = chain'[i + 1]
                     => Linking(chain[i], chain[i + 1])'
      OBVIOUS
    <3> QED
      BY <3>2, <3>3, <3>4
  <2> QED
    BY <2>1, <2>2
<1>7. ChainLinked'
  <2>1. Len(chain') > 0 /\ chain'[1] = tail' /\ chain'[Len(chain')] = head' /\ next'[head'] = Null
    BY <1>1, <1>2, <1>4
  <2>2. 1..(Len(chain') - 1) = 1..l
    BY <1>1, <1>2
  <2> QED
    BY <1>5, <1>6, <2>1, <2>2 DEF ChainLinked
<1>8. Adjacent(h, x)'
  <2>1. l \in 1..(Len(chain') - 1) /\ chain'[l] = h /\ chain'[l + 1] = x
    BY <1>1, <1>2, <1>4
  <2>2. Adjacent(h, x)' <=> \E i \in 1..(Len(chain') - 1) : chain'[i] = h /\ chain'[i + 1] = x
    BY <1>1, <1>2, <2>1 DEF Adjacent
  <2> QED
    BY <2>1, <2>2
<1>9. \A a, b : Adjacent(a, b) => Adjacent(a, b)'
  BY <1>1, <1>2 DEF Adjacent, l
<1>10. \A y : InChain(y)' <=> InChain(y) \/ y = x
  BY <1>1, <1>2 DEF InChain, Occurs
<1> QED
  BY <1>2, <1>7, <1>8, <1>9, <1>10
(* _head.exchange by a producer.                                               *)
LEMMA ExchangeKeeps ==
    ASSUME Inv, NEW p \in Producers, NEW n \in Nodes, Exchange(p, n)
    PROVE  Inv'
<1> DEFINE h == head
<1>1. /\ ppc[p] = "exchange" /\ owner[n] = p
      /\ prev' = [prev EXCEPT ![p] = h] /\ head' = n
      /\ chain' = Append(chain, n)
      /\ ppc' = [ppc EXCEPT ![p] = "link"]
      /\ UNCHANGED <<next, tail, owner, cpc, cprev>>
  BY DEF Exchange, consumer
<1> USE DEF Inv
<1>2. next[n] = Null /\ ~InChain(n) /\ n \in AllNodes /\ h \in AllNodes /\ next[h] = Null
  BY <1>1 DEF OwnersInv, AllNodes, TypeOK, ChainLinked
<1>3. \A q \in Producers : q # p => ppc'[q] = ppc[q] /\ prev'[q] = prev[q]
  BY <1>1 DEF TypeOK
<1>4. ppc'[p] = "link" /\ prev'[p] = h
  BY <1>1 DEF TypeOK
<1>5. PICK g : g = h
  OBVIOUS
<1>6. Linking(g, n)'
  BY <1>1, <1>4, <1>5 DEF Linking
<1>7. \A a, b : Linking(a, b) => Linking(a, b)'
  BY <1>1, <1>3 DEF Linking
<1>8. /\ chain' \in Seq(AllNodes) /\ ChainLinked' /\ Adjacent(g, n)'
      /\ \A a, b : Adjacent(a, b) => Adjacent(a, b)'
      /\ \A y : InChain(y)' <=> InChain(y) \/ y = n
  BY <1>1, <1>2, <1>5, <1>6, <1>7, AppendKeeps
<1>9. TypeOK'
  BY <1>1, <1>2, <1>8 DEF TypeOK
<1>10. PrevHeadAlive'
  <2>1. ASSUME NEW q \in Producers, NEW m \in Nodes, ppc'[q] = "link", owner'[m] = q
        PROVE  next'[prev'[q]] = Null /\ Adjacent(prev[q], m)'
    <3>1. CASE q = p
      <4>1. m = n
        BY <1>1, <2>1, <3>1 DEF OwnersInv
      <4> QED
        BY <1>1, <1>2, <1>4, <1>5, <1>8, <3>1, <4>1
    <3>2. CASE q # p
      <4>1. next[prev[q]] = Null /\ Adjacent(prev[q], m) /\ prev'[q] = prev[q]
        BY <1>1, <1>3, <2>1, <3>2 DEF PrevHeadAlive
      <4>2. \A a : a = prev'[q] /\ Adjacent(a, m) => Adjacent(prev[q], m)'
        BY <1>8
      <4> QED
        BY <1>1, <4>1, <4>2
    <3> QED
      BY <3>1, <3>2
  <2>2. cpc' = "link" => next'[cprev'] = Null /\ Adjacent(cprev, Dummy)'
    <3>1. \A a : a = cprev' /\ Adjacent(a, Dummy) => Adjacent(cprev, Dummy)'
      BY <1>8
    <3> QED
      BY <1>1, <3>1 DEF PrevHeadAlive
  <2> QED
    BY <2>1, <2>2 DEF PrevHeadAlive
<1>11. OwnersInv'
  <2>1. n # Dummy
    BY DummyAssumption
  <2>2. \A m \in Nodes : owner'[m] \in Producers => ppc'[owner'[m]] # "idle"
    BY <1>1, <1>3, <1>4 DEF OwnersInv
  <2>3. \A m \in Nodes : owner'[m] \in Producers /\ ppc'[owner'[m]] = "exchange" =>
           next'[m] = Null /\ ~InChain(m)'
    BY <1>1, <1>3, <1>4, <1>8 DEF OwnersInv
  <2>4. \A m \in Nodes : owner'[m] = Nobody => ~InChain(m)'
    BY <1>1, <1>8, NobodyAssumption DEF OwnersInv
  <2> QED
    BY <1>1, <1>8, <2>1, <2>2, <2>3, <2>4 DEF OwnersInv
<1> QED
  BY <1>8, <1>9, <1>10, <1>11

(* _head.exchange by the consumer, which puts the dummy back.                  *)
LEMMA DummyExchangeKeeps ==
    ASSUME Inv, DummyExchange
    PROVE  Inv'
<1> DEFINE h == head
<1>1. /\ cpc = "exchange" /\ cprev' = h /\ head' = Dummy
      /\ chain' = Append(chain, Dummy) /\ cpc' = "link"
      /\ UNCHANGED <<next, tail, owner, ppc, prev>>
  BY DEF DummyExchange, producer
<1> USE DEF Inv
<1>2. next[Dummy] = Null /\ ~InChain(Dummy) /\ Dummy \in AllNodes /\ h \in AllNodes /\ next[h] = Null
  BY <1>1 DEF OwnersInv, AllNodes, TypeOK, ChainLinked
<1>3. PICK g : g = h
  OBVIOUS
<1>4. Linking(g, Dummy)'
  BY <1>1, <1>3 DEF Linking
<1>5. \A a, b : Linking(a, b) => Linking(a, b)'
  BY <1>1 DEF Linking
<1>6. /\ chain' \in Seq(AllNodes) /\ ChainLinked' /\ Adjacent(g, Dummy)'
      /\ \A a, b : Adjacent(a, b) => Adjacent(a, b)'
      /\ \A y : InChain(y)' <=> InChain(y) \/ y = Dummy
  BY <1>1, <1>2, <1>3, <1>4, <1>5, AppendKeeps
<1>7. TypeOK'
  BY <1>1, <1>2, <1>6 DEF TypeOK
<1>8. PrevHeadAlive'
  <2>1. ASSUME NEW q \in Producers, NEW m \in Nodes, ppc'[q] = "link", owner'[m] = q
        PROVE  next'[prev'[q]] = Null /\ Adjacent(prev[q], m)'
    <3>1. next[prev[q]] = Null /\ Adjacent(prev[q], m) /\ prev'[q] = prev[q]
      BY <1>1, <2>1 DEF PrevHeadAlive
    <3>2. \A a : a = prev'[q] /\ Adjacent(a, m) => Adjacent(prev[q], m)'
      BY <1>6
    <3> QED
      BY <1>1, <3>1, <3>2
  <2>2. next'[cprev'] = Null /\ Adjacent(cprev, Dummy)'
    BY <1>1, <1>2, <1>3, <1>6
  <2> QED
    BY <2>1, <2>2 DEF PrevHeadAlive
<1>9. OwnersInv'
  <2>1. \A m \in Nodes : InChain(m)' <=> InChain(m)
    BY <1>6, DummyAssumption
  <2> QED
    BY <1>1, <2>1 DEF OwnersInv
<1> QED
  BY <1>6, <1>7, <1>8, <1>9
(* The store of a link that was still on the way: it joins two neighbours of   *)
(* the chain and touches no other link.                                        *)
LEMMA StoreKeeps ==
    ASSUME Inv, NEW a \in AllNodes, NEW b \in AllNodes, Adjacent(a, b), next[a] = Null,
           next' = [next EXCEPT ![a] = b], UNCHANGED <<head, tail, chain>>,
           \A x, y : Linking(x, y) /\ x # a => Linking(x, y)'
    PROVE  /\ ChainLinked'
           /\ \A x, y : Adjacent(x, y) => Adjacent(x, y)'
           /\ \A x, y : Adjacent(x, y) /\ y # b => x # a
           /\ \A x \in AllNodes : x # a => next'[x] = next[x]
           /\ \A x : InChain(x)' <=> InChain(x)
           /\ a # head
<1>1. \A x \in AllNodes : x # a => next'[x] = next[x]
  BY DEF Inv, TypeOK
<1>2. next'[a] = b
  BY DEF Inv, TypeOK
<1>3. PICK k \in 1..(Len(chain) - 1) : chain[k] = a /\ chain[k + 1] = b
  BY DEF Adjacent
<1>4. /\ chain \in Seq(AllNodes) /\ Len(chain) \in Nat /\ Len(chain) > 0
      /\ DOMAIN chain = 1..Len(chain) /\ Distinct(chain)
      /\ \A i \in DOMAIN chain : chain[i] \in AllNodes
  BY ChainFacts
<1>5. \A i \in DOMAIN chain : chain[i] = a => i = k
  BY <1>3, <1>4 DEF Distinct
<1>6. chain[Len(chain)] = head /\ chain[1] = tail /\ next[head] = Null
  BY DEF Inv, ChainLinked
<1>7. a # head
  BY <1>3, <1>4, <1>5, <1>6
<1>8. \A x, y : Adjacent(x, y) => Adjacent(x, y)'
  BY DEF Adjacent
<1>9. \A x, y : Adjacent(x, y) /\ y # b => x # a
  BY <1>3, <1>4, <1>5 DEF Adjacent
<1>10. \A i \in 1..(Len(chain) - 1) :
         \/ next'[chain[i]] = chain[i + 1]
         \/ next'[chain[i]] = Null /\ Linking(chain[i], chain[i + 1])'
  <2> TAKE i \in 1..(Len(chain) - 1)
  <2>1. CASE i = k
    BY <1>2, <1>3, <2>1
  <2>2. CASE i # k
    <3>1. chain[i] # a /\ chain[i] \in AllNodes
      BY <1>4, <1>5, <2>2
    <3>2. \/ next[chain[i]] = chain[i + 1]
          \/ next[chain[i]] = Null /\ Linking(chain[i], chain[i + 1])
      BY DEF Inv, ChainLinked
    <3>3. \A u, v : Linking(u, v) /\ u # a /\ u = chain'[i] /\ v = chain'[i + 1]
                     => Linking(chain[i], chain[i + 1])'
      OBVIOUS
    <3> QED
      BY <1>1, <3>1, <3>2, <3>3
  <2> QED
    BY <2>1, <2>2
<1>11. head \in AllNodes
  BY DEF Inv, TypeOK
<1>12. ChainLinked'
  BY <1>1, <1>4, <1>6, <1>7, <1>10, <1>11 DEF ChainLinked, Distinct
<1> QED
  BY <1>1, <1>7, <1>8, <1>9, <1>12 DEF InChain

(* A producer stores its link.                                                 *)
LEMMA LinkKeeps ==
    ASSUME Inv, NEW p \in Producers, NEW n \in Nodes, Link(p, n)
    PROVE  Inv'
<1> DEFINE a == prev[p]
<1>1. /\ ppc[p] = "link" /\ owner[n] = p
      /\ next' = [next EXCEPT ![a] = n]
      /\ owner' = [owner EXCEPT ![n] = "queue"]
      /\ ppc' = [ppc EXCEPT ![p] = "idle"]
      /\ UNCHANGED <<head, tail, prev, cpc, cprev, chain>>
  BY DEF Link, consumer
<1> USE DEF Inv
<1>2. next[a] = Null /\ Adjacent(a, n) /\ a \in AllNodes /\ n \in AllNodes
  BY <1>1 DEF PrevHeadAlive, TypeOK, AllNodes
<1>3. \A m \in Nodes : m # n => owner'[m] = owner[m] /\ owner[m] # p
  BY <1>1 DEF TypeOK, OwnersInv
<1>4. \A q \in Producers : q # p => ppc'[q] = ppc[q]
  BY <1>1 DEF TypeOK
<1>5. \A x, y : Linking(x, y) /\ x # a => Linking(x, y)'
  BY <1>1, <1>3, <1>4 DEF Linking
<1> HIDE DEF a
<1>6. /\ ChainLinked'
      /\ \A x, y : Adjacent(x, y) => Adjacent(x, y)'
      /\ \A x, y : Adjacent(x, y) /\ y # n => x # a
      /\ \A x \in AllNodes : x # a => next'[x] = next[x]
      /\ \A x : InChain(x)' <=> InChain(x)
      /\ a # head
  BY <1>1, <1>2, <1>5, StoreKeeps
<1>7. owner'[n] = "queue" /\ ppc'[p] = "idle"
  BY <1>1 DEF TypeOK
<1>8. TypeOK'
  BY <1>1, <1>2 DEF TypeOK, AllNodes
<1>9. PrevHeadAlive'
  <2>1. ASSUME NEW q \in Producers, NEW m \in Nodes, ppc'[q] = "link", owner'[m] = q
        PROVE  next'[prev'[q]] = Null /\ Adjacent(prev[q], m)'
    <3>1. q # p /\ m # n
      BY <1>7, <2>1, NobodyAssumption
    <3>2. next[prev[q]] = Null /\ Adjacent(prev[q], m) /\ prev'[q] = prev[q]
      BY <1>1, <1>3, <1>4, <2>1, <3>1 DEF PrevHeadAlive
    <3>3. prev[q] # a /\ prev[q] \in AllNodes
      BY <1>6, <3>1, <3>2 DEF TypeOK
    <3>4. \A x : x = prev'[q] /\ Adjacent(x, m) => Adjacent(prev[q], m)'
      BY <1>6
    <3> QED
      BY <1>6, <3>2, <3>3, <3>4
  <2>2. cpc' = "link" => next'[cprev'] = Null /\ Adjacent(cprev, Dummy)'
    <3>1. \A x : x = cprev' /\ Adjacent(x, Dummy) => Adjacent(cprev, Dummy)'
      BY <1>6
    <3>2. cpc = "link" => cprev # a /\ cprev \in AllNodes
      BY <1>6, DummyAssumption DEF PrevHeadAlive, TypeOK
    <3> QED
      BY <1>1, <1>6, <3>1, <3>2 DEF PrevHeadAlive
  <2> QED
    BY <2>1, <2>2 DEF PrevHeadAlive
<1>10. OwnersInv'
  <2>1. InChain(a)
    BY <1>2, ChainFacts DEF Adjacent, InChain, Occurs
  <2>2. \A m \in Nodes : owner'[m] \in Producers => m # n /\ owner[m] = owner'[m] /\ owner[m] # p
    BY <1>3, <1>7, NobodyAssumption
  <2>3. \A m \in Nodes : owner'[m] \in Producers /\ ppc'[owner'[m]] = "exchange" =>
           next'[m] = Null /\ ~InChain(m)'
    <3> TAKE m \in Nodes
    <3> HAVE owner'[m] \in Producers /\ ppc'[owner'[m]] = "exchange"
    <3>1. next[m] = Null /\ ~InChain(m)
      BY <1>4, <2>2 DEF OwnersInv
    <3>2. m # a /\ m \in AllNodes
      BY <2>1, <3>1 DEF AllNodes
    <3> QED
      BY <1>6, <3>1, <3>2
  <2>4. \A m \in Nodes : owner'[m] = Nobody => ~InChain(m)'
    BY <1>3, <1>6, <1>7, NobodyAssumption DEF OwnersInv
  <2>5. cpc = "exchange" => next'[Dummy] = Null
    <3>1. cpc = "exchange" => Dummy # a /\ next[Dummy] = Null
      BY <2>1 DEF OwnersInv
    <3> QED
      BY <1>6, <3>1 DEF AllNodes
  <2>6. \A k, m \in Nodes : owner'[k] = owner'[m] /\ owner'[m] \in Producers => k = m
    BY <2>2 DEF OwnersInv
  <2>7. \A m \in Nodes : owner'[m] \in Producers => ppc'[owner'[m]] # "idle"
    BY <1>4, <2>2 DEF OwnersInv
  <2> QED
    BY <1>1, <1>6, <2>3, <2>4, <2>5, <2>6, <2>7 DEF OwnersInv
<1> QED
  BY <1>6, <1>8, <1>9, <1>10

(* The consumer links the dummy.                                               *)
LEMMA DummyLinkKeeps ==
    ASSUME Inv, DummyLink
    PROVE  Inv'
<1> DEFINE a == cprev
<1>1. /\ cpc = "link" /\ cpc' = "third"
      /\ next' = [next EXCEPT ![a] = Dummy]
      /\ UNCHANGED <<head, tail, owner, ppc, prev, cprev, chain>>
  BY DEF DummyLink, producer
<1> USE DEF Inv
<1>2. next[a] = Null /\ Adjacent(a, Dummy) /\ a \in AllNodes /\ Dummy \in AllNodes
  BY <1>1 DEF PrevHeadAlive, TypeOK, AllNodes
<1>3. \A x, y : Linking(x, y) /\ x # a => Linking(x, y)'
  BY <1>1 DEF Linking
<1> HIDE DEF a
<1>4. /\ ChainLinked'
      /\ \A x, y : Adjacent(x, y) => Adjacent(x, y)'
      /\ \A x, y : Adjacent(x, y) /\ y # Dummy => x # a
      /\ \A x \in AllNodes : x # a => next'[x] = next[x]
      /\ \A x : InChain(x)' <=> InChain(x)
      /\ a # head
  BY <1>1, <1>2, <1>3, StoreKeeps
<1>5. TypeOK'
  BY <1>1, <1>2 DEF TypeOK
<1>6. PrevHeadAlive'
  <2>1. ASSUME NEW q \in Producers, NEW m \in Nodes, ppc'[q] = "link", owner'[m] = q
        PROVE  next'[prev'[q]] = Null /\ Adjacent(prev[q], m)'
    <3>1. next[prev[q]] = Null /\ Adjacent(prev[q], m) /\ prev'[q] = prev[q] /\ m # Dummy
      BY <1>1, <2>1, DummyAssumption DEF PrevHeadAlive
    <3>2. prev[q] # a /\ prev[q] \in AllNodes
      BY <1>4, <3>1 DEF TypeOK
    <3>3. \A x : x = prev'[q] /\ Adjacent(x, m) => Adjacent(prev[q], m)'
      BY <1>4
    <3> QED
      BY <1>4, <3>1, <3>2, <3>3
  <2> QED
    BY <1>1, <2>1 DEF PrevHeadAlive
<1>7. OwnersInv'
  <2>1. InChain(a)
    BY <1>2, ChainFacts DEF Adjacent, InChain, Occurs
  <2>2. \A m \in Nodes : ~InChain(m) => next'[m] = next[m]
    BY <1>4, <2>1 DEF AllNodes
  <2> QED
    BY <1>1, <1>4, <2>2 DEF OwnersInv
<1> QED
  BY <1>4, <1>5, <1>6, <1>7
(* The consumer moves the tail to its successor: nobody was still enqueueing   *)
(* the old tail, and the links on the way are those of the rest of the chain.  *)
LEMMA AdvanceKeeps ==
    ASSUME Inv, NEW t, t = tail, next[tail] # Null,
           tail' = next[tail], chain' = Without(chain, tail),
           UNCHANGED <<next, head, ppc, prev, cprev>>,
           owner' = owner \/ owner' = [owner EXCEPT ![tail] = Nobody],
           cpc # "link", cpc' \in {"idle", "second"}
    PROVE  /\ tail' \in AllNodes /\ chain' \in Seq(AllNodes)
           /\ owner' \in [Nodes -> Producers \cup {"queue", Nobody}]
           /\ ChainLinked' /\ PrevHeadAlive'
           /\ \A x : InChain(x)' <=> InChain(x) /\ x # t
           /\ \A n \in Nodes : owner'[n] \in Producers <=> owner[n] \in Producers
           /\ \A n \in Nodes : owner'[n] \in Producers => owner'[n] = owner[n]
<1> DEFINE l == Len(chain)
<1>1. /\ chain \in Seq(AllNodes) /\ l \in Nat /\ l > 1
      /\ DOMAIN chain = 1..l /\ Distinct(chain) /\ chain[2] = next[tail]
      /\ \A i \in DOMAIN chain : chain[i] \in AllNodes
  BY ChainFacts
<1>2. chain[1] = tail /\ chain[l] = head /\ next[head] = Null
  BY DEF Inv, ChainLinked
<1>3. /\ chain' \in Seq(AllNodes) /\ Len(chain') = l - 1 /\ DOMAIN chain' = 1..(l - 1)
      /\ \A i \in 1..(l - 1) : chain'[i] = chain[i + 1]
  <2>1. Without(chain, chain[1]) = chain'
    BY <1>2
  <2> DEFINE r == Without(chain, chain[1])
  <2>2. r \in Seq(AllNodes) /\ Len(r) = l - 1 /\ \A i \in 1..(l - 1) : r[i] = chain[i + 1]
    <3>1. Len(chain) > 0
      BY <1>1
    <3> QED
      BY ONLY <1>1, <3>1, WithoutFirst
  <2> HIDE DEF r
  <2>3. DOMAIN r = 1..(l - 1)
    BY <2>2
  <2>4. chain' = r
    BY <2>1 DEF r
  <2> QED
    BY ONLY <2>2, <2>3, <2>4
<1> HIDE DEF l
<1>4. t \in Nodes => owner[t] \notin Producers
  <2> SUFFICES ASSUME t \in Nodes, owner[t] \in Producers PROVE FALSE
    OBVIOUS
  <2>1. InChain(t)
    BY ChainFacts
  <2>2. ppc[owner[t]] = "link"
    BY <2>1 DEF Inv, OwnersInv, TypeOK
  <2>3. Adjacent(prev[owner[t]], t)
    BY <2>2 DEF Inv, PrevHeadAlive
  <2>4. PICK i \in 1..(l - 1) : chain[i + 1] = chain[1]
    BY <1>2, <2>3 DEF Adjacent, l
  <2> QED
    BY <1>1, <2>4 DEF Distinct
<1>5. /\ owner' \in [Nodes -> Producers \cup {"queue", Nobody}]
      /\ \A n \in Nodes : n # t => owner'[n] = owner[n]
      /\ \A n \in Nodes : n = t => owner'[n] \notin Producers
  <2>1. owner \in [Nodes -> Producers \cup {"queue", Nobody}]
    BY DEF Inv, TypeOK
  <2>2. CASE owner' = owner
    BY <1>4, <2>1, <2>2
  <2>3. CASE owner' = [owner EXCEPT ![tail] = Nobody]
    BY <2>1, <2>3, NobodyAssumption
  <2> QED
    BY <2>2, <2>3
<1>6. \A n \in Nodes : /\ owner'[n] \in Producers <=> owner[n] \in Producers
                       /\ owner'[n] \in Producers => owner'[n] = owner[n]
  BY <1>4, <1>5
<1>7. \A x, y : Linking(x, y) => Linking(x, y)'
  BY <1>6 DEF Linking
<1>8. ChainLinked'
  <2>1. Len(chain') > 0 /\ chain'[1] = tail' /\ chain'[Len(chain')] = head' /\ next'[head'] = Null
    BY <1>1, <1>2, <1>3
  <2>2. \A i, j \in DOMAIN chain' : chain'[i] = chain'[j] => i = j
    BY <1>1, <1>3 DEF Distinct
  <2>3. ASSUME NEW i \in 1..(Len(chain') - 1)
        PROVE  \/ next'[chain'[i]] = chain'[i + 1]
               \/ next'[chain'[i]] = Null /\ Linking(chain[i], chain[i + 1])'
    <3>1. i + 1 \in 1..(l - 1) /\ i \in 1..(l - 1) /\ i + 1 + 1 = i + 2
      BY <1>1, <1>3
    <3>2. chain'[i] = chain[i + 1] /\ chain'[i + 1] = chain[i + 2]
      BY <1>3, <3>1
    <3>3. \/ next[chain[i + 1]] = chain[i + 1 + 1]
          \/ next[chain[i + 1]] = Null /\ Linking(chain[i + 1], chain[i + 1 + 1])
      BY <3>1 DEF Inv, ChainLinked, l
    <3>4. \A u, v : Linking(u, v) /\ u = chain'[i] /\ v = chain'[i + 1]
                     => Linking(chain[i], chain[i + 1])'
      BY <1>7
    <3>5. CASE next[chain[i + 1]] = chain[i + 2]
      BY <3>2, <3>5
    <3>6. CASE next[chain[i + 1]] = Null /\ Linking(chain[i + 1], chain[i + 2])
      BY <3>2, <3>4, <3>6
    <3> QED
      BY <3>1, <3>3, <3>5, <3>6
  <2> QED
    BY <2>1, <2>2, <2>3 DEF ChainLinked
<1>9. PrevHeadAlive'
  <2>1. ASSUME NEW q \in Producers, NEW m \in Nodes, ppc'[q] = "link", owner'[m] = q
        PROVE  next'[prev'[q]] = Null /\ Adjacent(prev[q], m)'
    <3>1. next[prev[q]] = Null /\ Adjacent(prev[q], m)
      BY <1>6, <2>1 DEF Inv, PrevHeadAlive
    <3>2. PICK i \in 1..(l - 1) : chain[i] = prev[q] /\ chain[i + 1] = m
      BY <3>1 DEF Adjacent, l
    <3>3. i # 1
      BY <1>2, <3>1, <3>2
    <3>4. i - 1 \in 1..(Len(chain') - 1) /\ i - 1 \in 1..(l - 1) /\ i \in 1..(l - 1)
      BY <1>1, <1>3, <3>3
    <3>5. chain'[i - 1] = prev'[q] /\ chain'[(i - 1) + 1] = m
      BY <1>3, <3>2, <3>4
    <3>6. Adjacent(prev[q], m)'
      BY <3>4, <3>5 DEF Adjacent
    <3> QED
      BY <3>1, <3>6
  <2> QED
    BY <2>1 DEF PrevHeadAlive
<1>10. \A x : InChain(x)' <=> InChain(x) /\ x # t
  <2>1. ASSUME NEW x, InChain(x), x # t PROVE InChain(x)'
    <3>1. PICK i \in 1..l : chain[i] = x
      BY <1>1, <2>1 DEF InChain, Occurs
    <3>2. i - 1 \in 1..(l - 1) /\ (i - 1) + 1 = i
      BY <1>1, <1>2, <2>1, <3>1
    <3> QED
      BY <1>3, <3>1, <3>2 DEF InChain, Occurs
  <2>2. ASSUME NEW x, InChain(x)' PROVE InChain(x) /\ x # t
    <3>1. PICK i \in 1..(l - 1) : chain[i + 1] = x
      BY <1>3, <2>2 DEF InChain, Occurs
    <3>2. i + 1 \in 1..l /\ 1 \in 1..l /\ i + 1 # 1
      BY <1>1, <3>1
    <3> QED
      BY <1>1, <1>2, <3>1, <3>2 DEF InChain, Occurs, Distinct
  <2> QED
    BY <2>1, <2>2
<1>11. tail' \in AllNodes
  BY <1>1
<1> QED
  BY <1>3, <1>5, <1>6, <1>8, <1>9, <1>10, <1>11

(* Dequeue returns the tail.                                                   *)
LEMMA ReturnKeeps ==
    ASSUME Inv, NEW n, n = next[tail], n # Null, Return(n), tail # Dummy,
           cpc \in {"idle", "second", "third"}, UNCHANGED <<next, head, producer, cprev>>
    PROVE  Inv'
<1>1. PICK t : t = tail
  OBVIOUS
<1>2. /\ tail' = next[tail] /\ chain' = Without(chain, tail)
      /\ owner' = [owner EXCEPT ![tail] = Nobody] /\ cpc' = "idle"
      /\ UNCHANGED <<ppc, prev>>
  BY DEF Return, producer
<1>3. /\ tail' \in AllNodes /\ chain' \in Seq(AllNodes)
      /\ owner' \in [Nodes -> Producers \cup {"queue", Nobody}]
      /\ ChainLinked' /\ PrevHeadAlive'
      /\ \A x : InChain(x)' <=> InChain(x) /\ x # t
      /\ \A m \in Nodes : owner'[m] \in Producers <=> owner[m] \in Producers
      /\ \A m \in Nodes : owner'[m] \in Producers => owner'[m] = owner[m]
  BY <1>1, <1>2, AdvanceKeeps
<1>4. TypeOK'
  BY <1>2, <1>3 DEF Inv, TypeOK
<1>5. \A m \in Nodes : m # t => owner'[m] = owner[m]
  BY <1>1, <1>2 DEF Inv, TypeOK
<1>6. OwnersInv'
  <2>1. \A m \in Nodes : owner'[m] = Nobody => ~InChain(m)'
    BY <1>3, <1>5 DEF Inv, OwnersInv
  <2>2. \A k, m \in Nodes : owner'[k] = owner'[m] /\ owner'[m] \in Producers => k = m
    BY <1>3 DEF Inv, OwnersInv
  <2>3. \A m \in Nodes : owner'[m] \in Producers => ppc'[owner'[m]] # "idle"
    BY <1>2, <1>3 DEF Inv, OwnersInv
  <2>4. \A m \in Nodes : owner'[m] \in Producers /\ ppc'[owner'[m]] = "exchange" =>
           next'[m] = Null /\ ~InChain(m)'
    BY <1>2, <1>3 DEF Inv, OwnersInv
  <2> QED
    BY <1>2, <2>1, <2>2, <2>3, <2>4 DEF OwnersInv
<1> QED
  BY <1>3, <1>4, <1>6 DEF Inv

(* Dequeue skips the dummy.                                                    *)
LEMMA SkipKeeps ==
    ASSUME Inv, cpc = "idle", tail = Dummy, next[tail] # Null,
           tail' = next[tail], chain' = Without(chain, Dummy), cpc' = "second",
           UNCHANGED <<owner, next, head, producer, cprev>>
    PROVE  Inv'
<1>1. PICK t : t = tail
  OBVIOUS
<1>2. UNCHANGED <<ppc, prev>> /\ chain' = Without(chain, tail)
  BY DEF producer
<1>3. /\ tail' \in AllNodes /\ chain' \in Seq(AllNodes)
      /\ ChainLinked' /\ PrevHeadAlive'
      /\ \A x : InChain(x)' <=> InChain(x) /\ x # t
  BY <1>1, <1>2, AdvanceKeeps
<1>4. TypeOK'
  BY <1>2, <1>3 DEF Inv, TypeOK
<1>5. tail' # Dummy
  <2>1. Len(chain) > 1 /\ chain[2] = next[tail] /\ DOMAIN chain = 1..Len(chain)
        /\ Distinct(chain) /\ Len(chain) \in Nat
    BY ChainFacts
  <2>2. chain[1] = tail
    BY DEF Inv, ChainLinked
  <2> QED
    BY <2>1, <2>2 DEF Distinct
<1>6. OwnersInv'
  BY <1>2, <1>3, <1>5 DEF Inv, OwnersInv
<1> QED
  BY <1>3, <1>4, <1>6 DEF Inv

(* The steps of the consumer that read, and the one that clears the dummy's    *)
(* link while the dummy is not in the chain.                                   *)
LEMMA ReadKeeps ==
    ASSUME Inv, UNCHANGED <<next, head, tail, owner, producer, cprev, chain>>,
           cpc # "link", cpc' \in {"idle", "head", "clear"}, cpc' = "head" => tail # Dummy,
           cpc' = "clear" => tail # Dummy /\ ~InChain(Dummy)
    PROVE  Inv'
<1>1. TypeOK'
  BY DEF Inv, TypeOK, producer
<1>2. ChainLinked'
  BY DEF Inv, ChainLinked, Linking, producer
<1>3. PrevHeadAlive'
  BY DEF Inv, PrevHeadAlive, Adjacent, producer
<1>4. OwnersInv'
  BY DEF Inv, OwnersInv, InChain, producer
<1> QED
  BY <1>1, <1>2, <1>3, <1>4 DEF Inv

(* Dequeue clears the link of the dummy, which is not in the chain.            *)
LEMMA DummyEnqueueKeeps ==
    ASSUME Inv, DummyEnqueue
    PROVE  Inv'
<1>1. /\ cpc = "clear" /\ cpc' = "exchange"
      /\ next' = [next EXCEPT ![Dummy] = Null]
      /\ UNCHANGED <<head, tail, owner, ppc, prev, cprev, chain>>
  BY DEF DummyEnqueue, producer
<1> USE DEF Inv
<1>2. ~InChain(Dummy) /\ Dummy \in AllNodes
  BY <1>1 DEF OwnersInv, AllNodes
<1>3. \A i \in DOMAIN chain : chain[i] # Dummy /\ next'[chain[i]] = next[chain[i]]
  BY <1>1, <1>2, ChainFacts DEF InChain, Occurs, TypeOK
<1>4. TypeOK'
  BY <1>1, <1>2 DEF TypeOK
<1>5. ChainLinked'
  <2>1. \A a, b : Linking(a, b) => Linking(a, b)'
    BY <1>1 DEF Linking
  <2>2. Len(chain) \in DOMAIN chain
    BY ChainFacts
  <2>3. next'[head] = Null
    BY <1>3, <2>2 DEF ChainLinked
  <2>4. \A i \in 1..(Len(chain) - 1) : next'[chain[i]] = next[chain[i]]
    BY <1>3, ChainFacts
  <2> QED
    BY <1>1, <2>1, <2>3, <2>4 DEF ChainLinked
<1>6. PrevHeadAlive'
  <2>1. \A x \in AllNodes : next[x] = Null => next'[x] = Null
    BY <1>1, <1>2 DEF TypeOK
  <2>2. \A q \in Producers : prev[q] \in AllNodes
    BY DEF TypeOK
  <2>3. \A q \in Producers, n \in Nodes :
           ppc[q] = "link" /\ owner[n] = q => next'[prev[q]] = Null /\ Adjacent(prev[q], n)
    BY <2>1, <2>2 DEF PrevHeadAlive
  <2> QED
    BY <1>1, <2>3 DEF PrevHeadAlive, Adjacent
<1>7. OwnersInv'
  <2>1. \A n \in Nodes : next'[n] = next[n]
    BY <1>1, DummyAssumption DEF TypeOK, AllNodes
  <2>2. next'[Dummy] = Null
    BY <1>1, <1>2 DEF TypeOK
  <2> QED
    BY <1>1, <2>1, <2>2 DEF OwnersInv, InChain
<1> QED
  BY <1>4, <1>5, <1>6, <1>7
(* Every step keeps the invariant.                                             *)
LEMMA NextKeeps ==
    ASSUME Inv, [Next]_vars
    PROVE  Inv'
<1>1. ASSUME NEW p \in Producers, Produce(p) \/ Complete(p)
      PROVE  Inv'
  BY <1>1, EnqueueKeeps, ExchangeKeeps, LinkKeeps DEF Produce, Complete
<1>2. CASE Dequeue
  <2>1. cpc = "idle" /\ UNCHANGED <<next, head, producer, cprev>>
    BY <1>2 DEF Dequeue
  <2>2. CASE tail = Dummy /\ next[tail] = Null
    BY <1>2, <2>1, <2>2, ReadKeeps DEF Dequeue
  <2>3. CASE tail = Dummy /\ next[tail] # Null
    BY <1>2, <2>1, <2>3, SkipKeeps DEF Dequeue
  <2>4. CASE tail # Dummy /\ next[tail] # Null
    BY <1>2, <2>1, <2>4, ReturnKeeps DEF Dequeue
  <2>5. CASE tail # Dummy /\ next[tail] = Null
    BY <1>2, <2>1, <2>5, ReadKeeps DEF Dequeue
  <2> QED
    BY <2>2, <2>3, <2>4, <2>5
<1>3. CASE SecondLoad \/ ThirdLoad
  <2>1. /\ cpc \in {"second", "third"} /\ tail # Dummy
        /\ UNCHANGED <<next, head, producer, cprev>>
    BY <1>3 DEF SecondLoad, ThirdLoad, Inv, OwnersInv
  <2>2. CASE next[tail] # Null
    BY <1>3, <2>1, <2>2, ReturnKeeps DEF SecondLoad, ThirdLoad
  <2>3. CASE next[tail] = Null
    BY <1>3, <2>1, <2>3, ReadKeeps DEF SecondLoad, ThirdLoad
  <2> QED
    BY <2>2, <2>3
<1>4. CASE HeadLoad
  <2>1. /\ cpc = "head" /\ cpc' = (IF tail # head THEN "idle" ELSE "clear") /\ tail # Dummy
        /\ UNCHANGED <<next, head, tail, owner, producer, cprev, chain>>
    BY <1>4 DEF HeadLoad, Inv, OwnersInv
  <2>2. tail = head => ~InChain(Dummy)
    <3> SUFFICES ASSUME tail = head PROVE ~InChain(Dummy)
      OBVIOUS
    <3>1. /\ chain[1] = chain[Len(chain)] /\ chain[1] # Dummy
          /\ 1 \in DOMAIN chain /\ Len(chain) \in DOMAIN chain
      BY <2>1, ChainFacts DEF Inv, ChainLinked
    <3>2. Len(chain) = 1 /\ DOMAIN chain = 1..1
      BY <3>1, ChainFacts DEF Distinct
    <3> QED
      BY <3>1, <3>2 DEF InChain, Occurs
  <2> QED
    BY <2>1, <2>2, ReadKeeps
<1>5. CASE DummyEnqueue \/ DummyExchange \/ DummyLink
  BY <1>5, DummyEnqueueKeeps, DummyExchangeKeeps, DummyLinkKeeps
<1>6. CASE UNCHANGED vars
  BY <1>6 DEF vars, Inv, TypeOK, ChainLinked, PrevHeadAlive, OwnersInv, Linking, Adjacent,
              InChain
<1> QED
  BY <1>1, <1>2, <1>3, <1>4, <1>5, <1>6 DEF Next, Consume

(* The empty queue satisfies the invariant.                                    *)
LEMMA InitKeeps == Init => Inv
<1> SUFFICES ASSUME Init PROVE Inv
  OBVIOUS
<1>1. chain \in Seq(AllNodes) /\ Len(chain) = 1 /\ DOMAIN chain = 1..1 /\ chain[1] = Dummy
  BY DEF Init, AllNodes
<1>2. TypeOK
  BY <1>1 DEF Init, TypeOK, AllNodes
<1>3. ChainLinked
  BY <1>1 DEF Init, ChainLinked, AllNodes
<1>4. PrevHeadAlive
  BY DEF Init, PrevHeadAlive
<1>5. OwnersInv
  BY <1>1, NobodyAssumption, DummyAssumption DEF Init, OwnersInv, InChain, Occurs
<1> QED
  BY <1>2, <1>3, <1>4, <1>5 DEF Inv

(* The invariant holds in every reachable state.                               *)
THEOREM Inductive == Spec => []Inv
<1>1. Inv /\ [Next]_vars => Inv'
  BY NextKeeps
<1> QED
  BY <1>1, InitKeeps, PTL DEF Spec

(* The variables of the queue keep their types.                                *)
THEOREM TypeCorrect == Spec => []TypeOK
<1>1. Inv => TypeOK
  BY DEF Inv
<1> QED
  BY <1>1, Inductive, PTL

(* The list between _tail and _head is whole but for the links on the way.     *)
THEOREM AlwaysLinked == Spec => []ChainLinked
<1>1. Inv => ChainLinked
  BY DEF Inv
<1> QED
  BY <1>1, Inductive, PTL

(* No thread stores into a node that Dequeue has returned.                     *)
THEOREM NoStoreAfterReturn == Spec => []PrevHeadAlive
<1>1. Inv => PrevHeadAlive
  BY DEF Inv
<1> QED
  BY <1>1, Inductive, PTL
-----------------------------------------------------------------------------
(* What Contents does when a node, or the dummy, is appended to the chain, and *)
(* when the first node of the chain leaves.                                    *)
LEMMA WithoutDummy ==
    ASSUME NEW c \in Seq(AllNodes), Distinct(c)
    PROVE  /\ Without(c, Dummy) \in Seq(AllNodes)
           /\ ~Occurs(c, Dummy) => Without(c, Dummy) = c
           /\ Occurs(c, Dummy) =>
                 /\ Place(c, Dummy) \in 1..Len(c) /\ c[Place(c, Dummy)] = Dummy
                 /\ Len(Without(c, Dummy)) = Len(c) - 1
                 /\ \A i \in 1..(Len(c) - 1) : Without(c, Dummy)[i] =
                       (IF i < Place(c, Dummy) THEN c[i] ELSE c[i + 1])
<1>1. CASE ~Occurs(c, Dummy)
  BY <1>1 DEF Without
<1>2. CASE Occurs(c, Dummy)
  <2> DEFINE k == Place(c, Dummy)
             r == [i \in 1..(Len(c) - 1) |-> IF i < k THEN c[i] ELSE c[i + 1]]
  <2>1. k \in 1..Len(c) /\ c[k] = Dummy
    BY <1>2 DEF Occurs, Place
  <2>2. r \in Seq(AllNodes) /\ Len(r) = Len(c) - 1
    BY <2>1
  <2>3. Without(c, Dummy) = r
    BY <1>2 DEF Without
  <2> QED
    BY <1>2, <2>1, <2>2, <2>3
<1> QED
  BY <1>1, <1>2
(* An enqueued node is appended to the contents.                               *)
LEMMA AppendContents ==
    ASSUME NEW c \in Seq(AllNodes), Distinct(c), NEW n \in Nodes, ~Occurs(c, n)
    PROVE  Without(Append(c, n), Dummy) = Append(Without(c, Dummy), n)
<1> DEFINE d == Append(c, n)
<1>1. /\ d \in Seq(AllNodes) /\ Len(d) = Len(c) + 1 /\ d[Len(c) + 1] = n
      /\ \A i \in 1..Len(c) : d[i] = c[i]
  BY DEF AllNodes
<1>2. n # Dummy /\ Len(c) \in Nat /\ DOMAIN c = 1..Len(c)
  BY DummyAssumption
<1> HIDE DEF d
<1>3. DOMAIN d = 1..(Len(c) + 1)
  BY <1>1
<1>4. Distinct(d)
  BY <1>1, <1>2, <1>3 DEF Distinct, Occurs
<1>5. Occurs(d, Dummy) <=> Occurs(c, Dummy)
  BY <1>1, <1>2, <1>3 DEF Occurs
<1>6. CASE ~Occurs(c, Dummy)
  BY <1>1, <1>4, <1>5, <1>6, WithoutDummy DEF d
<1>7. CASE Occurs(c, Dummy)
  <2> DEFINE u == Without(c, Dummy)
             w == Without(d, Dummy)
             k == Place(c, Dummy)
  <2>1. /\ u \in Seq(AllNodes) /\ k \in 1..Len(c) /\ c[k] = Dummy /\ Len(u) = Len(c) - 1
        /\ \A i \in 1..(Len(c) - 1) : u[i] = (IF i < k THEN c[i] ELSE c[i + 1])
    BY <1>7, WithoutDummy
  <2>2. /\ w \in Seq(AllNodes) /\ Place(d, Dummy) \in 1..Len(d) /\ d[Place(d, Dummy)] = Dummy
        /\ Len(w) = Len(d) - 1
        /\ \A i \in 1..(Len(d) - 1) : w[i] = (IF i < Place(d, Dummy) THEN d[i] ELSE d[i + 1])
    BY <1>1, <1>4, <1>5, <1>7, WithoutDummy
  <2> HIDE DEF u, w, k
  <2>3. Place(d, Dummy) = k
    <3>1. k \in DOMAIN d /\ Place(d, Dummy) \in DOMAIN d
      BY <1>1, <1>2, <1>3, <2>1, <2>2
    <3>2. d[k] = Dummy
      BY <1>1, <2>1
    <3> QED
      BY <1>4, <2>2, <3>1, <3>2 DEF Distinct
  <2>4. /\ Append(u, n) \in Seq(AllNodes) /\ Len(Append(u, n)) = Len(c)
        /\ Append(u, n)[Len(c)] = n
        /\ \A i \in 1..(Len(c) - 1) : Append(u, n)[i] = u[i]
    <3>1. n \in AllNodes
      BY DEF AllNodes
    <3>2. /\ Append(u, n) \in Seq(AllNodes) /\ Len(Append(u, n)) = Len(u) + 1
          /\ Append(u, n)[Len(u) + 1] = n
          /\ \A i \in 1..Len(u) : Append(u, n)[i] = u[i]
      BY <2>1, <3>1
    <3>3. Len(u) + 1 = Len(c)
      BY <1>2, <2>1
    <3> QED
      BY <2>1, <3>2, <3>3
  <2>5. \A i \in 1..Len(c) : w[i] = Append(u, n)[i]
    <3> TAKE i \in 1..Len(c)
    <3>1. w[i] = IF i < k THEN d[i] ELSE d[i + 1]
      <4>1. Len(d) - 1 = Len(c)
        BY <1>1, <1>2
      <4> QED
        BY <2>2, <2>3, <4>1
    <3>2. CASE i = Len(c)
      <4>1. ~(i < k)
        BY <1>2, <2>1, <3>2
      <4>2. w[i] = d[i + 1] /\ d[i + 1] = n
        BY <1>1, <3>1, <3>2, <4>1
      <4> QED
        BY <2>4, <3>2, <4>2
    <3>3. CASE i # Len(c)
      <4>1. \A m \in Nat : \A j \in 1..m : j # m => j \in 1..(m - 1) /\ j + 1 \in 1..m
        OBVIOUS
      <4>2. i \in 1..(Len(c) - 1) /\ i \in 1..Len(c) /\ i + 1 \in 1..Len(c)
        BY <1>2, <3>3, <4>1
      <4>3. d[i] = c[i] /\ d[i + 1] = c[i + 1]
        BY <1>1, <4>2
      <4> QED
        BY <2>1, <2>4, <3>1, <4>2, <4>3
    <3> QED
      BY <3>2, <3>3
  <2>6. Len(w) = Len(c)
    BY <1>1, <1>2, <2>2
  <2>7. w = Append(u, n)
    BY <2>2, <2>4, <2>5, <2>6, SeqEqual
  <2> QED
    BY <2>7 DEF u, w, d
<1> QED
  BY <1>6, <1>7

(* The dummy is invisible.                                                     *)
LEMMA DummyContents ==
    ASSUME NEW c \in Seq(AllNodes), Distinct(c), ~Occurs(c, Dummy)
    PROVE  Without(Append(c, Dummy), Dummy) = c
<1> DEFINE d == Append(c, Dummy)
           w == Without(d, Dummy)
<1>1. /\ d \in Seq(AllNodes) /\ Len(d) = Len(c) + 1 /\ d[Len(c) + 1] = Dummy
      /\ \A i \in 1..Len(c) : d[i] = c[i]
  BY DEF AllNodes
<1>2. Len(c) \in Nat /\ DOMAIN c = 1..Len(c)
  OBVIOUS
<1> HIDE DEF d
<1>3. DOMAIN d = 1..(Len(c) + 1)
  BY <1>1
<1>4. Distinct(d) /\ Occurs(d, Dummy)
  BY <1>1, <1>2, <1>3 DEF Distinct, Occurs
<1>5. /\ w \in Seq(AllNodes) /\ Place(d, Dummy) \in 1..Len(d) /\ d[Place(d, Dummy)] = Dummy
      /\ Len(w) = Len(d) - 1
      /\ \A i \in 1..(Len(d) - 1) : w[i] = (IF i < Place(d, Dummy) THEN d[i] ELSE d[i + 1])
  BY <1>1, <1>4, WithoutDummy
<1> HIDE DEF w
<1>6. Place(d, Dummy) = Len(c) + 1
  BY <1>1, <1>2, <1>3, <1>4, <1>5 DEF Distinct
<1>7. Len(w) = Len(c) /\ \A i \in 1..Len(w) : w[i] = c[i]
  BY <1>1, <1>2, <1>5, <1>6
<1>8. w = c
  BY <1>5, <1>7, SeqEqual
<1> QED
  BY <1>8 DEF w, d

(* When the first node of the chain leaves, it is the first of the contents.   *)
LEMMA TailContents ==
    ASSUME NEW c \in Seq(AllNodes), Len(c) > 0, Distinct(c), c[1] # Dummy
    PROVE  /\ Without(c, Dummy) # <<>>
           /\ Without(Without(c, c[1]), Dummy) = Tail(Without(c, Dummy))
<1> DEFINE d == Without(c, c[1])
           u == Without(c, Dummy)
           w == Without(d, Dummy)
<1>1. /\ d \in Seq(AllNodes) /\ Len(d) = Len(c) - 1
      /\ \A i \in 1..(Len(c) - 1) : d[i] = c[i + 1]
  BY WithoutFirst
<1>2. Len(c) \in Nat /\ DOMAIN c = 1..Len(c)
  OBVIOUS
<1> HIDE DEF d
<1>3. DOMAIN d = 1..(Len(c) - 1)
  BY <1>1
<1>4. Distinct(d)
  BY <1>1, <1>2, <1>3 DEF Distinct
<1>5. Occurs(d, Dummy) <=> Occurs(c, Dummy)
  <2>1. ASSUME Occurs(c, Dummy) PROVE Occurs(d, Dummy)
    <3>1. PICK i \in 1..Len(c) : c[i] = Dummy
      BY <1>2, <2>1 DEF Occurs
    <3>2. i - 1 \in 1..(Len(c) - 1) /\ (i - 1) + 1 = i
      BY <1>2, <3>1
    <3> QED
      BY <1>1, <1>3, <3>1, <3>2 DEF Occurs
  <2>2. ASSUME Occurs(d, Dummy) PROVE Occurs(c, Dummy)
    BY <1>1, <1>2, <1>3, <2>2 DEF Occurs
  <2> QED
    BY <2>1, <2>2
<1>6. CASE ~Occurs(c, Dummy)
  <2>1. u = c /\ w = d
    BY <1>1, <1>4, <1>5, <1>6, WithoutDummy
  <2>2. /\ Tail(c) \in Seq(AllNodes) /\ Len(Tail(c)) = Len(c) - 1
        /\ \A i \in 1..(Len(c) - 1) : Tail(c)[i] = c[i + 1]
    OBVIOUS
  <2>3. d = Tail(c)
    BY <1>1, <2>2, SeqEqual
  <2> QED
    BY <2>1, <2>3 DEF d
<1>7. CASE Occurs(c, Dummy)
  <2> DEFINE k == Place(c, Dummy)
  <2>1. /\ u \in Seq(AllNodes) /\ k \in 1..Len(c) /\ c[k] = Dummy /\ Len(u) = Len(c) - 1
        /\ \A i \in 1..(Len(c) - 1) : u[i] = (IF i < k THEN c[i] ELSE c[i + 1])
    BY <1>7, WithoutDummy
  <2>2. /\ w \in Seq(AllNodes) /\ Place(d, Dummy) \in 1..Len(d) /\ d[Place(d, Dummy)] = Dummy
        /\ Len(w) = Len(d) - 1
        /\ \A i \in 1..(Len(d) - 1) : w[i] = (IF i < Place(d, Dummy) THEN d[i] ELSE d[i + 1])
    BY <1>1, <1>4, <1>5, <1>7, WithoutDummy
  <2> HIDE DEF u, w, k
  <2>3. Place(d, Dummy) = k - 1
    <3>1. k # 1
      BY <2>1
    <3>2. k - 1 \in 1..(Len(c) - 1) /\ (k - 1) + 1 = k
      BY <1>2, <2>1, <3>1
    <3>3. d[k - 1] = Dummy
      BY <1>1, <2>1, <3>2
    <3> QED
      BY <1>1, <1>3, <1>4, <2>2, <3>2, <3>3 DEF Distinct
  <2>4. Len(c) > 1
    BY <1>2, <2>1
  <2>5. /\ u # <<>> /\ Tail(u) \in Seq(AllNodes) /\ Len(Tail(u)) = Len(c) - 2
        /\ \A i \in 1..(Len(c) - 2) : Tail(u)[i] = u[i + 1]
    <3>1. Len(u) > 0 /\ Len(u) - 1 = Len(c) - 2
      BY <1>2, <2>1, <2>4
    <3>2. u # <<>>
      BY <2>1, <3>1
    <3>3. /\ Tail(u) \in Seq(AllNodes) /\ Len(Tail(u)) = Len(u) - 1
          /\ \A i \in 1..(Len(u) - 1) : Tail(u)[i] = u[i + 1]
      BY <2>1, <3>2
    <3> QED
      BY <3>1, <3>2, <3>3
  <2>6. Len(w) = Len(c) - 2
    BY <1>1, <1>2, <2>2
  <2>7. \A i \in 1..(Len(c) - 2) : w[i] = Tail(u)[i]
    <3> TAKE i \in 1..(Len(c) - 2)
    <3>1. i \in 1..(Len(c) - 1) /\ i + 1 \in 1..(Len(c) - 1) /\ i \in 1..(Len(d) - 1)
      BY <1>1, <1>2, <2>4
    <3>2. w[i] = IF i < k - 1 THEN c[i + 1] ELSE c[(i + 1) + 1]
      BY <1>1, <2>2, <2>3, <3>1
    <3>3. u[i + 1] = IF i + 1 < k THEN c[i + 1] ELSE c[(i + 1) + 1]
      BY <2>1, <3>1
    <3>4. i < k - 1 <=> i + 1 < k
      BY <1>2, <2>1
    <3> QED
      BY <2>5, <3>2, <3>3, <3>4
  <2>8. w = Tail(u)
    BY <2>2, <2>5, <2>6, <2>7, SeqEqual
  <2> QED
    BY <2>5, <2>8 DEF u, w, d
<1> QED
  BY <1>6, <1>7

(* An element of the contents is an element of the chain.                      *)
LEMMA ContentsInChain ==
    ASSUME NEW c \in Seq(AllNodes), Distinct(c), NEW n, ~Occurs(c, n)
    PROVE  \A i \in DOMAIN Without(c, Dummy) : Without(c, Dummy)[i] # n
<1> DEFINE u == Without(c, Dummy)
<1>1. Len(c) \in Nat /\ DOMAIN c = 1..Len(c)
  OBVIOUS
<1>2. CASE ~Occurs(c, Dummy)
  BY <1>2, WithoutDummy DEF Occurs
<1>3. CASE Occurs(c, Dummy)
  <2>1. /\ u \in Seq(AllNodes) /\ Len(u) = Len(c) - 1
        /\ \A i \in 1..(Len(c) - 1) : u[i] = (IF i < Place(c, Dummy) THEN c[i] ELSE c[i + 1])
    BY <1>3, WithoutDummy
  <2> HIDE DEF u
  <2>2. DOMAIN u = 1..(Len(c) - 1)
    BY <2>1
  <2>3. \A i \in DOMAIN u : u[i] # n
    <3> TAKE i \in DOMAIN u
    <3>1. i \in DOMAIN c /\ i + 1 \in DOMAIN c /\ i \in 1..(Len(c) - 1)
      BY <1>1, <2>2
    <3>2. c[i] # n /\ c[i + 1] # n
      BY <3>1 DEF Occurs
    <3> QED
      BY <2>1, <3>1, <3>2
  <2> QED
    BY <2>3 DEF u
<1> QED
  BY <1>2, <1>3

(* Dequeue returns the first element of the contents.                          *)
LEMMA ReturnRefines ==
    ASSUME Inv, tail # Dummy, chain' = Without(chain, tail)
    PROVE  Fifo!Dequeue
<1>1. /\ chain \in Seq(AllNodes) /\ Len(chain) > 0 /\ Distinct(chain) /\ chain[1] = tail
  BY ChainFacts DEF Inv, ChainLinked
<1>2. /\ Without(chain, Dummy) # <<>>
      /\ Without(Without(chain, tail), Dummy) = Tail(Without(chain, Dummy))
  BY <1>1, TailContents
<1> QED
  BY <1>2 DEF Fifo!Dequeue, Contents

(* Every step of the queue is a step of the FIFO queue or leaves it as it is:  *)
(* the exchange enqueues, the advance of the tail past a node dequeues, and    *)
(* the dummy may come and go.                                                  *)
LEMMA StepRefines ==
    ASSUME Inv, [Next]_vars
    PROVE  [Fifo!Next]_Contents
<1>1. chain \in Seq(AllNodes) /\ Len(chain) > 0 /\ Distinct(chain) /\ chain[1] = tail
  BY ChainFacts DEF Inv, ChainLinked
<1>2. UNCHANGED chain => UNCHANGED Contents
  BY DEF Contents
<1>3. ASSUME NEW p \in Producers, NEW n \in Nodes, Exchange(p, n)
      PROVE  Fifo!Enqueue(n)
  <2>1. ~Occurs(chain, n) /\ chain' = Append(chain, n)
    BY <1>3 DEF Exchange, Inv, OwnersInv, InChain
  <2>2. Contents' = Append(Contents, n)
    BY <1>1, <2>1, AppendContents DEF Contents
  <2>3. \A i \in DOMAIN Contents : Contents[i] # n
    BY <1>1, <2>1, ContentsInChain DEF Contents
  <2> QED
    BY <2>2, <2>3 DEF Fifo!Enqueue
<1>4. ASSUME NEW p \in Producers, NEW n \in Nodes, Enqueue(p, n) \/ Link(p, n)
      PROVE  UNCHANGED Contents
  BY <1>2, <1>4 DEF Enqueue, Link
<1>5. CASE DummyExchange
  <2>1. ~Occurs(chain, Dummy) /\ chain' = Append(chain, Dummy)
    BY <1>5 DEF DummyExchange, Inv, OwnersInv, InChain
  <2> QED
    BY <1>1, <2>1, DummyContents, WithoutDummy DEF Contents
<1>6. CASE DummyEnqueue \/ DummyLink \/ HeadLoad
  BY <1>2, <1>6 DEF DummyEnqueue, DummyLink, HeadLoad
<1>7. CASE Dequeue
  <2>1. CASE tail # Dummy /\ next[tail] # Null
    BY <1>7, <2>1, ReturnRefines DEF Dequeue, Return, Fifo!Next
  <2>2. CASE tail = Dummy /\ next[tail] # Null
    <3>1. chain' = Without(chain, chain[1])
      BY <1>1, <1>7, <2>2 DEF Dequeue
    <3>2. ~Occurs(chain', Dummy) /\ chain' \in Seq(AllNodes) /\ Distinct(chain')
      BY <1>1, <2>2, <3>1, FirstGone
    <3>3. Without(chain', Dummy) = chain'
      BY <3>2, WithoutDummy
    <3> QED
      BY <1>1, <2>2, <3>1, <3>3 DEF Contents
  <2>3. CASE next[tail] = Null
    BY <1>2, <1>7, <2>3 DEF Dequeue
  <2> QED
    BY <2>1, <2>2, <2>3
<1>8. CASE SecondLoad \/ ThirdLoad
  <2>1. tail # Dummy
    BY <1>8 DEF SecondLoad, ThirdLoad, Inv, OwnersInv
  <2>2. CASE next[tail] # Null
    BY <1>8, <2>1, <2>2, ReturnRefines DEF SecondLoad, ThirdLoad, Return, Fifo!Next
  <2>3. CASE next[tail] = Null
    BY <1>2, <1>8, <2>3 DEF SecondLoad, ThirdLoad
  <2> QED
    BY <2>2, <2>3
<1>9. CASE UNCHANGED vars
  BY <1>2, <1>9 DEF vars
<1>10. CASE \E p \in Producers : Produce(p) \/ Complete(p)
  BY <1>3, <1>4, <1>10 DEF Produce, Complete, Fifo!Next
<1> QED
  BY <1>5, <1>6, <1>7, <1>8, <1>9, <1>10 DEF Next, Consume

(* The lock-free queue is a FIFO queue: elements leave in the order of their   *)
(* exchanges, each once.                                                       *)
THEOREM ImplementsFifo == Spec => RefinesFifo
<1>1. Init => Fifo!Init
  <2> SUFFICES ASSUME Init PROVE Contents = <<>>
    BY DEF Fifo!Init
  <2>1. chain = <<Dummy>> /\ <<>> \in Seq(AllNodes) /\ Distinct(<<>>) /\ ~Occurs(<<>>, Dummy)
    BY DEF Init, Distinct, Occurs
  <2>2. Append(<<>>, Dummy) = <<Dummy>>
    OBVIOUS
  <2> QED
    BY <2>1, <2>2, DummyContents DEF Contents
<1>2. Inv /\ [Next]_vars => [Fifo!Next]_Contents
  BY StepRefines
<1> QED
  BY <1>1, <1>2, Inductive, PTL DEF Spec, RefinesFifo, Fifo!Spec
=============================================================================
