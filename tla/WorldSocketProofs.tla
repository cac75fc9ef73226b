--------------------------- MODULE WorldSocketProofs ---------------------------
(* Proofs that what a connection has written is a prefix of the packets        *)
(* enqueued, for any number and sizes of packets, buffer and kernel sizes.     *)
EXTENDS WorldSocket, SequenceTheorems, TLAPS

(* Units are the pairs of a packet and a place in it.                          *)
LEMMA UnitFacts ==
    /\ \A p \in Packets : \A i \in 1..Size[p] : <<p, i>> \in Unit
    /\ \A u \in Unit : u[1] \in Packets /\ u[2] \in 1..Size[u[1]] /\ u = <<u[1], u[2]>>
  BY SizeAssumption DEF Unit

(* The first unit of a packet can be where a piece begins.                     *)
LEMMA BorderFacts ==
    ASSUME NEW p \in 1..(NumPackets + 1)
    PROVE  <<p, 1>> \in Border
<1>1. CASE p \in Packets
  <2>1. 1 \in 1..Size[p]
    BY <1>1, SizeAssumption
  <2> QED
    BY <1>1, <2>1, UnitFacts DEF Border
<1>2. CASE p = NumPackets + 1
  BY <1>2 DEF Border
<1> QED
  BY <1>1, <1>2, NumPacketsAssumption DEF Packets

(* The units of a packet are a run of their own.                               *)
LEMMA PacketRun ==
    ASSUME NEW p \in Packets
    PROVE  /\ UnitsOf(p) \in Seq(Unit) /\ UnitsOf(p) # <<>> /\ Len(UnitsOf(p)) = Size[p]
           /\ Run(UnitsOf(p), <<p, 1>>, <<p + 1, 1>>)
<1> DEFINE s == UnitsOf(p)
<1>1. Size[p] \in Nat /\ Size[p] > 0
  BY SizeAssumption
<1>2. s \in Seq(Unit) /\ Len(s) = Size[p] /\ \A i \in 1..Size[p] : s[i] = <<p, i>>
  BY <1>1, UnitFacts DEF UnitsOf
<1> HIDE DEF s
<1>3. s # <<>>
  BY <1>1, <1>2
<1>4. s[1] = <<p, 1>>
  BY <1>1, <1>2
<1>5. <<p + 1, 1>> = After(s[Len(s)])
  <2>1. s[Len(s)] = <<p, Size[p]>>
    BY <1>1, <1>2
  <2> QED
    BY <1>1, <2>1 DEF After
<1>6. ASSUME NEW k \in 2..Len(s) PROVE s[k] = After(s[k - 1])
  <2>1. s[k] = <<p, k>> /\ s[k - 1] = <<p, k - 1>> /\ k - 1 < Size[p] /\ k - 1 + 1 = k
    BY <1>1, <1>2
  <2> QED
    BY <1>1, <2>1 DEF After
<1>7. Run(s, <<p, 1>>, <<p + 1, 1>>)
  BY <1>3, <1>4, <1>5, <1>6 DEF Run
<1> QED
  BY <1>2, <1>3, <1>7 DEF s

(* Where one run ends the next one begins.                                     *)
LEMMA RunConcat ==
    ASSUME NEW a \in Seq(Unit), NEW b \in Seq(Unit), NEW u, NEW v, NEW w,
           Run(a, u, v), Run(b, v, w)
    PROVE  a \o b \in Seq(Unit) /\ Run(a \o b, u, w)
<1> DEFINE c == a \o b
<1>1. /\ c \in Seq(Unit) /\ Len(c) = Len(a) + Len(b) /\ Len(a) \in Nat /\ Len(b) \in Nat
      /\ \A i \in 1..Len(a) : c[i] = a[i]
      /\ \A i \in (Len(a) + 1)..(Len(a) + Len(b)) : c[i] = b[i - Len(a)]
  OBVIOUS
<1>2. CASE a = <<>>
  <2>1. c = b
    BY <1>2
  <2> QED
    BY <1>1, <1>2, <2>1 DEF Run
<1>3. CASE b = <<>>
  <2>1. c = a
    BY <1>3
  <2> QED
    BY <1>1, <1>3, <2>1 DEF Run
<1>4. CASE a # <<>> /\ b # <<>>
  <2> HIDE DEF c
  <2>1. Len(a) > 0 /\ Len(b) > 0
    BY <1>4
  <2>2. /\ a[1] = u /\ v = After(a[Len(a)]) /\ \A k \in 2..Len(a) : a[k] = After(a[k - 1])
        /\ b[1] = v /\ w = After(b[Len(b)]) /\ \A k \in 2..Len(b) : b[k] = After(b[k - 1])
    BY <1>4 DEF Run
  <2>3. c # <<>> /\ c[1] = u
    BY <1>1, <2>1, <2>2
  <2>4. c[Len(c)] = b[Len(b)]
    BY <1>1, <2>1
  <2>5. ASSUME NEW k \in 2..Len(c) PROVE c[k] = After(c[k - 1])
    <3>1. CASE k <= Len(a)
      <4>1. k \in 2..Len(a) /\ k \in 1..Len(a) /\ k - 1 \in 1..Len(a)
        BY <3>1, <1>1
      <4> QED
        BY <4>1, <1>1, <2>2
    <3>2. CASE k = Len(a) + 1
      <4>1. c[k] = b[1] /\ c[k - 1] = a[Len(a)]
        BY <3>2, <1>1, <2>1
      <4> QED
        BY <4>1, <2>2
    <3>3. CASE k > Len(a) + 1
      <4>1. PICK j \in 2..Len(b) : k = Len(a) + j
        <5>1. k - Len(a) \in 2..Len(b) /\ k = Len(a) + (k - Len(a))
          BY <3>3, <1>1
        <5> QED
          BY <5>1
      <4>2. c[k] = b[j] /\ c[k - 1] = b[j - 1]
        <5>1. /\ k \in (Len(a) + 1)..(Len(a) + Len(b)) /\ k - Len(a) = j
              /\ k - 1 \in (Len(a) + 1)..(Len(a) + Len(b)) /\ k - 1 - Len(a) = j - 1
          BY <4>1, <1>1
        <5>2. c[k] = b[k - Len(a)] /\ c[k - 1] = b[k - 1 - Len(a)]
          BY <5>1, <1>1
        <5> QED
          BY <5>1, <5>2
      <4>3. b[j] = After(b[j - 1])
        BY <2>2
      <4> QED
        BY <4>2, <4>3
    <3> QED
      BY <1>1, <3>1, <3>2, <3>3
  <2> QED
    BY <1>1, <2>2, <2>3, <2>4, <2>5 DEF Run, c
<1> QED
  BY <1>2, <1>3, <1>4

(* A run is cut where a partial write stopped.                                 *)
LEMMA RunCut ==
    ASSUME NEW a \in Seq(Unit), NEW u, NEW w, Run(a, u, w), NEW n \in Nat, n < Len(a)
    PROVE  /\ a[n + 1] \in Unit
           /\ SubSeq(a, 1, n) \in Seq(Unit) /\ Run(SubSeq(a, 1, n), u, a[n + 1])
           /\ ReadCompleted(a, n) \in Seq(Unit) /\ Run(ReadCompleted(a, n), a[n + 1], w)
<1> DEFINE b == SubSeq(a, 1, n)
           c == ReadCompleted(a, n)
<1>1. /\ Len(a) \in Nat /\ n + 1 \in 1..Len(a) /\ a # <<>>
      /\ b \in Seq(Unit) /\ Len(b) = n /\ \A i \in 1..n : b[i] = a[i]
      /\ c \in Seq(Unit) /\ Len(c) = Len(a) - n /\ \A i \in 1..(Len(a) - n) : c[i] = a[n + i]
  BY DEF ReadCompleted
<1>2. /\ a[1] = u /\ w = After(a[Len(a)]) /\ \A k \in 2..Len(a) : a[k] = After(a[k - 1])
  BY <1>1 DEF Run
<1> HIDE DEF b, c
<1>3. Run(b, u, a[n + 1])
  <2>1. CASE n = 0
    BY <1>1, <1>2, <2>1 DEF Run
  <2>2. CASE n > 0
    <3>1. b # <<>> /\ b[1] = u
      BY <1>1, <1>2, <2>2
    <3>2. a[n + 1] = After(b[Len(b)])
      <4>1. n + 1 \in 2..Len(a) /\ b[Len(b)] = a[n + 1 - 1]
        BY <1>1, <2>2
      <4> QED
        BY <4>1, <1>2
    <3>3. ASSUME NEW k \in 2..Len(b) PROVE b[k] = After(b[k - 1])
      <4>1. k \in 2..Len(a) /\ b[k] = a[k] /\ b[k - 1] = a[k - 1]
        BY <1>1
      <4> QED
        BY <4>1, <1>2
    <3> QED
      BY <3>1, <3>2, <3>3 DEF Run
  <2> QED
    BY <2>1, <2>2
<1>4. Run(c, a[n + 1], w)
  <2>1. c # <<>> /\ c[1] = a[n + 1] /\ c[Len(c)] = a[Len(a)]
    <3>1. Len(c) = Len(a) - n /\ Len(a) - n \in Nat /\ Len(a) - n >= 1 /\ c # <<>>
      BY <1>1
    <3>2. 1 \in 1..Len(c) /\ Len(c) \in 1..Len(c) /\ n + Len(c) = Len(a)
      BY <3>1
    <3>3. c[1] = a[n + 1] /\ c[Len(c)] = a[n + Len(c)]
      BY <1>1, <3>1, <3>2
    <3> QED
      BY <3>1, <3>2, <3>3
  <2>2. ASSUME NEW k \in 2..Len(c) PROVE c[k] = After(c[k - 1])
    <3>1. n + k \in 2..Len(a) /\ c[k] = a[n + k]
      BY <1>1
    <3>2. c[k - 1] = a[n + (k - 1)] /\ n + (k - 1) = n + k - 1
      BY <1>1
    <3> QED
      BY <3>1, <3>2, <1>2
  <2> QED
    BY <1>2, <2>1, <2>2 DEF Run
<1> QED
  BY <1>1, <1>3, <1>4 DEF b, c

(* The buffer goes to the end of the write queue.                              *)
LEMMA ChainFlush ==
    ASSUME NEW w \in Seq(Unit), NEW q \in Seq(Seq(Unit)), NEW b \in Seq(Unit), NEW u \in Border,
           Chained(w, q, b, u)
    PROVE  Append(q, b) \in Seq(Seq(Unit)) /\ Chained(w, Append(q, b), <<>>, u)
<1> DEFINE r == Append(q, b)
<1>1. PICK f \in [1..(Len(q) + 1) -> Border] :
         /\ Run(w, <<1, 1>>, f[1])
         /\ \A i \in 1..Len(q) : Run(q[i], f[i], f[i + 1])
         /\ Run(b, f[Len(q) + 1], u)
  BY DEF Chained
<1>2. /\ r \in Seq(Seq(Unit)) /\ Len(q) \in Nat /\ Len(r) = Len(q) + 1
      /\ r[Len(q) + 1] = b /\ \A i \in 1..Len(q) : r[i] = q[i]
  OBVIOUS
<1> HIDE DEF r
<1> DEFINE g == [i \in 1..(Len(r) + 1) |-> IF i = Len(r) + 1 THEN u ELSE f[i]]
<1>3. /\ g \in [1..(Len(r) + 1) -> Border] /\ g[Len(r) + 1] = u
      /\ \A i \in 1..(Len(q) + 1) : g[i] = f[i]
  BY <1>2
<1> HIDE DEF g
<1>4. Run(w, <<1, 1>>, g[1])
  <2>1. 1 \in 1..(Len(q) + 1)
    BY <1>2
  <2> QED
    BY <1>1, <1>3, <2>1
<1>5. ASSUME NEW i \in 1..Len(r) PROVE Run(r[i], g[i], g[i + 1])
  <2>1. CASE i = Len(q) + 1
    BY <1>1, <1>2, <1>3, <2>1
  <2>2. CASE i # Len(q) + 1
    <3>1. i \in 1..Len(q) /\ i \in 1..(Len(q) + 1) /\ i + 1 \in 1..(Len(q) + 1)
      BY <1>2, <2>2
    <3> QED
      BY <1>1, <1>2, <1>3, <3>1
  <2> QED
    BY <2>1, <2>2
<1>6. Run(<<>>, g[Len(r) + 1], u)
  BY <1>3 DEF Run
<1>7. Chained(w, r, <<>>, u)
  BY <1>3, <1>4, <1>5, <1>6 DEF Chained
<1> QED
  BY <1>2, <1>7 DEF r

(* A packet is put at the end of the buffer.                                   *)
LEMMA ChainPack ==
    ASSUME NEW w \in Seq(Unit), NEW q \in Seq(Seq(Unit)), NEW b \in Seq(Unit), NEW p \in Packets,
           Chained(w, q, b, <<p, 1>>)
    PROVE  b \o UnitsOf(p) \in Seq(Unit) /\ Chained(w, q, b \o UnitsOf(p), <<p + 1, 1>>)
<1>1. PICK f \in [1..(Len(q) + 1) -> Border] :
         /\ Run(w, <<1, 1>>, f[1])
         /\ \A i \in 1..Len(q) : Run(q[i], f[i], f[i + 1])
         /\ Run(b, f[Len(q) + 1], <<p, 1>>)
  BY DEF Chained
<1>2. UnitsOf(p) \in Seq(Unit) /\ Run(UnitsOf(p), <<p, 1>>, <<p + 1, 1>>)
  BY PacketRun
<1>3. b \o UnitsOf(p) \in Seq(Unit) /\ Run(b \o UnitsOf(p), f[Len(q) + 1], <<p + 1, 1>>)
  BY <1>1, <1>2, RunConcat
<1> QED
  BY <1>1, <1>3 DEF Chained

(* The kernel takes n units of the first buffer, but not all.                  *)
LEMMA ChainWritePart ==
    ASSUME NEW w \in Seq(Unit), NEW q \in Seq(Seq(Unit)), NEW b \in Seq(Unit), NEW u,
           q # <<>>, NEW n \in Nat, n < Len(Head(q)), Chained(w, q, b, u)
    PROVE  /\ w \o SubSeq(Head(q), 1, n) \in Seq(Unit)
           /\ <<ReadCompleted(Head(q), n)>> \o Tail(q) \in Seq(Seq(Unit))
           /\ Chained(w \o SubSeq(Head(q), 1, n), <<ReadCompleted(Head(q), n)>> \o Tail(q), b, u)
<1>1. PICK f \in [1..(Len(q) + 1) -> Border] :
         /\ Run(w, <<1, 1>>, f[1])
         /\ \A i \in 1..Len(q) : Run(q[i], f[i], f[i + 1])
         /\ Run(b, f[Len(q) + 1], u)
  BY DEF Chained
<1>2. Head(q) \in Seq(Unit) /\ Len(q) \in Nat /\ Len(q) >= 1 /\ Head(q) = q[1]
  OBVIOUS
<1>3. Run(Head(q), f[1], f[2])
  BY <1>1, <1>2
<1>4. PICK a \in Seq(Unit) : a = Head(q)
  BY <1>2
<1>5. /\ a[n + 1] \in Unit
      /\ SubSeq(a, 1, n) \in Seq(Unit) /\ Run(SubSeq(a, 1, n), f[1], a[n + 1])
      /\ ReadCompleted(a, n) \in Seq(Unit) /\ Run(ReadCompleted(a, n), a[n + 1], f[2])
  BY <1>3, <1>4, RunCut
<1>6. PICK c \in Seq(Unit) : c = ReadCompleted(a, n)
  BY <1>5
<1> DEFINE r == <<c>> \o Tail(q)
<1>7. /\ r \in Seq(Seq(Unit)) /\ Len(r) = Len(q) /\ r[1] = c
      /\ \A i \in 2..Len(q) : r[i] = q[i]
  BY <1>2
<1> HIDE DEF r
<1> DEFINE g == [i \in 1..(Len(r) + 1) |-> IF i = 1 THEN a[n + 1] ELSE f[i]]
<1>8. /\ g \in [1..(Len(r) + 1) -> Border] /\ g[1] = a[n + 1]
      /\ \A i \in 2..(Len(q) + 1) : g[i] = f[i]
  BY <1>2, <1>5, <1>7 DEF Border
<1> HIDE DEF g
<1>9. w \o SubSeq(a, 1, n) \in Seq(Unit) /\ Run(w \o SubSeq(a, 1, n), <<1, 1>>, g[1])
  BY <1>1, <1>5, <1>8, RunConcat
<1>10. ASSUME NEW i \in 1..Len(r) PROVE Run(r[i], g[i], g[i + 1])
  <2>1. CASE i = 1
    <3>1. g[2] = f[2]
      BY <1>2, <1>8
    <3> QED
      BY <1>5, <1>6, <1>7, <1>8, <2>1, <3>1
  <2>2. CASE i # 1
    <3>1. i \in 1..Len(q) /\ i \in 2..Len(q) /\ i \in 2..(Len(q) + 1) /\ i + 1 \in 2..(Len(q) + 1)
      BY <1>2, <1>7, <2>2
    <3> QED
      BY <1>1, <1>7, <1>8, <3>1
  <2> QED
    BY <2>1, <2>2
<1>11. Run(b, g[Len(r) + 1], u)
  <2>1. Len(q) + 1 \in 2..(Len(q) + 1)
    BY <1>2
  <2>2. g[Len(r) + 1] = f[Len(q) + 1]
    BY <1>7, <1>8, <2>1
  <2> QED
    BY <1>1, <2>2
<1>12. Chained(w \o SubSeq(a, 1, n), r, b, u)
  BY <1>8, <1>9, <1>10, <1>11 DEF Chained
<1> QED
  BY <1>4, <1>6, <1>7, <1>9, <1>12 DEF r

(* The kernel takes all that is left of the first buffer, which may be empty.  *)
LEMMA ChainWriteAll ==
    ASSUME NEW w \in Seq(Unit), NEW q \in Seq(Seq(Unit)), NEW b \in Seq(Unit), NEW u,
           q # <<>>, Chained(w, q, b, u)
    PROVE  /\ w \o Head(q) \in Seq(Unit) /\ Tail(q) \in Seq(Seq(Unit))
           /\ Chained(w \o Head(q), Tail(q), b, u)
<1>1. PICK f \in [1..(Len(q) + 1) -> Border] :
         /\ Run(w, <<1, 1>>, f[1])
         /\ \A i \in 1..Len(q) : Run(q[i], f[i], f[i + 1])
         /\ Run(b, f[Len(q) + 1], u)
  BY DEF Chained
<1>2. Head(q) \in Seq(Unit) /\ Len(q) \in Nat /\ Len(q) >= 1 /\ Head(q) = q[1]
  OBVIOUS
<1>3. Run(Head(q), f[1], f[2])
  BY <1>1, <1>2
<1> DEFINE r == Tail(q)
<1>4. r \in Seq(Seq(Unit)) /\ Len(r) = Len(q) - 1 /\ \A i \in 1..(Len(q) - 1) : r[i] = q[i + 1]
  BY <1>2
<1> HIDE DEF r
<1> DEFINE g == [i \in 1..(Len(r) + 1) |-> f[i + 1]]
<1>5. g \in [1..(Len(r) + 1) -> Border] /\ \A i \in 1..Len(q) : g[i] = f[i + 1]
  BY <1>2, <1>4
<1> HIDE DEF g
<1>6. w \o Head(q) \in Seq(Unit) /\ Run(w \o Head(q), <<1, 1>>, g[1])
  <2>1. g[1] = f[2]
    BY <1>2, <1>5
  <2> QED
    BY <1>1, <1>2, <1>3, <2>1, RunConcat
<1>7. ASSUME NEW i \in 1..Len(r) PROVE Run(r[i], g[i], g[i + 1])
  <2>1. i \in 1..(Len(q) - 1) /\ i \in 1..Len(q) /\ i + 1 \in 1..Len(q)
    BY <1>2, <1>4
  <2>2. r[i] = q[i + 1] /\ g[i] = f[i + 1] /\ g[i + 1] = f[i + 1 + 1]
    BY <1>4, <1>5, <2>1
  <2> QED
    BY <1>1, <2>1, <2>2
<1>8. Run(b, g[Len(r) + 1], u)
  <2>1. Len(r) + 1 = Len(q) /\ Len(q) \in 1..Len(q)
    BY <1>2, <1>4
  <2>2. g[Len(q)] = f[Len(q) + 1]
    BY <1>5, <2>1
  <2>3. g[Len(r) + 1] = g[Len(q)]
    BY <2>1
  <2> QED
    BY <1>1, <2>2, <2>3
<1>9. Chained(w \o Head(q), r, b, u)
  BY <1>5, <1>6, <1>7, <1>8 DEF Chained
<1> QED
  BY <1>4, <1>6, <1>9 DEF r

(* The beginning of a chain is in order.                                       *)
LEMMA ChainOrder ==
    ASSUME NEW w \in Seq(Unit), NEW q, NEW b, NEW u, Chained(w, q, b, u)
    PROVE  \A k \in DOMAIN w : w[k] = IF k = 1 THEN <<1, 1>> ELSE After(w[k - 1])
<1>1. PICK v : Run(w, <<1, 1>>, v)
  BY DEF Chained
<1>2. SUFFICES ASSUME NEW k \in 1..Len(w)
               PROVE  w[k] = IF k = 1 THEN <<1, 1>> ELSE After(w[k - 1])
  OBVIOUS
<1>3. w # <<>> /\ Len(w) \in Nat
  OBVIOUS
<1>4. w[1] = <<1, 1>> /\ \A i \in 2..Len(w) : w[i] = After(w[i - 1])
  BY <1>1, <1>3 DEF Run
<1>5. CASE k = 1
  BY <1>4, <1>5
<1>6. CASE k # 1
  <2>1. k \in 2..Len(w)
    BY <1>3, <1>6
  <2> QED
    BY <1>4, <1>6, <2>1
<1> QED
  BY <1>5, <1>6
-----------------------------------------------------------------------------
(* The two halves of the type: what is sent, and the state of the two threads. *)
DataType ==
    /\ bufferQueue \in Seq(Packets) /\ buffer \in Seq(Unit) /\ writeQueue \in Seq(Seq(Unit))
    /\ nextPacket \in 1..(NumPackets + 1) /\ wire \in Seq(Unit) /\ inKernel \in 0..KernelBuffer

ControlType ==
    /\ openState \in SUBSET {"Closing", "Closed"}
    /\ isWritingAsync \in BOOLEAN /\ readPending \in BOOLEAN
    /\ phase \in {"ban", "reading", "auth", "perm", "world", "rejected"}
    /\ registered \in BOOLEAN /\ m_Socket \in BOOLEAN /\ shutdownSent \in BOOLEAN
    /\ peer \in {"up", "gone"}
    /\ npc \in {"idle", "drain", "base", "queue", "handle", "popped", "failed",
                "delayed", "close", "shutdown", "callbacks", "read", "pong"}
    /\ nret \in {"idle", "callbacks"}
    /\ wpc \in {"idle", "send", "shutdown"}

(* Together they are the type invariant.                                       *)
LEMMA TypeHalves == TypeOK <=> DataType /\ ControlType
  BY DEF TypeOK, DataType, ControlType

(* Enqueue, whoever calls it.                                                  *)
LEMMA EnqueueType ==
    ASSUME DataType, Enqueue \/ UNCHANGED <<bufferQueue, nextPacket>>
    PROVE  bufferQueue' \in Seq(Packets) /\ nextPacket' \in 1..(NumPackets + 1)
<1>1. CASE Enqueue /\ nextPacket \in Packets
  <2>1. nextPacket' \in 1..(NumPackets + 1)
    BY <1>1, NumPacketsAssumption DEF Enqueue, Packets
  <2>2. bufferQueue' = Append(bufferQueue, nextPacket)
    BY <1>1 DEF Enqueue
  <2>3. bufferQueue \in Seq(Packets)
    BY DEF DataType
  <2>4. bufferQueue' \in Seq(Packets)
    BY <1>1, <2>2, <2>3
  <2> QED
    BY <2>1, <2>4
<1>2. CASE ~(Enqueue /\ nextPacket \in Packets)
  BY <1>2 DEF DataType, Enqueue
<1> QED
  BY <1>1, <1>2

(* Turning one turn of the loop of WorldSocket::Update into moves of buffers.  *)
LEMMA PackCases ==
    ASSUME TypeOK, PackPacket
    PROVE  \E p \in Packets, q \in Seq(Seq(Unit)), b \in Seq(Unit) :
              /\ p = Head(bufferQueue)
              /\ \/ q = writeQueue /\ b = buffer
                 \/ q = Append(writeQueue, buffer) /\ b = <<>>
              /\ \/ writeQueue' = q /\ buffer' = b \o UnitsOf(p)
                 \/ b = <<>> /\ writeQueue' = Append(q, UnitsOf(p)) /\ buffer' = <<>>
<1> DEFINE p == Head(bufferQueue)
           fits == SendBufferSize - Len(buffer) >= Size[p]
           q == IF fits THEN writeQueue ELSE Append(writeQueue, buffer)
           b == IF fits THEN buffer ELSE <<>>
<1>1. p \in Packets
  BY DEF TypeOK, PackPacket
<1>2. q \in Seq(Seq(Unit)) /\ b \in Seq(Unit)
  BY DEF TypeOK
<1>3. \/ q = writeQueue /\ b = buffer
      \/ q = Append(writeQueue, buffer) /\ b = <<>>
  OBVIOUS
<1>4. \/ writeQueue' = q /\ buffer' = b \o UnitsOf(p)
      \/ b = <<>> /\ writeQueue' = Append(q, UnitsOf(p)) /\ buffer' = <<>>
  <2>1. CASE SendBufferSize - Len(b) >= Size[p]
    BY <2>1 DEF PackPacket
  <2>2. CASE ~(SendBufferSize - Len(b) >= Size[p])
    <3>1. ~fits
      BY <2>2
    <3>2. b = <<>>
      BY <3>1
    <3> QED
      BY <2>2, <3>2 DEF PackPacket
  <2> QED
    BY <2>1, <2>2
<1> HIDE DEF p, q, b
<1> QED
  BY <1>1, <1>2, <1>3, <1>4 DEF p

(* HandleQueue as moves of buffers: nothing, the front thrown away, a part of  *)
(* it written, or all of it.                                                   *)
LEMMA HandleCases ==
    ASSUME TypeOK, HandleQueue
    PROVE  \/ UNCHANGED <<writeQueue, wire, inKernel>>
           \/ /\ writeQueue # <<>> /\ (WriteFails \/ Head(writeQueue) = <<>>)
              /\ writeQueue' = Tail(writeQueue) /\ UNCHANGED <<wire, inKernel>>
           \/ /\ writeQueue # <<>> /\ ~WriteFails
              /\ \E n \in 0..Room :
                    /\ n < Len(Head(writeQueue)) /\ inKernel' = inKernel + n
                    /\ writeQueue' = <<ReadCompleted(Head(writeQueue), n)>> \o Tail(writeQueue)
                    /\ wire' = wire \o SubSeq(Head(writeQueue), 1, n)
           \/ /\ writeQueue # <<>> /\ ~WriteFails
              /\ \E n \in 0..Room :
                    /\ n = Len(Head(writeQueue)) /\ inKernel' = inKernel + n
                    /\ writeQueue' = Tail(writeQueue)
                    /\ wire' = wire \o SubSeq(Head(writeQueue), 1, n)
<1>1. CASE writeQueue = <<>>
  BY <1>1 DEF HandleQueue
<1>2. CASE writeQueue # <<>> /\ (WriteFails \/ Head(writeQueue) = <<>>)
  BY <1>2 DEF HandleQueue
<1>3. CASE writeQueue # <<>> /\ ~WriteFails /\ Head(writeQueue) # <<>>
  <2>1. PICK front \in Seq(Unit) : front = Head(writeQueue)
    BY <1>3 DEF TypeOK
  <2>2. PICK n : n = Lesser(Len(front), Room)
    OBVIOUS
  <2>3. n \in 0..Room /\ n \in Nat /\ Len(front) \in Nat /\ n <= Len(front)
    BY <2>2, BufferAssumption DEF Lesser, Room, TypeOK
  <2>4. CASE n < Len(front)
    <3>1. /\ inKernel' = inKernel + n
          /\ writeQueue' = <<ReadCompleted(front, n)>> \o Tail(writeQueue)
          /\ wire' = wire \o SubSeq(front, 1, n)
      BY <1>3, <2>1, <2>2, <2>3, <2>4 DEF HandleQueue
    <3> QED
      BY <1>3, <2>1, <2>3, <2>4, <3>1
  <2>5. CASE n = Len(front)
    <3>1. /\ inKernel' = inKernel + n
          /\ writeQueue' = Tail(writeQueue)
          /\ wire' = wire \o SubSeq(front, 1, n)
      BY <1>3, <2>1, <2>2, <2>5 DEF HandleQueue
    <3> QED
      BY <1>3, <2>1, <2>3, <2>5, <3>1
  <2>6. n < Len(front) \/ n = Len(front)
    BY <2>3
  <2> QED
    BY <2>4, <2>5, <2>6
<1> QED
  BY <1>1, <1>2, <1>3

(* What a step does to the packets on their way: nothing, an Enqueue, or one   *)
(* of the three steps that move them.                                          *)
Idle == UNCHANGED <<bufferQueue, buffer, writeQueue, nextPacket, wire>> /\ inKernel' \in 0..inKernel
Enqueues == Enqueue /\ UNCHANGED <<buffer, writeQueue, wire, inKernel>>

(* Every step is one of these.                                                 *)
LEMMA DataSteps ==
    ASSUME DataType, [Next]_vars
    PROVE  Idle \/ Enqueues \/ PackPacket \/ FlushBuffer \/ HandleQueue
<1>1. inKernel \in 0..inKernel /\ inKernel \in Nat
  BY DEF DataType
<1>2. CASE UNCHANGED data
  BY <1>1, <1>2 DEF data, Idle
<1>3. CASE CloseSocket \/ Shutdown \/ DelayedCloseSocket \/ UpdateTest \/ QueueTest \/ AfterPop \/ ReadHandler
  BY <1>2, <1>3 DEF CloseSocket, Shutdown, DelayedCloseSocket, UpdateTest, QueueTest, AfterPop, ReadHandler
<1>4. CASE Tick \/ WriteHandlerWrapper \/ ReadHandlerInternal \/ NoCallback \/ LoadSessionPermissionsCallback
  BY <1>2, <1>4 DEF Tick, WriteHandlerWrapper, ReadHandlerInternal, NoCallback, LoadSessionPermissionsCallback
<1>5. CASE WorldSendTest \/ WorldCloseSocket \/ WorldShutdown \/ WorldDropSocket
  BY <1>2, <1>5 DEF WorldSendTest, WorldCloseSocket, WorldShutdown, WorldDropSocket
<1>6. CASE PeerReads \/ PeerGone
  BY <1>1, <1>6 DEF PeerReads, PeerGone, Idle
<1>7. CASE WorldSendEnqueue \/ SendPong
  BY <1>7 DEF WorldSendEnqueue, SendPong, Enqueues
<1>8. CASE IpBanCheckCallback \/ HandleAuthSessionCallback
  <2>1. \/ UNCHANGED data
        \/ Enqueues
    BY <1>8 DEF IpBanCheckCallback, HandleAuthSessionCallback, SendPacket, Enqueues, data
  <2> QED
    BY <1>2, <2>1
<1>9. CASE UNCHANGED vars
  BY <1>2, <1>9 DEF vars, data
<1> QED
  BY <1>3, <1>4, <1>5, <1>6, <1>7, <1>8, <1>9 DEF Next, NetworkStep, WorldStep, ProcessCallback

(* What is sent keeps its type.                                                *)
LEMMA DataTypeKept ==
    ASSUME TypeOK, [Next]_vars
    PROVE  DataType'
<1>1. DataType
  BY TypeHalves
<1>2. CASE Idle
  BY <1>1, <1>2, BufferAssumption DEF Idle, DataType
<1>3. CASE Enqueues
  BY <1>1, <1>3, EnqueueType DEF Enqueues, DataType
<1>4. CASE PackPacket
  <2>1. PICK p \in Packets, q \in Seq(Seq(Unit)), b \in Seq(Unit) :
           \/ writeQueue' = q /\ buffer' = b \o UnitsOf(p)
           \/ writeQueue' = Append(q, UnitsOf(p)) /\ buffer' = <<>>
    BY <1>4, PackCases
  <2>2. PICK a \in Seq(Unit) : a = UnitsOf(p)
    BY PacketRun
  <2>3. writeQueue' \in Seq(Seq(Unit)) /\ buffer' \in Seq(Unit)
    <3>1. Append(q, a) \in Seq(Seq(Unit)) /\ b \o a \in Seq(Unit) /\ <<>> \in Seq(Unit)
      OBVIOUS
    <3> QED
      BY <2>1, <2>2, <3>1
  <2>4. bufferQueue' \in Seq(Packets)
    BY <1>1, <1>4 DEF PackPacket, DataType
  <2> QED
    BY <1>1, <1>4, <2>3, <2>4 DEF PackPacket, DataType
<1>5. CASE FlushBuffer
  <2>1. writeQueue' \in Seq(Seq(Unit)) /\ buffer' \in Seq(Unit)
    BY <1>1, <1>5 DEF FlushBuffer, DataType
  <2> QED
    BY <1>1, <1>5, <2>1 DEF FlushBuffer, DataType
<1>6. CASE HandleQueue
  <2>1. UNCHANGED <<bufferQueue, buffer, nextPacket>>
    BY <1>6 DEF HandleQueue
  <2>2. writeQueue' \in Seq(Seq(Unit)) /\ wire' \in Seq(Unit) /\ inKernel' \in 0..KernelBuffer
    <3>1. CASE UNCHANGED <<writeQueue, wire, inKernel>>
      BY <1>1, <3>1 DEF DataType
    <3>2. CASE writeQueue # <<>> /\ writeQueue' = Tail(writeQueue) /\ UNCHANGED <<wire, inKernel>>
      BY <1>1, <3>2 DEF DataType
    <3>3. ASSUME writeQueue # <<>>, NEW n \in 0..Room, n <= Len(Head(writeQueue)),
                 inKernel' = inKernel + n, wire' = wire \o SubSeq(Head(writeQueue), 1, n),
                 \/ writeQueue' = Tail(writeQueue)
                 \/ writeQueue' = <<ReadCompleted(Head(writeQueue), n)>> \o Tail(writeQueue)
          PROVE  writeQueue' \in Seq(Seq(Unit)) /\ wire' \in Seq(Unit) /\ inKernel' \in 0..KernelBuffer
      <4>1. inKernel' \in 0..KernelBuffer
        BY <1>1, <3>3, BufferAssumption DEF DataType, Room
      <4>2. PICK a \in Seq(Unit) : a = Head(writeQueue)
        BY <1>1, <3>3 DEF DataType
      <4>3. n \in Nat /\ n <= Len(a)
        BY <1>1, <3>3, <4>2, BufferAssumption DEF DataType, Room
      <4>4. SubSeq(a, 1, n) \in Seq(Unit) /\ ReadCompleted(a, n) \in Seq(Unit)
        BY <4>3 DEF ReadCompleted
      <4>5. wire' \in Seq(Unit)
        BY <1>1, <3>3, <4>2, <4>4 DEF DataType
      <4>6. PICK rest \in Seq(Seq(Unit)) : rest = Tail(writeQueue)
        <5>1. writeQueue \in Seq(Seq(Unit)) /\ writeQueue # <<>>
          BY <1>1, <3>3 DEF DataType
        <5>2. Tail(writeQueue) \in Seq(Seq(Unit))
          BY <5>1
        <5> QED
          BY <5>2
      <4>7. PICK c \in Seq(Unit) : c = ReadCompleted(a, n)
        BY <4>4
      <4>8. <<c>> \o rest \in Seq(Seq(Unit))
        OBVIOUS
      <4>9. writeQueue' \in Seq(Seq(Unit))
        BY <3>3, <4>2, <4>6, <4>7, <4>8
      <4> QED
        BY <4>1, <4>5, <4>9
    <3>4. CASE writeQueue # <<>>
      <4>1. Len(Head(writeQueue)) \in Nat
        BY <1>1, <3>4 DEF DataType
      <4>2. \A n \in 0..Room : (n < Len(Head(writeQueue)) \/ n = Len(Head(writeQueue))) => n <= Len(Head(writeQueue))
        BY <1>1, <4>1, BufferAssumption DEF DataType, Room
      <4> QED
        BY <1>6, <3>1, <3>2, <3>3, <3>4, <4>2, HandleCases
    <3> QED
      BY <1>6, <3>1, <3>4, HandleCases
  <2> QED
    BY <1>1, <2>1, <2>2 DEF DataType
<1> QED
  BY <1>1, <1>2, <1>3, <1>4, <1>5, <1>6, DataSteps

(* So does the state of the threads.                                           *)
LEMMA ControlTypeKept ==
    ASSUME ControlType, [Next]_vars
    PROVE  ControlType'
<1>1. IsOpen \in BOOLEAN
  BY DEF IsOpen
<1>2. CASE CloseSocket
  BY <1>2 DEF CloseSocket, ControlType, life, Closed
<1>3. CASE Shutdown
  BY <1>3 DEF Shutdown, ControlType, life
<1>4. CASE DelayedCloseSocket
  BY <1>4 DEF DelayedCloseSocket, ControlType, life, Closing
<1>5. CASE PackPacket
  BY <1>5 DEF PackPacket, ControlType, life, net
<1>6. CASE FlushBuffer
  BY <1>6 DEF FlushBuffer, ControlType, life
<1>7. CASE UpdateTest
  BY <1>7 DEF UpdateTest, ControlType
<1>8. CASE QueueTest
  BY <1>8 DEF QueueTest, ControlType, life
<1>9. CASE HandleQueue
  <2>1. npc' \in {nret, "failed", "popped"}
    BY <1>9 DEF HandleQueue
  <2>2. isWritingAsync' \in BOOLEAN
    BY <1>9 DEF HandleQueue, ControlType
  <2>3. UNCHANGED <<openState, readPending, phase, registered, m_Socket, shutdownSent, peer, nret, wpc>>
    BY <1>9 DEF HandleQueue, life
  <2> QED
    BY <2>1, <2>2, <2>3 DEF ControlType
<1>10. CASE AfterPop
  BY <1>10 DEF AfterPop, ControlType, life
<1>11. CASE ReadHandler
  BY <1>1, <1>11 DEF ReadHandler, AsyncRead, ControlType
<1>12. CASE SendPong
  BY <1>1, <1>12 DEF SendPong, AsyncRead, ControlType, life
<1>13. CASE NoCallback
  BY <1>13 DEF NoCallback, ControlType, life
<1>14. CASE IpBanCheckCallback
  BY <1>1, <1>14 DEF IpBanCheckCallback, AsyncRead, ControlType
<1>15. CASE HandleAuthSessionCallback
  BY <1>1, <1>15 DEF HandleAuthSessionCallback, AsyncRead, ControlType
<1>16. CASE LoadSessionPermissionsCallback
  BY <1>16 DEF LoadSessionPermissionsCallback, ControlType
<1>17. CASE Tick
  BY <1>17 DEF Tick, ControlType, life
<1>18. CASE WriteHandlerWrapper
  BY <1>18 DEF WriteHandlerWrapper, ControlType, life
<1>19. CASE ReadHandlerInternal
  BY <1>19 DEF ReadHandlerInternal, ControlType, life
<1>20. CASE WorldSendTest \/ WorldSendEnqueue \/ WorldShutdown
  <2>1. /\ UNCHANGED <<openState, isWritingAsync, readPending, phase, registered, m_Socket, peer, npc, nret>>
        /\ wpc' \in {"idle", "send"}
    BY <1>20 DEF WorldSendTest, WorldSendEnqueue, WorldShutdown, life, net
  <2>2. shutdownSent' \in BOOLEAN
    BY <1>20 DEF WorldSendTest, WorldSendEnqueue, WorldShutdown, ControlType
  <2> QED
    BY <2>1, <2>2 DEF ControlType
<1>21. CASE WorldCloseSocket
  BY <1>21 DEF WorldCloseSocket, ControlType, life, net, Closed
<1>22. CASE WorldDropSocket
  <2>1. /\ UNCHANGED <<openState, isWritingAsync, readPending, phase, registered, shutdownSent, peer,
                       npc, nret, wpc>>
    BY <1>22 DEF WorldDropSocket, net
  <2>2. m_Socket' \in BOOLEAN
    BY <1>22 DEF WorldDropSocket
  <2> QED
    BY <2>1, <2>2 DEF ControlType
<1>23. CASE PeerReads \/ PeerGone
  <2>1. /\ UNCHANGED <<openState, isWritingAsync, readPending, phase, registered, m_Socket, shutdownSent, npc, nret, wpc>>
        /\ peer' \in {peer, "gone"}
    BY <1>23 DEF PeerReads, PeerGone, life, net
  <2> QED
    BY <2>1 DEF ControlType
<1>24. CASE UNCHANGED vars
  BY <1>24 DEF vars, ControlType
<1> QED
  BY <1>2, <1>3, <1>4, <1>5, <1>6, <1>7, <1>8, <1>9, <1>10, <1>11, <1>12, <1>13, <1>14, <1>15,
     <1>16, <1>17, <1>18, <1>19, <1>20, <1>21, <1>22, <1>23, <1>24
     DEF Next, NetworkStep, WorldStep, ProcessCallback

(* Every variable keeps its type: no buffer holds anything but units of        *)
(* packets, and the kernel never holds more than it has room for.              *)
THEOREM TypeCorrect == Spec => []TypeOK
<1>1. Init => TypeOK
  <2>1. Init => DataType
    BY NumPacketsAssumption, BufferAssumption DEF Init, DataType
  <2>2. Init => ControlType
    BY DEF Init, ControlType, Open
  <2> QED
    BY <2>1, <2>2, TypeHalves
<1>2. TypeOK /\ [Next]_vars => TypeOK'
  <2> SUFFICES ASSUME TypeOK, [Next]_vars PROVE TypeOK'
    OBVIOUS
  <2>1. ControlType
    BY TypeHalves
  <2>2. DataType' /\ ControlType'
    BY <2>1, DataTypeKept, ControlTypeKept
  <2> QED
    BY <2>2 DEF TypeOK, DataType, ControlType
<1> QED
  BY <1>1, <1>2, PTL DEF Spec
-----------------------------------------------------------------------------
(* Writing that fails goes on failing.                                         *)
LEMMA FailsForGood ==
    ASSUME ControlType, [Next]_vars, WriteFails
    PROVE  WriteFails'
<1>1. UNCHANGED <<peer, shutdownSent>> \/ shutdownSent' = TRUE \/ peer' = "gone"
  <2>1. CASE CloseSocket \/ Shutdown \/ DelayedCloseSocket \/ UpdateTest \/ QueueTest \/ AfterPop \/ ReadHandler
    BY <2>1 DEF CloseSocket, Shutdown, DelayedCloseSocket, UpdateTest, QueueTest, AfterPop, ReadHandler
  <2>2. CASE Tick \/ WriteHandlerWrapper \/ ReadHandlerInternal \/ NoCallback \/ LoadSessionPermissionsCallback
    BY <2>2 DEF Tick, WriteHandlerWrapper, ReadHandlerInternal, NoCallback, LoadSessionPermissionsCallback
  <2>3. CASE WorldStep
    BY <2>3 DEF WorldStep, WorldSendTest, WorldSendEnqueue, WorldCloseSocket, WorldShutdown, WorldDropSocket
  <2>4. CASE PeerReads \/ PeerGone
    BY <2>4 DEF PeerReads, PeerGone
  <2>5. CASE SendPong \/ IpBanCheckCallback \/ HandleAuthSessionCallback
    BY <2>5 DEF SendPong, IpBanCheckCallback, HandleAuthSessionCallback
  <2>6. CASE PackPacket \/ FlushBuffer \/ HandleQueue
    BY <2>6 DEF PackPacket, FlushBuffer, HandleQueue
  <2>7. CASE UNCHANGED vars
    BY <2>7 DEF vars
  <2> QED
    BY <2>1, <2>2, <2>3, <2>4, <2>5, <2>6, <2>7 DEF Next, NetworkStep, ProcessCallback
<1> QED
  BY <1>1 DEF WriteFails

(* Changes of variables that a step of the chain does not see.                 *)
LEMMA OrderUnchanged ==
    ASSUME OrderInv, ~WriteFails' => ~WriteFails,
           UNCHANGED <<bufferQueue, buffer, writeQueue, nextPacket, wire>>
    PROVE  OrderInv'
<1>1. UNCHANGED FirstQueued
  BY DEF FirstQueued
<1>2. WireInOrder'
  BY DEF OrderInv, WireInOrder
<1>3. ~WriteFails' => Chained(wire, writeQueue, buffer, <<FirstQueued, 1>>)'
  BY <1>1 DEF OrderInv
<1> QED
  BY <1>1, <1>2, <1>3 DEF OrderInv

(* Enqueue puts the next packet behind the others of the packet queue.         *)
LEMMA OrderEnqueue ==
    ASSUME DataType, OrderInv, ~WriteFails' => ~WriteFails, Enqueues
    PROVE  OrderInv'
<1>1. CASE nextPacket \in Packets
  <2>1. /\ bufferQueue' = Append(bufferQueue, nextPacket) /\ nextPacket' = nextPacket + 1
        /\ UNCHANGED <<buffer, writeQueue, wire>>
    BY <1>1 DEF Enqueues, Enqueue
  <2>2. /\ bufferQueue \in Seq(Packets) /\ Len(bufferQueue) \in Nat /\ nextPacket \in Nat
        /\ Len(bufferQueue') = Len(bufferQueue) + 1 /\ DOMAIN bufferQueue' = 1..(Len(bufferQueue) + 1)
        /\ \A i \in 1..Len(bufferQueue) : bufferQueue'[i] = bufferQueue[i]
        /\ bufferQueue'[Len(bufferQueue) + 1] = nextPacket
    BY <2>1, <1>1, NumPacketsAssumption DEF DataType
  <2>3. FirstQueued' = FirstQueued
    BY <2>1, <2>2 DEF FirstQueued
  <2>4. ASSUME NEW i \in DOMAIN bufferQueue' PROVE bufferQueue'[i] = FirstQueued + i - 1
    <3>1. CASE i = Len(bufferQueue) + 1
      BY <2>2, <3>1 DEF FirstQueued
    <3>2. CASE i # Len(bufferQueue) + 1
      <4>1. i \in 1..Len(bufferQueue)
        BY <2>2, <3>2
      <4> QED
        BY <2>2, <4>1 DEF OrderInv
    <3> QED
      BY <3>1, <3>2
  <2>5. WireInOrder'
    BY <2>1 DEF OrderInv, WireInOrder
  <2>6. ~WriteFails' => Chained(wire, writeQueue, buffer, <<FirstQueued, 1>>)'
    BY <2>1, <2>3 DEF OrderInv
  <2> QED
    BY <2>3, <2>4, <2>5, <2>6 DEF OrderInv
<1>2. CASE nextPacket \notin Packets
  BY <1>2, OrderUnchanged DEF Enqueues, Enqueue
<1> QED
  BY <1>1, <1>2

(* The packet at the front of the packet queue is the one that comes next.     *)
LEMMA FrontPacket ==
    ASSUME DataType, OrderInv, bufferQueue # <<>>, bufferQueue' = Tail(bufferQueue), UNCHANGED nextPacket
    PROVE  /\ Head(bufferQueue) = FirstQueued /\ FirstQueued \in Packets
           /\ FirstQueued' = FirstQueued + 1 /\ FirstQueued' >= 1
           /\ \A i \in DOMAIN bufferQueue' : bufferQueue'[i] = FirstQueued' + i - 1
<1>1. /\ bufferQueue \in Seq(Packets) /\ Len(bufferQueue) \in Nat /\ Len(bufferQueue) >= 1
      /\ Head(bufferQueue) = bufferQueue[1] /\ nextPacket \in Nat
      /\ Len(bufferQueue') = Len(bufferQueue) - 1 /\ DOMAIN bufferQueue' = 1..(Len(bufferQueue) - 1)
      /\ \A i \in 1..(Len(bufferQueue) - 1) : bufferQueue'[i] = bufferQueue[i + 1]
  BY NumPacketsAssumption DEF DataType
<1>2. FirstQueued \in Nat /\ FirstQueued >= 1 /\ FirstQueued' = FirstQueued + 1
  BY <1>1 DEF OrderInv, FirstQueued
<1>3. \A i \in 1..Len(bufferQueue) : bufferQueue[i] = FirstQueued + i - 1
  BY <1>1 DEF OrderInv
<1>4. Head(bufferQueue) = FirstQueued /\ FirstQueued \in Packets
  <2>1. bufferQueue[1] = FirstQueued + 1 - 1 /\ bufferQueue[1] \in Packets
    BY <1>1, <1>3
  <2> QED
    BY <1>1, <1>2, <2>1
<1>5. ASSUME NEW i \in DOMAIN bufferQueue' PROVE bufferQueue'[i] = FirstQueued' + i - 1
  <2>1. i \in 1..(Len(bufferQueue) - 1) /\ i + 1 \in 1..Len(bufferQueue) /\ i \in Nat
    BY <1>1
  <2>2. bufferQueue'[i] = FirstQueued + (i + 1) - 1
    BY <1>1, <1>3, <2>1
  <2> QED
    BY <1>2, <2>1, <2>2
<1> QED
  BY <1>2, <1>4, <1>5

(* The chain grows by the packet that left the packet queue.                   *)
LEMMA OrderPack ==
    ASSUME TypeOK, OrderInv, PackPacket
    PROVE  OrderInv'
<1>1. /\ bufferQueue # <<>> /\ bufferQueue' = Tail(bufferQueue)
      /\ UNCHANGED <<nextPacket, wire, peer, shutdownSent>>
  BY DEF PackPacket
<1>2. DataType
  BY TypeHalves
<1>3. /\ Head(bufferQueue) = FirstQueued /\ FirstQueued \in Packets
      /\ FirstQueued' = FirstQueued + 1 /\ FirstQueued' >= 1
      /\ \A i \in DOMAIN bufferQueue' : bufferQueue'[i] = FirstQueued' + i - 1
  BY <1>1, <1>2, FrontPacket
<1>4. PICK p \in Packets, q \in Seq(Seq(Unit)), b \in Seq(Unit) :
         /\ p = Head(bufferQueue)
         /\ \/ q = writeQueue /\ b = buffer
            \/ q = Append(writeQueue, buffer) /\ b = <<>>
         /\ \/ writeQueue' = q /\ buffer' = b \o UnitsOf(p)
            \/ b = <<>> /\ writeQueue' = Append(q, UnitsOf(p)) /\ buffer' = <<>>
  BY PackCases
<1>5. ASSUME ~WriteFails PROVE Chained(wire, writeQueue', buffer', <<p + 1, 1>>)
  <2>1. PICK w \in Seq(Unit), wq \in Seq(Seq(Unit)), wb \in Seq(Unit) :
           w = wire /\ wq = writeQueue /\ wb = buffer
    BY <1>2 DEF DataType
  <2>2. <<p, 1>> \in Border /\ <<p + 1, 1>> \in Border
    BY BorderFacts, NumPacketsAssumption DEF Packets
  <2>3. Chained(w, wq, wb, <<p, 1>>)
    BY <1>3, <1>4, <1>5, <2>1 DEF OrderInv
  <2>4. Chained(w, q, b, <<p, 1>>)
    <3>1. Chained(w, Append(wq, wb), <<>>, <<p, 1>>)
      BY <2>2, <2>3, ChainFlush
    <3> QED
      BY <1>4, <2>1, <2>3, <3>1
  <2>5. b \o UnitsOf(p) \in Seq(Unit) /\ Chained(w, q, b \o UnitsOf(p), <<p + 1, 1>>)
    BY <2>4, ChainPack
  <2>6. PICK c \in Seq(Unit) : c = b \o UnitsOf(p)
    BY <2>5
  <2>7. Chained(w, Append(q, c), <<>>, <<p + 1, 1>>)
    BY <2>2, <2>5, <2>6, ChainFlush
  <2>8. b = <<>> => c = UnitsOf(p)
    <3>1. UnitsOf(p) \in Seq(Unit)
      BY PacketRun
    <3> QED
      BY <2>6, <3>1
  <2> QED
    BY <1>4, <2>1, <2>5, <2>6, <2>7, <2>8
<1>6. WireInOrder'
  BY <1>1 DEF OrderInv, WireInOrder
<1>7. ~WriteFails' => ~WriteFails
  BY <1>1 DEF WriteFails
<1>8. ~WriteFails' => Chained(wire, writeQueue, buffer, <<FirstQueued, 1>>)'
  BY <1>1, <1>3, <1>4, <1>5, <1>7
<1> QED
  BY <1>3, <1>6, <1>8 DEF OrderInv

(* The chain is the same when its last piece becomes one of the queue.         *)
LEMMA OrderFlush ==
    ASSUME TypeOK, OrderInv, FlushBuffer
    PROVE  OrderInv'
<1>1. /\ UNCHANGED <<bufferQueue, nextPacket, wire, peer, shutdownSent>> /\ buffer' = <<>>
      /\ writeQueue' = IF buffer # <<>> THEN Append(writeQueue, buffer) ELSE writeQueue
  BY DEF FlushBuffer
<1>2. FirstQueued' = FirstQueued /\ WireInOrder' /\ (~WriteFails' => ~WriteFails)
  BY <1>1 DEF FirstQueued, OrderInv, WireInOrder, WriteFails
<1>3. ASSUME ~WriteFails PROVE Chained(wire, writeQueue', buffer', <<FirstQueued, 1>>)
  <2>1. PICK w \in Seq(Unit), wq \in Seq(Seq(Unit)), wb \in Seq(Unit) :
           w = wire /\ wq = writeQueue /\ wb = buffer
    BY DEF TypeOK
  <2>2. PICK p \in 1..(NumPackets + 1) : p = FirstQueued
    <3>1. nextPacket \in 1..(NumPackets + 1) /\ Len(bufferQueue) \in Nat
      BY DEF TypeOK
    <3>2. FirstQueued >= 1
      BY DEF OrderInv
    <3>3. FirstQueued \in 1..(NumPackets + 1)
      BY <3>1, <3>2, NumPacketsAssumption DEF FirstQueued
    <3> QED
      BY <3>3
  <2>3. <<p, 1>> \in Border
    BY BorderFacts
  <2>4. Chained(w, wq, wb, <<p, 1>>)
    BY <1>3, <2>1, <2>2 DEF OrderInv
  <2>5. Chained(w, Append(wq, wb), <<>>, <<p, 1>>)
    BY <2>3, <2>4, ChainFlush
  <2> QED
    BY <1>1, <2>1, <2>2, <2>4, <2>5
<1>4. ~WriteFails' => Chained(wire, writeQueue, buffer, <<FirstQueued, 1>>)'
  BY <1>1, <1>2, <1>3
<1> QED
  BY <1>1, <1>2, <1>4 DEF OrderInv

(* The write moves the border between the wire and the queue, unless it fails. *)
LEMMA OrderHandleQueue ==
    ASSUME TypeOK, TypeOK', OrderInv, HandleQueue
    PROVE  OrderInv'
<1>1. UNCHANGED <<bufferQueue, buffer, nextPacket, peer, shutdownSent>>
  BY DEF HandleQueue
<1>2. FirstQueued' = FirstQueued /\ (WriteFails' <=> WriteFails)
  BY <1>1 DEF FirstQueued, WriteFails
<1>3. CASE WriteFails
  <2>1. wire' = wire
    BY <1>3, HandleCases
  <2>2. WireInOrder'
    BY <2>1 DEF OrderInv, WireInOrder
  <2> QED
    BY <1>1, <1>2, <1>3, <2>2 DEF OrderInv
<1>4. CASE ~WriteFails
  <2>1. PICK w \in Seq(Unit), wq \in Seq(Seq(Unit)), wb \in Seq(Unit) :
           w = wire /\ wq = writeQueue /\ wb = buffer
    BY DEF TypeOK
  <2> DEFINE u == <<FirstQueued, 1>>
  <2>2. Chained(w, wq, wb, u)
    BY <1>4, <2>1 DEF OrderInv
  <2>3. Chained(wire', writeQueue', wb, u)
    <3>1. CASE UNCHANGED <<writeQueue, wire, inKernel>>
      BY <2>1, <2>2, <3>1
    <3>2. CASE wq # <<>> /\ Head(wq) = <<>> /\ writeQueue' = Tail(wq) /\ wire' = w
      <4>1. Chained(w \o Head(wq), Tail(wq), wb, u)
        BY <2>2, <3>2, ChainWriteAll
      <4>2. w \o Head(wq) = w
        BY <3>2
      <4> QED
        BY <3>2, <4>1, <4>2
    <3>3. ASSUME wq # <<>>, NEW n \in 0..Room, n < Len(Head(wq)),
                 writeQueue' = <<ReadCompleted(Head(wq), n)>> \o Tail(wq),
                 wire' = w \o SubSeq(Head(wq), 1, n)
          PROVE  Chained(wire', writeQueue', wb, u)
      <4>1. n \in Nat
        BY BufferAssumption DEF TypeOK, Room
      <4> QED
        BY <2>2, <3>3, <4>1, ChainWritePart
    <3>4. ASSUME wq # <<>>, NEW n \in 0..Room, n = Len(Head(wq)),
                 writeQueue' = Tail(wq), wire' = w \o SubSeq(Head(wq), 1, n)
          PROVE  Chained(wire', writeQueue', wb, u)
      <4>1. PICK a \in Seq(Unit) : a = Head(wq)
        BY <3>4
      <4>2. SubSeq(a, 1, Len(a)) = a
        OBVIOUS
      <4>3. Chained(w \o Head(wq), Tail(wq), wb, u)
        BY <2>2, <3>4, ChainWriteAll
      <4> QED
        BY <3>4, <4>1, <4>2, <4>3
    <3> QED
      BY <1>4, <2>1, <3>1, <3>2, <3>3, <3>4, HandleCases
  <2>4. wire' \in Seq(Unit)
    BY DEF TypeOK
  <2>5. \A k \in DOMAIN wire' : wire'[k] = IF k = 1 THEN <<1, 1>> ELSE After(wire'[k - 1])
    <3>1. PICK x \in Seq(Unit) : x = wire'
      BY <2>4
    <3>2. Chained(x, writeQueue', wb, u)
      BY <2>3, <3>1
    <3> QED
      BY <3>1, <3>2, ChainOrder
  <2>6. WireInOrder'
    BY <2>5 DEF WireInOrder
  <2>7. Chained(wire, writeQueue, buffer, <<FirstQueued, 1>>)'
    BY <1>1, <1>2, <2>1, <2>3
  <2> QED
    BY <1>1, <1>2, <2>6, <2>7 DEF OrderInv
<1> QED
  BY <1>3, <1>4

(* All that is on its way to the client stays one chain while writing works.   *)
THEOREM Order == Spec => []OrderInv
<1>1. Init => OrderInv
  <2> SUFFICES ASSUME Init PROVE OrderInv
    OBVIOUS
  <2>1. /\ FirstQueued = 1 /\ DOMAIN bufferQueue = {} /\ DOMAIN wire = {}
        /\ wire = <<>> /\ writeQueue = <<>> /\ buffer = <<>>
    BY DEF Init, FirstQueued
  <2>2. <<1, 1>> \in Border
    BY BorderFacts, NumPacketsAssumption
  <2>3. Chained(<<>>, <<>>, <<>>, <<1, 1>>)
    <3> DEFINE f == [i \in 1..(Len(<<>>) + 1) |-> <<1, 1>>]
    <3>1. f \in [1..(Len(<<>>) + 1) -> Border] /\ f[1] = <<1, 1>> /\ Len(<<>>) = 0
      BY <2>2
    <3> HIDE DEF f
    <3>2. Run(<<>>, <<1, 1>>, f[1]) /\ Run(<<>>, f[Len(<<>>) + 1], <<1, 1>>)
      BY <3>1 DEF Run
    <3>3. \A i \in 1..Len(<<>>) : FALSE
      BY <3>1
    <3> QED
      BY <3>1, <3>2, <3>3 DEF Chained
  <2> QED
    BY <2>1, <2>3 DEF OrderInv, WireInOrder
<1>2. TypeOK /\ TypeOK' /\ OrderInv /\ [Next]_vars => OrderInv'
  <2> SUFFICES ASSUME TypeOK, TypeOK', OrderInv, [Next]_vars PROVE OrderInv'
    OBVIOUS
  <2>1. DataType /\ ControlType
    BY TypeHalves
  <2>2. ~WriteFails' => ~WriteFails
    BY <2>1, FailsForGood
  <2>3. CASE Idle
    BY <2>2, <2>3, OrderUnchanged DEF Idle
  <2>4. CASE Enqueues
    BY <2>1, <2>2, <2>4, OrderEnqueue
  <2>5. CASE PackPacket \/ FlushBuffer \/ HandleQueue
    BY <2>5, OrderPack, OrderFlush, OrderHandleQueue
  <2> QED
    BY <2>1, <2>3, <2>4, <2>5, DataSteps
<1> QED
  BY <1>1, <1>2, TypeCorrect, PTL DEF Spec

(* The units on the wire are those of the packets in the order in which they   *)
(* were enqueued, without gap or repetition, whatever the sizes of packets and *)
(* buffers, however little the kernel takes of a buffer, and although packets  *)
(* are enqueued by two threads while HandleQueue writes.                       *)
THEOREM WireCorrect == Spec => []WireInOrder
<1>1. OrderInv => WireInOrder
  BY DEF OrderInv
<1> QED
  BY <1>1, Order, PTL
=============================================================================
