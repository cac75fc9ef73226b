------------------------------- MODULE IscProofs -------------------------------
(* Proofs about the two parts of ISC.  The protocol delivers exactly the       *)
(* messages that arrive whole, for any sizes, ids and losses.  The developer   *)
(* tools, whose commands it carries: the running world is what was committed   *)
(* with the pending changes on top, and a start applies exactly what was       *)
(* committed, for any ids, entries and numbers of files.                       *)
EXTENDS IscProtocol, DevTools, WellFoundedInduction, SequenceTheorems, TLAPS

(* Division with a remainder, and that it is the only one.                     *)
LEMMA DivMod ==
    ASSUME NEW d \in Nat \ {0}, NEW x \in Nat
    PROVE  /\ x \div d \in Nat /\ x % d \in 0..(d - 1)
           /\ x = d * (x \div d) + (x % d)
  OBVIOUS

(* The quotient and the remainder are the only ones.                           *)
LEMMA ModUnique ==
    ASSUME NEW d \in Nat \ {0}, NEW x \in Nat, NEW q \in Int, NEW r \in 0..(d - 1), x = d * q + r
    PROVE  x % d = r /\ x \div d = q
<1>1. PICK k \in Int, s \in 0..(d - 1) : x \div d = k /\ x % d = s /\ x = d * k + s
  BY DivMod
<1>2. d * (k - q) = r - s
  BY <1>1
<1>3. k - q < 1
  <2> SUFFICES ASSUME k - q >= 1 PROVE FALSE
    BY <1>1
  <2> d * (k - q) >= d
    BY <1>1
  <2> QED
    BY <1>1, <1>2
<1>4. k - q > -1
  <2> SUFFICES ASSUME q - k >= 1 PROVE FALSE
    BY <1>1
  <2> d * (q - k) >= d
    BY <1>1
  <2> d * (q - k) = s - r
    BY <1>1, <1>2
  <2> QED
    BY <1>1
<1> QED
  BY <1>1, <1>2, <1>3, <1>4

(* A message of s bytes has one frame at least; all but the last are full.     *)
LEMMA CountFacts ==
    ASSUME NEW s \in Nat \ {0}
    PROVE  /\ FrameCount(s) \in Nat \ {0}
           /\ (FrameCount(s) - 1) * MaxFrameData < s
           /\ s <= FrameCount(s) * MaxFrameData
<1> DEFINE x == s + MaxFrameData - 1
           c == FrameCount(s)
<1>1. MaxFrameData \in Nat \ {0} /\ x \in Nat
  BY SizesAssumption
<1>2. c \in Nat /\ x % MaxFrameData \in 0..(MaxFrameData - 1) /\ x = MaxFrameData * c + (x % MaxFrameData)
  BY <1>1, DivMod, Zenon DEF FrameCount
<1>3. PICK r \in 0..(MaxFrameData - 1) : s + MaxFrameData - 1 = MaxFrameData * c + r
  BY <1>2
<1> HIDE DEF x, c
<1>4. c # 0
  BY <1>1, <1>3
<1>5. (c - 1) * MaxFrameData = MaxFrameData * c - MaxFrameData /\ c * MaxFrameData = MaxFrameData * c
  BY <1>1, <1>2
<1>6. MaxFrameData * c \in Nat
  BY <1>1, <1>2
<1> QED
  BY <1>1, <1>2, <1>3, <1>4, <1>5, <1>6 DEF c

(* The id of a message is the rest of its number, counted from 0.              *)
LEMMA IdRest ==
    ASSUME NEW n \in Nat \ {0}
    PROVE  \E q \in Nat : \E r \in 0..(IdSpace - 1) : Id(n) = r /\ n - 1 = IdSpace * q + r
<1>1. IdSpace \in Nat \ {0} /\ n - 1 \in Nat
  BY BurstAssumption
<1>2. /\ (n - 1) \div IdSpace \in Nat /\ (n - 1) % IdSpace \in 0..(IdSpace - 1)
      /\ n - 1 = IdSpace * ((n - 1) \div IdSpace) + ((n - 1) % IdSpace)
  BY <1>1, DivMod, Zenon
<1> QED
  BY <1>2, Zenon DEF Id

(* MessageIds are given in turn and begin again after the last one.                   *)
LEMMA IdSucc ==
    ASSUME NEW n \in Nat \ {0}
    PROVE  /\ Id(n) \in 0..(IdSpace - 1)
           /\ Id(n + 1) = (Id(n) + 1) % IdSpace
<1>1. IdSpace \in Nat \ {0} /\ n - 1 \in Nat /\ (n + 1) - 1 = n
  BY BurstAssumption
<1>2. PICK q \in Nat, r \in 0..(IdSpace - 1) : Id(n) = r /\ n - 1 = IdSpace * q + r
  BY IdRest, Zenon
<1>3. CASE r + 1 < IdSpace
  <2>1. r + 1 \in 0..(IdSpace - 1) /\ n = IdSpace * q + (r + 1)
    BY <1>1, <1>2, <1>3
  <2>2. n % IdSpace = r + 1
    BY <1>1, <2>1, ModUnique
  <2>3. (r + 1) % IdSpace = r + 1
    <3> r + 1 = IdSpace * 0 + (r + 1) /\ r + 1 \in Nat
      BY <1>1, <1>2
    <3> QED
      BY <1>1, <2>1, ModUnique
  <2> QED
    BY <1>1, <1>2, <2>2, <2>3 DEF Id
<1>4. CASE r + 1 = IdSpace
  <2>1. n = IdSpace * (q + 1) + 0
    BY <1>1, <1>2, <1>4
  <2>2. n % IdSpace = 0
    <3> q + 1 \in Int /\ 0 \in 0..(IdSpace - 1)
      BY <1>1, <1>2
    <3> QED
      BY <1>1, <2>1, ModUnique
  <2>3. IdSpace % IdSpace = 0
    <3> IdSpace = IdSpace * 1 + 0 /\ 0 \in 0..(IdSpace - 1)
      BY <1>1
    <3> QED
      BY <1>1, ModUnique
  <2> QED
    BY <1>1, <1>2, <1>4, <2>2, <2>3 DEF Id
<1> QED
  BY <1>1, <1>2, <1>3, <1>4

(* An id does not come back before all the others were used.                   *)
LEMMA IdsDiffer ==
    ASSUME NEW m \in Nat \ {0}, NEW n \in Nat \ {0}, m < n, n - m <= MaxBurst + 1
    PROVE  Id(m) # Id(n)
<1>1. IdSpace \in Nat \ {0} /\ n - m < IdSpace /\ m - 1 \in Nat /\ n - 1 \in Nat
  BY BurstAssumption
<1>2. PICK p \in Nat, r \in 0..(IdSpace - 1) : Id(m) = r /\ m - 1 = IdSpace * p + r
  BY IdRest, Zenon
<1>3. PICK q \in Nat, t \in 0..(IdSpace - 1) : Id(n) = t /\ n - 1 = IdSpace * q + t
  BY IdRest, Zenon
<1> SUFFICES ASSUME r = t PROVE FALSE
  BY <1>2, <1>3
<1>4. n - m = IdSpace * (q - p)
  BY <1>1, <1>2, <1>3
<1>5. q - p >= 1
  <2> SUFFICES ASSUME p - q >= 0 PROVE FALSE
    BY <1>2, <1>3
  <2> IdSpace * (p - q) >= 0
    BY <1>1, <1>2, <1>3
  <2> n - m = 0 - IdSpace * (p - q)
    BY <1>1, <1>2, <1>3, <1>4
  <2> QED
    BY <1>1, <1>2, <1>3
<1>6. IdSpace * (q - p) >= IdSpace
  BY <1>1, <1>2, <1>3, <1>5
<1> QED
  BY <1>1, <1>4, <1>6

Positive == Nat \ {0}
MessageIds == 0..(IdSpace - 1)

(* The first bytes of a message are a sequence.                                *)
LEMMA PartSeq ==
    ASSUME NEW n \in Nat, NEW s \in Nat
    PROVE  Part(n, s) \in Bytes /\ Len(Part(n, s)) = s /\ \A k \in 1..s : Part(n, s)[k] = <<n, k>>
  BY DEF Part, Bytes

(* What follows the first a bytes, up to b bytes, makes them the first b.      *)
LEMMA PartExtend ==
    ASSUME NEW n \in Nat, NEW a \in Nat, NEW b \in Nat, a <= b, NEW rest \in Bytes,
           Len(rest) = b - a, \A k \in 1..(b - a) : rest[k] = <<n, a + k>>
    PROVE  Part(n, a) \o rest = Part(n, b)
<1> DEFINE S == Nat \X Nat
           whole == Part(n, a) \o rest
<1>1. /\ Part(n, a) \in Seq(S) /\ Len(Part(n, a)) = a /\ \A k \in 1..a : Part(n, a)[k] = <<n, k>>
      /\ Part(n, b) \in Seq(S) /\ Len(Part(n, b)) = b /\ \A k \in 1..b : Part(n, b)[k] = <<n, k>>
  BY PartSeq, Zenon DEF Bytes
<1>2. rest \in Seq(S)
  BY DEF Bytes
<1> HIDE DEF S
<1>3. /\ whole \in Seq(S) /\ Len(whole) = a + (b - a)
      /\ \A k \in 1..(a + (b - a)) : whole[k] = IF k <= a THEN Part(n, a)[k] ELSE rest[k - a]
  <2>1. /\ whole \in Seq(S) /\ Len(whole) = Len(Part(n, a)) + Len(rest)
        /\ \A k \in 1..(Len(Part(n, a)) + Len(rest)) :
              whole[k] = IF k <= Len(Part(n, a)) THEN Part(n, a)[k] ELSE rest[k - Len(Part(n, a))]
    BY <1>1, <1>2, ConcatProperties, Zenon
  <2> QED
    BY <1>1, <2>1, Zenon
<1> HIDE DEF whole
<1>4. ASSUME NEW k \in 1..b
      PROVE  whole[k] = Part(n, b)[k]
  <2>0. k \in 1..(a + (b - a)) /\ Part(n, b)[k] = <<n, k>>
    BY <1>1
  <2>1. CASE k <= a
    <3> k \in 1..a
      BY <2>1
    <3> QED
      BY <1>1, <1>3, <2>0, <2>1, Zenon
  <2>2. CASE ~(k <= a)
    <3> k - a \in 1..(b - a) /\ a + (k - a) = k
      BY <2>2
    <3> QED
      BY <1>3, <2>0, <2>2, Zenon
  <2> QED
    BY <2>1, <2>2
<1>5. Len(whole) = b
  BY <1>3
<1> QED
  <2> whole = Part(n, b)
    BY <1>1, <1>3, <1>4, <1>5, SeqEqual, Zenon
  <2> QED
    BY DEF whole

(* How many bytes of a message of s bytes its first j frames hold.             *)
Held(s, j) == IF j = FrameCount(s) THEN s ELSE j * MaxFrameData

(* What a number of frames holds: full ones, and with the last all of it.      *)
LEMMA HeldFacts ==
    ASSUME NEW s \in Nat \ {0}, NEW j \in 1..FrameCount(s)
    PROVE  /\ (j - 1) * MaxFrameData \in Nat /\ Held(s, j) \in 1..s
           /\ (j - 1) * MaxFrameData < Held(s, j)
           /\ j < FrameCount(s) => Held(s, j) < s
<1>1. MaxFrameData \in Nat \ {0} /\ FrameCount(s) \in Nat \ {0}
  BY SizesAssumption, CountFacts
<1>2. (j - 1) * MaxFrameData \in Nat /\ j * MaxFrameData = (j - 1) * MaxFrameData + MaxFrameData
  BY <1>1
<1>3. CASE j = FrameCount(s)
  BY <1>1, <1>2, <1>3, CountFacts DEF Held
<1>4. CASE j < FrameCount(s)
  <2>1. j <= FrameCount(s) - 1
    BY <1>1, <1>4
  <2>2. j * MaxFrameData <= (FrameCount(s) - 1) * MaxFrameData
    <3>1. (FrameCount(s) - 1 - j) * MaxFrameData >= 0
      BY <1>1, <2>1
    <3>2. (FrameCount(s) - 1) * MaxFrameData = (FrameCount(s) - 1 - j) * MaxFrameData + j * MaxFrameData
      BY <1>1
    <3> QED
      BY <1>1, <3>1, <3>2
  <2>3. (FrameCount(s) - 1) * MaxFrameData < s
    BY CountFacts
  <2>4. (FrameCount(s) - 1) * MaxFrameData \in Int
    BY <1>1
  <2> QED
    BY <1>1, <1>2, <1>4, <2>2, <2>3, <2>4 DEF Held
<1> QED
  BY <1>1, <1>3, <1>4

(* What EncodeFrames returns: the frames of the message in turn, none empty,   *)
(* each with the bytes that follow those of the frames before.                 *)
LEMMA Encoded ==
    ASSUME NEW id \in MessageIds, NEW n \in Positive, NEW s \in Positive
    PROVE  /\ EncodeFrames(id, Part(n, s)) \in Seq(Frames) /\ Len(EncodeFrames(id, Part(n, s))) = FrameCount(s)
           /\ \A j \in Places(s) :
                /\ EncodeFrames(id, Part(n, s))[j].id = id
                /\ EncodeFrames(id, Part(n, s))[j].index = j - 1
                /\ EncodeFrames(id, Part(n, s))[j].count = FrameCount(s)
                /\ EncodeFrames(id, Part(n, s))[j].data \in Bytes /\ Number(EncodeFrames(id, Part(n, s))[j]) = n
                /\ Part(n, (j - 1) * MaxFrameData) \o EncodeFrames(id, Part(n, s))[j].data = Part(n, Held(s, j))
<1> DEFINE fs == EncodeFrames(id, Part(n, s))
           D(j) == SubSeq(Part(n, s), (j - 1) * MaxFrameData + 1, Held(s, j))
<1>0. id \in 0..(IdSpace - 1) /\ n \in Nat /\ s \in Nat \ {0} /\ Places(s) = 1..FrameCount(s)
  BY DEF MessageIds, Positive, Places
<1>1. Len(Part(n, s)) = s /\ FrameCount(s) \in Nat \ {0}
  BY <1>0, PartSeq, CountFacts
<1>2. fs = [j \in 1..FrameCount(s) |-> [id |-> id, index |-> j - 1, count |-> FrameCount(s), data |-> D(j)]]
  BY <1>1, Zenon DEF EncodeFrames, Held
<1>3. ASSUME NEW j \in 1..FrameCount(s)
      PROVE  /\ D(j) \in Bytes /\ D(j)[1][1] = n
             /\ Part(n, (j - 1) * MaxFrameData) \o D(j) = Part(n, Held(s, j))
  <2> DEFINE a == (j - 1) * MaxFrameData
             b == Held(s, j)
  <2>1. a \in Nat /\ b \in 1..s /\ a < b
    BY <1>0, HeldFacts
  <2>2. Part(n, s) \in Bytes /\ \A k \in 1..s : Part(n, s)[k] = <<n, k>>
    BY <1>0, PartSeq
  <2> HIDE DEF a, b
  <2> DEFINE d == SubSeq(Part(n, s), a + 1, b)
  <2>3. d \in Bytes /\ Len(d) = b - a /\ \A k \in 1..(b - a) : d[k] = Part(n, s)[a + 1 + k - 1]
    <3>1. a + 1 \in Int /\ b \in Int /\ (a + 1 <= b) /\ b - (a + 1) + 1 = b - a
      BY <2>1
    <3>2. ASSUME NEW k \in (a + 1)..b PROVE Part(n, s)[k] \in Nat \X Nat
      <4>1. k \in 1..s /\ k \in Nat /\ n \in Nat
        BY <1>0, <2>1
      <4>2. Part(n, s)[k] = <<n, k>>
        BY <2>2, <4>1, Zenon
      <4>3. <<n, k>> \in Nat \X Nat
        BY <4>1
      <4> QED
        BY <4>2, <4>3, Zenon
    <3>3. /\ d \in Seq(Nat \X Nat)
          /\ Len(d) = IF a + 1 <= b THEN b - (a + 1) + 1 ELSE 0
          /\ \A k \in 1..(b - (a + 1) + 1) : d[k] = Part(n, s)[a + 1 + k - 1]
      <4> DEFINE u == Part(n, s)
                 lo == a + 1
                 S == Nat \X Nat
      <4>1. lo \in Int /\ b \in Int /\ \A k \in lo..b : u[k] \in S
        BY <3>1, <3>2
      <4> HIDE DEF u, lo, S
      <4>2. /\ SubSeq(u, lo, b) \in Seq(S)
            /\ Len(SubSeq(u, lo, b)) = IF lo <= b THEN b - lo + 1 ELSE 0
            /\ \A k \in 1..(b - lo + 1) : SubSeq(u, lo, b)[k] = u[lo + k - 1]
        BY <4>1, SubSeqProperties
      <4> QED
        BY <4>2, Zenon DEF u, lo, S
    <3> QED
      BY <3>1, <3>3, Zenon DEF Bytes
  <2>4. ASSUME NEW k \in 1..(b - a) PROVE d[k] = <<n, a + k>>
    <3> a + 1 + k - 1 = a + k /\ a + k \in 1..s
      BY <1>0, <2>1
    <3> QED
      BY <2>2, <2>3, Zenon
  <2>5. D(j) \in Bytes /\ D(j)[1][1] = n
    <3>1. D(j) = d
      BY DEF a, b
    <3> HIDE DEF d, D
    <3>2. 1 \in 1..(b - a) /\ <<n, a + 1>>[1] = n
      BY <2>1
    <3>3. d[1] = <<n, a + 1>>
      BY <2>4, <3>2, Zenon
    <3>4. d[1][1] = n
      BY <3>2, <3>3, Zenon
    <3> QED
      BY <2>3, <3>1, <3>4, Zenon
  <2>6. Part(n, a) \o D(j) = Part(n, b)
    <3> D(j) = d
      BY DEF a, b
    <3> b \in Nat /\ a <= b
      BY <2>1
    <3> HIDE DEF d, D
    <3> QED
      BY <1>0, <2>1, <2>3, <2>4, PartExtend
  <2> QED
    BY <2>5, <2>6 DEF a, b
<1> HIDE DEF D
<1>4. ASSUME NEW j \in 1..FrameCount(s)
      PROVE  /\ fs[j] \in Frames
             /\ fs[j].id = id /\ fs[j].index = j - 1 /\ fs[j].count = FrameCount(s)
             /\ fs[j].data = D(j)
  <2> fs[j] = [id |-> id, index |-> j - 1, count |-> FrameCount(s), data |-> D(j)]
    BY <1>2
  <2> D(j) \in Bytes /\ j - 1 \in Nat
    BY <1>1, <1>3
  <2> QED
    BY <1>0, <1>1 DEF Frames
<1>5. fs \in Seq(Frames) /\ Len(fs) = FrameCount(s)
  <2> HIDE DEF fs
  <2> DOMAIN fs = 1..FrameCount(s) /\ fs = [j \in 1..FrameCount(s) |-> fs[j]]
    BY <1>2
  <2> QED
    BY <1>1, <1>4
<1> QED
  BY <1>0, <1>3, <1>4, <1>5, Zenon DEF Number

(* Encoded, for the frames of message n.                                       *)
LEMMA FrameFacts ==
    ASSUME NEW n \in Positive, NEW s \in Positive, NEW j \in Places(s)
    PROVE  /\ FramesOf(n, s)[j] \in Frames /\ FramesOf(n, s)[j].id = Id(n)
           /\ FramesOf(n, s)[j].index = j - 1 /\ FramesOf(n, s)[j].count = FrameCount(s)
           /\ FramesOf(n, s)[j].data \in Bytes /\ Number(FramesOf(n, s)[j]) = n
           /\ Part(n, (j - 1) * MaxFrameData) \o FramesOf(n, s)[j].data = Part(n, Held(s, j))
<1> DEFINE id == Id(n)
<1>0. j \in 1..FrameCount(s)
  BY DEF Places
<1>1. id \in MessageIds
  BY IdSucc DEF Positive, MessageIds
<1> HIDE DEF id
<1> DEFINE fs == EncodeFrames(id, Part(n, s))
<1>2. FramesOf(n, s) = fs
  BY DEF FramesOf, id
<1>3. /\ fs \in Seq(Frames) /\ Len(fs) = FrameCount(s)
      /\ fs[j].id = id /\ fs[j].index = j - 1 /\ fs[j].count = FrameCount(s)
      /\ fs[j].data \in Bytes /\ Number(fs[j]) = n
      /\ Part(n, (j - 1) * MaxFrameData) \o fs[j].data = Part(n, Held(s, j))
  <2>1. fs \in Seq(Frames) /\ Len(fs) = FrameCount(s)
    BY <1>1, Encoded, Zenon
  <2>2. \A k \in Places(s) :
           /\ fs[k].id = id
           /\ fs[k].index = k - 1
           /\ fs[k].count = FrameCount(s)
           /\ fs[k].data \in Bytes /\ Number(fs[k]) = n
           /\ Part(n, (k - 1) * MaxFrameData) \o fs[k].data = Part(n, Held(s, k))
    BY <1>1, Encoded, Zenon
  <2> HIDE DEF fs
  <2> QED
    BY <2>1, <2>2, Zenon
<1> HIDE DEF fs
<1>4. fs[j] \in Frames
  BY <1>0, <1>3, ElementOfSeq, Zenon
<1> QED
  BY <1>2, <1>3, <1>4, Zenon DEF id

(* Sizes and numbers of the messages sent.                                     *)
LEMMA SentFacts ==
    ASSUME IscTypeOK
    PROVE  /\ Len(sent) \in Nat /\ DOMAIN sent = 1..Len(sent)
           /\ \A n \in DOMAIN sent : n \in Positive /\ sent[n] \in Positive /\ FrameCount(sent[n]) \in Positive
<1>1. sent \in Seq(HeaderSize..MaxSentSize)
  BY DEF IscTypeOK
<1>2. ASSUME NEW n \in DOMAIN sent PROVE n \in Nat \ {0} /\ sent[n] \in Nat \ {0}
  BY <1>1, SizesAssumption
<1> QED
  BY <1>1, <1>2, CountFacts DEF Positive

(* A message is never shorter than the header every body starts with.          *)
LEMMA SentSize ==
    ASSUME IscTypeOK
    PROVE  \A n \in DOMAIN sent : sent[n] >= HeaderSize
<1>1. sent \in Seq(HeaderSize..MaxSentSize)
  BY DEF IscTypeOK
<1> SUFFICES ASSUME NEW n \in DOMAIN sent PROVE sent[n] >= HeaderSize
  OBVIOUS
<1>2. sent[n] \in HeaderSize..MaxSentSize
  BY <1>1, SizesAssumption
<1> QED
  BY <1>2, SizesAssumption

(* What is on the way are frames of messages sent.                             *)
LEMMA NetFrame ==
    ASSUME IscTypeOK, NetInv, NEW i \in DOMAIN net
    PROVE  /\ Number(net[i]) \in DOMAIN sent /\ net[i].index \in Nat
           /\ net[i].index + 1 \in Places(sent[Number(net[i])])
           /\ net[i] = FramesOf(Number(net[i]), sent[Number(net[i])])[net[i].index + 1]
           /\ net[i].count = FrameCount(sent[Number(net[i])])
<1>0. PICK n \in DOMAIN sent : \E j \in Places(sent[n]) : net[i] = FramesOf(n, sent[n])[j]
  BY Zenon DEF NetInv
<1>1. PICK j \in Places(sent[n]) : net[i] = FramesOf(n, sent[n])[j]
  BY <1>0
<1>2. n \in Positive /\ sent[n] \in Positive /\ FrameCount(sent[n]) \in Positive
  BY SentFacts
<1>3. Number(net[i]) = n /\ net[i].index = j - 1 /\ net[i].count = FrameCount(sent[n])
  <2> DEFINE s == sent[n]
             f == FramesOf(n, s)[j]
  <2>1. n \in Positive /\ s \in Positive /\ j \in Places(s)
    BY <1>2
  <2> HIDE DEF s
  <2>2. Number(f) = n
    BY <2>1, FrameFacts, Zenon
  <2>3. f.index = j - 1 /\ f.count = FrameCount(s)
    BY <2>1, FrameFacts, Zenon
  <2> QED
    BY <1>1, <2>2, <2>3 DEF s
<1>4. (j - 1) + 1 = j /\ j - 1 \in Nat
  BY <1>2 DEF Places, Positive
<1> QED
  BY <1>1, <1>3, <1>4, Zenon

(* The next frame is the one of message Current at Place.                      *)
LEMMA HeadFrame ==
    ASSUME IscTypeOK, NetInv, net # <<>>
    PROVE  /\ 1 \in DOMAIN net /\ Head(net) = net[1]
           /\ Current = Number(net[1]) /\ Place = net[1].index
           /\ Current \in DOMAIN sent /\ Place + 1 \in Places(sent[Current])
           /\ Head(net) = FramesOf(Current, sent[Current])[Place + 1]
<1>1. net \in Seq(Frames)
  BY DEF IscTypeOK
<1>2. 1 \in DOMAIN net /\ Head(net) = net[1]
  BY <1>1
<1>3. Current = Number(net[1]) /\ Place = net[1].index
  BY <1>2, Zenon DEF Current, Place
<1> QED
  BY <1>2, <1>3, NetFrame, Zenon

(* Where the next frame is among the messages sent.                            *)
LEMMA CurrentFacts ==
    ASSUME IscTypeOK, NetInv
    PROVE  /\ Current \in 1..(Len(sent) + 1) /\ Place \in Nat
           /\ net = <<>> <=> Current = Len(sent) + 1
           /\ net = <<>> => Place = 0
           /\ Current \in DOMAIN sent => Place + 1 \in Places(sent[Current])
<1>1. Len(sent) \in Nat /\ DOMAIN sent = 1..Len(sent)
  BY SentFacts
<1>2. CASE net = <<>>
  BY <1>1, <1>2 DEF Current, Place
<1>3. CASE net # <<>>
  <2>1. Current \in DOMAIN sent /\ Place + 1 \in Places(sent[Current])
    BY <1>3, HeadFrame
  <2>2. Place \in Nat
    BY <1>3, HeadFrame, NetFrame
  <2> QED
    BY <1>1, <1>3, <2>1, <2>2
<1> QED
  BY <1>2, <1>3

(* The messages on the way are those from the current one on.                  *)
LEMMA WayFacts ==
    ASSUME IscTypeOK, NetInv
    PROVE  OnTheWay = Current..Len(sent)
<1>1. /\ Len(sent) \in Nat /\ DOMAIN sent = 1..Len(sent)
      /\ \A n \in DOMAIN sent : n \in Positive /\ sent[n] \in Positive /\ FrameCount(sent[n]) \in Positive
  BY SentFacts
<1>2. Current \in 1..(Len(sent) + 1) /\ Place \in Nat
  BY CurrentFacts
<1>3. ASSUME NEW i \in DOMAIN net
      PROVE  Number(net[i]) \in Current..Len(sent)
  <2>1. net # <<>> /\ i \in Nat \ {0}
    BY DEF IscTypeOK
  <2>2. 1 \in DOMAIN net /\ Current = Number(net[1])
    BY <2>1, HeadFrame
  <2>3. Number(net[i]) \in DOMAIN sent
    BY NetFrame
  <2>4. CASE i = 1
    BY <1>1, <1>2, <2>2, <2>3, <2>4
  <2>5. CASE 1 < i
    <3> Before(net[1], net[i])
      BY <2>2, <2>5 DEF NetInv
    <3> QED
      BY <1>1, <1>2, <2>2, <2>3 DEF Before
  <2> QED
    BY <2>1, <2>4, <2>5
<1>4. ASSUME NEW n \in Current..Len(sent)
      PROVE  \E i \in DOMAIN net : Number(net[i]) = n
  <2>1. n \in DOMAIN sent /\ net # <<>>
    BY <1>1, <1>2, CurrentFacts
  <2>2. CASE n = Current
    BY <2>1, <2>2, HeadFrame
  <2>3. CASE n > Current
    <3>1. 1 \in Places(sent[n])
      BY <1>1, <2>1 DEF Places, Positive
    <3>2. PICK i \in DOMAIN net : net[i] = FramesOf(n, sent[n])[1]
      BY <2>1, <2>3, <3>1 DEF NetInv
    <3>3. Number(FramesOf(n, sent[n])[1]) = n
      BY <1>1, <2>1, <3>1, FrameFacts, Zenon
    <3> QED
      BY <3>2, <3>3
  <2> QED
    BY <1>2, <2>2, <2>3
<1> QED
  BY <1>3, <1>4 DEF OnTheWay

(* A frame is told by its message and its place.                               *)
LEMMA FrameAt ==
    ASSUME IscTypeOK, NEW n \in DOMAIN sent, NEW j \in Places(sent[n]), NEW f, f = FramesOf(n, sent[n])[j]
    PROVE  Number(f) = n /\ f.index = j - 1 /\ f.count = FrameCount(sent[n]) /\ f.id = Id(n) /\ j \in Nat \ {0}
<1> DEFINE s == sent[n]
           g == FramesOf(n, s)[j]
<1>1. n \in Positive /\ s \in Positive /\ j \in Places(s) /\ FrameCount(s) \in Positive
  BY SentFacts
<1>2. f = g
  OBVIOUS
<1> HIDE DEF s
<1>3. Number(g) = n
  BY <1>1, FrameFacts, Zenon
<1>4. g.index = j - 1 /\ g.count = FrameCount(s)
  BY <1>1, FrameFacts, Zenon
<1>5. g.id = Id(n)
  BY <1>1, FrameFacts, Zenon
<1>6. j \in Nat \ {0}
  BY <1>1 DEF Places, Positive
<1> HIDE DEF g
<1> QED
  BY <1>2, <1>3, <1>4, <1>5, <1>6, Zenon DEF s

(* The frame after the next one: of the same message, or the first of the one  *)
(* that follows, if that was sent.                                             *)
LEMMA SecondFrame ==
    ASSUME IscTypeOK, NetInv, net # <<>>
    PROVE  /\ Place + 1 < FrameCount(sent[Current]) =>
                 Len(net) > 1 /\ Number(net[2]) = Current /\ net[2].index = Place + 1
           /\ Place + 1 = FrameCount(sent[Current]) /\ Len(net) > 1 =>
                 Number(net[2]) = Current + 1 /\ net[2].index = 0
           /\ Place + 1 = FrameCount(sent[Current]) /\ Len(net) = 1 => Current = Len(sent)
<1> DEFINE n == Current
           c == FrameCount(sent[n])
<1>1. /\ 1 \in DOMAIN net /\ n = Number(net[1]) /\ Place = net[1].index
      /\ n \in DOMAIN sent /\ Place + 1 \in Places(sent[n])
  BY HeadFrame
<1>2. Len(sent) \in Nat /\ DOMAIN sent = 1..Len(sent) /\ n \in Nat \ {0} /\ c \in Nat \ {0}
  BY <1>1, SentFacts DEF Positive
<1>3. Len(net) \in Nat \ {0} /\ DOMAIN net = 1..Len(net) /\ Place \in Nat /\ Place < c
  BY <1>1, <1>2, CurrentFacts DEF IscTypeOK, Places
<1>4. \A i, k \in DOMAIN net : i < k => Before(net[i], net[k])
  BY DEF NetInv
<1>5. ASSUME NEW m \in DOMAIN sent, NEW j \in Places(sent[m]), m > n \/ (m = n /\ j > Place + 1)
      PROVE  \E i \in DOMAIN net : i # 1 /\ Number(net[i]) = m /\ net[i].index = j - 1 /\ j \in Nat \ {0}
  <2>1. j \in Nat \ {0}
    BY FrameAt, Zenon
  <2>2. m > n \/ (m = n /\ j > Place)
    BY <1>3, <1>5, <2>1
  <2>3. PICK i \in DOMAIN net : net[i] = FramesOf(m, sent[m])[j]
    BY <2>2 DEF NetInv
  <2>4. Number(net[i]) = m /\ net[i].index = j - 1
    BY <2>3, FrameAt, Zenon
  <2>5. i # 1
    BY <1>1, <1>2, <1>3, <1>5, <2>1, <2>4
  <2> QED
    BY <2>1, <2>4, <2>5
<1>6. ASSUME Len(net) > 1
      PROVE  /\ 2 \in DOMAIN net /\ Number(net[2]) \in DOMAIN sent /\ net[2].index \in Nat
             /\ net[2].index < FrameCount(sent[Number(net[2])])
             /\ n < Number(net[2]) \/ (n = Number(net[2]) /\ Place < net[2].index)
  <2>1. 2 \in DOMAIN net
    BY <1>3, <1>6
  <2>2. /\ Number(net[2]) \in DOMAIN sent /\ net[2].index \in Nat
        /\ net[2].index + 1 \in Places(sent[Number(net[2])])
    BY <2>1, NetFrame, Zenon
  <2>3. Before(net[1], net[2])
    BY <1>1, <1>4, <2>1
  <2>4. FrameCount(sent[Number(net[2])]) \in Nat
    BY <2>2, SentFacts DEF Positive
  <2> QED
    BY <1>1, <2>1, <2>2, <2>3, <2>4 DEF Before, Places
<1> HIDE DEF n, c
<1>7. ASSUME NEW i \in DOMAIN net, i # 1
      PROVE  Len(net) > 1 /\ (i = 2 \/ Before(net[2], net[i]))
  BY <1>3, <1>4, <1>7
<1>8. ASSUME Place + 1 < c
      PROVE  Len(net) > 1 /\ Number(net[2]) = n /\ net[2].index = Place + 1
  <2>1. Place + 2 \in Places(sent[n])
    BY <1>2, <1>3, <1>8 DEF Places, c
  <2>2. n = n /\ Place + 2 > Place + 1
    BY <1>3
  <2>3. PICK i \in DOMAIN net : i # 1 /\ Number(net[i]) = n /\ net[i].index = (Place + 2) - 1
    BY <1>1, <1>5, <2>1, <2>2, Zenon DEF n
  <2>4. net[i].index = Place + 1
    BY <1>3, <2>3
  <2> QED
    BY <1>2, <1>3, <1>6, <1>7, <2>3, <2>4 DEF Before
<1>9. ASSUME Place + 1 = c, Len(net) > 1
      PROVE  Number(net[2]) = n + 1 /\ net[2].index = 0
  <2>1. n < Number(net[2])
    BY <1>3, <1>6, <1>9 DEF c
  <2>2. n + 1 \in DOMAIN sent /\ n + 1 > n
    BY <1>2, <1>6, <1>9, <2>1
  <2>3. 1 \in Places(sent[n + 1])
    BY <2>2, SentFacts DEF Places, Positive
  <2>4. PICK i \in DOMAIN net : i # 1 /\ Number(net[i]) = n + 1 /\ net[i].index = 1 - 1
    BY <1>5, <2>2, <2>3, Zenon DEF n
  <2> QED
    BY <1>2, <1>6, <1>7, <1>9, <2>1, <2>4 DEF Before
<1>10. ASSUME Place + 1 = c, Len(net) = 1
       PROVE  n = Len(sent)
  <2> SUFFICES ASSUME n # Len(sent) PROVE FALSE
    OBVIOUS
  <2>2. n + 1 \in DOMAIN sent /\ n + 1 > n
    BY <1>1, <1>2 DEF n
  <2>3. 1 \in Places(sent[n + 1])
    BY <2>2, SentFacts DEF Places, Positive
  <2>4. \E i \in DOMAIN net : i # 1
    BY <1>5, <2>2, <2>3, Zenon DEF n
  <2> QED
    BY <1>3, <1>10, <2>4
<1> QED
  BY <1>8, <1>9, <1>10 DEF n, c

(* A frame that leaves the channel makes the one after it the next.            *)
LEMMA Advance ==
    ASSUME IscTypeOK, NetInv, net # <<>>, net' = Tail(net), UNCHANGED <<sent, nextMessageId>>
    PROVE  /\ NetInv' /\ net' \in Seq(Frames)
           /\ Place + 1 < FrameCount(sent[Current]) => Current' = Current /\ Place' = Place + 1
           /\ Place + 1 = FrameCount(sent[Current]) => Current' = Current + 1 /\ Place' = 0
           /\ Place + 1 <= FrameCount(sent[Current])
<1> DEFINE n == Current
           c == FrameCount(sent[n])
<1>1. /\ 1 \in DOMAIN net /\ n = Number(net[1]) /\ Place = net[1].index
      /\ n \in DOMAIN sent /\ Place + 1 \in Places(sent[n])
  BY HeadFrame
<1>2. Len(sent) \in Nat /\ DOMAIN sent = 1..Len(sent) /\ n \in Nat \ {0} /\ c \in Nat \ {0}
  BY <1>1, SentFacts DEF Positive
<1>3. Place \in Nat /\ Place < c
  BY <1>1, <1>2, CurrentFacts DEF Places
<1>4. /\ net' \in Seq(Frames) /\ Len(net') = Len(net) - 1 /\ DOMAIN net' = 1..(Len(net) - 1)
      /\ Len(net) \in Nat \ {0} /\ DOMAIN net = 1..Len(net)
      /\ \A i \in DOMAIN net' : net'[i] = net[i + 1]
      /\ net' # <<>> => Head(net') = net[2] /\ Len(net) > 1
      /\ net' = <<>> => Len(net) = 1
  <2>1. net \in Seq(Frames) /\ Len(net) \in Nat \ {0} /\ DOMAIN net = 1..Len(net)
    BY DEF IscTypeOK
  <2>2. /\ net' \in Seq(Frames) /\ Len(net') = Len(net) - 1
        /\ \A i \in 1..Len(net') : net'[i] = net[i + 1]
    BY <2>1, HeadTailProperties
  <2>3. DOMAIN net' = 1..Len(net')
    BY <2>2
  <2>4. net' # <<>> => Head(net') = net'[1] /\ 1 \in 1..Len(net')
    BY <2>2
  <2>5. net' = <<>> => Len(net') = 0
    OBVIOUS
  <2> QED
    BY <2>1, <2>2, <2>3, <2>4, <2>5
<1>5. \A i \in DOMAIN net' : i + 1 \in DOMAIN net /\ i \in Nat
  BY <1>4
<1>6. Place + 1 < c => Current' = n /\ Place' = Place + 1
  <2> SUFFICES ASSUME Place + 1 < c PROVE Current' = n /\ Place' = Place + 1
    OBVIOUS
  <2>1. Len(net) > 1 /\ Number(net[2]) = n /\ net[2].index = Place + 1
    BY SecondFrame
  <2>2. net' # <<>> /\ Head(net') = net[2]
    BY <1>4, <2>1
  <2>3. Current' = Number(Head(net')) /\ Place' = Head(net').index
    BY <2>2, Zenon DEF Current, Place, Number
  <2> QED
    BY <2>1, <2>2, <2>3, Zenon
<1>7. Place + 1 = c => Current' = n + 1 /\ Place' = 0
  <2> SUFFICES ASSUME Place + 1 = c PROVE Current' = n + 1 /\ Place' = 0
    OBVIOUS
  <2>1. CASE net' = <<>>
    <3>1. n = Len(sent)
      BY <1>4, <2>1, SecondFrame
    <3>2. Current' = Len(sent') + 1 /\ Place' = 0
      BY <2>1 DEF Current, Place
    <3> QED
      BY <3>1, <3>2
  <2>2. CASE net' # <<>>
    <3>1. Len(net) > 1 /\ Head(net') = net[2]
      BY <1>4, <2>2
    <3>2. Number(net[2]) = n + 1 /\ net[2].index = 0
      BY <3>1, SecondFrame
    <3>3. Current' = Number(Head(net')) /\ Place' = Head(net').index
      BY <2>2, Zenon DEF Current, Place, Number
    <3> QED
      BY <3>1, <3>2, <3>3, Zenon
  <2> QED
    BY <2>1, <2>2
<1> HIDE DEF n, c
<1>8. /\ (nextMessageId = Id(Len(sent) + 1))'
      /\ \A i \in DOMAIN net' : \E m \in DOMAIN sent : \E j \in Places(sent[m]) : net'[i] = FramesOf(m, sent[m])[j]
  <2>1. nextMessageId = Id(Len(sent) + 1)
    BY DEF NetInv
  <2>2. \A i \in DOMAIN net : \E m \in DOMAIN sent : \E j \in Places(sent[m]) : net[i] = FramesOf(m, sent[m])[j]
    BY DEF NetInv
  <2> QED
    BY <1>4, <1>5, <2>1, <2>2
<1>9. \A i, k \in DOMAIN net' : i < k => Before(net'[i], net'[k])
  <2> SUFFICES ASSUME NEW i \in DOMAIN net', NEW k \in DOMAIN net', i < k
               PROVE  Before(net'[i], net'[k])
    OBVIOUS
  <2>1. i + 1 \in DOMAIN net /\ k + 1 \in DOMAIN net /\ i + 1 < k + 1
    BY <1>5
  <2>2. Before(net[i + 1], net[k + 1])
    BY <2>1 DEF NetInv
  <2> QED
    BY <1>4, <2>2
<1>10. ASSUME NEW m \in DOMAIN sent, NEW j \in Places(sent[m]), m > Current' \/ (m = Current' /\ j > Place')
       PROVE  \E i \in DOMAIN net' : net'[i] = FramesOf(m, sent[m])[j]
  <2>1. j \in Nat \ {0} /\ m \in Nat
    <3>1. j \in Nat \ {0}
      BY FrameAt, Zenon
    <3> QED
      BY <1>2, <3>1
  <2>2. m > n \/ (m = n /\ j > Place + 1)
    <3>1. CASE Place + 1 < c
      BY <1>2, <1>3, <1>6, <1>10, <2>1, <3>1
    <3>2. CASE Place + 1 = c
      BY <1>2, <1>3, <1>7, <1>10, <2>1, <3>2
    <3> QED
      BY <1>2, <1>3, <3>1, <3>2
  <2>3. PICK i \in DOMAIN net : net[i] = FramesOf(m, sent[m])[j]
    <3> m > Current \/ (m = Current /\ j > Place)
      BY <1>3, <2>1, <2>2 DEF n
    <3> QED
      BY DEF NetInv
  <2>4. Number(net[i]) = m /\ net[i].index = j - 1
    BY <2>3, FrameAt, Zenon
  <2>5. i # 1
    BY <1>1, <1>2, <1>3, <2>1, <2>2, <2>4 DEF n
  <2>6. i - 1 \in DOMAIN net' /\ (i - 1) + 1 = i
    BY <1>4, <2>5
  <2> QED
    BY <1>4, <2>3, <2>6
<1>11. NetInv'
  BY <1>8, <1>9, <1>10 DEF NetInv, Before, Number
<1> QED
  BY <1>2, <1>3, <1>4, <1>6, <1>7, <1>11 DEF n, c

(* The frames of a message are a sequence of frames.                           *)
LEMMA FramesSeq ==
    ASSUME NEW n \in Positive, NEW s \in Positive
    PROVE  FramesOf(n, s) \in Seq(Frames) /\ Len(FramesOf(n, s)) = FrameCount(s)
<1> DEFINE id == Id(n)
<1>1. id \in MessageIds
  BY IdSucc DEF Positive, MessageIds
<1> HIDE DEF id
<1>2. EncodeFrames(id, Part(n, s)) \in Seq(Frames) /\ Len(EncodeFrames(id, Part(n, s))) = FrameCount(s)
  BY <1>1, Encoded, Zenon
<1> QED
  BY <1>2 DEF FramesOf, id

(* A message is sent: its frames are put behind the others.                    *)
LEMMA Sends ==
    ASSUME IscTypeOK, NetInv, NEW size \in HeaderSize..MaxSentSize, SendIscPacket(size)
    PROVE  /\ NetInv' /\ net' \in Seq(Frames) /\ Current' = Current /\ Place' = Place
           /\ nextMessageId' \in 0..(IdSpace - 1)
           /\ sent' \in Seq(HeaderSize..MaxSentSize) /\ Len(sent') = Len(sent) + 1
           /\ \A n \in DOMAIN sent : n \in DOMAIN sent' /\ sent'[n] = sent[n]
<1> DEFINE new == Len(sent) + 1
           fs == FramesOf(new, size)
           l == Len(net)
<1>1. /\ Len(sent) \in Nat /\ DOMAIN sent = 1..Len(sent) /\ new \in Positive /\ size \in Positive
      /\ new \in Nat \ {0} /\ FrameCount(size) \in Nat \ {0}
  BY SentFacts, SizesAssumption, CountFacts DEF Positive
<1>2. /\ sent' \in Seq(HeaderSize..MaxSentSize) /\ Len(sent') = new /\ sent'[new] = size
      /\ DOMAIN sent' = 1..new
      /\ \A n \in DOMAIN sent : n \in DOMAIN sent' /\ sent'[n] = sent[n]
  BY DEF SendIscPacket, IscTypeOK
<1>3. nextMessageId = Id(new) /\ nextMessageId' = Id(new + 1) /\ nextMessageId' \in 0..(IdSpace - 1)
  BY <1>1, IdSucc DEF NetInv, SendIscPacket
<1>4. net' = net \o fs
  BY <1>3 DEF SendIscPacket, FramesOf
<1>5. fs \in Seq(Frames) /\ Len(fs) = FrameCount(size)
  BY <1>1, FramesSeq, Zenon
<1>6. net \in Seq(Frames) /\ l \in Nat /\ DOMAIN net = 1..l
  BY DEF IscTypeOK
<1>7. ASSUME NEW j \in Places(size)
      PROVE  Number(fs[j]) = new /\ fs[j].index = j - 1 /\ j \in 1..FrameCount(size)
  <2>1. Number(fs[j]) = new
    BY <1>1, FrameFacts, Zenon
  <2>2. fs[j].index = j - 1
    BY <1>1, FrameFacts, Zenon
  <2> QED
    BY <2>1, <2>2 DEF Places
<1> HIDE DEF fs, new, l
<1>8. /\ net' \in Seq(Frames) /\ DOMAIN net' = 1..(l + FrameCount(size))
      /\ \A i \in DOMAIN net : i \in DOMAIN net' /\ net'[i] = net[i]
      /\ \A j \in Places(size) : l + j \in DOMAIN net' /\ net'[l + j] = fs[j]
      /\ \A i \in DOMAIN net' : i \in DOMAIN net \/ (i - l \in Places(size) /\ net'[i] = fs[i - l] /\ i > l)
  <2>1. /\ net \o fs \in Seq(Frames) /\ Len(net \o fs) = Len(net) + Len(fs)
        /\ \A i \in 1..(Len(net) + Len(fs)) :
              (net \o fs)[i] = IF i <= Len(net) THEN net[i] ELSE fs[i - Len(net)]
    BY <1>5, <1>6, ConcatProperties
  <2>2. /\ net' \in Seq(Frames) /\ Len(net') = l + FrameCount(size)
        /\ \A i \in 1..(l + FrameCount(size)) : net'[i] = IF i <= l THEN net[i] ELSE fs[i - l]
    BY <1>4, <1>5, <2>1 DEF l
  <2>3. DOMAIN net' = 1..(l + FrameCount(size))
    BY <2>2
  <2>4. ASSUME NEW j \in Places(size)
        PROVE  l + j \in DOMAIN net' /\ net'[l + j] = fs[j]
    <3> l + j \in 1..(l + FrameCount(size)) /\ ~(l + j <= l) /\ (l + j) - l = j
      BY <1>1, <1>6 DEF Places
    <3> QED
      BY <2>2, <2>3
  <2>5. ASSUME NEW i \in DOMAIN net
        PROVE  i \in DOMAIN net' /\ net'[i] = net[i]
    BY <1>1, <1>6, <2>2, <2>3
  <2>6. ASSUME NEW i \in DOMAIN net', i \notin DOMAIN net
        PROVE  i - l \in Places(size) /\ net'[i] = fs[i - l] /\ i > l
    BY <1>1, <1>6, <2>2, <2>3, <2>6 DEF Places
  <2> QED
    BY <2>2, <2>3, <2>4, <2>5, <2>6
<1>9. Current' = Current /\ Place' = Place
  <2>1. net' # <<>> /\ Head(net') = net'[1]
    BY <1>1, <1>6, <1>8
  <2>2. Current' = Number(net'[1]) /\ Place' = net'[1].index
    BY <2>1, Zenon DEF Current, Place, Number
  <2>3. CASE net = <<>>
    <3>1. Current = new /\ Place = 0 /\ l = 0
      BY <2>3 DEF Current, Place, new, l
    <3>2. 1 \in Places(size) /\ 0 + 1 = 1
      BY <1>1 DEF Places
    <3>3. net'[1] = fs[1]
      BY <1>8, <3>1, <3>2
    <3> QED
      BY <1>7, <2>2, <3>1, <3>2, <3>3
  <2>4. CASE net # <<>>
    <3>1. 1 \in DOMAIN net /\ Current = Number(net[1]) /\ Place = net[1].index
      BY <2>4, HeadFrame
    <3> QED
      BY <1>8, <2>2, <3>1
  <2> QED
    BY <2>3, <2>4
<1>10. \A i \in DOMAIN net' : \E n \in DOMAIN sent' : \E j \in Places(sent'[n]) : net'[i] = FramesOf(n, sent'[n])[j]
  <2> TAKE i \in DOMAIN net'
  <2>1. CASE i \in DOMAIN net
    <3>1. PICK n \in DOMAIN sent : \E j \in Places(sent[n]) : net[i] = FramesOf(n, sent[n])[j]
      BY <2>1 DEF NetInv
    <3>2. n \in DOMAIN sent' /\ sent'[n] = sent[n] /\ net'[i] = net[i]
      BY <1>2, <1>8, <2>1
    <3> QED
      BY <3>1, <3>2
  <2>2. CASE i \notin DOMAIN net
    <3>1. i - l \in Places(size) /\ net'[i] = fs[i - l]
      BY <1>8, <2>2
    <3>2. new \in DOMAIN sent' /\ sent'[new] = size
      BY <1>1, <1>2
    <3> QED
      BY <3>1, <3>2 DEF fs
  <2> QED
    BY <2>1, <2>2
<1>11. \A i, k \in DOMAIN net' : i < k => Before(net'[i], net'[k])
  <2> SUFFICES ASSUME NEW i \in DOMAIN net', NEW k \in DOMAIN net', i < k
               PROVE  Before(net'[i], net'[k])
    OBVIOUS
  <2>1. CASE k \in DOMAIN net
    <3> i \in DOMAIN net
      BY <1>6, <1>8, <2>1
    <3> Before(net[i], net[k])
      BY <2>1 DEF NetInv
    <3> QED
      BY <1>8, <2>1
  <2>2. CASE k \notin DOMAIN net /\ i \in DOMAIN net
    <3>1. Number(net'[k]) = new
      BY <1>7, <1>8, <2>2
    <3>2. Number(net'[i]) \in DOMAIN sent
      <4> Number(net[i]) \in DOMAIN sent
        BY <2>2, NetFrame
      <4> QED
        BY <1>8, <2>2
    <3> QED
      BY <1>1, <3>1, <3>2 DEF Before, new
  <2>3. CASE k \notin DOMAIN net /\ i \notin DOMAIN net
    <3>1. Number(net'[k]) = new /\ net'[k].index = (k - l) - 1
      BY <1>7, <1>8, <2>3
    <3>2. Number(net'[i]) = new /\ net'[i].index = (i - l) - 1
      BY <1>7, <1>8, <2>3
    <3> QED
      BY <1>6, <1>8, <3>1, <3>2 DEF Before
  <2> QED
    BY <2>1, <2>2, <2>3
<1>12. ASSUME NEW n \in DOMAIN sent', NEW j \in Places(sent'[n]), n > Current' \/ (n = Current' /\ j > Place')
       PROVE  \E i \in DOMAIN net' : net'[i] = FramesOf(n, sent'[n])[j]
  <2>1. CASE n \in DOMAIN sent
    <3>1. n > Current \/ (n = Current /\ j > Place)
      BY <1>9, <1>12
    <3>2. j \in Places(sent[n]) /\ sent'[n] = sent[n]
      BY <1>2, <2>1
    <3>3. PICK i \in DOMAIN net : net[i] = FramesOf(n, sent[n])[j]
      BY <2>1, <3>1, <3>2 DEF NetInv
    <3> QED
      BY <1>8, <3>2, <3>3
  <2>2. CASE n \notin DOMAIN sent
    <3>1. n = new /\ sent'[n] = size
      BY <1>1, <1>2, <2>2 DEF new
    <3> QED
      BY <1>8, <3>1 DEF fs
  <2> QED
    BY <2>1, <2>2
<1>13. NetInv'
  <2> (nextMessageId = Id(Len(sent) + 1))'
    BY <1>2, <1>3
  <2> QED
    BY <1>10, <1>11, <1>12 DEF NetInv, Before, Number
<1> QED
  BY <1>2, <1>3, <1>8, <1>9, <1>13 DEF new

-----------------------------------------------------------------------------
(* The inductive invariant of the protocol.                                    *)
IscInv == IscTypeOK /\ NetInv /\ FeedInv /\ HistoryInv /\ ExactlyIntactMessages

(* The next frame continues what is being put together exactly when nothing of *)
(* its message was lost and the limit was not exceeded, and then it completes  *)
(* the beginning of that message.                                              *)
LEMMA NextFrame ==
    ASSUME IscTypeOK, NetInv, FeedInv, HistoryInv, net # <<>>
    PROVE  /\ Head(net) \in Frames /\ Head(net).id = Id(Current) /\ Head(net).index = Place
           /\ Head(net).count = FrameCount(sent[Current]) /\ Number(Head(net)) = Current
           /\ Continues(Head(net)) =>
                 Current \notin broken /\ Gathered(Head(net)) = Part(Current, Held(sent[Current], Place + 1))
           /\ ~Continues(Head(net)) => Place > 0 /\ (Current \in broken \/ sent[Current] > MaxMessageSize)
<1> DEFINE f == Head(net)
           n == Current
           s == sent[n]
           j == Place + 1
<1>1. n \in DOMAIN sent /\ j \in Places(s) /\ f = FramesOf(n, s)[j]
  BY HeadFrame
<1>2. n \in Positive /\ s \in Positive /\ FrameCount(s) \in Positive
  BY <1>1, SentFacts
<1>3. Place \in Nat /\ (Place + 1) - 1 = Place
  BY CurrentFacts
<1> HIDE DEF f, n, s
<1>4. f \in Frames /\ f.id = Id(n) /\ f.index = Place /\ f.count = FrameCount(s) /\ Number(f) = n /\ f.data \in Bytes
  <2> DEFINE g == FramesOf(n, s)[j]
  <2> HIDE DEF j
  <2>1. g \in Frames /\ g.id = Id(n)
    BY <1>1, <1>2, FrameFacts, Zenon
  <2>2. g.index = j - 1 /\ g.count = FrameCount(s)
    BY <1>1, <1>2, FrameFacts, Zenon
  <2>3. Number(g) = n /\ g.data \in Bytes
    BY <1>1, <1>2, FrameFacts, Zenon
  <2> HIDE DEF g
  <2>4. f = g
    BY <1>1 DEF g
  <2> QED
    BY <1>3, <2>1, <2>2, <2>3, <2>4 DEF j
<1>5. Part(n, Place * MaxFrameData) \o f.data = Part(n, Held(s, j))
  <2> DEFINE g == FramesOf(n, s)[j]
  <2> HIDE DEF j
  <2>1. Part(n, (j - 1) * MaxFrameData) \o g.data = Part(n, Held(s, j))
    BY <1>1, <1>2, FrameFacts, Zenon
  <2>2. f = g
    BY <1>1 DEF g
  <2>3. j - 1 = Place
    BY <1>3 DEF j
  <2> HIDE DEF g
  <2> QED
    BY <2>1, <2>2, <2>3
<1>6. CASE Place = 0
  <2>1. Continues(f)
    BY <1>2, <1>4, <1>6 DEF Continues, Positive
  <2>2. n \notin broken
    BY <1>2, <1>6 DEF HistoryInv, n, Positive
  <2>3. Gathered(f) = <<>> \o f.data
    BY <1>4, <1>6 DEF Gathered
  <2>4. Place * MaxFrameData = 0
    BY <1>6, SizesAssumption
  <2>5. Part(n, 0) = <<>>
    <3>1. Part(n, 0) \in Bytes /\ Len(Part(n, 0)) = 0
      BY <1>2, PartSeq DEF Positive
    <3> QED
      BY <3>1 DEF Bytes
  <2>6. Gathered(f) = Part(n, Held(s, j))
    BY <1>5, <2>3, <2>4, <2>5, Zenon
  <2> QED
    BY <1>4, <2>1, <2>2, <2>6, Zenon DEF f, n, s
<1>7. CASE Place # 0
  <2>0. Place > 0
    BY <1>3, <1>7
  <2>1. CASE count = 0
    <3>1. ~Continues(f)
      BY <1>4, <1>7, <2>1, Zenon DEF Continues
    <3>2. n \in broken \/ s > MaxMessageSize
      BY <2>0, <2>1 DEF FeedInv, n, s
    <3> QED
      BY <1>4, <2>0, <3>1, <3>2, Zenon DEF f, n, s
  <2>2. CASE count # 0
    <3>1. PICK m \in DOMAIN sent : InProgress(m)
      BY <2>2, Zenon DEF FeedInv
    <3>2. m \in Nat \ {0} /\ n \in Nat \ {0}
      BY <1>2, <3>1, SentFacts DEF Positive
    <3>3. CASE m < n
      <4>1. n - m <= MaxBurst + 1 /\ n \in broken /\ messageId = Id(m)
        BY <2>0, <3>1, <3>3 DEF InProgress, n
      <4>2. Id(m) # Id(n)
        BY <3>2, <3>3, <4>1, IdsDiffer
      <4>3. ~Continues(f)
        BY <1>4, <1>7, <4>1, <4>2, Zenon DEF Continues
      <4> QED
        BY <1>4, <2>0, <4>1, <4>3, Zenon DEF f, n, s
    <3>4. CASE m = n
      <4>1. /\ messageId = Id(n) /\ count = FrameCount(s) /\ nextIndex <= Place
            /\ n \in broken <=> nextIndex < Place
            /\ data = Part(n, nextIndex * MaxFrameData) /\ nextIndex \in Nat
        BY <3>1, <3>4, Zenon DEF InProgress, n, s, IscTypeOK
      <4>2. CASE nextIndex = Place
        <5>1. n \notin broken
          BY <1>3, <4>1, <4>2
        <5>2. Continues(f)
          BY <1>4, <1>7, <2>2, <4>1, <4>2, Zenon DEF Continues
        <5>3. Gathered(f) = Part(n, Place * MaxFrameData) \o f.data
          BY <1>4, <1>7, <4>1, <4>2, Zenon DEF Gathered
        <5> QED
          BY <1>4, <1>5, <5>1, <5>2, <5>3, Zenon DEF f, n, s
      <4>3. CASE nextIndex # Place
        <5>1. n \in broken
          BY <1>3, <4>1, <4>3
        <5>2. ~Continues(f)
          BY <1>4, <1>7, <4>3, Zenon DEF Continues
        <5> QED
          BY <1>4, <2>0, <5>1, <5>2, Zenon DEF f, n, s
      <4> QED
        BY <4>2, <4>3
    <3>5. m <= n
      BY <3>1 DEF InProgress, n
    <3> QED
      BY <3>2, <3>3, <3>4, <3>5
  <2> QED
    BY <2>1, <2>2
<1> QED
  BY <1>6, <1>7

(* The messages that are behind, were not broken and are not too long.         *)
IntactAre ==
    \A n : n \in Intact <=> n \in DOMAIN sent /\ n < Current /\ n \notin broken /\ sent[n] <= MaxMessageSize

(* The intact messages are those before the current one.                       *)
LEMMA IntactFacts == IscTypeOK /\ NetInv => IntactAre
<1> SUFFICES ASSUME IscTypeOK, NetInv PROVE IntactAre
  OBVIOUS
<1>1. OnTheWay = Current..Len(sent) /\ DOMAIN sent = 1..Len(sent) /\ Len(sent) \in Nat
  BY WayFacts, SentFacts
<1>2. Current \in 1..(Len(sent) + 1)
  BY CurrentFacts
<1> QED
  BY <1>1, <1>2 DEF Intact, IntactAre

(* The same after a step.                                                      *)
LEMMA IntactNext == IscTypeOK' /\ NetInv' => IntactAre'
  BY IntactFacts, PTL

(* The number of a message can be read off its first byte.                     *)
LEMMA MessageNumber ==
    ASSUME IscTypeOK, NEW n \in DOMAIN sent
    PROVE  Message(n)[1][1] = n /\ Message(n) \in Bytes /\ Len(Message(n)) = sent[n]
<1>1. n \in Nat /\ sent[n] \in Nat \ {0}
  BY SentFacts DEF Positive
<1> DEFINE s == sent[n]
<1>2. Part(n, s) \in Bytes /\ Len(Part(n, s)) = s /\ \A k \in 1..s : Part(n, s)[k] = <<n, k>>
  BY <1>1, PartSeq
<1>3. 1 \in 1..s
  BY <1>1
<1> HIDE DEF s
<1>4. Part(n, s)[1] = <<n, 1>>
  BY <1>2, <1>3, Zenon
<1>5. Part(n, s)[1][1] = n
  BY <1>4
<1> QED
  BY <1>2, <1>5 DEF Message, s

(* What was delivered is unaffected while the same messages are intact.        *)
LEMMA ExactKept ==
    ASSUME ExactlyIntactMessages, UNCHANGED delivered,
           \A n : n \in Intact' <=> n \in Intact, \A n \in Intact : sent'[n] = sent[n]
    PROVE  ExactlyIntactMessages'
<1>1. \A n \in Intact : Message(n)' = Message(n)
  BY DEF Message, Part
<1>2. \A k \in DOMAIN delivered : \E n \in Intact : delivered[k] = Message(n)
  BY DEF ExactlyIntactMessages
<1>3. \A n \in Intact : \E k \in DOMAIN delivered : delivered[k] = Message(n)
  BY DEF ExactlyIntactMessages
<1>4. \A k \in DOMAIN delivered' : \E n \in Intact' : delivered'[k] = Message(n)'
  BY <1>1, <1>2
<1>5. \A n \in Intact' : \E k \in DOMAIN delivered' : delivered'[k] = Message(n)'
  BY <1>1, <1>3
<1> QED
  BY <1>4, <1>5 DEF ExactlyIntactMessages

(* A message that was completed is appended to those before it.                *)
LEMMA ExactAppended ==
    ASSUME IscTypeOK, NetInv, ExactlyIntactMessages, UNCHANGED sent, Current \in DOMAIN sent,
           delivered' = Append(delivered, Message(Current)),
           \A n : n \in Intact' <=> n \in Intact \/ n = Current
    PROVE  ExactlyIntactMessages'
<1> DEFINE c == Current
           l == Len(delivered)
<1>1. delivered \in Seq(Bytes) /\ l \in Nat /\ DOMAIN delivered = 1..l
  BY DEF IscTypeOK
<1>2. Message(c) \in Bytes /\ Message(c)[1][1] = c /\ c \in Nat
  BY MessageNumber, SentFacts DEF Positive
<1>3. \A n : Message(n)' = Message(n)
  BY DEF Message, Part
<1> DEFINE d == Message(c)
<1> HIDE DEF c, l, d
<1>4. /\ DOMAIN delivered' = 1..(l + 1) /\ delivered'[l + 1] = d
      /\ \A k \in 1..l : delivered'[k] = delivered[k]
  BY <1>1, <1>2 DEF c, l, d
<1>5. \A k \in 1..l : \E n \in Intact : delivered[k] = Message(n)
  BY <1>1, Zenon DEF ExactlyIntactMessages
<1>6. \A n \in Intact : \E k \in 1..l : delivered[k] = Message(n)
  BY <1>1, Zenon DEF ExactlyIntactMessages
<1>7. \A k \in DOMAIN delivered' : \E n \in Intact' : delivered'[k] = Message(n)'
  <2> TAKE k \in DOMAIN delivered'
  <2>1. CASE k \in 1..l
    <3>1. PICK n \in Intact : delivered[k] = Message(n)
      BY <1>5, <2>1
    <3>2. n \in Intact' /\ delivered'[k] = Message(n)'
      BY <1>3, <1>4, <2>1, <3>1, Zenon
    <3> QED
      BY <3>2
  <2>2. CASE k = l + 1
    <3>1. PICK n : n = c
      OBVIOUS
    <3>2. n \in Intact' /\ delivered'[k] = Message(n)'
      BY <1>3, <1>4, <2>2, <3>1 DEF c, d
    <3> QED
      BY <3>2
  <2> QED
    BY <1>1, <1>4, <2>1, <2>2
<1>8. \A n \in Intact' : \E k \in DOMAIN delivered' : delivered'[k] = Message(n)'
  <2> TAKE n \in Intact'
  <2>1. CASE n \in Intact
    <3>1. PICK k \in 1..l : delivered[k] = Message(n)
      BY <1>6, <2>1
    <3>2. k \in DOMAIN delivered' /\ delivered'[k] = Message(n)'
      BY <1>1, <1>3, <1>4, <3>1
    <3> QED
      BY <3>2
  <2>2. CASE n = c
    <3>1. l + 1 \in DOMAIN delivered' /\ delivered'[l + 1] = Message(n)'
      BY <1>1, <1>3, <1>4, <2>2 DEF d
    <3> QED
      BY <3>1
  <2> QED
    BY <2>1, <2>2 DEF c
<1>9. ASSUME NEW k \in 1..l
      PROVE  delivered[k][1][1] < c
  <2>1. PICK n \in Intact : delivered[k] = Message(n)
    BY <1>5
  <2>2. n \in DOMAIN sent /\ n < c
    BY IntactFacts DEF IntactAre, c
  <2>3. Message(n)[1][1] = n
    BY <2>2, MessageNumber
  <2> QED
    BY <2>1, <2>2, <2>3
<1>10. \A i, k \in DOMAIN delivered' : i < k => delivered'[i][1][1] < delivered'[k][1][1]
  <2> SUFFICES ASSUME NEW i \in DOMAIN delivered', NEW k \in DOMAIN delivered', i < k
               PROVE  delivered'[i][1][1] < delivered'[k][1][1]
    OBVIOUS
  <2>1. i \in 1..l
    BY <1>1, <1>4
  <2>2. CASE k = l + 1
    <3>1. delivered'[k] = d
      BY <1>4, <2>2
    <3>2. d[1][1] = c
      BY <1>2 DEF d
    <3>3. delivered'[i] = delivered[i] /\ delivered[i][1][1] < c
      BY <1>4, <1>9, <2>1
    <3>4. delivered'[k][1][1] = c /\ delivered'[i][1][1] = delivered[i][1][1]
      BY <3>1, <3>2, <3>3
    <3> QED
      BY <3>3, <3>4
  <2>3. CASE k \in 1..l
    <3>1. delivered'[k] = delivered[k] /\ delivered'[i] = delivered[i]
      BY <1>4, <2>1, <2>3
    <3>2. delivered[i][1][1] < delivered[k][1][1]
      BY <1>1, <2>1, <2>3, Zenon DEF ExactlyIntactMessages
    <3> QED
      BY <3>1, <3>2, Zenon
  <2> QED
    BY <1>1, <1>4, <2>2, <2>3
<1> QED
  BY <1>7, <1>8, <1>10 DEF ExactlyIntactMessages

-----------------------------------------------------------------------------
(* Sending puts all frames of the new message behind those on the way.         *)
LEMMA SendKeeps ==
    ASSUME IscInv, NEW size \in HeaderSize..MaxSentSize, SendIscPacket(size)
    PROVE  IscInv'
<1> USE DEF IscInv
<1>1. /\ NetInv' /\ net' \in Seq(Frames) /\ Current' = Current /\ Place' = Place
      /\ nextMessageId' \in 0..(IdSpace - 1)
      /\ sent' \in Seq(HeaderSize..MaxSentSize) /\ Len(sent') = Len(sent) + 1
      /\ \A n \in DOMAIN sent : n \in DOMAIN sent' /\ sent'[n] = sent[n]
  BY Sends
<1>2. UNCHANGED <<messageId, nextIndex, count, data, delivered, broken, seen, garbage>>
  BY DEF SendIscPacket, reassembler
<1>3. IscTypeOK'
  <2>1. broken \subseteq DOMAIN sent' /\ seen \subseteq DOMAIN sent'
    BY <1>1 DEF IscTypeOK
  <2> QED
    BY <1>1, <1>2, <2>1 DEF IscTypeOK
<1>4. Current \in 1..(Len(sent) + 1) /\ (Place > 0 => Current \in DOMAIN sent)
  BY CurrentFacts, SentFacts
<1>5. FeedInv'
  <2>1. ASSUME count' # 0
        PROVE  \E m \in DOMAIN sent' : InProgress(m)'
    <3>1. PICK m \in DOMAIN sent : InProgress(m)
      BY <1>2, <2>1 DEF FeedInv
    <3>2. m \in DOMAIN sent' /\ sent'[m] = sent[m]
      BY <1>1
    <3>3. InProgress(m)'
      BY <1>1, <1>2, <3>1, <3>2 DEF InProgress, Part, Id, FrameCount
    <3> QED
      BY <3>2, <3>3
  <2>2. ASSUME count' = 0, Place' > 0, Current' \notin broken'
        PROVE  sent'[Current'] > MaxMessageSize
    <3>1. Current \in DOMAIN sent /\ sent[Current] > MaxMessageSize
      BY <1>1, <1>2, <1>4, <2>2 DEF FeedInv
    <3> QED
      BY <1>1, <3>1
  <2> QED
    BY <2>1, <2>2 DEF FeedInv
<1>6. HistoryInv'
  BY <1>1, <1>2 DEF HistoryInv
<1>7. \A n : n \in Intact' <=> n \in Intact
  <2>1. \A n : n \in Intact <=> n \in DOMAIN sent /\ n < Current /\ n \notin broken /\ sent[n] <= MaxMessageSize
    BY IntactFacts DEF IntactAre
  <2>2. \A n : n \in Intact' <=> n \in DOMAIN sent' /\ n < Current' /\ n \notin broken' /\ sent'[n] <= MaxMessageSize
    BY <1>1, <1>3, IntactNext DEF IntactAre
  <2>3. \A n : n \in DOMAIN sent' /\ n < Current => n \in DOMAIN sent
    BY <1>1, <1>4, SentFacts
  <2> QED
    BY <1>1, <1>2, <2>1, <2>2, <2>3
<1>8. ExactlyIntactMessages'
  <2> \A n \in Intact : sent'[n] = sent[n]
    BY <1>1, IntactFacts DEF IntactAre
  <2> QED
    BY <1>2, <1>7, ExactKept
<1> QED
  BY <1>1, <1>3, <1>5, <1>6, <1>8

(* The messages that are intact after a frame left the channel.                *)
LEMMA IntactAfter ==
    ASSUME IscInv, IscTypeOK', NetInv', UNCHANGED sent, Current \in DOMAIN sent,
           broken \subseteq broken', broken' \subseteq broken \cup {Current},
           Current' = Current \/ Current' = Current + 1
    PROVE  /\ \A n : n \in Intact' <=> n \in Intact \/ (n = Current /\ n \in Intact')
           /\ Current \in Intact' <=> Current < Current' /\ Current \notin broken' /\ sent[Current] <= MaxMessageSize
<1>1. \A n : n \in Intact <=> n \in DOMAIN sent /\ n < Current /\ n \notin broken /\ sent[n] <= MaxMessageSize
  BY IntactFacts DEF IntactAre, IscInv
<1>2. \A n : n \in Intact' <=> n \in DOMAIN sent /\ n < Current' /\ n \notin broken' /\ sent[n] <= MaxMessageSize
  BY IntactNext DEF IntactAre
<1>3. DOMAIN sent = 1..Len(sent) /\ Len(sent) \in Nat
  BY SentFacts DEF IscInv
<1>4. ASSUME NEW n \in DOMAIN sent, n # Current
      PROVE  n < Current' <=> n < Current
  BY <1>3, <1>4
<1>5. ASSUME NEW n \in DOMAIN sent, n # Current
      PROVE  n \in Intact' <=> n \in Intact
  BY <1>1, <1>2, <1>4, <1>5
<1>6. Current \notin Intact
  BY <1>1, <1>3
<1> QED
  BY <1>1, <1>2, <1>5, <1>6

(* Losing a frame breaks its message and gives no id back too early.           *)
LEMMA LoseKeeps ==
    ASSUME IscInv, Lose
    PROVE  IscInv'
<1> USE DEF IscInv
<1> DEFINE n == Current
           c == FrameCount(sent[n])
<1>1. /\ net # <<>> /\ net' = Tail(net)
      /\ UNCHANGED <<messageId, nextIndex, count, data, sent, nextMessageId, delivered, seen, garbage>>
  BY DEF Lose, reassembler
<1>2. Number(Head(net)) = n /\ Head(net).index = Place /\ Head(net).count = c
  BY <1>1, NextFrame
<1>3. /\ n \in seen \/ Place + 1 < c \/ n <= MaxBurst \/ \E k \in (n - MaxBurst)..(n - 1) : k \in seen
      /\ broken' = broken \cup {n}
  BY <1>2 DEF Lose
<1>4. n \in DOMAIN sent /\ n \in Nat \ {0} /\ Place \in Nat /\ c \in Nat
  BY <1>1, HeadFrame, SentFacts, CurrentFacts DEF Positive
<1>5. /\ NetInv' /\ net' \in Seq(Frames) /\ Place + 1 <= c
      /\ Place + 1 < c => Current' = n /\ Place' = Place + 1
      /\ Place + 1 = c => Current' = n + 1 /\ Place' = 0
  BY <1>1, Advance
<1>6. IscTypeOK'
  BY <1>1, <1>3, <1>4, <1>5 DEF IscTypeOK
<1>7. n' = n \/ n' = n + 1
  BY <1>4, <1>5
<1>8. ASSUME NEW m \in DOMAIN sent, InProgress(m)
      PROVE  InProgress(m)'
  <2>1. /\ messageId = Id(m) /\ count = FrameCount(sent[m]) /\ data = Part(m, nextIndex * MaxFrameData)
        /\ m <= n
        /\ m = n => nextIndex <= Place
        /\ m < n => (\A k \in (m + 1)..n : k \notin seen) /\ n - m <= MaxBurst + 1
    BY <1>8 DEF InProgress
  <2>2. (messageId = Id(m))' /\ (count = FrameCount(sent[m]))' /\ (data = Part(m, nextIndex * MaxFrameData))'
    BY <1>1, <2>1
  <2>3. m \in Nat \ {0} /\ nextIndex \in Nat /\ MaxBurst \in Nat
    BY SentFacts, BurstAssumption DEF Positive, IscTypeOK
  <2>4. ASSUME NEW k \in Nat, k > n
        PROVE  k \notin seen
    BY <1>4, <2>4 DEF HistoryInv
  <2>5. CASE Place + 1 < c
    <3>1. Current' = n /\ Place' = Place + 1
      BY <1>5, <2>5
    <3>2. m = Current' => nextIndex' <= Place' /\ (m \in broken' <=> nextIndex' < Place')
      BY <1>1, <1>3, <1>4, <2>1, <2>3, <3>1
    <3>3. m < Current' => /\ \A k \in (m + 1)..Current' : k \notin seen'
                          /\ Current' - m <= MaxBurst + 1
                          /\ Place' > 0 => Current' \in broken'
      BY <1>1, <1>3, <2>1, <3>1
    <3> QED
      BY <2>1, <2>2, <3>1, <3>2, <3>3 DEF InProgress
  <2>6. CASE Place + 1 = c
    <3>1. Current' = n + 1 /\ Place' = 0
      BY <1>5, <2>6
    <3>2. \A k \in (m + 1)..(n + 1) : k \notin seen
      BY <1>4, <2>1, <2>3, <2>4
    <3>3. (n + 1) - m <= MaxBurst + 1
      <4>1. CASE m = n
        BY <1>4, <2>3, <4>1
      <4>2. CASE m < n
        <5>1. n \notin seen
          BY <1>4, <2>1, <2>3, <4>2
        <5>2. CASE n <= MaxBurst
          BY <1>4, <2>3, <5>2
        <5>3. CASE \E k \in (n - MaxBurst)..(n - 1) : k \in seen
          <6>1. PICK k \in (n - MaxBurst)..(n - 1) : k \in seen
            BY <5>3
          <6>2. k <= m
            BY <1>4, <2>1, <2>3, <4>2, <6>1
          <6> QED
            BY <1>4, <2>3, <6>1, <6>2
        <5> QED
          BY <1>3, <1>4, <2>6, <5>1, <5>2, <5>3
      <4> QED
        BY <1>4, <2>1, <2>3, <4>1, <4>2
    <3>4. m <= n + 1 /\ m # n + 1
      BY <1>4, <2>1, <2>3
    <3> QED
      BY <1>1, <2>2, <3>1, <3>2, <3>3, <3>4 DEF InProgress
  <2> QED
    BY <1>4, <1>5, <2>5, <2>6
<1>9. FeedInv'
  <2>1. count' # 0 => \E m \in DOMAIN sent' : InProgress(m)'
    BY <1>1, <1>8 DEF FeedInv
  <2>2. Place' > 0 => Current' \in broken'
    BY <1>3, <1>4, <1>5
  <2> QED
    BY <2>1, <2>2 DEF FeedInv
<1>10. HistoryInv'
  <2> SUFFICES ASSUME NEW k \in broken' \cup seen'
               PROVE  (k < Current \/ (k = Current /\ Place > 0))'
    BY DEF HistoryInv
  <2>1. k < n \/ k = n
    BY <1>1, <1>3 DEF HistoryInv
  <2>2. k \in Nat
    BY <1>1, <1>3, <1>4, SentFacts DEF IscTypeOK
  <2> QED
    BY <1>4, <1>5, <2>1, <2>2
<1>11. ExactlyIntactMessages'
  <2>1. \A k : k \in Intact' <=> k \in Intact \/ (k = n /\ k \in Intact')
    BY <1>1, <1>3, <1>4, <1>5, <1>6, <1>7, IntactAfter
  <2>2. n \notin Intact'
    BY <1>1, <1>3, <1>4, <1>5, <1>6, <1>7, IntactAfter
  <2>3. \A k : k \in Intact' <=> k \in Intact
    BY <2>1, <2>2
  <2> QED
    BY <1>1, <2>3, ExactKept
<1> QED
  BY <1>5, <1>6, <1>9, <1>10, <1>11

(* Garbage ends what is being put together, and breaks it if it is current.    *)
LEMMA GarbageKeeps ==
    ASSUME IscInv, ReceiveGarbage
    PROVE  IscInv'
<1> USE DEF IscInv
<1>1. /\ UNCHANGED <<nextMessageId, net, sent, delivered, seen>>
      /\ messageId' = 0 /\ nextIndex' = 0 /\ count' = 0 /\ data' = <<>>
      /\ garbage < MaxGarbage /\ garbage' = garbage + 1
  BY DEF ReceiveGarbage, Reset
<1>2. Current' = Current /\ Place' = Place
  BY <1>1 DEF Current, Place, Number
<1>3. broken' = broken \cup (IF Place > 0 THEN {Current} ELSE {})
  BY DEF ReceiveGarbage, Begun, Current, Place
<1>4. Current \in 1..(Len(sent) + 1) /\ (Place > 0 => Current \in DOMAIN sent) /\ Place \in Nat
  BY CurrentFacts, SentFacts
<1>5. IscTypeOK'
  <2>1. broken' \subseteq DOMAIN sent
    BY <1>3, <1>4 DEF IscTypeOK
  <2>2. <<>> \in Bytes /\ Len(<<>>) = 0 /\ 0 \in 0..(IdSpace - 1)
    BY BurstAssumption DEF Bytes
  <2>3. garbage' \in 0..MaxGarbage
    BY <1>1, SizesAssumption DEF IscTypeOK
  <2> QED
    BY <1>1, <2>1, <2>2, <2>3, SizesAssumption DEF IscTypeOK
<1>6. NetInv'
  BY <1>1, <1>2 DEF NetInv, Before, Number
<1>7. FeedInv'
  BY <1>1, <1>2, <1>3 DEF FeedInv
<1>8. HistoryInv'
  BY <1>1, <1>2, <1>3 DEF HistoryInv
<1>9. ExactlyIntactMessages'
  <2>1. \A n : n \in Intact <=> n \in DOMAIN sent /\ n < Current /\ n \notin broken /\ sent[n] <= MaxMessageSize
    BY IntactFacts DEF IntactAre
  <2>2. \A n : n \in Intact' <=> n \in DOMAIN sent /\ n < Current /\ n \notin broken' /\ sent[n] <= MaxMessageSize
    BY <1>1, <1>2, <1>5, <1>6, IntactNext DEF IntactAre
  <2>3. ~(Current < Current)
    BY <1>4
  <2>4. \A n : n \in Intact' <=> n \in Intact
    BY <1>3, <2>1, <2>2, <2>3
  <2> QED
    BY <1>1, <2>4, ExactKept
<1> QED
  BY <1>5, <1>6, <1>7, <1>8, <1>9

(* A frame that arrives starts, continues, ends or refuses its message.        *)
LEMMA ReceiveKeeps ==
    ASSUME IscInv, Receive
    PROVE  IscInv'
<1> USE DEF IscInv
<1> DEFINE f == Head(net)
           n == Current
           s == sent[n]
           c == FrameCount(s)
<1>1. /\ net # <<>> /\ net' = Tail(net) /\ Feed(f) /\ seen' = seen \cup {Number(f)}
      /\ UNCHANGED <<sent, nextMessageId, broken, garbage>>
  BY DEF Receive
<1>2. /\ f \in Frames /\ f.id = Id(n) /\ f.index = Place /\ f.count = c /\ Number(f) = n
      /\ Continues(f) => n \notin broken /\ Gathered(f) = Part(n, Held(s, Place + 1))
      /\ ~Continues(f) => Place > 0 /\ (n \in broken \/ s > MaxMessageSize)
  BY <1>1, NextFrame
<1>3. n \in DOMAIN sent /\ n \in Nat \ {0} /\ Place \in Nat /\ c \in Nat \ {0} /\ s \in Nat \ {0} /\ s >= HeaderSize
  <2>1. n \in DOMAIN sent
    BY <1>1, HeadFrame
  <2>2. n \in Positive /\ s \in Positive /\ c \in Positive
    BY <2>1, SentFacts
  <2>3. Place \in Nat
    BY CurrentFacts
  <2>4. s >= HeaderSize
    BY <2>1, SentSize
  <2> QED
    BY <2>1, <2>2, <2>3, <2>4 DEF Positive
<1>4. /\ NetInv' /\ net' \in Seq(Frames) /\ Place + 1 <= c
      /\ Place + 1 < c => Current' = n /\ Place' = Place + 1
      /\ Place + 1 = c => Current' = n + 1 /\ Place' = 0
  BY <1>1, Advance
<1>5. n' = n \/ n' = n + 1
  BY <1>3, <1>4
<1>6. Place + 1 \in 1..c
  BY <1>3, <1>4
<1>7. /\ Held(s, Place + 1) \in 1..s
      /\ Place + 1 < c => Held(s, Place + 1) = (Place + 1) * MaxFrameData
      /\ Place + 1 = c => Held(s, Place + 1) = s
  BY <1>3, <1>6, HeldFacts DEF Held
<1>8. Part(n, Held(s, Place + 1)) \in Bytes /\ Len(Part(n, Held(s, Place + 1))) = Held(s, Place + 1)
  BY <1>3, <1>7, PartSeq
<1>9. HistoryInv'
  <2> SUFFICES ASSUME NEW k \in broken' \cup seen'
               PROVE  (k < Current \/ (k = Current /\ Place > 0))'
    BY DEF HistoryInv
  <2>1. k < n \/ k = n
    BY <1>1, <1>2 DEF HistoryInv
  <2>2. k \in Nat
    BY <1>1, <1>2, <1>3, SentFacts DEF IscTypeOK
  <2> QED
    BY <1>3, <1>4, <2>1, <2>2
<1>10. seen' \subseteq DOMAIN sent
  BY <1>1, <1>2, <1>3 DEF IscTypeOK
<1>11. <<>> \in Bytes /\ Len(<<>>) = 0 /\ 0 \in 0..(IdSpace - 1) /\ Id(n) \in 0..(IdSpace - 1)
  BY <1>3, BurstAssumption, IdSucc DEF Bytes
<1> HIDE DEF f, n, s, c
<1>12. CASE /\ ~Continues(f) \/ ~Fits(f)
            /\ Reset /\ UNCHANGED delivered
  <2>1. messageId' = 0 /\ nextIndex' = 0 /\ count' = 0 /\ data' = <<>> /\ delivered' = delivered
    BY <1>12 DEF Reset
  <2>2. IscTypeOK'
    BY <1>1, <1>4, <1>10, <1>11, <2>1, SizesAssumption DEF IscTypeOK
  <2>3. n \in broken \/ s > MaxMessageSize
    <3>1. CASE ~Continues(f)
      BY <1>2, <3>1
    <3>2. CASE Continues(f) /\ ~Fits(f)
      <4>1. ~(Held(s, Place + 1) <= MaxMessageSize)
        BY <1>2, <1>8, <3>2 DEF Fits
      <4> QED
        BY <1>3, <1>7, <4>1, SizesAssumption
    <3> QED
      BY <1>12, <3>1, <3>2
  <2>4. FeedInv'
    <3>1. ASSUME Place' > 0, Current' \notin broken' PROVE sent'[Current'] > MaxMessageSize
      <4>1. Current' = n
        BY <1>3, <1>4, <3>1
      <4> QED
        BY <1>1, <2>3, <3>1, <4>1 DEF s
    <3> QED
      BY <2>1, <3>1 DEF FeedInv
  <2>5. ExactlyIntactMessages'
    <3>1. /\ \A k : k \in Intact' <=> k \in Intact \/ (k = n /\ k \in Intact')
          /\ n \in Intact' <=> n < Current' /\ n \notin broken' /\ s <= MaxMessageSize
      BY <1>1, <1>3, <1>4, <1>5, <2>2, IntactAfter DEF n, s
    <3>2. n \notin Intact'
      BY <1>1, <1>3, <2>3, <3>1, SizesAssumption
    <3>3. \A k : k \in Intact' <=> k \in Intact
      BY <3>1, <3>2
    <3> QED
      BY <1>1, <2>1, <3>3, ExactKept
  <2> QED
    BY <1>4, <1>9, <2>2, <2>4, <2>5
<1>13. CASE /\ Continues(f) /\ Fits(f) /\ f.index + 1 < f.count
            /\ messageId' = f.id /\ count' = f.count
            /\ data' = Gathered(f) /\ nextIndex' = f.index + 1
            /\ UNCHANGED delivered
  <2>1. /\ messageId' = Id(n) /\ count' = c /\ nextIndex' = Place + 1 /\ Place + 1 < c /\ delivered' = delivered
        /\ data' = Part(n, Held(s, Place + 1)) /\ n \notin broken /\ Len(data') <= MaxMessageSize
    BY <1>2, <1>13 DEF Fits
  <2>2. Current' = n /\ Place' = Place + 1
    BY <1>4, <2>1
  <2>3. IscTypeOK'
    <3>1. nextIndex' \in Nat /\ count' \in Nat /\ count' # 0 /\ nextIndex' \in 1..(count' - 1)
      BY <1>3, <2>1
    <3>2. data' \in Bytes /\ messageId' \in 0..(IdSpace - 1)
      BY <1>8, <1>11, <2>1
    <3> QED
      BY <1>1, <1>4, <1>10, <2>1, <3>1, <3>2 DEF IscTypeOK
  <2>4. FeedInv'
    <3>1. PICK m \in DOMAIN sent : m = n
      BY <1>3
    <3>2. data' = Part(m, nextIndex' * MaxFrameData)
      BY <1>7, <2>1, <3>1
    <3>3. InProgress(m)'
      BY <1>1, <1>3, <2>1, <2>2, <3>1, <3>2 DEF InProgress, s, c
    <3>4. count' # 0
      BY <1>3, <2>1
    <3> QED
      BY <1>1, <3>3, <3>4 DEF FeedInv
  <2>5. ExactlyIntactMessages'
    <3>1. /\ \A k : k \in Intact' <=> k \in Intact \/ (k = n /\ k \in Intact')
          /\ n \in Intact' <=> n < Current' /\ n \notin broken' /\ s <= MaxMessageSize
      BY <1>1, <1>3, <1>4, <1>5, <2>3, IntactAfter DEF n, s
    <3>2. n \notin Intact'
      BY <1>3, <2>2, <3>1
    <3>3. \A k : k \in Intact' <=> k \in Intact
      BY <3>1, <3>2
    <3> QED
      BY <1>1, <2>1, <3>3, ExactKept
  <2> QED
    BY <1>4, <1>9, <2>3, <2>4, <2>5
<1>14. CASE /\ Continues(f) /\ Fits(f) /\ f.index + 1 >= f.count
            /\ Reset
            /\ delivered' = IF Len(Gathered(f)) < HeaderSize THEN delivered
                             ELSE Append(delivered, Gathered(f))
  <2>1. messageId' = 0 /\ nextIndex' = 0 /\ count' = 0 /\ data' = <<>>
    BY <1>14 DEF Reset
  <2>2. Place + 1 = c /\ n \notin broken
    BY <1>2, <1>3, <1>4, <1>14
  <2>3. Gathered(f) = Part(n, s) /\ Len(Gathered(f)) = s /\ Gathered(f) \in Bytes
    BY <1>2, <1>7, <1>8, <1>14, <2>2
  <2>4. s <= MaxMessageSize /\ delivered' = Append(delivered, Message(n))
    BY <1>3, <1>14, <2>3, SizesAssumption DEF Fits, Message, s
  <2>5. Current' = n + 1 /\ Place' = 0
    BY <1>4, <2>2
  <2>6. IscTypeOK'
    <3>1. delivered' \in Seq(Bytes)
      <4> DEFINE d == Message(n)
      <4>1. d \in Bytes
        BY <2>3 DEF Message, s
      <4> HIDE DEF d
      <4>2. delivered \in Seq(Bytes) /\ delivered' = Append(delivered, d)
        BY <2>4 DEF IscTypeOK, d
      <4> QED
        BY <4>1, <4>2
    <3> QED
      BY <1>1, <1>4, <1>10, <1>11, <2>1, <3>1, SizesAssumption DEF IscTypeOK
  <2>7. FeedInv'
    BY <2>1, <2>5 DEF FeedInv
  <2>8. ExactlyIntactMessages'
    <3>1. /\ \A k : k \in Intact' <=> k \in Intact \/ (k = n /\ k \in Intact')
          /\ n \in Intact' <=> n < Current' /\ n \notin broken' /\ s <= MaxMessageSize
      BY <1>1, <1>3, <1>4, <1>5, <2>6, IntactAfter DEF n, s
    <3>2. n \in Intact'
      BY <1>1, <1>3, <2>2, <2>4, <2>5, <3>1
    <3>3. \A k : k \in Intact' <=> k \in Intact \/ k = n
      BY <3>1, <3>2
    <3> QED
      BY <1>1, <1>3, <2>4, <3>3, ExactAppended DEF n
  <2> QED
    BY <1>4, <1>9, <2>6, <2>7, <2>8
<1> QED
  BY <1>1, <1>12, <1>13, <1>14 DEF Feed

(* The invariant holds initially, is kept by every step, and so holds always.  *)
LEMMA IscStart == IscInit => IscInv
<1> SUFFICES ASSUME IscInit PROVE IscInv
  OBVIOUS
<1>1. IscTypeOK
  BY SizesAssumption, BurstAssumption DEF IscInit, IscTypeOK, Bytes
<1>2. net = <<>> /\ sent = <<>> /\ nextMessageId = 0 /\ count = 0 /\ delivered = <<>> /\ broken = {} /\ seen = {}
  BY DEF IscInit
<1>3. Current = 1 /\ Place = 0 /\ DOMAIN sent = {} /\ DOMAIN net = {} /\ DOMAIN delivered = {} /\ Len(sent) = 0
  BY <1>2 DEF Current, Place
<1>4. Id(1) = 0
  <2> 0 = IdSpace * 0 + 0 /\ 0 \in 0..(IdSpace - 1) /\ IdSpace \in Nat \ {0} /\ 1 - 1 = 0
    BY BurstAssumption
  <2> QED
    BY ModUnique DEF Id
<1>5. NetInv
  BY <1>2, <1>3, <1>4 DEF NetInv
<1>6. FeedInv /\ HistoryInv
  BY <1>2, <1>3 DEF FeedInv, HistoryInv
<1>7. ExactlyIntactMessages
  BY <1>3 DEF ExactlyIntactMessages, Intact
<1> QED
  BY <1>1, <1>5, <1>6, <1>7 DEF IscInv

LEMMA IscStep == IscInv /\ [IscNext]_iscVars => IscInv'
<1> SUFFICES ASSUME IscInv, [IscNext]_iscVars PROVE IscInv'
  OBVIOUS
<1>1. CASE \E size \in HeaderSize..MaxSentSize : SendIscPacket(size)
  BY <1>1, SendKeeps
<1>2. CASE Receive
  BY <1>2, ReceiveKeeps
<1>3. CASE Lose
  BY <1>3, LoseKeeps
<1>4. CASE ReceiveGarbage
  BY <1>4, GarbageKeeps
<1>5. CASE UNCHANGED iscVars
  <2>1. Current' = Current /\ Place' = Place
    BY <1>5 DEF iscVars, Current, Place, Number
  <2>2. IscTypeOK' /\ NetInv' /\ HistoryInv'
    BY <1>5, <2>1 DEF iscVars, IscInv, IscTypeOK, NetInv, Before, Number, HistoryInv
  <2>3. FeedInv'
    BY <1>5, <2>1 DEF iscVars, IscInv, FeedInv, InProgress
  <2>4. \A n : n \in Intact' <=> n \in Intact
    BY <1>5 DEF iscVars, Intact, OnTheWay, Number
  <2>5. ExactlyIntactMessages'
    BY <1>5, <2>4, ExactKept DEF iscVars, IscInv
  <2> QED
    BY <2>2, <2>3, <2>5 DEF IscInv
<1> QED
  BY <1>1, <1>2, <1>3, <1>4, <1>5 DEF IscNext

LEMMA IscInductive == IscSpec => []IscInv
  BY IscStart, IscStep, PTL DEF IscSpec

(* The reassembler's members and the ids keep their ranges, and what is        *)
(* gathered never exceeds the limit (Isc::Reassembler::Feed).                  *)
THEOREM ProtocolTypeCorrect == IscSpec => []IscTypeOK
<1>1. IscInv => IscTypeOK
  BY DEF IscInv
<1> QED
  BY <1>1, IscInductive, PTL

(* For any sizes and any number of ids above the longest burst of lost         *)
(* messages, the receiver gets exactly the messages that arrived in one piece, *)
(* whole, once and in order (Isc::EncodeFrames, Isc::Reassembler::Feed).       *)
THEOREM MessagesCorrect == IscSpec => []ExactlyIntactMessages
<1>1. IscInv => ExactlyIntactMessages
  BY DEF IscInv
<1> QED
  BY <1>1, IscInductive, PTL
-----------------------------------------------------------------------------
Memory == MemoryInv /\ IdInv /\ ChangeInv /\ WorldIsPromise /\ MapShowsWorld
Disk == FileInv /\ RenameInv /\ LoopInv /\ RecordInv /\ PromiseInv
Inv == TypeOK /\ Memory /\ Disk

(* A set of naturals has a least element.                                      *)
LEMMA LeastNatural ==
    ASSUME NEW T \in SUBSET Nat, T # {}
    PROVE  \E x \in T : \A y \in T : x <= y
<1> DEFINE R == OpToRel(<, Nat)
<1>1. IsWellFoundedOn(R, Nat)
  BY NatLessThanWellFounded, Zenon
<1>2. PICK x \in T : \A y \in T : ~(<<y, x>> \in R)
  <2> HIDE DEF R
  <2> QED
    BY <1>1, WFMin, Zenon
<1>3. \A y \in T : ~(y < x)
  <2> TAKE y \in T
  <2>1. y < x => <<y, x>> \in R
    BY DEF OpToRel
  <2> QED
    BY <1>2, <2>1
<1> QED
  <2> HIDE DEF R
  <2> QED
    BY <1>3

(* Max of a bounded set of naturals is its greatest element.                   *)
LEMMA MaxFacts ==
    ASSUME NEW B \in Nat, NEW S \in SUBSET (0..B), S # {}
    PROVE  Max(S) \in S /\ \A y \in S : y <= Max(S)
<1> DEFINE T == {n \in Nat : B - n \in S}
<1>1. T \in SUBSET Nat /\ T # {}
  <2>1. PICK x : x \in S
    OBVIOUS
  <2>2. B - x \in T
    BY <2>1
  <2> QED
    BY <2>2
<1>2. PICK n \in T : \A m \in T : n <= m
  BY <1>1, LeastNatural
<1>3. B - n \in S /\ \A y \in S : B - n >= y
  <2>1. B - n \in S /\ n \in Nat
    BY <1>2
  <2>2. ASSUME NEW y \in S PROVE B - n >= y
    <3>1. B - y \in T
      OBVIOUS
    <3>2. n <= B - y /\ y \in 0..B
      BY <1>2, <3>1
    <3> QED
      BY <2>1, <3>2
  <2> QED
    BY <2>1, <2>2
<1>4. /\ Max(S) \in S
      /\ \A y \in S : Max(S) >= y
  <2> HIDE DEF T
  <2>1. \E x \in S : \A y \in S : x >= y
    BY <1>3
  <2> QED
    BY <2>1, Zenon DEF Max
<1> QED
  BY <1>4

(* The fields of files and of the rows of `updates`.                           *)
LEMMA RecordTypes ==
    ASSUME TypeOK
    PROVE  /\ \A f \in File :
                 /\ f.name \in Nat /\ f.text \in Nat /\ f.sql \subseteq Change
                 /\ f.cut \in BOOLEAN /\ f.failed \in BOOLEAN
                 /\ Entry(f) \in [name : Nat, text : Nat]
                 /\ Entry(f).name = f.name /\ Entry(f).text = f.text
           /\ \A r, q \in [name : Nat, text : Nat] : r.name = q.name /\ r.text = q.text => r = q
           /\ files \subseteq File /\ todo \subseteq files
           /\ updates \subseteq [name : Nat, text : Nat] /\ known \subseteq [name : Nat, text : Nat]
           /\ applied \subseteq known
           /\ \A f, g \in files : f.name = g.name => f = g
BY DEF TypeOK, File, Entry

(* What a file makes of the rows.                                              *)
LEMMA ExecuteFacts ==
    ASSUME NEW rows \in Rows, NEW sql \in SUBSET Change
    PROVE  /\ \A s \in Ids : Execute(rows, sql)[s] =
                 IF Touches(sql, s) THEN Written(sql, s) ELSE rows[s]
           /\ Execute(rows, sql) \in Rows
<1>1. \A s \in Ids : Execute(rows, sql)[s] = IF Touches(sql, s) THEN Written(sql, s) ELSE rows[s]
  BY DEF Execute, Touches, Written
<1>2. ASSUME NEW s \in Ids, Touches(sql, s) PROVE Written(sql, s) \in Entries \cup {None}
  <2>1. (CHOOSE c \in sql : c.spawn = s) \in sql
    BY <1>2 DEF Touches
  <2> QED
    BY <2>1 DEF Written, Change
<1>3. \A s \in Ids : Execute(rows, sql)[s] \in Entries \cup {None}
  BY <1>1, <1>2 DEF Rows
<1>4. DOMAIN Execute(rows, sql) = Ids
  BY DEF Execute
<1> QED
  BY <1>1, <1>3, <1>4 DEF Rows, Execute

(* What a change that is alone about its spawn writes.                         *)
LEMMA WrittenFacts ==
    ASSUME NEW sql \in SUBSET Change, NEW c \in sql, \A d \in sql : d.spawn = c.spawn => d = c
    PROVE  Touches(sql, c.spawn) /\ Written(sql, c.spawn) = c.entry
<1>1. (CHOOSE d \in sql : d.spawn = c.spawn) = c
  OBVIOUS
<1> QED
  BY <1>1 DEF Touches, Written

(* A new name is above all names.                                              *)
LEMMA NextNameFacts ==
    ASSUME NEW n \in NextNames
    PROVE  n \in Nat /\ \A f \in files : f.name < n
BY BoundsAssumption DEF NextNames

(* The queue of the database.                                                  *)
LEMMA QueueFacts ==
    ASSUME queue \in Seq(Change)
    PROVE  /\ Len(queue) \in Nat /\ DOMAIN queue = 1..Len(queue)
           /\ \A i \in 1..Len(queue) : queue[i] \in Change
           /\ \A s : Queued(s) = {i \in 1..Len(queue) : queue[i].spawn = s}
           /\ \A s : Queued(s) \in SUBSET (0..Len(queue))
           /\ \A s : Queued(s) # {} => Max(Queued(s)) \in Queued(s) /\ \A i \in Queued(s) : i <= Max(Queued(s))
<1>1. /\ Len(queue) \in Nat /\ DOMAIN queue = 1..Len(queue)
      /\ \A i \in 1..Len(queue) : queue[i] \in Change
  OBVIOUS
<1>2. ASSUME NEW s
      PROVE  /\ Queued(s) = {i \in 1..Len(queue) : queue[i].spawn = s}
             /\ Queued(s) \in SUBSET (0..Len(queue))
  BY <1>1 DEF Queued
<1>3. ASSUME NEW s, Queued(s) # {}
      PROVE  Max(Queued(s)) \in Queued(s) /\ \A i \in Queued(s) : i <= Max(Queued(s))
  BY <1>1, <1>2, <1>3, MaxFacts
<1> QED
  BY <1>1, <1>2, <1>3

(* Without a queue the database is what it has.                                *)
LEMMA StoredEmpty ==
    ASSUME queue = <<>>
    PROVE  \A s : Stored(s) = db[s]
BY DEF Stored, Queued

(* A transaction that is queued.                                               *)
LEMMA StoredAppend ==
    ASSUME TypeOK, NEW c \in Change, queue' = Append(queue, c), db' = db
    PROVE  /\ queue' \in Seq(Change)
           /\ \A s \in Ids : Stored(s)' = IF s = c.spawn THEN c.entry ELSE Stored(s)
<1> DEFINE n == Len(queue)
<1>1. queue \in Seq(Change) /\ queue' \in Seq(Change)
  BY DEF TypeOK
<1>2. /\ n \in Nat /\ Len(queue') = n + 1 /\ queue'[n + 1] = c
      /\ \A i \in 1..n : queue'[i] = queue[i]
  BY <1>1
<1>3. /\ DOMAIN queue = 1..n
      /\ \A s : Queued(s) = {i \in 1..n : queue[i].spawn = s}
      /\ \A s : Queued(s) # {} => Max(Queued(s)) \in Queued(s)
  BY <1>1, QueueFacts
<1>4. DOMAIN queue' = 1..(n + 1)
  BY <1>1, <1>2
<1> HIDE DEF n
<1>5. \A s : Queued(s)' = {i \in 1..(n + 1) : queue'[i].spawn = s}
  BY <1>4 DEF Queued
<1>6. ASSUME NEW s \in Ids, s = c.spawn PROVE Stored(s)' = c.entry
  <2> DEFINE Q == Queued(s)'
  <2>1. n + 1 \in Q /\ Q \in SUBSET (0..(n + 1)) /\ Q # {} /\ n + 1 \in Nat
    BY <1>2, <1>5, <1>6
  <2>2. Stored(s)' = queue'[Max(Q)].entry
    BY <2>1 DEF Stored
  <2> HIDE DEF Q
  <2>3. Max(Q) \in Q /\ n + 1 <= Max(Q)
    BY <2>1, MaxFacts
  <2>4. Max(Q) = n + 1
    <3> DEFINE m == Max(Q)
    <3>1. m \in 0..(n + 1) /\ n + 1 <= m
      BY <2>1, <2>3
    <3> HIDE DEF m
    <3>2. m = n + 1
      BY <1>2, <3>1
    <3> QED
      BY <3>2 DEF m
  <2> QED
    BY <1>2, <2>2, <2>4
<1>7. ASSUME NEW s \in Ids, s # c.spawn PROVE Stored(s)' = Stored(s)
  <2>1. Queued(s)' = Queued(s)
    <3>1. \A i \in 1..(n + 1) : i \in 1..n \/ i = n + 1
      BY <1>2
    <3>2. \A i \in 1..n : i \in 1..(n + 1)
      BY <1>2
    <3> QED
      BY <1>2, <1>3, <1>5, <1>7, <3>1, <3>2
  <2>2. CASE Queued(s) = {}
    BY <2>1, <2>2 DEF Stored
  <2>3. CASE Queued(s) # {}
    <3>1. Max(Queued(s)) \in 1..n
      BY <1>3, <2>3
    <3>2. queue'[Max(Queued(s))] = queue[Max(Queued(s))]
      BY <1>2, <3>1
    <3> QED
      BY <2>1, <2>3, <3>2 DEF Stored
  <2> QED
    BY <2>2, <2>3
<1> QED
  BY <1>1, <1>6, <1>7

(* A transaction that is executed.                                             *)
LEMMA StoredExecuted ==
    ASSUME TypeOK, queue # <<>>, db' = Execute(db, {Head(queue)}), queue' = Tail(queue)
    PROVE  /\ db' \in Rows /\ queue' \in Seq(Change)
           /\ \A s \in Ids : Stored(s)' = Stored(s)
<1> DEFINE n == Len(queue)
<1>1. queue \in Seq(Change) /\ queue' \in Seq(Change) /\ db \in Rows
  BY DEF TypeOK
<1>2. /\ n \in Nat /\ n >= 1 /\ Len(queue') = n - 1 /\ Head(queue) = queue[1] /\ queue[1] \in Change
      /\ \A i \in 1..(n - 1) : queue'[i] = queue[i + 1]
  BY <1>1
<1>3. /\ \A s : Queued(s) = {i \in 1..n : queue[i].spawn = s}
      /\ \A s : Queued(s) # {} => Max(Queued(s)) \in Queued(s) /\ \A i \in Queued(s) : i <= Max(Queued(s))
  BY <1>1, QueueFacts
<1>4. DOMAIN queue' = 1..(n - 1)
  BY <1>1, <1>2
<1> HIDE DEF n
<1>5. \A s : Queued(s)' = {i \in 1..(n - 1) : queue'[i].spawn = s}
  BY <1>4 DEF Queued
<1>6. db' \in Rows /\ \A s \in Ids : db'[s] = IF queue[1].spawn = s THEN queue[1].entry ELSE db[s]
  <2> DEFINE sql == {queue[1]}
  <2>1. sql \in SUBSET Change /\ queue[1] \in sql /\ \A d \in sql : d = queue[1]
    BY <1>2
  <2>2. db' = Execute(db, sql)
    BY <1>2
  <2> HIDE DEF sql
  <2>3. Written(sql, queue[1].spawn) = queue[1].entry
    BY <2>1, WrittenFacts
  <2>4. \A s : Touches(sql, s) <=> queue[1].spawn = s
    BY <2>1 DEF Touches
  <2>5. /\ Execute(db, sql) \in Rows
        /\ \A s \in Ids : Execute(db, sql)[s] = IF Touches(sql, s) THEN Written(sql, s) ELSE db[s]
    BY <1>1, <2>1, ExecuteFacts
  <2>6. ASSUME NEW s \in Ids PROVE db'[s] = IF queue[1].spawn = s THEN queue[1].entry ELSE db[s]
    BY <2>2, <2>3, <2>4, <2>5
  <2> QED
    BY <2>2, <2>5, <2>6
<1>7. ASSUME NEW s \in Ids PROVE Stored(s)' = Stored(s)
  <2>1. \A i \in 1..(n - 1) : i \in Queued(s)' <=> i + 1 \in Queued(s)
    BY <1>2, <1>3, <1>5
  <2>2. CASE Queued(s)' = {}
    <3>1. Stored(s)' = db'[s]
      BY <2>2 DEF Stored
    <3>2. \A i \in Queued(s) : i = 1
      <4> TAKE i \in Queued(s)
      <4>1. i \in 1..n
        BY <1>3
      <4>2. i # 1 => i - 1 \in 1..(n - 1) /\ (i - 1) + 1 = i
        BY <1>2, <4>1
      <4> QED
        BY <2>1, <2>2, <4>2
    <3>3. CASE queue[1].spawn = s
      <4>1. 1 \in Queued(s)
        BY <1>2, <1>3, <3>3
      <4>2. Max(Queued(s)) = 1
        BY <1>3, <3>2, <4>1
      <4> QED
        BY <1>6, <3>1, <3>3, <4>1, <4>2 DEF Stored
    <3>4. CASE queue[1].spawn # s
      <4>1. Queued(s) = {}
        BY <1>3, <3>2, <3>4
      <4> QED
        BY <1>6, <3>1, <3>4, <4>1 DEF Stored
    <3> QED
      BY <3>3, <3>4
  <2>3. CASE Queued(s)' # {}
    <3> DEFINE Q == Queued(s)'
               m == Max(Q)
               k == Max(Queued(s))
    <3>1. Q \in SUBSET (0..(n - 1)) /\ Q # {} /\ n - 1 \in Nat
      BY <1>2, <1>5, <2>3
    <3>2. m \in Q /\ \A i \in Q : i <= m
      <4> HIDE DEF Q
      <4> QED
        BY <3>1, MaxFacts
    <3>3. m \in 1..(n - 1) /\ m + 1 \in Queued(s)
      BY <1>5, <2>1, <3>2
    <3>4. k \in Queued(s) /\ m + 1 <= k /\ k \in 1..n
      BY <1>3, <3>3
    <3>5. Stored(s)' = queue'[m].entry /\ Stored(s) = queue[k].entry
      BY <2>3, <3>3 DEF Stored
    <3> HIDE DEF m, k, Q
    <3>6. k - 1 \in 1..(n - 1) /\ (k - 1) + 1 = k
      BY <1>2, <3>3, <3>4
    <3>7. k - 1 \in Q
      BY <2>1, <3>4, <3>6 DEF Q
    <3>8. k = m + 1
      <4>1. k - 1 <= m
        BY <3>2, <3>7
      <4> QED
        BY <1>2, <3>3, <3>4, <4>1
    <3> QED
      BY <1>2, <3>3, <3>5, <3>8
  <2> QED
    BY <2>2, <2>3
<1> QED
  BY <1>1, <1>6, <1>7

(* A step that changes neither the promises nor what they rest on.             *)
LEMMA PromiseSame ==
    ASSUME PromiseInv, UNCHANGED <<db, queue, spoiled, promised, overruled>>,
           \A s \in Ids : ToCome(s)' = ToCome(s)
    PROVE  PromiseInv'
<1>1. \A s \in Ids : Stored(s)' = Stored(s)
  BY DEF Stored, Queued
<1> QED
  BY <1>1 DEF PromiseInv

(* The file at hand, applied, is recorded or marked.                           *)
LEMMA PromiseRecorded ==
    ASSUME TypeOK, Disk, server = "record", queue = <<>>, NEW f \in todo, \A g \in todo : f.name <= g.name,
           UNCHANGED <<db, queue, spoiled, promised, overruled>>,
           \A s \in Ids : ToCome(s)' = ToCome(s) \ {f}
    PROVE  PromiseInv'
<1>1. /\ ~Recorded(f) /\ f \in files
      /\ ~spoiled => \A s \in Ids : Touches(f.sql, s) => db[s] = Written(f.sql, s)
  BY RecordTypes DEF Disk, RecordInv
<1>2. \A s : Stored(s) = db[s] /\ Stored(s)' = db[s]
  <2>1. queue' = <<>>
    OBVIOUS
  <2> QED
    BY <2>1, StoredEmpty DEF Stored, Queued
<1> SUFFICES ASSUME ~spoiled, NEW s \in Ids \ overruled
             PROVE  /\ ToCome(s) \ {f} = {} => promised[s] = db[s]
                    /\ \A g \in ToCome(s) \ {f} :
                          (\A h \in ToCome(s) \ {f} : h.name <= g.name) =>
                             promised[s] = Written(g.sql, s)
  BY <1>2 DEF PromiseInv
<1>3. /\ ToCome(s) = {} => promised[s] = db[s]
      /\ \A g \in ToCome(s) :
            (\A h \in ToCome(s) : h.name <= g.name) => promised[s] = Written(g.sql, s)
  BY <1>2 DEF Disk, PromiseInv
<1>4. \A g \in ToCome(s) : f.name <= g.name /\ g.name <= g.name
  <2>1. \A g \in files : ~g.failed /\ ~Recorded(g) => g \in todo
    <3> SUFFICES ASSUME NEW g \in files, ~g.failed, g \notin todo PROVE Recorded(g)
      OBVIOUS
    <3>1. Entry(g) \in updates /\ Entry(g).text = g.text
      BY RecordTypes DEF Disk, LoopInv
    <3> QED
      BY <3>1 DEF Recorded
  <2> QED
    BY <2>1, RecordTypes DEF ToCome
<1>5. CASE ToCome(s) \ {f} = {}
  <2>1. CASE f \in ToCome(s)
    <3>1. promised[s] = Written(f.sql, s)
      BY <1>3, <1>4, <1>5, <2>1
    <3>2. Touches(f.sql, s)
      BY <2>1 DEF ToCome
    <3> QED
      BY <1>1, <1>5, <3>1, <3>2
  <2>2. CASE f \notin ToCome(s)
    BY <1>3, <1>5, <2>2
  <2> QED
    BY <2>1, <2>2
<1>6. CASE ToCome(s) \ {f} # {}
  BY <1>3, <1>4, <1>6
<1> QED
  BY <1>5, <1>6
-----------------------------------------------------------------------------
(* A row with the text of one file never has the name of another.              *)
LEMMA OtherName ==
    ASSUME TypeOK, RenameInv, NEW f \in files, NEW g \in files, f # g,
           NEW q \in updates, q.text = g.text
    PROVE  q.name # f.name
BY RecordTypes DEF RenameInv

(* A file that must be applied was not: the table does not know its text.      *)
LEMMA MustApplyFacts ==
    ASSUME TypeOK, LoopInv, RenameInv, NEW f \in files, MustApply(f)
    PROVE  ~Recorded(f)
<1> SUFFICES ASSUME NEW r \in updates, r.text = f.text PROVE FALSE
  BY DEF Recorded
<1>1. f \in todo /\ ~UpToDate(f) /\ RenamedFrom(f) = {} /\ f \in File
  BY RecordTypes DEF MustApply, NextFile
<1>2. r \in applied /\ r \in known /\ r \in [name : Nat, text : Nat]
  BY <1>1, RecordTypes DEF LoopInv
<1>3. CASE r.name = f.name
  <2>1. r = Entry(f)
    BY <1>1, <1>2, <1>3, RecordTypes
  <2> QED
    BY <1>1, <1>2, <2>1 DEF UpToDate
<1>4. CASE r.name # f.name
  <2>1. \A g \in files : g.name # r.name
    BY <1>4 DEF RenameInv
  <2>2. \A q \in known : q.name # f.name
    BY <1>1, <1>2, <1>4 DEF LoopInv
  <2>3. ~IsApplied(f)
    BY <2>2, RecordTypes DEF IsApplied
  <2> QED
    BY <1>1, <1>2, <2>1, <2>3 DEF RenamedFrom
<1> QED
  BY <1>3, <1>4

(* The steps of an update leave the memory of the server alone.                *)
LEMMA UpdateMemory ==
    ASSUME Memory, server # "running", server' # "running",
           UNCHANGED <<memVars, overruled, promised>>
    PROVE  Memory'
<1>1. /\ UNCHANGED <<creatureData, creatureSpawnId, changes, hidden, grid, present, corpses, timer, queue>>
      /\ changes = {}
  BY DEF Memory, MemoryInv, memVars, mapVars
<1>2. MemoryInv'
  BY <1>1 DEF Memory, MemoryInv, NoRows
<1> QED
  BY <1>1, <1>2 DEF Memory, IdInv, ChangeInv, WorldIsPromise, MapShowsWorld

(* The beginning of an update.                                                 *)
LEMMA BeginKeeps ==
    ASSUME TypeOK, Disk, BeginUpdate, UNCHANGED <<memVars, attempts, history>>
    PROVE  TypeOK' /\ Disk'
<1>1. /\ server = "down" /\ server' = "update" /\ todo' = files /\ applied' = updates /\ known' = updates
      /\ UNCHANGED <<db, files, updates, spoiled, creatureData, creatureSpawnId, changes, hidden, cells, grid,
                     present, corpses, timer, queue, attempts, promised, overruled>>
  BY DEF BeginUpdate, memVars, mapVars, history
<1>2. TypeOK'
  BY <1>1 DEF TypeOK
<1>3. FileInv' /\ RenameInv'
  BY <1>1 DEF Disk, FileInv, RenameInv
<1>4. LoopInv'
  BY <1>1 DEF Disk, LoopInv, RenameInv
<1>5. RecordInv' /\ PromiseInv'
  <2>1. \A s \in Ids : ToCome(s)' = ToCome(s)
    BY <1>1 DEF ToCome, Recorded
  <2> QED
    BY <1>1, <2>1, PromiseSame DEF Disk, RecordInv
<1> QED
  BY <1>2, <1>3, <1>4, <1>5 DEF Disk

(* A file that is up to date.                                                  *)
LEMMA SkipKeeps ==
    ASSUME TypeOK, Disk, NEW f \in files, SkipFile(f), UNCHANGED <<memVars, attempts, history>>
    PROVE  TypeOK' /\ Disk'
<1>1. /\ server = "update" /\ f \in todo /\ Entry(f) \in applied
      /\ todo' = todo \ {f} /\ applied' = {r \in applied : r.name # f.name}
      /\ UNCHANGED <<server, db, files, updates, known, spoiled, creatureData, creatureSpawnId, changes,
                     hidden, cells, grid, present, corpses, timer, queue, attempts, promised, overruled>>
  BY DEF SkipFile, NextFile, UpToDate, Erased, memVars, mapVars, history
<1>2. TypeOK'
  BY <1>1 DEF TypeOK
<1>3. FileInv' /\ RenameInv'
  BY <1>1 DEF Disk, FileInv, RenameInv
<1>4. LoopInv'
  <2>1. Entry(f) \in updates
    BY <1>1, RecordTypes DEF Disk, LoopInv
  <2>2. \A g \in files \ todo' : (g.failed \/ Entry(g) \in updates') /\ ~IsApplied(g)'
    BY <1>1, <2>1 DEF Disk, LoopInv, IsApplied
  <2>3. ASSUME NEW g \in todo' PROVE \A r \in updates' : r.text = g.text => r \in applied'
    BY <1>1, <2>3, OtherName, RecordTypes DEF Disk, LoopInv
  <2>4. \A g \in todo' :
          /\ \A r \in known' : r.text = g.text => r \in updates'
          /\ \A q, r \in known' : r.text = g.text /\ r.name # g.name => q.name # g.name
    BY <1>1 DEF Disk, LoopInv
  <2> QED
    BY <1>1, <2>2, <2>3, <2>4 DEF LoopInv
<1>5. RecordInv' /\ PromiseInv'
  <2>1. \A s \in Ids : ToCome(s)' = ToCome(s)
    BY <1>1 DEF ToCome, Recorded
  <2> QED
    BY <1>1, <2>1, PromiseSame DEF Disk, RecordInv
<1> QED
  BY <1>2, <1>3, <1>4, <1>5 DEF Disk

(* A file known under a name that is gone.                                     *)
LEMMA RenameEntryKeeps ==
    ASSUME TypeOK, Disk, NEW f \in files, RenameEntry(f), UNCHANGED <<memVars, attempts, history>>
    PROVE  TypeOK' /\ Disk'
<1>0. FileInv /\ RenameInv /\ LoopInv /\ f \in File
  BY RecordTypes DEF Disk
<1>1. PICK r \in RenamedFrom(f) :
         /\ updates' = {q \in updates : q.name \notin {f.name, r.name}}
                         \cup (IF r \in updates THEN {Entry(f)} ELSE {})
         /\ applied' = applied \ {r}
  BY DEF RenameEntry
<1>2. /\ server = "update" /\ f \in todo /\ todo' = todo \ {f}
      /\ UNCHANGED <<server, db, files, known, spoiled, creatureData, creatureSpawnId, changes,
                     hidden, cells, grid, present, corpses, timer, queue, attempts, promised, overruled>>
  BY DEF RenameEntry, NextFile, memVars, mapVars, history
<1>3. /\ r \in known /\ r.text = f.text /\ ~IsApplied(f) /\ \A g \in files : g.name # r.name
      /\ r \in updates /\ r.name # f.name
  BY <1>0, <1>1, <1>2 DEF RenamedFrom, LoopInv
<1>4. updates' = {q \in updates : q.name \notin {f.name, r.name}} \cup {Entry(f)}
  BY <1>1, <1>3
<1>5. Entry(f).name = f.name /\ Entry(f).text = f.text /\ Entry(f) \in [name : Nat, text : Nat]
  BY <1>0, RecordTypes
<1>6. ASSUME NEW g \in files, g # f, NEW q
      PROVE  q \in updates /\ q.text = g.text <=> q \in updates' /\ q.text = g.text
  <2>1. q \in updates /\ q.text = g.text => q.name # f.name
    BY <1>0, <1>6, OtherName
  <2>2. q \in updates /\ q.text = g.text => q.name # r.name
    BY <1>0, <1>3, <1>6 DEF FileInv
  <2>3. Entry(f).text # g.text
    BY <1>0, <1>5, <1>6 DEF FileInv
  <2> QED
    BY <1>4, <2>1, <2>2, <2>3
<1>7. TypeOK'
  <2>1. updates' \subseteq [name : Nat, text : Nat]
    BY <1>4, <1>5, RecordTypes
  <2> QED
    BY <1>1, <1>2, <2>1 DEF TypeOK
<1>8. FileInv'
  <2>1. \A q \in updates' : q.text < attempts
    BY <1>0, <1>4, <1>5 DEF FileInv
  <2>2. \A q, x \in updates' : q.name = x.name \/ q.text = x.text => q = x
    <3>1. \A q \in updates : q.text = f.text => q = r
      BY <1>0, <1>3 DEF FileInv
    <3>2. \A q \in updates' : q = Entry(f) \/ (q \in updates /\ q.name # f.name /\ q.text # f.text)
      BY <1>3, <1>4, <3>1
    <3>3. \A q, x \in updates : q.name = x.name \/ q.text = x.text => q = x
      BY <1>0 DEF FileInv
    <3> QED
      BY <1>5, <3>2, <3>3
  <2> QED
    BY <1>0, <1>2, <2>1, <2>2 DEF FileInv
<1>9. RenameInv'
  <2> SUFFICES ASSUME NEW g \in files, NEW q \in updates', q.text = g.text, q.name # g.name
               PROVE  /\ q.name < g.name /\ \A h \in files : h.name # q.name
                      /\ \A x \in updates' : x.name # g.name
    BY <1>2 DEF RenameInv
  <2>1. g # f
    <3>1. \A x \in updates : x.text = f.text => x = r
      BY <1>0, <1>3 DEF FileInv
    <3> QED
      BY <1>4, <1>5, <3>1
  <2>2. q \in updates
    BY <1>6, <2>1
  <2>3. /\ q.name < g.name /\ \A h \in files : h.name # q.name
        /\ \A x \in updates : x.name # g.name
    BY <1>0, <2>2 DEF RenameInv
  <2>4. f.name # g.name
    BY <2>1, RecordTypes
  <2> QED
    BY <1>4, <1>5, <2>3, <2>4
<1>10. LoopInv'
  <2>1. \A g \in files \ todo' : (g.failed \/ Entry(g) \in updates') /\ ~IsApplied(g)'
    <3> TAKE g \in files \ todo'
    <3>1. CASE g = f
      BY <1>1, <1>3, <1>4, <3>1 DEF IsApplied
    <3>2. CASE g # f
      <4>1. (g.failed \/ Entry(g) \in updates) /\ ~IsApplied(g) /\ Entry(g).text = g.text
        BY <1>0, <1>2, <3>2, RecordTypes DEF LoopInv
      <4> QED
        BY <1>1, <1>6, <3>2, <4>1 DEF IsApplied
    <3> QED
      BY <3>1, <3>2
  <2>2. ASSUME NEW g \in todo'
        PROVE  /\ \A q \in updates' : q.text = g.text => q \in applied'
               /\ \A q \in known' : q.text = g.text => q \in updates'
               /\ \A q, x \in known' : x.text = g.text /\ x.name # g.name => q.name # g.name
    <3>1. g \in todo /\ g # f /\ g \in files
      BY <1>2, RecordTypes
    <3>2. g.text # r.text
      BY <1>0, <1>3, <3>1 DEF FileInv
    <3> QED
      BY <1>0, <1>1, <1>2, <1>6, <3>1, <3>2 DEF LoopInv
  <2> QED
    BY <1>2, <2>1, <2>2 DEF LoopInv
<1>11. \A g \in files : Recorded(g)' <=> Recorded(g)
  <2> TAKE g \in files
  <2>1. CASE g = f
    BY <1>3, <1>4, <1>5, <2>1 DEF Recorded
  <2>2. CASE g # f
    BY <1>6, <2>2 DEF Recorded
  <2> QED
    BY <2>1, <2>2
<1>12. RecordInv' /\ PromiseInv'
  <2>1. \A s \in Ids : ToCome(s)' = ToCome(s)
    BY <1>2, <1>11 DEF ToCome
  <2> QED
    BY <1>2, <2>1, PromiseSame DEF Disk, RecordInv
<1> QED
  BY <1>7, <1>8, <1>9, <1>10, <1>12 DEF Disk

(* A file is executed, or what a cut one leaves of the table is there.         *)
LEMMA ApplyKeeps ==
    ASSUME TypeOK, Disk, queue = <<>>, NEW f \in files, Apply(f) \/ ApplyCut(f),
           UNCHANGED <<memVars, attempts, history>>
    PROVE  TypeOK' /\ Disk'
<1>1. /\ MustApply(f) /\ server = "update" /\ server' = "record" /\ f \in todo
      /\ \A g \in todo : f.name <= g.name
      /\ UNCHANGED <<files, updates, todo, applied, known, creatureData, creatureSpawnId, changes,
                     hidden, cells, grid, present, corpses, timer, queue, attempts, promised, overruled>>
  BY DEF Apply, ApplyCut, MustApply, NextFile, loop, memVars, mapVars, history
<1>2. \/ db' = Execute(db, f.sql) /\ spoiled' = (spoiled \/ f.failed)
      \/ db' = [s \in Ids |-> None] /\ spoiled' = TRUE
  BY DEF Apply, ApplyCut
<1>3. f.sql \in SUBSET Change /\ db \in Rows /\ f.failed \in BOOLEAN /\ spoiled \in BOOLEAN
  BY RecordTypes DEF TypeOK
<1>4. TypeOK'
  <2>1. db' \in Rows
    BY <1>2, <1>3, ExecuteFacts DEF Rows
  <2>2. spoiled' \in BOOLEAN
    BY <1>2, <1>3
  <2> QED
    BY <1>1, <2>1, <2>2 DEF TypeOK
<1>5. FileInv' /\ RenameInv'
  BY <1>1 DEF Disk, FileInv, RenameInv
<1>6. LoopInv'
  BY <1>1 DEF Disk, LoopInv, IsApplied
<1>7. ~Recorded(f)
  BY <1>1, MustApplyFacts DEF Disk
<1>8. \A g : Recorded(g)' <=> Recorded(g)
  BY <1>1 DEF Recorded
<1>9. RecordInv'
  <2>1. \A g \in todo : (\A h \in todo : g.name <= h.name) => g = f
    BY <1>1, RecordTypes
  <2>2. ~spoiled' => \A s \in Ids : Touches(f.sql, s) => db'[s] = Written(f.sql, s)
    BY <1>2, <1>3, ExecuteFacts
  <2> QED
    BY <1>1, <1>7, <1>8, <2>1, <2>2 DEF RecordInv
<1>10. PromiseInv'
  <2> SUFFICES ASSUME ~spoiled', NEW s \in Ids \ overruled
               PROVE  /\ ToCome(s) = {} => promised[s] = db'[s]
                      /\ \A g \in ToCome(s) :
                            (\A h \in ToCome(s) : h.name <= g.name) => promised[s] = Written(g.sql, s)
    <3>1. \A s \in Ids : ToCome(s)' = ToCome(s)
      BY <1>1, <1>8 DEF ToCome
    <3>2. \A s \in Ids : Stored(s)' = db'[s]
      BY <1>1 DEF Stored, Queued
    <3> QED
      BY <1>1, <3>1, <3>2 DEF PromiseInv
  <2>1. ~spoiled /\ ~f.failed /\ db' = Execute(db, f.sql)
    BY <1>2
  <2>2. /\ ToCome(s) = {} => promised[s] = db[s]
        /\ \A g \in ToCome(s) :
              (\A h \in ToCome(s) : h.name <= g.name) => promised[s] = Written(g.sql, s)
    BY <2>1, StoredEmpty DEF Disk, PromiseInv
  <2>3. ToCome(s) = {} => ~Touches(f.sql, s)
    BY <1>7, <2>1 DEF ToCome
  <2>4. ToCome(s) = {} => db'[s] = db[s]
    BY <1>3, <2>1, <2>3, ExecuteFacts
  <2> QED
    BY <2>2, <2>4
<1> QED
  BY <1>4, <1>5, <1>6, <1>9, <1>10 DEF Disk

(* The file at hand is recorded.                                               *)
LEMMA UpdateEntryKeeps ==
    ASSUME TypeOK, Disk, queue = <<>>, NEW f \in files, UpdateEntry(f), UNCHANGED <<memVars, attempts, history>>
    PROVE  TypeOK' /\ Disk'
<1>0. FileInv /\ RenameInv /\ LoopInv /\ RecordInv /\ PromiseInv /\ f \in File
  BY RecordTypes DEF Disk
<1>1. /\ server = "record" /\ server' = "update" /\ f \in todo /\ \A g \in todo : f.name <= g.name
      /\ updates' = {r \in updates : r.name # f.name} \cup {Entry(f)}
      /\ todo' = todo \ {f} /\ applied' = {r \in applied : r.name # f.name}
      /\ UNCHANGED <<db, files, known, spoiled, creatureData, creatureSpawnId, changes,
                     hidden, cells, grid, present, corpses, timer, queue, attempts, promised, overruled>>
  BY DEF UpdateEntry, Erased, memVars, mapVars, history
<1>2. Entry(f).name = f.name /\ Entry(f).text = f.text /\ Entry(f) \in [name : Nat, text : Nat]
  BY <1>0, RecordTypes
<1>3. ~Recorded(f)
  BY <1>0, <1>1 DEF RecordInv
<1>4. \A q \in updates : q.text # f.text
  BY <1>3 DEF Recorded
<1>5. ASSUME NEW g \in files, g # f, NEW q
      PROVE  q \in updates /\ q.text = g.text <=> q \in updates' /\ q.text = g.text
  <2>1. q \in updates /\ q.text = g.text => q.name # f.name
    BY <1>0, <1>5, OtherName
  <2>2. Entry(f).text # g.text
    BY <1>0, <1>2, <1>5 DEF FileInv
  <2> QED
    BY <1>1, <2>1, <2>2
<1>6. TypeOK'
  <2>1. updates' \subseteq [name : Nat, text : Nat]
    BY <1>1, <1>2, RecordTypes
  <2> QED
    BY <1>1, <2>1 DEF TypeOK
<1>7. FileInv'
  <2>1. \A q \in updates' : q.text < attempts
    BY <1>0, <1>1, <1>2 DEF FileInv
  <2>2. \A q, x \in updates' : q.name = x.name \/ q.text = x.text => q = x
    <3>1. \A q \in updates' : q = Entry(f) \/ (q \in updates /\ q.name # f.name /\ q.text # f.text)
      BY <1>1, <1>4
    <3>2. \A q, x \in updates : q.name = x.name \/ q.text = x.text => q = x
      BY <1>0 DEF FileInv
    <3> QED
      BY <1>2, <3>1, <3>2
  <2> QED
    BY <1>0, <1>1, <2>1, <2>2 DEF FileInv
<1>8. RenameInv'
  <2> SUFFICES ASSUME NEW g \in files, NEW q \in updates', q.text = g.text, q.name # g.name
               PROVE  /\ q.name < g.name /\ \A h \in files : h.name # q.name
                      /\ \A x \in updates' : x.name # g.name
    BY <1>1 DEF RenameInv
  <2>1. g # f
    BY <1>1, <1>2, <1>4
  <2>2. q \in updates
    BY <1>5, <2>1
  <2>3. /\ q.name < g.name /\ \A h \in files : h.name # q.name
        /\ \A x \in updates : x.name # g.name
    BY <1>0, <2>2 DEF RenameInv
  <2>4. f.name # g.name
    BY <2>1, RecordTypes
  <2> QED
    BY <1>1, <1>2, <2>3, <2>4
<1>9. LoopInv'
  <2>1. \A g \in files \ todo' : (g.failed \/ Entry(g) \in updates') /\ ~IsApplied(g)'
    <3> TAKE g \in files \ todo'
    <3>1. CASE g = f
      BY <1>1, <3>1 DEF IsApplied
    <3>2. CASE g # f
      <4>1. (g.failed \/ Entry(g) \in updates) /\ ~IsApplied(g) /\ Entry(g).text = g.text
        BY <1>0, <1>1, <3>2, RecordTypes DEF LoopInv
      <4> QED
        BY <1>1, <1>5, <3>2, <4>1 DEF IsApplied
    <3> QED
      BY <3>1, <3>2
  <2>2. ASSUME NEW g \in todo'
        PROVE  /\ \A q \in updates' : q.text = g.text => q \in applied'
               /\ \A q \in known' : q.text = g.text => q \in updates'
               /\ \A q, x \in known' : x.text = g.text /\ x.name # g.name => q.name # g.name
    <3>1. g \in todo /\ g # f /\ g \in files
      BY <1>1, RecordTypes
    <3>2. \A q \in updates : q.text = g.text => q.name # f.name
      BY <1>0, <3>1, OtherName
    <3>3. /\ \A q \in updates : q.text = g.text => q \in applied
          /\ \A q \in known : q.text = g.text => q \in updates
          /\ \A q, x \in known : x.text = g.text /\ x.name # g.name => q.name # g.name
      BY <1>0, <3>1 DEF LoopInv
    <3>4. \A q \in updates' : q.text = g.text => q \in updates
      BY <1>5, <3>1
    <3> QED
      BY <1>1, <1>5, <3>1, <3>2, <3>3, <3>4
  <2> QED
    BY <1>1, <2>1, <2>2 DEF LoopInv
<1>10. Recorded(f)' /\ \A g \in files : g # f => (Recorded(g)' <=> Recorded(g))
  <2>1. Recorded(f)'
    BY <1>1, <1>2 DEF Recorded
  <2>2. ASSUME NEW g \in files, g # f PROVE Recorded(g)' <=> Recorded(g)
    BY <1>5, <2>2 DEF Recorded
  <2> QED
    BY <2>1, <2>2
<1>11. PromiseInv'
  <2>1. \A s \in Ids : ToCome(s)' = ToCome(s) \ {f}
    BY <1>1, <1>10 DEF ToCome
  <2> QED
    BY <1>1, <2>1, PromiseRecorded
<1>12. RecordInv'
  BY <1>1 DEF RecordInv
<1> QED
  BY <1>6, <1>7, <1>8, <1>9, <1>11, <1>12 DEF Disk

(* The file at hand is applied and not recorded.                               *)
LEMMA EntryFailsKeeps ==
    ASSUME TypeOK, Disk, queue = <<>>, NEW f \in files, UpdateEntryFails(f),
           UNCHANGED <<memVars, attempts, history>>
    PROVE  TypeOK' /\ Disk'
<1>0. FileInv /\ RenameInv /\ LoopInv /\ f \in File
  BY RecordTypes DEF Disk
<1>1. /\ server = "record" /\ server' = "update" /\ f \in todo /\ \A g \in todo : f.name <= g.name
      /\ files' = (files \ {f}) \cup {[f EXCEPT !.failed = TRUE]}
      /\ todo' = todo \ {f} /\ applied' = {r \in applied : r.name # f.name}
      /\ UNCHANGED <<db, updates, known, spoiled, creatureData, creatureSpawnId, changes,
                     hidden, cells, grid, present, corpses, timer, queue, attempts, promised, overruled>>
  BY DEF UpdateEntryFails, Erased, memVars, mapVars, history
<1>2. PICK h \in File : /\ h.name = f.name /\ h.text = f.text /\ h.sql = f.sql /\ h.failed = TRUE
                        /\ files' = (files \ {f}) \cup {h}
  <2>1. [f EXCEPT !.failed = TRUE] \in File
    BY <1>0 DEF File
  <2> QED
    BY <1>0, <1>1, <2>1 DEF File
<1>3. \A g \in files' : \E k \in files : k.name = g.name /\ k.text = g.text /\ k.sql = g.sql
  BY <1>2
<1>4. TypeOK'
  <2>1. files' \subseteq File /\ todo' \subseteq files'
    BY <1>1, <1>2, RecordTypes
  <2>2. \A g, k \in files' : g.name = k.name => g = k
    BY <1>2, RecordTypes
  <2> QED
    BY <1>1, <2>1, <2>2 DEF TypeOK
<1>5. FileInv'
  <2>1. \A g, k \in files' : g.text = k.text => g = k
    BY <1>0, <1>2 DEF FileInv
  <2>2. \A g \in files' : g.text < attempts' /\ \A c \in g.sql : c.type = "delete" => c.entry = None
    BY <1>0, <1>1, <1>3 DEF FileInv
  <2> QED
    BY <1>0, <1>1, <2>1, <2>2 DEF FileInv
<1>6. RenameInv'
  <2> SUFFICES ASSUME NEW g \in files', NEW r \in updates, r.text = g.text, r.name # g.name
               PROVE  /\ r.name < g.name /\ \A k \in files' : k.name # r.name
                      /\ \A q \in updates : q.name # g.name
    BY <1>1 DEF RenameInv
  <2>1. PICK k \in files : k.name = g.name /\ k.text = g.text
    BY <1>3
  <2>2. /\ r.name < g.name /\ \A x \in files : x.name # r.name
        /\ \A q \in updates : q.name # g.name
    BY <1>0, <2>1 DEF RenameInv
  <2> QED
    BY <1>3, <2>2
<1>7. LoopInv'
  <2>1. ASSUME NEW g \in files' \ todo'
        PROVE  (g.failed \/ Entry(g) \in updates') /\ ~IsApplied(g)'
    <3>1. CASE g = h
      BY <1>1, <1>2, <3>1 DEF IsApplied
    <3>2. CASE g # h
      <4>1. g \in files \ todo
        BY <1>1, <1>2, <3>2
      <4>2. (g.failed \/ Entry(g) \in updates) /\ ~IsApplied(g)
        BY <1>0, <1>1, <4>1 DEF LoopInv
      <4> QED
        BY <1>1, <4>2 DEF IsApplied
    <3> QED
      BY <3>1, <3>2
  <2>2. ASSUME NEW g \in todo'
        PROVE  /\ \A q \in updates' : q.text = g.text => q \in applied'
               /\ \A q \in known' : q.text = g.text => q \in updates'
               /\ \A q, x \in known' : x.text = g.text /\ x.name # g.name => q.name # g.name
    <3>1. g \in todo /\ g # f /\ g \in files
      BY <1>1, RecordTypes
    <3>2. \A q \in updates : q.text = g.text => q.name # f.name
      BY <1>0, <3>1, OtherName
    <3> QED
      BY <1>0, <1>1, <3>1, <3>2 DEF LoopInv
  <2> QED
    BY <1>1, <2>1, <2>2 DEF LoopInv
<1>8. PromiseInv'
  <2>1. \A g : Recorded(g)' <=> Recorded(g)
    BY <1>1 DEF Recorded
  <2>2. \A s \in Ids : ToCome(s)' = ToCome(s) \ {f}
    BY <1>2, <2>1 DEF ToCome
  <2> QED
    BY <1>1, <2>2, PromiseRecorded
<1>9. RecordInv'
  BY <1>1 DEF RecordInv
<1> QED
  BY <1>4, <1>5, <1>6, <1>7, <1>8, <1>9 DEF Disk

(* Everything that ends the loop and leaves the table and the files alone.     *)
LEMMA ReturnKeeps ==
    ASSUME TypeOK, Disk, server' = "down", Return, UNCHANGED <<files, updates, attempts>>
    PROVE  /\ FileInv' /\ RenameInv' /\ LoopInv' /\ RecordInv'
           /\ \A s \in Ids : ToCome(s)' = ToCome(s)
<1>1. todo' = {} /\ applied' = {} /\ known' = {}
  BY DEF Return
<1>2. FileInv' /\ RenameInv'
  BY DEF Disk, FileInv, RenameInv
<1>3. LoopInv' /\ RecordInv'
  BY <1>1 DEF LoopInv, RecordInv
<1>4. \A s \in Ids : ToCome(s)' = ToCome(s)
  BY DEF ToCome, Recorded
<1> QED
  BY <1>2, <1>3, <1>4

(* The end of the update: the rows of missing files may be removed.            *)
LEMMA CleanUpKeeps ==
    ASSUME TypeOK, Disk, CleanUp, UNCHANGED <<memVars, attempts, history>>
    PROVE  TypeOK' /\ Disk'
<1>1. /\ server = "update" /\ server' = "load" /\ todo = {}
      /\ todo' = {} /\ applied' = {} /\ known' = {}
      /\ UNCHANGED <<db, files, spoiled, creatureData, creatureSpawnId, changes,
                     hidden, cells, grid, present, corpses, timer, queue, attempts, promised, overruled>>
  BY DEF CleanUp, Return, memVars, mapVars, history
<1>2. updates' \subseteq updates /\ \A r \in updates : r \notin applied => r \in updates'
  BY DEF CleanUp
<1>3. TypeOK'
  BY <1>1, <1>2 DEF TypeOK
<1>4. FileInv'
  BY <1>1, <1>2 DEF Disk, FileInv
<1>5. RenameInv'
  BY <1>1, <1>2 DEF Disk, RenameInv
<1>6. \A f \in files : f.failed \/ (Entry(f) \in updates' /\ Recorded(f) /\ Recorded(f)')
  <2> SUFFICES ASSUME NEW f \in files, ~f.failed
               PROVE  Entry(f) \in updates' /\ Recorded(f) /\ Recorded(f)'
    OBVIOUS
  <2>1. Entry(f) \in updates /\ ~IsApplied(f) /\ Entry(f).name = f.name /\ Entry(f).text = f.text
    BY <1>1, RecordTypes DEF Disk, LoopInv
  <2>2. Entry(f) \notin applied
    BY <2>1 DEF IsApplied
  <2> QED
    BY <1>2, <2>1, <2>2 DEF Recorded
<1>7. LoopInv' /\ RecordInv'
  BY <1>1, <1>6 DEF LoopInv, RecordInv, IsApplied
<1>8. PromiseInv'
  <2>1. \A s \in Ids : ToCome(s)' = {} /\ ToCome(s) = {}
    BY <1>1, <1>6 DEF ToCome
  <2> QED
    BY <1>1, <2>1, PromiseSame DEF Disk
<1> QED
  BY <1>3, <1>4, <1>5, <1>7, <1>8 DEF Disk

(* Every step of the update at a start.                                        *)
LEMMA UpdateKeeps ==
    ASSUME Inv, UpdateStep, UNCHANGED <<memVars, attempts, history>>
    PROVE  Inv'
<1>0. server # "running" /\ server' # "running"
  BY DEF UpdateStep, BeginUpdate, CleanUp, SkipFile, RenameEntry, UpdateEntry, UpdateEntryFails, Apply,
         ApplyRefused, ApplyCut, NextFile, MustApply
<1>1. TypeOK /\ Memory /\ Disk /\ queue = <<>>
  BY <1>0 DEF Inv, Memory, MemoryInv
<1>2. Memory'
  BY <1>0, <1>1, UpdateMemory DEF history
<1>3. TypeOK' /\ Disk'
  <2>1. CASE BeginUpdate \/ CleanUp
    BY <1>1, <2>1, BeginKeeps, CleanUpKeeps
  <2>2. ASSUME NEW f \in files, ApplyRefused(f) PROVE TypeOK' /\ Disk'
    <3>1. /\ server' = "down" /\ Return /\ UNCHANGED <<db, files, updates, spoiled, attempts, history>>
      BY <2>2 DEF ApplyRefused
    <3>2. TypeOK'
      BY <1>1, <3>1 DEF TypeOK, Return, memVars, mapVars, history
    <3>3. UNCHANGED <<queue, promised, overruled>>
      BY DEF memVars, history
    <3>4. /\ FileInv' /\ RenameInv' /\ LoopInv' /\ RecordInv'
          /\ \A s \in Ids : ToCome(s)' = ToCome(s)
      BY <1>1, <3>1, ReturnKeeps
    <3>5. PromiseInv'
      BY <1>1, <3>1, <3>3, <3>4, PromiseSame DEF Disk
    <3> QED
      BY <3>2, <3>4, <3>5 DEF Disk
  <2>3. ASSUME NEW f \in files,
               \/ SkipFile(f) \/ RenameEntry(f) \/ UpdateEntry(f) \/ UpdateEntryFails(f)
               \/ Apply(f) \/ ApplyCut(f)
        PROVE  TypeOK' /\ Disk'
    BY <1>1, <2>3, SkipKeeps, RenameEntryKeeps, UpdateEntryKeeps, EntryFailsKeeps, ApplyKeeps
  <2> QED
    BY <2>1, <2>2, <2>3 DEF UpdateStep
<1> QED
  BY <1>2, <1>3 DEF Inv
-----------------------------------------------------------------------------
(* The rows once changes about different spawns are committed.                 *)
LEMMA PendingFacts ==
    ASSUME NEW rows \in Rows, NEW sql \in SUBSET Change,
           \A c, d \in sql : c.spawn = d.spawn => c = d
    PROVE  /\ \A c \in sql : Execute(rows, sql)[c.spawn] = c.entry
           /\ \A s \in Ids : ~Touches(sql, s) => Execute(rows, sql)[s] = rows[s]
<1>1. ASSUME NEW c \in sql PROVE Execute(rows, sql)[c.spawn] = c.entry
  <2>1. c.spawn \in Ids
    BY DEF Change
  <2>2. Touches(sql, c.spawn) /\ Written(sql, c.spawn) = c.entry
    BY WrittenFacts
  <2> QED
    BY <2>1, <2>2, ExecuteFacts
<1>2. \A s \in Ids : ~Touches(sql, s) => Execute(rows, sql)[s] = rows[s]
  BY ExecuteFacts
<1> QED
  BY <1>1, <1>2

Agreed ==
    /\ \A c \in changes : c.spawn \notin overruled => Shown(c.spawn) = c.entry
    /\ \A s \in Ids \ overruled : ~Touches(changes, s) => Shown(s) = promised[s]

(* The world is what is promised, said without Execute.                        *)
LEMMA WorldFacts ==
    ASSUME TypeOK, ChangeInv, server = "running", WorldIsPromise
    PROVE  Agreed
<1>1. /\ \A c \in changes : Execute(promised, changes)[c.spawn] = c.entry
      /\ \A s \in Ids : ~Touches(changes, s) => Execute(promised, changes)[s] = promised[s]
  BY PendingFacts DEF TypeOK, ChangeInv
<1>2. \A c \in changes : c.spawn \in Ids
  BY DEF TypeOK, Change
<1> QED
  BY <1>1, <1>2 DEF WorldIsPromise, Agreed

(* The same, after a step.                                                     *)
LEMMA WorldNext ==
    ASSUME TypeOK', ChangeInv', Agreed'
    PROVE  WorldIsPromise'
<1>1. /\ \A c \in changes' : Execute(promised', changes')[c.spawn] = c.entry
      /\ \A s \in Ids : ~Touches(changes', s) => Execute(promised', changes')[s] = promised'[s]
  BY PendingFacts DEF TypeOK, ChangeInv
<1> QED
  BY <1>1 DEF WorldIsPromise, Agreed, Touches

(* What happens in memory does not touch the files.                            *)
LEMMA OutsideKeeps ==
    ASSUME Disk, UNCHANGED outside
    PROVE  Disk'
<1>1. UNCHANGED <<server, db, files, updates, todo, applied, known, spoiled, queue, attempts, promised,
                  overruled>>
  BY DEF outside, updaterVars, history
<1>2. \A s : ToCome(s)' = ToCome(s)
  BY <1>1 DEF ToCome, Recorded
<1>3. FileInv' /\ RenameInv'
  BY <1>1 DEF Disk, FileInv, RenameInv
<1>4. LoopInv'
  BY <1>1 DEF Disk, LoopInv, IsApplied
<1>5. RecordInv'
  BY <1>1 DEF Disk, RecordInv, Recorded
<1>6. PromiseInv'
  BY <1>1, <1>2, PromiseSame DEF Disk
<1> QED
  BY <1>3, <1>4, <1>5, <1>6 DEF Disk

(* What the map shows, taken apart.                                            *)
LEMMA MapFacts ==
    ASSUME TypeOK, MapShowsWorld, server = "running"
    PROVE  /\ \A s \in present : grid /\ Shown(s) # None
           /\ \A s \in corpses : grid /\ Shown(s) # None
           /\ grid => \A s \in cells : Shown(s) # None => s \in present \cup timer
           /\ \A s \in timer : creatureData[s] # None
           /\ present \subseteq Ids /\ corpses \subseteq Ids /\ timer \subseteq Ids /\ cells \subseteq Ids
BY DEF TypeOK, MapShowsWorld

(* The world thread's changes of the map alone: grids, deaths, respawns.       *)
LEMMA MapKeeps ==
    ASSUME Inv, \/ LoadGrid \/ UnloadGrid \/ SpawnCreatureFails
                \/ \E s \in Ids : Die(s) \/ RemoveCorpse(s) \/ Respawn(s)
    PROVE  Inv'
<1>0. TypeOK /\ Memory /\ Disk
  BY DEF Inv
<1>1. /\ server = "running" /\ UNCHANGED outside /\ UNCHANGED <<creatureData, changes, hidden, cells>>
      /\ UNCHANGED <<server, db, files, updates, todo, applied, known, spoiled, queue, attempts,
                     promised, overruled>>
  BY DEF LoadGrid, UnloadGrid, SpawnCreatureFails, Die, RemoveCorpse, Respawn, Running, otherwise,
         outside, updaterVars, history
<1>2. creatureSpawnId' \in creatureSpawnId..(MaxId + 1) /\ creatureSpawnId \in 1..(MaxId + 1)
  <2>1. \/ creatureSpawnId' = creatureSpawnId
        \/ creatureSpawnId <= MaxId /\ creatureSpawnId' = creatureSpawnId + 1
    BY DEF LoadGrid, UnloadGrid, SpawnCreatureFails, Die, RemoveCorpse, Respawn, otherwise
  <2>2. creatureSpawnId \in 1..(MaxId + 1)
    BY <1>0 DEF TypeOK
  <2> QED
    BY <2>1, <2>2, MaxIdAssumption
<1>3. grid' \in BOOLEAN /\ present' \subseteq Ids /\ corpses' \subseteq Ids /\ timer' \subseteq Ids
  BY <1>0 DEF LoadGrid, UnloadGrid, SpawnCreatureFails, Die, RemoveCorpse, Respawn, TypeOK, mapVars
<1>4. TypeOK'
  BY <1>0, <1>1, <1>2, <1>3 DEF TypeOK
<1>5. Disk'
  BY <1>0, <1>1, OutsideKeeps
<1>6. MemoryInv'
  BY <1>1 DEF MemoryInv
<1>7. IdInv'
  <2>1. \A s \in Ids : s >= creatureSpawnId' => s >= creatureSpawnId
    BY <1>2, MaxIdAssumption DEF Ids
  <2>2. \A f \in files, c \in Change : c.spawn < creatureSpawnId => c.spawn < creatureSpawnId'
    BY <1>2, MaxIdAssumption DEF Change, Ids
  <2>3. \A f \in files : f.sql \subseteq Change
    BY <1>0, RecordTypes
  <2> QED
    BY <1>0, <1>1, <2>1, <2>2, <2>3 DEF Memory, IdInv, Recorded
<1>8. ChangeInv' /\ WorldIsPromise'
  BY <1>0, <1>1 DEF Memory, ChangeInv, WorldIsPromise, Shown
<1>9. MapShowsWorld'
  <2>1. \A s \in Ids : Shown(s)' = Shown(s)
    BY <1>1 DEF Shown
  <2>2. /\ \A s \in present : grid /\ Shown(s) # None
        /\ \A s \in corpses : grid /\ Shown(s) # None
        /\ grid => \A s \in cells : Shown(s) # None => s \in present \cup timer
        /\ \A s \in timer : creatureData[s] # None
        /\ present \subseteq Ids /\ corpses \subseteq Ids /\ timer \subseteq Ids /\ cells \subseteq Ids
    BY <1>0, <1>1, MapFacts DEF Memory
  <2>3. \A s \in Ids : Shown(s) # None <=> LoadsFromDB(s)
    BY DEF Shown, LoadsFromDB, IsCreatureSpawnHidden
  <2>4. CASE LoadGrid
    BY <1>1, <2>1, <2>2, <2>3, <2>4 DEF LoadGrid, MapShowsWorld
  <2>5. CASE UnloadGrid
    BY <1>1, <2>1, <2>2, <2>5 DEF UnloadGrid, MapShowsWorld
  <2>6. CASE SpawnCreatureFails
    BY <1>1, <2>1, <2>2, <2>6 DEF SpawnCreatureFails, MapShowsWorld, mapVars
  <2>7. ASSUME NEW s \in Ids, Die(s) PROVE MapShowsWorld'
    <3>1. creatureData[s] # None
      BY <2>2, <2>7 DEF Die, Shown
    <3> QED
      BY <1>1, <2>1, <2>2, <2>7, <3>1 DEF Die, MapShowsWorld
  <2>8. ASSUME NEW s \in Ids, RemoveCorpse(s) PROVE MapShowsWorld'
    BY <1>1, <2>1, <2>2, <2>8 DEF RemoveCorpse, MapShowsWorld
  <2>9. ASSUME NEW s \in Ids, Respawn(s) PROVE MapShowsWorld'
    BY <1>1, <2>1, <2>2, <2>3, <2>9 DEF Respawn, DoRespawn, MapShowsWorld
  <2> QED
    BY <2>4, <2>5, <2>6, <2>7, <2>8, <2>9
<1> QED
  BY <1>4, <1>5, <1>6, <1>7, <1>8, <1>9 DEF Inv, Memory

(* A spawn of the database is deleted.                                         *)
LEMMA DeleteKeeps ==
    ASSUME Inv, NEW s \in Ids, DeleteCreatureSpawn(s)
    PROVE  Inv'
<1>0. TypeOK /\ Memory /\ Disk
  BY DEF Inv
<1>1. /\ server = "running" /\ creatureData[s] # None /\ s \notin hidden
      /\ hidden' = hidden \cup {s} /\ present' = present \ {s} /\ corpses' = corpses \ {s}
      /\ UNCHANGED outside /\ UNCHANGED <<creatureData, creatureSpawnId, cells, grid, timer>>
      /\ UNCHANGED <<server, db, files, updates, todo, applied, known, spoiled, queue, attempts,
                     promised, overruled>>
  BY DEF DeleteCreatureSpawn, Running, IsCreatureSpawnHidden, outside, updaterVars, history
<1>2. PICK d \in Change : /\ d.type = "delete" /\ d.spawn = s /\ d.entry = None
                          /\ changes' = changes \cup {d}
  <2>1. [type |-> "delete", spawn |-> s, entry |-> None] \in Change
    BY DEF Change
  <2> QED
    BY <2>1 DEF DeleteCreatureSpawn, Record
<1>3. ~Touches(changes, s)
  <2>1. \A c \in changes : c.spawn = s => c.type # "spawn"
    BY DEF DeleteCreatureSpawn, PendingSpawn
  <2> QED
    BY <1>0, <1>1, <2>1 DEF Memory, ChangeInv, Touches
<1>4. TypeOK'
  BY <1>0, <1>1, <1>2 DEF TypeOK
<1>5. Disk'
  BY <1>0, <1>1, OutsideKeeps
<1>6. /\ \A x \in present : grid /\ Shown(x) # None
      /\ \A x \in corpses : grid /\ Shown(x) # None
      /\ grid => \A x \in cells : Shown(x) # None => x \in present \cup timer
      /\ \A x \in timer : creatureData[x] # None
      /\ present \subseteq Ids /\ corpses \subseteq Ids /\ timer \subseteq Ids /\ cells \subseteq Ids
  BY <1>0, <1>1, MapFacts DEF Memory
<1>7. MemoryInv' /\ MapShowsWorld'
  <2>1. \A x \in Ids : Shown(x)' = IF x = s THEN None ELSE Shown(x)
    BY <1>1 DEF Shown
  <2> QED
    BY <1>1, <1>6, <2>1 DEF MemoryInv, MapShowsWorld
<1>8. Shown(s) = creatureData[s]
  BY <1>1 DEF Shown
<1>9. IdInv'
  <2>1. ~(s >= creatureSpawnId)
    BY <1>0, <1>1 DEF Memory, IdInv
  <2>2. \A x \in Ids : Touches(changes', x) <=> Touches(changes, x) \/ x = s
    BY <1>2 DEF Touches
  <2> QED
    BY <1>0, <1>1, <2>1, <2>2 DEF Memory, IdInv, Recorded
<1>10. /\ \A c \in changes : c.spawn \notin overruled => Shown(c.spawn) = c.entry
       /\ \A x \in Ids \ overruled : ~Touches(changes, x) => Shown(x) = promised[x]
  BY <1>0, <1>1, WorldFacts DEF Memory, Agreed
<1>11. ChangeInv'
  <2>1. s \notin overruled => creatureData[s] = promised[s]
    BY <1>3, <1>8, <1>10
  <2>2. \A c \in changes : c.spawn # s
    BY <1>3 DEF Touches
  <2>3. \A c, d1 \in changes' : c.spawn = d1.spawn => c = d1
    BY <1>0, <1>2, <2>2 DEF Memory, ChangeInv
  <2>4. ASSUME NEW c \in changes'
        PROVE  \/ /\ c.type = "delete" /\ c.entry = None /\ c.spawn \in hidden'
                  /\ c.spawn \notin overruled' => creatureData'[c.spawn] = promised'[c.spawn]
               \/ /\ c.type = "spawn" /\ c.spawn \notin hidden'
                  /\ c.spawn \notin overruled' => promised'[c.spawn] = None
    <3>1. CASE c = d
      BY <1>1, <1>2, <2>1, <3>1
    <3>2. CASE c \in changes
      BY <1>0, <1>1, <2>2, <3>2 DEF Memory, ChangeInv
    <3> QED
      BY <1>2, <3>1, <3>2
  <2> QED
    BY <2>3, <2>4 DEF ChangeInv
<1>12. WorldIsPromise'
  <2>1. \A x \in Ids : Shown(x)' = IF x = s THEN None ELSE Shown(x)
    BY <1>1 DEF Shown
  <2>2. \A c \in changes : c.spawn \in Ids /\ c.spawn # s
    BY <1>0, <1>3 DEF Touches, TypeOK, Change
  <2>3. /\ \A c \in changes' : c.spawn \notin overruled' => Shown(c.spawn)' = c.entry
        /\ \A x \in Ids \ overruled' : ~Touches(changes', x) => Shown(x)' = promised'[x]
    BY <1>1, <1>2, <1>10, <2>1, <2>2 DEF Touches
  <2> QED
    BY <1>4, <1>11, <2>3, WorldNext DEF Agreed
<1> QED
  BY <1>4, <1>5, <1>7, <1>9, <1>11, <1>12 DEF Inv, Memory

(* A change is undone, or a spawn of the DevTools deleted before its commit.   *)
LEMMA UndoKeeps ==
    ASSUME Inv, server = "running", NEW c \in changes, UndoChange(c), UNCHANGED outside
    PROVE  Inv'
<1>0. TypeOK /\ Memory /\ Disk
  BY DEF Inv
<1> DEFINE s == c.spawn
<1>1. /\ changes' = changes \ {c} /\ UNCHANGED <<creatureSpawnId, grid>>
      /\ UNCHANGED <<server, db, files, updates, todo, applied, known, spoiled, queue, attempts,
                     promised, overruled>>
  BY DEF UndoChange, outside, updaterVars, history
<1>2. s \in Ids /\ \A d \in changes : d.spawn = s => d = c
  BY <1>0 DEF TypeOK, Change, Memory, ChangeInv
<1>3. \/ /\ c.type = "delete" /\ c.entry = None /\ s \in hidden
         /\ s \notin overruled => creatureData[s] = promised[s]
      \/ /\ c.type = "spawn" /\ s \notin hidden
         /\ s \notin overruled => promised[s] = None
  BY <1>0 DEF Memory, ChangeInv
<1> HIDE DEF s
<1>4. \/ /\ c.type = "spawn" /\ creatureData' = [creatureData EXCEPT ![s] = None]
         /\ present' = present \ {s} /\ corpses' = corpses \ {s} /\ timer' = timer \ {s}
         /\ cells' = cells \ {s} /\ UNCHANGED hidden
      \/ /\ c.type = "delete" /\ hidden' = hidden \ {s} /\ UNCHANGED <<creatureData, cells, corpses, timer>>
         /\ present' = IF creatureData[s] # None /\ grid /\ s \notin timer THEN present \cup {s} ELSE present
  BY DEF UndoChange, RemoveSpawn, CreateAgain, s
<1>5. TypeOK'
  <2>1. /\ creatureData' \in Rows /\ hidden' \subseteq Ids /\ present' \subseteq Ids /\ timer' \subseteq Ids
        /\ corpses' \subseteq Ids /\ cells' \subseteq Ids
    BY <1>0, <1>2, <1>4 DEF TypeOK, Rows
  <2> QED
    BY <1>0, <1>1, <2>1 DEF TypeOK
<1>6. Disk'
  BY <1>0, OutsideKeeps
<1>7. \A x \in Ids : IF x = s THEN /\ c.type = "spawn" => creatureData'[x] = None /\ Shown(x)' = None
                                   /\ c.type = "delete" => Shown(x)' = creatureData[x] /\ creatureData'[x] = creatureData[x]
                             ELSE creatureData'[x] = creatureData[x] /\ Shown(x)' = Shown(x)
  BY <1>0, <1>2, <1>4 DEF TypeOK, Rows, Shown
<1>8. /\ \A x \in present : grid /\ Shown(x) # None
      /\ \A x \in corpses : grid /\ Shown(x) # None
      /\ grid => \A x \in cells : Shown(x) # None => x \in present \cup timer
      /\ \A x \in timer : creatureData[x] # None
      /\ present \subseteq Ids /\ corpses \subseteq Ids /\ timer \subseteq Ids /\ cells \subseteq Ids
  BY <1>0, MapFacts DEF Memory
<1>9. c.type = "delete" => s \notin present \cup corpses
  BY <1>3, <1>8 DEF Shown
<1>10. MemoryInv' /\ MapShowsWorld'
  <2>1. \A x \in present' : grid' /\ Shown(x)' # None
    <3> TAKE x \in present'
    <3>1. CASE x = s
      BY <1>1, <1>2, <1>3, <1>4, <1>7, <1>9, <3>1
    <3>2. CASE x # s
      BY <1>1, <1>4, <1>7, <1>8, <3>2
    <3> QED
      BY <3>1, <3>2
  <2>2. \A x \in corpses' : grid' /\ Shown(x)' # None
    <3> TAKE x \in corpses'
    <3>1. x \in corpses /\ x # s
      BY <1>3, <1>4, <1>9
    <3> QED
      BY <1>1, <1>7, <1>8, <3>1
  <2>3. grid' => \A x \in cells' : Shown(x)' # None => x \in present' \cup timer'
    <3> SUFFICES ASSUME grid, NEW x \in cells', Shown(x)' # None PROVE x \in present' \cup timer'
      BY <1>1
    <3>0. x \in cells /\ x \in Ids
      BY <1>4, <1>8
    <3>1. CASE x = s
      <4>1. c.type = "delete" /\ creatureData[s] # None
        BY <1>3, <1>7, <3>0, <3>1
      <4> QED
        BY <1>4, <3>1, <4>1
    <3>2. CASE x # s
      <4>1. x \in present \cup timer
        BY <1>7, <1>8, <3>0, <3>2
      <4> QED
        BY <1>4, <3>2, <4>1
    <3> QED
      BY <3>1, <3>2
  <2>4. \A x \in timer' : creatureData'[x] # None
    BY <1>2, <1>4, <1>7, <1>8
  <2>5. \A x \in present' \cup corpses' : grid' /\ Shown(x)' # None
    BY <2>1, <2>2
  <2> QED
    BY <1>1, <2>3, <2>4, <2>5 DEF MemoryInv, MapShowsWorld
<1>11. \A x \in Ids : Touches(changes', x) <=> Touches(changes, x) /\ x # s
  BY <1>1, <1>2 DEF Touches, s
<1>12. IdInv'
  <2>1. Touches(changes, s)
    BY DEF Touches, s
  <2>2. ~(s >= creatureSpawnId)
    BY <1>0, <1>2, <2>1 DEF Memory, IdInv
  <2> QED
    BY <1>0, <1>1, <1>2, <1>4, <1>7, <1>11, <2>2 DEF Memory, IdInv, Recorded
<1>13. ChangeInv'
  <2>1. \A a, d \in changes' : a.spawn = d.spawn => a = d
    BY <1>0, <1>1 DEF Memory, ChangeInv
  <2>2. ASSUME NEW d \in changes'
        PROVE  \/ /\ d.type = "delete" /\ d.entry = None /\ d.spawn \in hidden'
                  /\ d.spawn \notin overruled' => creatureData'[d.spawn] = promised'[d.spawn]
               \/ /\ d.type = "spawn" /\ d.spawn \notin hidden'
                  /\ d.spawn \notin overruled' => promised'[d.spawn] = None
    <3>1. d \in changes /\ d.spawn # s /\ d.spawn \in Ids
      BY <1>0, <1>1, <1>2 DEF TypeOK, Change
    <3> QED
      BY <1>0, <1>1, <1>4, <1>7, <3>1 DEF Memory, ChangeInv
  <2> QED
    BY <2>1, <2>2 DEF ChangeInv
<1>14. WorldIsPromise'
  <2>1. Agreed
    BY <1>0, WorldFacts DEF Memory
  <2>2. ASSUME NEW d \in changes', d.spawn \notin overruled' PROVE Shown(d.spawn)' = d.entry
    <3>1. d \in changes /\ d.spawn # s /\ d.spawn \in Ids
      BY <1>0, <1>1, <1>2 DEF TypeOK, Change
    <3> QED
      BY <1>1, <1>7, <2>1, <2>2, <3>1 DEF Agreed
  <2>3. ASSUME NEW x \in Ids \ overruled', ~Touches(changes', x) PROVE Shown(x)' = promised'[x]
    <3>1. CASE x = s
      BY <1>1, <1>3, <1>7, <2>3, <3>1
    <3>2. CASE x # s
      BY <1>1, <1>7, <1>11, <2>1, <2>3, <3>2 DEF Agreed
    <3> QED
      BY <3>1, <3>2
  <2> QED
    BY <1>5, <1>13, <2>2, <2>3, WorldNext DEF Agreed
<1> QED
  BY <1>5, <1>6, <1>10, <1>12, <1>13, <1>14 DEF Inv, Memory

(* A spawn id is taken and its data made.                                      *)
LEMMA NewSpawnFacts ==
    ASSUME Inv, NEW e \in Entries, NewSpawn(e)
    PROVE  /\ creatureSpawnId \in Ids /\ creatureSpawnId' = creatureSpawnId + 1
           /\ server = "running" /\ grid /\ creatureData' \in Rows
           /\ creatureSpawnId' \in 1..(MaxId + 1)
           /\ \A x \in Ids : creatureData'[x] = IF x = creatureSpawnId THEN e ELSE creatureData[x]
           /\ creatureData[creatureSpawnId] = None /\ promised[creatureSpawnId] = None
           /\ creatureSpawnId \notin hidden /\ ~Touches(changes, creatureSpawnId)
           /\ creatureSpawnId \notin timer /\ creatureSpawnId \notin cells
           /\ \A f \in files : ~f.failed /\ ~Recorded(f) => ~Touches(f.sql, creatureSpawnId)
           /\ \A x \in Ids : x >= creatureSpawnId' => x >= creatureSpawnId /\ x # creatureSpawnId
           /\ \A x \in Ids : x < creatureSpawnId => x < creatureSpawnId'
           /\ e # None /\ creatureSpawnId < creatureSpawnId'
<1>0. TypeOK /\ Memory /\ Disk
  BY DEF Inv
<1>1. /\ server = "running" /\ grid /\ creatureSpawnId' = creatureSpawnId + 1
      /\ creatureData' = [creatureData EXCEPT ![creatureSpawnId] = e]
      /\ creatureSpawnId \in 1..MaxId /\ MaxId \in Nat
  BY <1>0, MaxIdAssumption DEF NewSpawn, Running, TypeOK
<1>2. creatureSpawnId >= creatureSpawnId
  BY <1>1
<1>3. /\ creatureData[creatureSpawnId] = None /\ promised[creatureSpawnId] = None
      /\ creatureSpawnId \notin hidden /\ creatureSpawnId \notin cells
      /\ ~Touches(changes, creatureSpawnId)
  BY <1>0, <1>1, <1>2 DEF Memory, IdInv, Ids
<1>4. creatureSpawnId \notin timer
  BY <1>0, <1>1, <1>3 DEF Memory, MapShowsWorld
<1>5. \A f \in files : ~f.failed /\ ~Recorded(f) => ~Touches(f.sql, creatureSpawnId)
  BY <1>0, <1>1 DEF Memory, IdInv, Touches
<1>6. \A x \in Ids : x \in Nat
  BY <1>1 DEF Ids
<1>7. creatureData' \in Rows /\ \A x \in Ids : creatureData'[x] = IF x = creatureSpawnId THEN e ELSE creatureData[x]
  BY <1>0, <1>1 DEF TypeOK, Rows
<1>8. /\ creatureSpawnId' \in 1..(MaxId + 1) /\ creatureSpawnId < creatureSpawnId'
      /\ \A x \in Ids : x >= creatureSpawnId' => x >= creatureSpawnId /\ x # creatureSpawnId
      /\ \A x \in Ids : x < creatureSpawnId => x < creatureSpawnId'
  BY <1>1, <1>6
<1> QED
  BY <1>1, <1>3, <1>4, <1>5, <1>7, <1>8, EntriesAssumption DEF Ids

(* SpawnCreature.                                                              *)
LEMMA SpawnKeeps ==
    ASSUME Inv, NEW e \in Entries, SpawnCreature(e)
    PROVE  Inv'
<1>0. TypeOK /\ Memory /\ Disk /\ NewSpawn(e)
  BY DEF Inv, SpawnCreature, AddSpawn
<1>1. PICK s \in Ids : s = creatureSpawnId
  BY <1>0, NewSpawnFacts
<1>2. /\ creatureSpawnId' \in 1..(MaxId + 1)
      /\ server = "running" /\ grid /\ creatureData' \in Rows
      /\ \A x \in Ids : creatureData'[x] = IF x = s THEN e ELSE creatureData[x]
      /\ creatureData[s] = None /\ promised[s] = None /\ s \notin hidden /\ ~Touches(changes, s)
      /\ \A x \in Ids : x >= creatureSpawnId' => x >= creatureSpawnId /\ x # s
      /\ \A x \in Ids : x < creatureSpawnId => x < creatureSpawnId'
      /\ e # None
  BY <1>0, <1>1, NewSpawnFacts
<1>3. /\ UNCHANGED outside /\ UNCHANGED <<hidden, grid, corpses, timer>>
      /\ present' = present \cup {s} /\ cells' = cells \cup {s}
      /\ UNCHANGED <<server, db, files, updates, todo, applied, known, spoiled, queue, attempts,
                     promised, overruled>>
  BY <1>1 DEF SpawnCreature, AddSpawn, outside, updaterVars, history
<1>4. PICK d \in Change : /\ d.type = "spawn" /\ d.spawn = s /\ d.entry = e
                          /\ changes' = changes \cup {d}
  <2>1. [type |-> "spawn", spawn |-> s, entry |-> e] \in Change
    BY DEF Change
  <2> QED
    BY <1>1, <2>1 DEF SpawnCreature, Record
<1>5. TypeOK'
  BY <1>0, <1>2, <1>3, <1>4 DEF TypeOK
<1>6. Disk'
  BY <1>0, <1>3, OutsideKeeps
<1>7. \A x \in Ids : Shown(x)' = IF x = s THEN e ELSE Shown(x)
  BY <1>2, <1>3 DEF Shown
<1>8. MemoryInv' /\ MapShowsWorld'
  <2>1. /\ \A x \in present : grid /\ Shown(x) # None
        /\ \A x \in corpses : grid /\ Shown(x) # None
        /\ grid => \A x \in cells : Shown(x) # None => x \in present \cup timer
        /\ \A x \in timer : creatureData[x] # None
        /\ present \subseteq Ids /\ corpses \subseteq Ids /\ timer \subseteq Ids /\ cells \subseteq Ids
    BY <1>0, <1>2, MapFacts DEF Memory
  <2> QED
    BY <1>2, <1>3, <1>7, <2>1 DEF MemoryInv, MapShowsWorld
<1>9. \A x \in Ids : Touches(changes', x) <=> Touches(changes, x) \/ x = s
  BY <1>4 DEF Touches
<1>10. IdInv'
  <2>1. \A x \in Ids : x >= creatureSpawnId' =>
           /\ creatureData'[x] = None /\ promised'[x] = None
           /\ x \notin hidden' /\ x \notin cells' /\ ~Touches(changes', x)
    BY <1>0, <1>2, <1>3, <1>9 DEF Memory, IdInv
  <2>2. \A f \in files' : ~f.failed /\ ~Recorded(f)' => \A c \in f.sql : c.spawn < creatureSpawnId'
    <3>1. \A f \in files : \A c \in f.sql : c.spawn \in Ids
      BY <1>0, RecordTypes DEF Change
    <3> QED
      BY <1>0, <1>2, <1>3, <3>1 DEF Memory, IdInv, Recorded
  <2> QED
    BY <2>1, <2>2 DEF IdInv
<1>11. \A c \in changes : c.spawn # s /\ c.spawn \in Ids
  BY <1>0, <1>2 DEF Touches, TypeOK, Change
<1>12. ChangeInv'
  <2>1. \A a, c \in changes' : a.spawn = c.spawn => a = c
    BY <1>0, <1>4, <1>11 DEF Memory, ChangeInv
  <2>2. ASSUME NEW c \in changes'
        PROVE  \/ /\ c.type = "delete" /\ c.entry = None /\ c.spawn \in hidden'
                  /\ c.spawn \notin overruled' => creatureData'[c.spawn] = promised'[c.spawn]
               \/ /\ c.type = "spawn" /\ c.spawn \notin hidden'
                  /\ c.spawn \notin overruled' => promised'[c.spawn] = None
    <3>1. CASE c = d
      BY <1>2, <1>3, <1>4, <3>1
    <3>2. CASE c \in changes
      BY <1>0, <1>2, <1>3, <1>11, <3>2 DEF Memory, ChangeInv
    <3> QED
      BY <1>4, <3>1, <3>2
  <2> QED
    BY <2>1, <2>2 DEF ChangeInv
<1>13. WorldIsPromise'
  <2>1. Agreed
    BY <1>0, <1>2, WorldFacts DEF Memory
  <2>2. \A c \in changes' : c.spawn \notin overruled' => Shown(c.spawn)' = c.entry
    BY <1>3, <1>4, <1>7, <1>11, <2>1 DEF Agreed
  <2>3. \A x \in Ids \ overruled' : ~Touches(changes', x) => Shown(x)' = promised'[x]
    BY <1>3, <1>7, <1>9, <2>1 DEF Agreed
  <2> QED
    BY <1>5, <1>12, <2>2, <2>3, WorldNext DEF Agreed
<1> QED
  BY <1>5, <1>6, <1>8, <1>10, <1>12, <1>13 DEF Inv, Memory

(* .npc add queues a transaction too, also when it fails.                      *)
LEMMA NpcAddKeeps ==
    ASSUME Inv, NEW e \in Entries, NpcAdd(e) \/ NpcAddFails(e)
    PROVE  Inv'
<1>0. TypeOK /\ Memory /\ Disk /\ NewSpawn(e)
  BY DEF Inv, NpcAdd, NpcAddFails, AddSpawn
<1>1. PICK s \in Ids : s = creatureSpawnId
  BY <1>0, NewSpawnFacts
<1>2. /\ creatureSpawnId' \in 1..(MaxId + 1)
      /\ server = "running" /\ grid /\ creatureData' \in Rows
      /\ \A x \in Ids : creatureData'[x] = IF x = s THEN e ELSE creatureData[x]
      /\ creatureData[s] = None /\ promised[s] = None /\ s \notin hidden /\ ~Touches(changes, s)
      /\ s \notin cells
      /\ \A f \in files : ~f.failed /\ ~Recorded(f) => ~Touches(f.sql, s)
      /\ \A x \in Ids : x >= creatureSpawnId' => x >= creatureSpawnId /\ x # s
      /\ \A x \in Ids : x < creatureSpawnId => x < creatureSpawnId'
      /\ e # None
  BY <1>0, <1>1, NewSpawnFacts
<1>3. /\ UNCHANGED <<server, db, files, updates, todo, applied, known, spoiled, attempts,
                     overruled, changes, hidden, grid, corpses, timer>>
      /\ queue' = Append(queue, [type |-> "spawn", spawn |-> s, entry |-> e])
      /\ promised' = [promised EXCEPT ![s] = e]
      /\ \/ present' = present \cup {s} /\ cells' = cells \cup {s}
         \/ UNCHANGED <<present, cells>>
  BY <1>1 DEF NpcAdd, NpcAddFails, AddSpawn, Enqueue, updaterVars, mapVars
<1>4. /\ queue' \in Seq(Change) /\ promised' \in Rows
      /\ \A x \in Ids : /\ Stored(x)' = IF x = s THEN e ELSE Stored(x)
                        /\ promised'[x] = IF x = s THEN e ELSE promised[x]
  <2>1. promised' \in Rows /\ \A x \in Ids : promised'[x] = IF x = s THEN e ELSE promised[x]
    BY <1>0, <1>3 DEF TypeOK, Rows
  <2>2. PICK d \in Change : d.spawn = s /\ d.entry = e /\ queue' = Append(queue, d)
    <3>1. [type |-> "spawn", spawn |-> s, entry |-> e] \in Change
      BY DEF Change
    <3> QED
      BY <1>3, <3>1
  <2>3. queue' \in Seq(Change) /\ \A x \in Ids : Stored(x)' = IF x = s THEN e ELSE Stored(x)
    BY <1>0, <1>3, <2>2, StoredAppend
  <2> QED
    BY <2>1, <2>3
<1>5. TypeOK'
  BY <1>0, <1>2, <1>3, <1>4 DEF TypeOK
<1>6. Disk'
  <2>1. FileInv' /\ RenameInv'
    BY <1>0, <1>3 DEF Disk, FileInv, RenameInv
  <2>2. LoopInv' /\ RecordInv'
    BY <1>0, <1>2, <1>3 DEF Disk, LoopInv, RecordInv, IsApplied
  <2>3. PromiseInv'
    <3>1. \A x \in Ids : ToCome(x)' = ToCome(x)
      BY <1>3 DEF ToCome, Recorded
    <3>2. ToCome(s) = {}
      BY <1>2 DEF ToCome
    <3> QED
      BY <1>0, <1>3, <1>4, <3>1, <3>2 DEF Disk, PromiseInv
  <2> QED
    BY <2>1, <2>2, <2>3 DEF Disk
<1>7. \A x \in Ids : Shown(x)' = IF x = s THEN e ELSE Shown(x)
  BY <1>2, <1>3 DEF Shown
<1>8. MemoryInv' /\ MapShowsWorld'
  <2>1. /\ \A x \in present : grid /\ Shown(x) # None
        /\ \A x \in corpses : grid /\ Shown(x) # None
        /\ grid => \A x \in cells : Shown(x) # None => x \in present \cup timer
        /\ \A x \in timer : creatureData[x] # None
        /\ present \subseteq Ids /\ corpses \subseteq Ids /\ timer \subseteq Ids /\ cells \subseteq Ids
    BY <1>0, <1>2, MapFacts DEF Memory
  <2>2. CASE present' = present \cup {s} /\ cells' = cells \cup {s}
    BY <1>2, <1>3, <1>7, <2>1, <2>2 DEF MemoryInv, MapShowsWorld
  <2>3. CASE UNCHANGED <<present, cells>>
    BY <1>2, <1>3, <1>7, <2>1, <2>3 DEF MemoryInv, MapShowsWorld
  <2> QED
    BY <1>3, <2>2, <2>3
<1>9. IdInv'
  <2>1. \A x \in Ids : x >= creatureSpawnId' =>
           /\ creatureData'[x] = None /\ promised'[x] = None
           /\ x \notin hidden' /\ x \notin cells' /\ ~Touches(changes', x)
    BY <1>0, <1>2, <1>3, <1>4 DEF Memory, IdInv
  <2>2. \A f \in files' : ~f.failed /\ ~Recorded(f)' => \A c \in f.sql : c.spawn < creatureSpawnId'
    <3>1. \A f \in files : \A c \in f.sql : c.spawn \in Ids
      BY <1>0, RecordTypes DEF Change
    <3> QED
      BY <1>0, <1>2, <1>3, <3>1 DEF Memory, IdInv, Recorded
  <2> QED
    BY <2>1, <2>2 DEF IdInv
<1>10. \A c \in changes : c.spawn # s /\ c.spawn \in Ids
  BY <1>0, <1>2 DEF Touches, TypeOK, Change
<1>11. ChangeInv'
  <2>1. ASSUME NEW c \in changes'
        PROVE  \/ /\ c.type = "delete" /\ c.entry = None /\ c.spawn \in hidden'
                  /\ c.spawn \notin overruled' => creatureData'[c.spawn] = promised'[c.spawn]
               \/ /\ c.type = "spawn" /\ c.spawn \notin hidden'
                  /\ c.spawn \notin overruled' => promised'[c.spawn] = None
    BY <1>0, <1>2, <1>3, <1>4, <1>10 DEF Memory, ChangeInv
  <2> QED
    BY <1>0, <1>3, <2>1 DEF Memory, ChangeInv
<1>12. WorldIsPromise'
  <2>1. Agreed
    BY <1>0, <1>2, WorldFacts DEF Memory
  <2>2. \A c \in changes' : c.spawn \notin overruled' => Shown(c.spawn)' = c.entry
    BY <1>3, <1>7, <1>10, <2>1 DEF Agreed
  <2>3. \A x \in Ids \ overruled' : ~Touches(changes', x) => Shown(x)' = promised'[x]
    BY <1>3, <1>4, <1>7, <2>1 DEF Agreed
  <2> QED
    BY <1>5, <1>11, <2>2, <2>3, WorldNext DEF Agreed
<1> QED
  BY <1>5, <1>6, <1>8, <1>9, <1>11, <1>12 DEF Inv, Memory

(* .npc delete, in memory and in the queue.                                    *)
LEMMA NpcDeleteKeeps ==
    ASSUME Inv, NEW s \in Ids, NpcDelete(s)
    PROVE  Inv'
<1>0. TypeOK /\ Memory /\ Disk
  BY DEF Inv
<1>1. /\ server = "running" /\ creatureData[s] # None
      /\ creatureData' = [creatureData EXCEPT ![s] = None]
      /\ present' = present \ {s} /\ corpses' = corpses \ {s} /\ timer' = timer \ {s}
      /\ cells' = cells \ {s}
      /\ queue' = Append(queue, [type |-> "delete", spawn |-> s, entry |-> None])
      /\ promised' = [promised EXCEPT ![s] = None]
      /\ overruled' = IF Announced(s) THEN overruled \cup {s} ELSE overruled
      /\ UNCHANGED <<server, db, files, updates, todo, applied, known, spoiled, attempts,
                     creatureSpawnId, changes, hidden, grid>>
  BY DEF NpcDelete, Running, RemoveSpawn, Enqueue, updaterVars
<1>2. /\ queue' \in Seq(Change) /\ promised' \in Rows /\ creatureData' \in Rows
      /\ \A x \in Ids : /\ Stored(x)' = IF x = s THEN None ELSE Stored(x)
                        /\ promised'[x] = IF x = s THEN None ELSE promised[x]
                        /\ creatureData'[x] = IF x = s THEN None ELSE creatureData[x]
  <2>1. /\ promised' \in Rows /\ creatureData' \in Rows
        /\ \A x \in Ids : /\ promised'[x] = IF x = s THEN None ELSE promised[x]
                          /\ creatureData'[x] = IF x = s THEN None ELSE creatureData[x]
    BY <1>0, <1>1 DEF TypeOK, Rows
  <2>2. PICK d \in Change : d.spawn = s /\ d.entry = None /\ queue' = Append(queue, d)
    <3>1. [type |-> "delete", spawn |-> s, entry |-> None] \in Change
      BY DEF Change
    <3> QED
      BY <1>1, <3>1
  <2>3. queue' \in Seq(Change) /\ \A x \in Ids : Stored(x)' = IF x = s THEN None ELSE Stored(x)
    BY <1>0, <1>1, <2>2, StoredAppend
  <2> QED
    BY <2>1, <2>3
<1>3. overruled \subseteq overruled' /\ overruled' \subseteq overruled \cup {s}
  BY <1>1
<1>4. TypeOK'
  BY <1>0, <1>1, <1>2, <1>3 DEF TypeOK
<1>5. s \notin overruled' =>
         /\ \A c \in changes : c.spawn = s => c.type # "spawn"
         /\ \A f \in files : Entry(f) \notin updates => \A c \in f.sql : c.spawn = s => c.type # "spawn"
  <2> SUFFICES ASSUME ~Announced(s)
               PROVE  /\ \A c \in changes : c.spawn = s => c.type # "spawn"
                      /\ \A f \in files : Entry(f) \notin updates =>
                            \A c \in f.sql : c.spawn = s => c.type # "spawn"
    BY <1>1
  <2> QED
    BY DEF Announced
<1>6. Disk'
  <2>1. FileInv' /\ RenameInv'
    BY <1>0, <1>1 DEF Disk, FileInv, RenameInv
  <2>2. LoopInv' /\ RecordInv'
    BY <1>0, <1>1 DEF Disk, LoopInv, RecordInv, IsApplied
  <2>3. PromiseInv'
    <3>1. \A x \in Ids : ToCome(x)' = ToCome(x)
      BY <1>1 DEF ToCome, Recorded
    <3>2. ASSUME s \notin overruled', NEW f \in ToCome(s) PROVE Written(f.sql, s) = None
      <4>1. f \in files /\ ~Recorded(f) /\ Touches(f.sql, s)
        BY DEF ToCome
      <4>2. Entry(f) \notin updates /\ f.sql \subseteq Change
        BY <1>0, <4>1, RecordTypes DEF Recorded
      <4>3. PICK c \in f.sql : c.spawn = s /\ Written(f.sql, s) = c.entry
        BY <4>1 DEF Touches, Written
      <4>4. c.type = "delete"
        BY <1>5, <3>2, <4>1, <4>2, <4>3 DEF Change
      <4> QED
        BY <1>0, <4>1, <4>3, <4>4 DEF Disk, FileInv
    <3>3. ASSUME ~spoiled, NEW x \in Ids \ overruled'
          PROVE  /\ ToCome(x) = {} => promised'[x] = Stored(x)'
                 /\ \A f \in ToCome(x) : (\A g \in ToCome(x) : g.name <= f.name) =>
                       promised'[x] = Written(f.sql, x)
      <4>1. CASE x = s
        BY <1>2, <3>2, <3>3, <4>1
      <4>2. CASE x # s
        BY <1>0, <1>2, <1>3, <3>3, <4>2 DEF Disk, PromiseInv
      <4> QED
        BY <4>1, <4>2
    <3> QED
      BY <1>1, <3>1, <3>3 DEF PromiseInv
  <2> QED
    BY <2>1, <2>2, <2>3 DEF Disk
<1>7. \A x \in Ids : Shown(x)' = IF x = s THEN None ELSE Shown(x)
  BY <1>1, <1>2 DEF Shown
<1>8. MemoryInv' /\ MapShowsWorld'
  <2>1. /\ \A x \in present : grid /\ Shown(x) # None
        /\ \A x \in corpses : grid /\ Shown(x) # None
        /\ grid => \A x \in cells : Shown(x) # None => x \in present \cup timer
        /\ \A x \in timer : creatureData[x] # None
        /\ present \subseteq Ids /\ corpses \subseteq Ids /\ timer \subseteq Ids /\ cells \subseteq Ids
    BY <1>0, <1>1, MapFacts DEF Memory
  <2> QED
    BY <1>1, <1>2, <1>7, <2>1 DEF MemoryInv, MapShowsWorld
<1>9. IdInv'
  BY <1>0, <1>1, <1>2 DEF Memory, IdInv, Recorded
<1>10. \A c \in changes : c.spawn \in Ids
  BY <1>0 DEF TypeOK, Change
<1>11. ChangeInv'
  <2>1. ASSUME NEW c \in changes'
        PROVE  \/ /\ c.type = "delete" /\ c.entry = None /\ c.spawn \in hidden'
                  /\ c.spawn \notin overruled' => creatureData'[c.spawn] = promised'[c.spawn]
               \/ /\ c.type = "spawn" /\ c.spawn \notin hidden'
                  /\ c.spawn \notin overruled' => promised'[c.spawn] = None
    BY <1>0, <1>1, <1>2, <1>3, <1>10 DEF Memory, ChangeInv
  <2> QED
    BY <1>0, <1>1, <2>1 DEF Memory, ChangeInv
<1>12. WorldIsPromise'
  <2>1. Agreed
    BY <1>0, <1>1, WorldFacts DEF Memory
  <2>2. ASSUME NEW c \in changes', c.spawn \notin overruled' PROVE Shown(c.spawn)' = c.entry
    <3>1. CASE c.spawn = s
      <4>1. c.entry = None
        BY <1>0, <1>1, <1>5, <2>2, <3>1 DEF Memory, ChangeInv
      <4> QED
        BY <1>7, <3>1, <4>1
    <3>2. CASE c.spawn # s
      BY <1>1, <1>3, <1>7, <1>10, <2>1, <2>2, <3>2 DEF Agreed
    <3> QED
      BY <3>1, <3>2
  <2>3. \A x \in Ids \ overruled' : ~Touches(changes', x) => Shown(x)' = promised'[x]
    BY <1>1, <1>2, <1>3, <1>7, <2>1 DEF Agreed
  <2> QED
    BY <1>4, <1>11, <2>2, <2>3, WorldNext DEF Agreed
<1> QED
  BY <1>4, <1>6, <1>8, <1>9, <1>11, <1>12 DEF Inv, Memory

(* The worker executes a transaction of the queue.                             *)
LEMMA ExecuteWriteKeeps ==
    ASSUME Inv, ExecuteWrite
    PROVE  Inv'
<1>0. TypeOK /\ Memory /\ Disk
  BY DEF Inv
<1>1. /\ server = "running" /\ queue # <<>>
      /\ db' = Execute(db, {Head(queue)}) /\ queue' = Tail(queue)
      /\ UNCHANGED <<server, files, updates, todo, applied, known, spoiled, creatureData,
                     creatureSpawnId, changes, hidden, cells, grid, present, corpses, timer, attempts,
                     promised, overruled>>
  BY DEF ExecuteWrite, Running, loop, mapVars, history
<1>2. db' \in Rows /\ queue' \in Seq(Change) /\ \A s \in Ids : Stored(s)' = Stored(s)
  BY <1>0, <1>1, StoredExecuted
<1>3. TypeOK'
  BY <1>0, <1>1, <1>2 DEF TypeOK
<1>4. MemoryInv' /\ IdInv'
  BY <1>0, <1>1 DEF Memory, MemoryInv, IdInv, Recorded
<1>5. ChangeInv' /\ WorldIsPromise' /\ MapShowsWorld'
  BY <1>0, <1>1 DEF Memory, ChangeInv, WorldIsPromise, MapShowsWorld, Shown
<1>6. FileInv' /\ RenameInv'
  BY <1>0, <1>1 DEF Disk, FileInv, RenameInv
<1>7. LoopInv' /\ RecordInv'
  BY <1>0, <1>1 DEF Disk, LoopInv, RecordInv, IsApplied
<1>8. PromiseInv'
  <2>1. \A s \in Ids : ToCome(s)' = ToCome(s)
    BY <1>1 DEF ToCome, Recorded
  <2> QED
    BY <1>0, <1>1, <1>2, <2>1 DEF Disk, PromiseInv
<1> QED
  BY <1>3, <1>4, <1>5, <1>6, <1>7, <1>8 DEF Inv, Memory, Disk
-----------------------------------------------------------------------------
(* A new file, of a commit that succeeds or fails.                             *)
LEMMA NewFileFacts ==
    ASSUME TypeOK, Disk, NEW sql \in SUBSET Change, NEW cut \in BOOLEAN, NEW failed \in BOOLEAN,
           NewFile(sql, cut, failed), UNCHANGED <<updates, todo, applied, known>>,
           server \in {"down", "running"}, server' \in {"down", "running"},
           \A c \in sql : c.type = "delete" => c.entry = None
    PROVE  /\ attempts' \in 0..MaxAttempts
           /\ files' \subseteq File /\ \A f, g \in files' : f.name = g.name => f = g
           /\ FileInv' /\ RenameInv' /\ LoopInv' /\ RecordInv'
           /\ \E h \in File :
                 /\ files' = files \cup {h} /\ h.sql = sql /\ h.failed = failed
                 /\ ~Recorded(h)' /\ \A g \in files : g.name < h.name
           /\ \A g \in files : Recorded(g)' <=> Recorded(g)
<1>0. FileInv /\ RenameInv /\ LoopInv
  BY DEF Disk
<1>1. PICK n \in NextNames :
         files' = files \cup {[name |-> n, text |-> attempts, sql |-> sql, cut |-> cut, failed |-> failed]}
  BY DEF NewFile
<1>2. /\ attempts \in Nat /\ attempts' = attempts + 1 /\ attempts' \in 0..MaxAttempts
      /\ n \in Nat /\ \A f \in files : f.name < n
  BY BoundsAssumption, NextNameFacts DEF NewFile, TypeOK
<1>3. PICK h \in File : /\ files' = files \cup {h} /\ h.sql = sql /\ h.failed = failed
                        /\ h.name = n /\ h.text = attempts
  <2> DEFINE new == [name |-> n, text |-> attempts, sql |-> sql, cut |-> cut, failed |-> failed]
  <2>1. new \in File
    BY <1>2 DEF File
  <2>2. files' = files \cup {new}
    BY <1>1
  <2>3. new.sql = sql /\ new.failed = failed /\ new.name = n /\ new.text = attempts
    OBVIOUS
  <2> HIDE DEF new
  <2> QED
    BY <2>1, <2>2, <2>3
<1>4. /\ \A f \in files : f.name \in Nat /\ f.text \in Nat /\ f.name < h.name /\ f.text < attempts
      /\ files \subseteq File /\ \A f, g \in files : f.name = g.name => f = g
  BY <1>0, <1>2, <1>3, RecordTypes DEF FileInv
<1>5. files' \subseteq File /\ \A f, g \in files' : f.name = g.name => f = g
  BY <1>2, <1>3, <1>4
<1>6. \A r \in updates : r.text \in Nat /\ r.text < attempts /\ r.name \in Nat
  BY <1>0, RecordTypes DEF FileInv
<1>7. FileInv'
  <2>1. \A f \in files' : /\ f.text < attempts'
                          /\ \A c \in f.sql : c.type = "delete" => c.entry = None
    <3> TAKE f \in files'
    <3>1. CASE f = h
      BY <1>1, <1>2, <1>3, <3>1
    <3>2. CASE f \in files
      BY <1>0, <1>2, <1>4, <3>2 DEF FileInv
    <3> QED
      BY <1>3, <3>1, <3>2
  <2>2. \A f, g \in files' : f.text = g.text => f = g
    BY <1>0, <1>2, <1>3, <1>4 DEF FileInv
  <2>3. \A r \in updates' : r.text < attempts'
    BY <1>2, <1>6
  <2> QED
    BY <1>0, <2>1, <2>2, <2>3 DEF FileInv
<1>8. RenameInv'
  <2> SUFFICES ASSUME NEW f \in files', NEW r \in updates, r.text = f.text, r.name # f.name
               PROVE  /\ r.name < f.name /\ \A g \in files' : g.name # r.name
                      /\ \A q \in updates : q.name # f.name
    BY DEF RenameInv
  <2>1. f \in files
    BY <1>2, <1>3, <1>6
  <2>2. /\ r.name < f.name /\ \A g \in files : g.name # r.name
        /\ \A q \in updates : q.name # f.name
    BY <1>0, <2>1 DEF RenameInv
  <2>3. h.name # r.name
    BY <1>2, <1>3, <1>4, <1>6, <2>1, <2>2
  <2> QED
    BY <1>3, <2>2, <2>3
<1>9. LoopInv' /\ RecordInv'
  BY <1>0 DEF LoopInv, RecordInv
<1>10. ~Recorded(h)' /\ \A g \in files : Recorded(g)' <=> Recorded(g)
  BY <1>2, <1>3, <1>6 DEF Recorded
<1> QED
  BY <1>2, <1>3, <1>4, <1>5, <1>7, <1>8, <1>9, <1>10

(* A commit: the rows it promises are those of the new file, the last one.     *)
LEMMA CommitKeeps ==
    ASSUME Inv, Commit
    PROVE  Inv'
<1>0. TypeOK /\ Memory /\ Disk
  BY DEF Inv
<1>1. /\ server = "running" /\ NewFile(changes, FALSE, FALSE)
      /\ promised' = Execute(promised, changes) /\ changes' = {}
      /\ UNCHANGED <<server, db, updates, todo, applied, known, spoiled, creatureData, creatureSpawnId,
                     hidden, cells, grid, present, corpses, timer, queue, overruled>>
  BY DEF Commit, Running, KeepHidden, loop, mapVars
<1>2. /\ promised \in Rows /\ changes \in SUBSET Change
      /\ \A c \in changes : c.type = "delete" => c.entry = None
      /\ \A c \in changes : c.spawn \in Ids
  BY <1>0 DEF TypeOK, Memory, ChangeInv, Change
<1>3. /\ attempts' \in 0..MaxAttempts
      /\ files' \subseteq File /\ \A f, g \in files' : f.name = g.name => f = g
      /\ FileInv' /\ RenameInv' /\ LoopInv' /\ RecordInv'
      /\ \A g \in files : Recorded(g)' <=> Recorded(g)
  BY <1>0, <1>1, <1>2, NewFileFacts
<1>4. PICK h \in File : /\ files' = files \cup {h} /\ h.sql = changes /\ h.failed = FALSE
                        /\ ~Recorded(h)' /\ \A g \in files : g.name < h.name
  BY <1>0, <1>1, <1>2, NewFileFacts
<1>5. /\ promised' \in Rows
      /\ \A s \in Ids : promised'[s] = IF Touches(changes, s) THEN Written(changes, s) ELSE promised[s]
  BY <1>1, <1>2, ExecuteFacts
<1>6. TypeOK'
  <2>1. todo = {}
    BY <1>0, <1>1 DEF Disk, LoopInv
  <2> QED
    BY <1>0, <1>1, <1>3, <1>5, <2>1 DEF TypeOK
<1>7. PromiseInv'
  <2>1. ASSUME NEW s \in Ids
        PROVE  ToCome(s)' = IF Touches(changes, s) THEN ToCome(s) \cup {h} ELSE ToCome(s)
    BY <1>3, <1>4 DEF ToCome
  <2> SUFFICES ASSUME ~spoiled, NEW s \in Ids \ overruled
               PROVE  /\ ToCome(s)' = {} => promised'[s] = Stored(s)
                      /\ \A f \in ToCome(s)' : (\A g \in ToCome(s)' : g.name <= f.name) =>
                            promised'[s] = Written(f.sql, s)
    <3>1. \A s \in Ids : Stored(s)' = Stored(s)
      BY <1>1 DEF Stored, Queued
    <3> QED
      BY <1>1, <3>1 DEF PromiseInv
  <2>2. CASE Touches(changes, s)
    <3>1. \A f \in ToCome(s) : ~(h.name <= f.name)
      BY <1>0, <1>4, RecordTypes DEF ToCome
    <3> QED
      BY <1>4, <1>5, <2>1, <2>2, <3>1
  <2>3. CASE ~Touches(changes, s)
    BY <1>0, <1>5, <2>1, <2>3 DEF Disk, PromiseInv
  <2> QED
    BY <2>2, <2>3
<1>8. MemoryInv' /\ MapShowsWorld'
  BY <1>0, <1>1 DEF Memory, MemoryInv, MapShowsWorld, Shown
<1>9. IdInv'
  <2>1. \A s \in Ids : s >= creatureSpawnId =>
           /\ creatureData[s] = None /\ promised[s] = None /\ s \notin hidden
           /\ s \notin cells /\ ~Touches(changes, s)
    BY <1>0, <1>1 DEF Memory, IdInv
  <2>2. \A c \in changes : c.spawn < creatureSpawnId
    <3> TAKE c \in changes
    <3>1. ~(c.spawn >= creatureSpawnId)
      BY <1>2, <2>1 DEF Touches
    <3>2. c.spawn \in Nat /\ creatureSpawnId \in Nat
      BY <1>0, <1>2, MaxIdAssumption DEF TypeOK, Ids
    <3> QED
      BY <3>1, <3>2
  <2>3. \A f \in files' : ~f.failed /\ ~Recorded(f)' => \A c \in f.sql : c.spawn < creatureSpawnId
    BY <1>0, <1>1, <1>3, <1>4, <2>2 DEF Memory, IdInv
  <2> QED
    BY <1>1, <1>5, <2>1, <2>3 DEF IdInv, Touches
<1>10. ChangeInv'
  BY <1>1 DEF ChangeInv
<1>11. WorldIsPromise'
  <2>1. \A s \in Ids : Shown(s)' = Shown(s)
    BY <1>1 DEF Shown
  <2>2. \A s \in Ids \ overruled : Shown(s) = promised'[s]
    BY <1>0, <1>1 DEF Memory, WorldIsPromise
  <2> QED
    BY <1>1, <1>6, <1>10, <2>1, <2>2, WorldNext DEF Agreed
<1> QED
  BY <1>3, <1>6, <1>7, <1>8, <1>9, <1>10, <1>11 DEF Inv, Memory, Disk

(* A failed commit leaves a file that nothing promises.                        *)
LEMMA FailedFileKeeps ==
    ASSUME Inv, server = "running", NEW cut \in BOOLEAN, PartOf(changes, cut),
           server' \in {"down", "running"}, UNCHANGED <<updates, todo, applied, known>>
    PROVE  /\ FileInv' /\ RenameInv' /\ LoopInv' /\ RecordInv'
           /\ \A s \in Ids : ToCome(s)' = ToCome(s)
           /\ attempts' \in 0..MaxAttempts
           /\ files' \subseteq File /\ \A f, g \in files' : f.name = g.name => f = g
           /\ \A f \in files' : ~f.failed /\ ~Recorded(f)' => \A c \in f.sql : c.spawn < creatureSpawnId
<1>0. TypeOK /\ Memory /\ Disk
  BY DEF Inv
<1>1. PICK part \in SUBSET changes : NewFile(part, cut, TRUE)
  BY DEF PartOf
<1>2. part \in SUBSET Change /\ \A c \in part : c.type = "delete" => c.entry = None
  BY <1>0 DEF TypeOK, Memory, ChangeInv
<1>3. /\ attempts' \in 0..MaxAttempts
      /\ files' \subseteq File /\ \A f, g \in files' : f.name = g.name => f = g
      /\ FileInv' /\ RenameInv' /\ LoopInv' /\ RecordInv'
      /\ \A g \in files : Recorded(g)' <=> Recorded(g)
  BY <1>0, <1>1, <1>2, NewFileFacts
<1>4. PICK h \in File : files' = files \cup {h} /\ h.sql = part /\ h.failed = TRUE
  BY <1>0, <1>1, <1>2, NewFileFacts
<1>5. \A s \in Ids : ToCome(s)' = ToCome(s)
  BY <1>3, <1>4 DEF ToCome
<1>6. \A f \in files' : ~f.failed /\ ~Recorded(f)' => \A c \in f.sql : c.spawn < creatureSpawnId
  BY <1>0, <1>3, <1>4 DEF Memory, IdInv
<1> QED
  BY <1>3, <1>5, <1>6

(* The write fails and the server goes on.                                     *)
LEMMA CommitFailsKeeps ==
    ASSUME Inv, CommitFails
    PROVE  Inv'
<1>0. TypeOK /\ Memory /\ Disk
  BY DEF Inv
<1>1. /\ server = "running" /\ \E cut \in BOOLEAN : PartOf(changes, cut)
      /\ UNCHANGED <<server, db, updates, todo, applied, known, spoiled, promised, overruled, creatureData,
                     creatureSpawnId, changes, hidden, cells, grid, present, corpses, timer, queue>>
  BY DEF CommitFails, Running, loop, memVars, mapVars, history
<1>2. /\ FileInv' /\ RenameInv' /\ LoopInv' /\ RecordInv'
      /\ \A s \in Ids : ToCome(s)' = ToCome(s)
      /\ attempts' \in 0..MaxAttempts
      /\ files' \subseteq File /\ \A f, g \in files' : f.name = g.name => f = g
      /\ \A f \in files' : ~f.failed /\ ~Recorded(f)' => \A c \in f.sql : c.spawn < creatureSpawnId
  BY <1>1, FailedFileKeeps
<1>3. TypeOK'
  <2>1. todo = {}
    BY <1>0, <1>1 DEF Disk, LoopInv
  <2> QED
    BY <1>0, <1>1, <1>2, <2>1 DEF TypeOK
<1>4. MemoryInv' /\ MapShowsWorld' /\ WorldIsPromise' /\ ChangeInv'
  BY <1>0, <1>1 DEF Memory, MemoryInv, MapShowsWorld, Shown, WorldIsPromise, ChangeInv
<1>5. IdInv'
  BY <1>0, <1>1, <1>2 DEF Memory, IdInv
<1>6. PromiseInv'
  BY <1>0, <1>1, <1>2, PromiseSame DEF Disk
<1> QED
  BY <1>2, <1>3, <1>4, <1>5, <1>6 DEF Inv, Memory, Disk

(* The process ends, between two steps or in a commit.                         *)
LEMMA CrashKeeps ==
    ASSUME Inv, Crash \/ CrashInCommit
    PROVE  Inv'
<1>0. TypeOK /\ Memory /\ Disk
  BY DEF Inv
<1>1. /\ server' = "down" /\ creatureData' = NoRows /\ creatureSpawnId' = 1
      /\ changes' = {} /\ hidden' = {} /\ cells' = {} /\ grid' = FALSE /\ present' = {}
      /\ corpses' = {} /\ timer' = {} /\ queue' = <<>>
      /\ promised' = [s \in Ids |-> IF Queued(s) # {} /\ ToCome(s) = {} THEN db[s] ELSE promised[s]]
      /\ todo' = {} /\ applied' = {} /\ known' = {} /\ Return
      /\ UNCHANGED <<db, updates, spoiled, overruled>>
  BY DEF Crash, CrashInCommit, Forget, Return
<1>2. Memory'
  BY <1>1 DEF Memory, MemoryInv, IdInv, ChangeInv, WorldIsPromise, MapShowsWorld, NoRows
<1>3. /\ FileInv' /\ RenameInv' /\ LoopInv' /\ RecordInv'
      /\ \A s \in Ids : ToCome(s)' = ToCome(s)
      /\ attempts' \in 0..MaxAttempts
      /\ files' \subseteq File /\ \A f, g \in files' : f.name = g.name => f = g
  <2>1. CASE Crash
    <3>1. UNCHANGED <<files, attempts>>
      BY <2>1 DEF Crash
    <3>2. /\ FileInv' /\ RenameInv' /\ LoopInv' /\ RecordInv'
          /\ \A s \in Ids : ToCome(s)' = ToCome(s)
      BY <1>0, <1>1, <3>1, ReturnKeeps
    <3> QED
      BY <1>0, <3>1, <3>2 DEF TypeOK
  <2>2. CASE CrashInCommit
    <3>1. server = "running" /\ \E cut \in BOOLEAN : PartOf(changes, cut)
      BY <2>2 DEF CrashInCommit, Running
    <3>2. UNCHANGED <<todo, applied, known>>
      BY <1>0, <1>1, <3>1 DEF Disk, LoopInv
    <3> QED
      BY <1>1, <3>1, <3>2, FailedFileKeeps
  <2> QED
    BY <2>1, <2>2
<1>4. promised' \in Rows
  BY <1>0, <1>1 DEF TypeOK, Rows
<1>5. TypeOK'
  <2>1. NoRows \in Rows /\ 1 \in 1..(MaxId + 1) /\ <<>> \in Seq(Change)
    BY MaxIdAssumption DEF NoRows, Rows
  <2> QED
    BY <1>0, <1>1, <1>3, <1>4, <2>1 DEF TypeOK
<1>6. PromiseInv'
  <2>1. \A s \in Ids : Stored(s)' = db[s]
    BY <1>1 DEF Stored, Queued
  <2>2. \A s \in Ids : promised'[s] = IF Queued(s) # {} /\ ToCome(s) = {} THEN db[s] ELSE promised[s]
    BY <1>1
  <2>3. ASSUME ~spoiled, NEW s \in Ids \ overruled
        PROVE  /\ ToCome(s) = {} => promised'[s] = db[s]
               /\ \A f \in ToCome(s) :
                     (\A g \in ToCome(s) : g.name <= f.name) => promised'[s] = Written(f.sql, s)
    <3>1. /\ ToCome(s) = {} => promised[s] = Stored(s)
          /\ \A f \in ToCome(s) :
                (\A g \in ToCome(s) : g.name <= f.name) => promised[s] = Written(f.sql, s)
      BY <1>0, <2>3 DEF Disk, PromiseInv
    <3>2. Queued(s) = {} => Stored(s) = db[s]
      BY DEF Stored
    <3> QED
      BY <2>2, <3>1, <3>2
  <2> QED
    BY <1>1, <1>3, <2>1, <2>3 DEF PromiseInv
<1> QED
  BY <1>2, <1>3, <1>5, <1>6 DEF Inv, Disk

(* The start is through: the world is the database.                            *)
LEMMA LoadKeeps ==
    ASSUME Inv, LoadCreatures
    PROVE  Inv'
<1>0. TypeOK /\ Memory /\ Disk
  BY DEF Inv
<1>1. /\ server = "load" /\ server' = "running" /\ creatureData' = db
      /\ creatureSpawnId' = 1 + Max({0} \cup {s \in Ids : db[s] # None})
      /\ cells' = {s \in Ids : db[s] # None} /\ timer' \subseteq {s \in Ids : db[s] # None}
      /\ promised' = db /\ overruled' = {} /\ spoiled' = FALSE
      /\ UNCHANGED <<db, files, updates, todo, applied, known, changes, hidden, grid, present,
                     corpses, queue, attempts>>
  BY DEF LoadCreatures, loop
<1>2. changes = {} /\ hidden = {} /\ ~grid /\ present = {} /\ corpses = {} /\ queue = <<>>
  BY <1>0, <1>1 DEF Memory, MemoryInv
<1>3. /\ creatureSpawnId' \in 1..(MaxId + 1)
      /\ \A s \in Ids : s >= creatureSpawnId' => db[s] = None
  <2> DEFINE used == {0} \cup {s \in Ids : db[s] # None}
  <2>1. used \in SUBSET (0..MaxId) /\ used # {} /\ MaxId \in Nat
    BY MaxIdAssumption DEF Ids
  <2>2. \A s \in Ids : db[s] # None => s \in used
    OBVIOUS
  <2>3. creatureSpawnId' = 1 + Max(used)
    BY <1>1
  <2> HIDE DEF used
  <2>4. Max(used) \in used /\ \A y \in used : y <= Max(used)
    BY <2>1, MaxFacts
  <2>5. Max(used) \in 0..MaxId
    BY <2>1, <2>4
  <2>6. ASSUME NEW s \in Ids, s >= creatureSpawnId', db[s] # None PROVE FALSE
    <3>1. s <= Max(used) /\ s \in Nat
      BY <2>1, <2>2, <2>4, <2>6 DEF Ids
    <3> QED
      BY <2>1, <2>3, <2>5, <2>6, <3>1
  <2> QED
    BY <2>1, <2>3, <2>5, <2>6
<1>4. TypeOK'
  BY <1>0, <1>1, <1>3 DEF TypeOK
<1>5. \A f \in files : f.failed \/ (Recorded(f) /\ Recorded(f)')
  <2>1. \A f \in files : f.failed \/ (Entry(f) \in updates /\ Entry(f).text = f.text)
    BY <1>0, <1>1, RecordTypes DEF Disk, LoopInv
  <2> QED
    BY <1>1, <2>1 DEF Recorded
<1>6. Disk'
  <2>1. FileInv' /\ RenameInv'
    BY <1>0, <1>1 DEF Disk, FileInv, RenameInv
  <2>2. LoopInv' /\ RecordInv'
    BY <1>0, <1>1 DEF Disk, LoopInv, RecordInv
  <2>3. PromiseInv'
    <3>1. \A s \in Ids : ToCome(s)' = {}
      BY <1>1, <1>5 DEF ToCome
    <3>2. \A s \in Ids : Stored(s)' = db[s]
      BY <1>1, <1>2 DEF Stored, Queued
    <3> QED
      BY <1>1, <3>1, <3>2 DEF PromiseInv
  <2> QED
    BY <2>1, <2>2, <2>3 DEF Disk
<1>7. MemoryInv' /\ ChangeInv'
  BY <1>1, <1>2 DEF MemoryInv, ChangeInv
<1>8. IdInv'
  BY <1>1, <1>2, <1>3, <1>5 DEF IdInv, Touches
<1>9. MapShowsWorld'
  BY <1>1, <1>2 DEF MapShowsWorld
<1>10. WorldIsPromise'
  <2>1. Agreed'
    BY <1>1, <1>2 DEF Agreed, Shown
  <2> QED
    BY <1>4, <1>7, <2>1, WorldNext
<1> QED
  BY <1>4, <1>6, <1>7, <1>8, <1>9, <1>10 DEF Inv, Memory

(* What a change of the directory between starts leaves alone.                 *)
LEMMA DirectoryKeeps ==
    ASSUME Inv, server \in {"down", "running"},
           UNCHANGED <<server, db, updates, loop, spoiled, memVars, attempts, history>>,
           files' \subseteq File, \A f, g \in files' : f.name = g.name => f = g,
           FileInv', RenameInv',
           \A s \in Ids : ToCome(s)' = ToCome(s),
           \A f \in files' : ~Recorded(f)' => f \in files /\ ~Recorded(f)
    PROVE  Inv'
<1>0. TypeOK /\ Memory /\ Disk
  BY DEF Inv
<1>1. UNCHANGED <<server, db, updates, todo, applied, known, spoiled, creatureData, creatureSpawnId,
                  changes, hidden, cells, grid, present, corpses, timer, queue, attempts, promised, overruled>>
  BY DEF loop, memVars, mapVars, history
<1>2. todo = {}
  BY <1>0 DEF Disk, LoopInv
<1>3. TypeOK'
  BY <1>0, <1>1, <1>2 DEF TypeOK
<1>4. LoopInv' /\ RecordInv'
  BY <1>0, <1>1, <1>2 DEF Disk, LoopInv, RecordInv
<1>5. PromiseInv'
  BY <1>0, <1>1, PromiseSame DEF Disk
<1>6. MemoryInv' /\ MapShowsWorld' /\ WorldIsPromise' /\ ChangeInv'
  BY <1>0, <1>1 DEF Memory, MemoryInv, MapShowsWorld, Shown, WorldIsPromise, ChangeInv
<1>7. IdInv'
  BY <1>0, <1>1 DEF Memory, IdInv
<1> QED
  BY <1>3, <1>4, <1>5, <1>6, <1>7 DEF Inv, Memory, Disk

(* A file is removed.                                                          *)
LEMMA RemoveFileKeeps ==
    ASSUME Inv, NEW f \in files, RemoveFile(f)
    PROVE  Inv'
<1>0. TypeOK /\ Disk
  BY DEF Inv
<1>1. /\ server \in {"down", "running"} /\ files' = files \ {f} /\ (f.failed \/ Entry(f) \in updates)
      /\ UNCHANGED <<server, db, updates, loop, spoiled, memVars, attempts, history>>
      /\ UNCHANGED <<updates, attempts>>
  BY DEF RemoveFile
<1>2. files' \subseteq File /\ \A g, h \in files' : g.name = h.name => g = h
  BY <1>0, <1>1, RecordTypes
<1>3. FileInv' /\ RenameInv'
  BY <1>0, <1>1 DEF Disk, FileInv, RenameInv
<1>4. \A g : Recorded(g)' <=> Recorded(g)
  BY <1>1 DEF Recorded
<1>5. f.failed \/ Recorded(f)
  BY <1>0, <1>1, RecordTypes DEF Recorded
<1>6. \A s \in Ids : ToCome(s)' = ToCome(s)
  BY <1>1, <1>4, <1>5 DEF ToCome
<1> QED
  BY <1>1, <1>2, <1>3, <1>4, <1>6, DirectoryKeeps

(* A file that was applied gets a name above the others.                       *)
LEMMA RenameFileKeeps ==
    ASSUME Inv, NEW f \in files, RenameFile(f)
    PROVE  Inv'
<1>0. TypeOK /\ Disk /\ FileInv /\ RenameInv
  BY DEF Inv, Disk
<1>1. PICK n \in NextNames : /\ \A r \in updates : r.name # n
                            /\ files' = (files \ {f}) \cup {[f EXCEPT !.name = n]}
  BY DEF RenameFile
<1>2. /\ server \in {"down", "running"} /\ Entry(f) \in updates
      /\ UNCHANGED <<server, db, updates, loop, spoiled, memVars, attempts, history>>
      /\ UNCHANGED <<updates, attempts>>
      /\ n \in Nat /\ \A g \in files : g.name < n
  BY NextNameFacts DEF RenameFile
<1>3. /\ files \subseteq File /\ \A g \in files : g.name \in Nat /\ g.text \in Nat
      /\ \A g, h \in files : g.name = h.name => g = h
      /\ Entry(f).name = f.name /\ Entry(f).text = f.text
      /\ attempts \in Nat
      /\ \A r \in updates : r.name \in Nat
  BY <1>0, BoundsAssumption, RecordTypes DEF TypeOK
<1>4. PICK h \in File : /\ h.name = n /\ h.text = f.text /\ h.sql = f.sql /\ h.failed = f.failed
                        /\ files' = (files \ {f}) \cup {h}
  <2>1. [f EXCEPT !.name = n] \in File
    BY <1>2, <1>3 DEF File
  <2> QED
    BY <1>1, <1>3, <2>1 DEF File
<1>5. files' \subseteq File /\ \A g, k \in files' : g.name = k.name => g = k
  BY <1>2, <1>3, <1>4
<1>6. FileInv'
  <2>1. \A g \in files' : /\ g.text < attempts'
                          /\ \A c \in g.sql : c.type = "delete" => c.entry = None
    BY <1>0, <1>2, <1>4 DEF FileInv
  <2>2. \A g, k \in files' : g.text = k.text => g = k
    BY <1>0, <1>4 DEF FileInv
  <2> QED
    BY <1>0, <1>2, <2>1, <2>2 DEF FileInv
<1>7. RenameInv'
  <2> SUFFICES ASSUME NEW g \in files', NEW r \in updates, r.text = g.text, r.name # g.name
               PROVE  /\ r.name < g.name /\ \A k \in files' : k.name # r.name
                      /\ \A q \in updates : q.name # g.name
    BY <1>2 DEF RenameInv
  <2>1. CASE g = h
    <3>1. r = Entry(f)
      BY <1>0, <1>2, <1>3, <1>4, <2>1 DEF FileInv
    <3> QED
      BY <1>1, <1>2, <1>3, <1>4, <2>1, <3>1
  <2>2. CASE g \in files
    <3>1. /\ r.name < g.name /\ \A k \in files : k.name # r.name
          /\ \A q \in updates : q.name # g.name
      BY <1>0, <2>2 DEF RenameInv
    <3>2. h.name # r.name
      BY <1>2, <1>3, <1>4, <2>2, <3>1
    <3> QED
      BY <1>4, <3>1, <3>2
  <2> QED
    BY <1>4, <2>1, <2>2
<1>8. \A g : Recorded(g)' <=> Recorded(g)
  BY <1>2 DEF Recorded
<1>9. Recorded(f) /\ Recorded(h)
  BY <1>2, <1>3, <1>4 DEF Recorded
<1>10. \A s \in Ids : ToCome(s)' = ToCome(s)
  BY <1>4, <1>8, <1>9 DEF ToCome
<1>11. \A g \in files' : ~Recorded(g)' => g \in files /\ ~Recorded(g)
  BY <1>4, <1>8, <1>9
<1> QED
  BY <1>2, <1>5, <1>6, <1>7, <1>10, <1>11, DirectoryKeeps
-----------------------------------------------------------------------------
(* The invariant holds in every reachable state.                               *)
THEOREM Inductive == Spec => []Inv
<1>1. Init => Inv
  <2> SUFFICES ASSUME Init PROVE Inv
    OBVIOUS
  <2>1. /\ server = "down" /\ files = {} /\ updates = {} /\ todo = {} /\ applied = {} /\ known = {}
        /\ spoiled = FALSE /\ changes = {} /\ hidden = {} /\ cells = {} /\ grid = FALSE
        /\ present = {} /\ corpses = {} /\ timer = {} /\ queue = <<>>
        /\ creatureData = NoRows /\ creatureSpawnId = 1 /\ attempts = 0
        /\ promised = db /\ overruled = {}
    BY DEF Init, UpdaterInit
  <2>2. db \in Rows /\ NoRows \in Rows
    <3>1. (CHOOSE e \in Entries : TRUE) \in Entries
      BY EntriesAssumption
    <3> QED
      BY <3>1 DEF Init, UpdaterInit, Rows, NoRows
  <2>3. 1 \in 1..(MaxId + 1) /\ 0 \in 0..MaxAttempts /\ <<>> \in Seq(Change)
    BY MaxIdAssumption, BoundsAssumption
  <2>4. TypeOK
    BY <2>1, <2>2, <2>3 DEF TypeOK
  <2>5. Memory
    BY <2>1 DEF Memory, MemoryInv, IdInv, ChangeInv, WorldIsPromise, MapShowsWorld
  <2>6. Disk
    <3>1. \A s : Stored(s) = db[s]
      BY <2>1, StoredEmpty
    <3> QED
      BY <2>1, <3>1 DEF Disk, FileInv, RenameInv, LoopInv, RecordInv, PromiseInv, ToCome
  <2> QED
    BY <2>4, <2>5, <2>6 DEF Inv
<1>2. Inv /\ [Next]_vars => Inv'
  <2> SUFFICES ASSUME Inv, [Next]_vars PROVE Inv'
    OBVIOUS
  <2>1. CASE UpdateStep /\ UNCHANGED <<memVars, attempts, history>>
    BY <2>1, UpdateKeeps
  <2>2. CASE LoadCreatures \/ Crash \/ CrashInCommit \/ Commit \/ CommitFails
    BY <2>2, LoadKeeps, CrashKeeps, CommitKeeps, CommitFailsKeeps
  <2>3. CASE LoadGrid \/ UnloadGrid \/ SpawnCreatureFails \/ ExecuteWrite
    BY <2>3, MapKeeps, ExecuteWriteKeeps
  <2>4. ASSUME NEW s \in Ids,
               \/ DeleteCreatureSpawn(s) \/ CancelSpawn(s) \/ NpcDelete(s)
               \/ Die(s) \/ RemoveCorpse(s) \/ Respawn(s)
        PROVE  Inv'
    <3>1. CASE CancelSpawn(s)
      <4>1. PICK c \in PendingSpawn(s) : UndoChange(c)
        BY <3>1 DEF CancelSpawn
      <4>2. server = "running" /\ c \in changes /\ UNCHANGED outside
        BY <3>1 DEF CancelSpawn, Running, PendingSpawn
      <4> QED
        BY <4>1, <4>2, UndoKeeps
    <3> QED
      BY <2>4, <3>1, DeleteKeeps, NpcDeleteKeeps, MapKeeps
  <2>5. ASSUME NEW e \in Entries, SpawnCreature(e) \/ NpcAdd(e) \/ NpcAddFails(e) PROVE Inv'
    BY <2>5, SpawnKeeps, NpcAddKeeps
  <2>6. ASSUME NEW c \in changes, Undo(c) PROVE Inv'
    BY <2>6, UndoKeeps DEF Undo, Running
  <2>7. ASSUME NEW f \in files, RemoveFile(f) \/ RenameFile(f) PROVE Inv'
    BY <2>7, RemoveFileKeeps, RenameFileKeeps
  <2>8. CASE UNCHANGED vars
    <3>1. UNCHANGED outside /\ UNCHANGED memVars
      BY <2>8 DEF vars, outside, memVars
    <3>2. UNCHANGED <<server, db, files, updates, todo, applied, known, spoiled, creatureData,
                      creatureSpawnId, changes, hidden, cells, grid, present, corpses, timer, queue, attempts,
                      promised, overruled>>
      BY <2>8 DEF vars, updaterVars, memVars, mapVars, history
    <3>3. Disk'
      BY <3>1, OutsideKeeps DEF Inv
    <3>4. TypeOK'
      BY <3>2 DEF Inv, TypeOK
    <3>5. Memory'
      BY <3>2 DEF Inv, Memory, MemoryInv, IdInv, ChangeInv, WorldIsPromise, MapShowsWorld, Shown, Recorded
    <3> QED
      BY <3>3, <3>4, <3>5 DEF Inv
  <2> QED
    BY <2>1, <2>2, <2>3, <2>4, <2>5, <2>6, <2>7, <2>8 DEF Next
<1> QED
  BY <1>1, <1>2, PTL DEF Spec

(* The variables keep their types; two files never have the same name.         *)
THEOREM TypeCorrect == Spec => []TypeOK
<1>1. Inv => TypeOK
  BY DEF Inv
<1> QED
  BY <1>1, Inductive, PTL

(* The running world is what was committed with the pending changes on top.    *)
THEOREM WorldCorrect == Spec => []WorldIsPromise
<1>1. Inv => WorldIsPromise
  BY DEF Inv, Memory
<1> QED
  BY <1>1, Inductive, PTL

(* The map shows the world: DevTools deletions stay away from it, also when    *)
(* a corpse was deleted and its respawn time runs out, and nothing else is     *)
(* missing.                                                                    *)
THEOREM MapCorrect == Spec => []MapShowsWorld
<1>1. Inv => MapShowsWorld
  BY DEF Inv, Memory
<1> QED
  BY <1>1, Inductive, PTL

(* A start that comes to loading the creatures has the rows the commits and    *)
(* the executed transactions of .npc add and .npc delete promised, whatever    *)
(* crashes, renames and cut-short starts came before it.                       *)
THEOREM PromiseKept == Spec => []StartKeepsPromise
<1>1. Inv => StartKeepsPromise
  <2> SUFFICES ASSUME Inv, server = "load", ~spoiled, NEW s \in Ids \ overruled
               PROVE  db[s] = promised[s]
    BY DEF StartKeepsPromise
  <2>1. TypeOK /\ Disk /\ queue = <<>>
    BY DEF Inv, Memory, MemoryInv
  <2>2. \A f \in files : f.failed \/ (Entry(f) \in updates /\ Entry(f).text = f.text)
    BY <2>1, RecordTypes DEF Disk, LoopInv
  <2>3. ToCome(s) = {}
    BY <2>2 DEF ToCome, Recorded
  <2> QED
    BY <2>1, <2>3, StoredEmpty DEF Disk, PromiseInv
<1> QED
  BY <1>1, Inductive, PTL
=============================================================================
