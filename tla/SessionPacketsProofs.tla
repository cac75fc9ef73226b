------------------------- MODULE SessionPacketsProofs -------------------------
(*****************************************************************************)
(* Proofs about one session: for every client, number of characters and      *)
(* budget, the packets and the callbacks of a session are neither lost,      *)
(* repeated nor reordered, one login is under way at a time, and the player  *)
(* stays while a map updates the session.                                    *)
(*                                                                           *)
(* SessionInv is inductive. Its parts about packets speak of the sequence    *)
(* Waiting, which a step extends at its end, shortens at one position or     *)
(* leaves as it is; its parts about callbacks speak of the set of callbacks  *)
(* held in five places, which the moves between the places do not change.    *)
(*****************************************************************************)
EXTENDS SessionPackets, FiniteSetTheorems, TLAPS

-------------------------------------------------------------------------------
(* The opcode table and the CASE expressions.                                *)

(* The client sends opcodes of the table.                                    *)
LEMMA SentFacts == Sent \subseteq DOMAIN Opcode
BY ClientAssumption DEF Sent

(* What the table says of the opcodes that the proofs tell apart.            *)
LEMMA OpcodeFacts ==
    /\ DOMAIN Opcode = {"charEnum", "charCreate", "playerLogin", "jump", "areaTrigger", "sendMail",
                        "addFriend", "logout", "worldport", "cancelTrade", "bootMe"}
    /\ \A p \in Packet : 
          /\ Place(p) \in {"INPLACE", "THREADSAFE"} => p.opcode \in {"jump", "areaTrigger", "bootMe"}
          /\ p.opcode = "sendMail" => Status(p) = "LOGGEDIN"
          /\ p.opcode = "logout" => Place(p) = "THREADUNSAFE"
<1>1. DOMAIN Opcode = {"charEnum", "charCreate", "playerLogin", "jump", "areaTrigger", "sendMail",
                        "addFriend", "logout", "worldport", "cancelTrade", "bootMe"}
  BY DEF Opcode
<1>2. \A p \in Packet : p.opcode \in DOMAIN Opcode
  BY SentFacts DEF Packet
<1> QED
  BY <1>1, <1>2 DEF Opcode, Place, Status

(* LockedQueue::next removes the first packet.                               *)
LEMMA TakeHead ==
   ASSUME NEW q \in Seq(Packet), q # <<>>
   PROVE  RemoveAt(q, 1) = Tail(q)
<1>1. SubSeq(q, 1, 0) = <<>> /\ SubSeq(q, 2, Len(q)) = Tail(q)
  OBVIOUS
<1> QED
  BY <1>1 DEF RemoveAt

(* Call, one alternative per handler.                                        *)
LEMMA CallFacts ==
    ASSUME NEW k \in {"charEnum", "charCreate", "playerLogin", "jump", "areaTrigger", "sendMail",
                        "addFriend", "logout", "worldport", "cancelTrade", "bootMe"}, Call(k)
    PROVE  \/ k = "charEnum" /\ HandleCharEnumOpcode
           \/ k = "charCreate" /\ HandleCharCreateOpcode
           \/ k = "playerLogin" /\ HandlePlayerLoginOpcode
           \/ k = "sendMail" /\ HandleSendMail
           \/ k = "addFriend" /\ HandleAddFriendOpcode
           \/ k = "logout" /\ HandleLogoutRequestOpcode
           \/ k = "areaTrigger" /\ HandleAreaTriggerOpcode
           \/ k = "worldport" /\ HandleMoveWorldportAck
           \/ k \in {"jump", "cancelTrade", "bootMe"} /\ NoQuery /\ UNCHANGED <<playerVars, sock>>
BY Zenon DEF Call

(* Invoke, one alternative per continuation.                                 *)
LEMMA InvokeFacts ==
    ASSUME NEW cb, Invoke(cb),
           cb.kind \in {"charEnum", "charCreate", "charSaved", "playerLogin", "sendMail", "addFriend"}
    PROVE  \/ cb.kind = "charEnum" /\ HandleCharEnum(cb)
           \/ cb.kind = "charCreate" /\ CharCreateContinuation(cb)
           \/ cb.kind = "charSaved" /\ CharSavedContinuation(cb)
           \/ cb.kind = "playerLogin" /\ HandlePlayerLogin(cb)
           \/ cb.kind = "sendMail" /\ MailContinuation(cb)
           \/ cb.kind = "addFriend" /\ FriendContinuation(cb)
BY Zenon DEF Invoke

(* The packets of a player are handled only for a player.                    *)
LEMMA ExpectedFacts ==
    ASSUME NEW p, Expected(p)
    PROVE  /\ Status(p) = "LOGGEDIN" => player # Null
           /\ Status(p) = "TRANSFER" => player # Null
           /\ Status(p) # "NEVER"
BY Zenon DEF Expected

-------------------------------------------------------------------------------
(* The places of the callbacks.                                              *)

(* The keys of _callbacks are the names of the three processors.             *)
LEMMA ProcessorNames ==
    /\ ToSet(Processors) = {"query", "transaction", "holder"} /\ Len(Processors) = 3
    /\ Processors[1] = "query" /\ Processors[2] = "transaction" /\ Processors[3] = "holder"
<1>1. /\ Len(Processors) = 3 /\ DOMAIN Processors = 1 .. 3
      /\ Processors[1] = "query" /\ Processors[2] = "transaction" /\ Processors[3] = "holder"
  <2>1. DOMAIN <<"query", "transaction", "holder">> = 1 .. 3 /\ Len(<<"query", "transaction", "holder">>) = 3
    OBVIOUS
  <2> QED
    BY <2>1 DEF Processors
<1> QED
  BY <1>1 DEF ToSet

(* A held callback is the element of one of the sequences.                   *)
LEMMA HeldFacts ==
    ASSUME NEW f \in [Places -> Seq(Callback)]
    PROVE  \A cb : cb \in Held(f) <=> \E x \in Places : \E i \in DOMAIN f[x] : cb = f[x][i]
BY DEF Held, ToSet

(* Adding a callback for a new query (AddCallback, SetNextQuery).            *)
LEMMA AddFacts ==
    ASSUME NEW f \in [Places -> Seq(Callback)], NEW x \in Places, NEW cb \in Callback,
           Separate(f), \A other \in Held(f) : other.query # cb.query
    PROVE  LET g == [f EXCEPT ![x] = Append(@, cb)]
           IN  g \in [Places -> Seq(Callback)] /\ Separate(g) /\ Held(g) = Held(f) \cup {cb}
<1> DEFINE g == [f EXCEPT ![x] = Append(@, cb)]
<1>1. /\ g \in [Places -> Seq(Callback)] /\ g[x] = Append(f[x], cb)
      /\ \A y \in Places \ {x} : g[y] = f[y]
  OBVIOUS
<1>2. DOMAIN f[x] = 1 .. Len(f[x]) /\ DOMAIN g[x] = 1 .. Len(f[x]) + 1 /\ Len(f[x]) \in Nat
  BY <1>1
<1>3. g[x][Len(f[x]) + 1] = cb /\ \A i \in DOMAIN f[x] : g[x][i] = f[x][i]
  BY <1>1
<1>4. \A y \in Places : \A i \in DOMAIN g[y] : (i \in DOMAIN f[y] /\ g[y][i] = f[y][i]) \/ (y = x /\ i = Len(f[x]) + 1)
  <2> SUFFICES ASSUME NEW y \in Places, NEW i \in DOMAIN g[y]
               PROVE  (i \in DOMAIN f[y] /\ g[y][i] = f[y][i]) \/ (y = x /\ i = Len(f[x]) + 1)
    OBVIOUS
  <2>1. CASE y = x
    <3>1. i \in 1 .. Len(f[x]) + 1
      BY <1>2, <2>1
    <3>2. i \in 1 .. Len(f[x]) \/ i = Len(f[x]) + 1
      BY <3>1, <1>2
    <3> QED
      BY <3>2, <2>1, <1>2, <1>3
  <2>2. CASE y # x
    BY <2>2, <1>1
  <2> QED
    BY <2>1, <2>2
<1>5. \A y \in Places : \A i \in DOMAIN f[y] : i \in DOMAIN g[y] /\ g[y][i] = f[y][i]
  <2> SUFFICES ASSUME NEW y \in Places, NEW i \in DOMAIN f[y]
               PROVE  i \in DOMAIN g[y] /\ g[y][i] = f[y][i]
    OBVIOUS
  <2>1. CASE y = x
    BY <2>1, <1>2, <1>3
  <2>2. CASE y # x
    BY <2>2, <1>1
  <2> QED
    BY <2>1, <2>2
<1>6. \A y \in Places : \A i \in DOMAIN f[y] : f[y][i].query # cb.query
  BY HeldFacts
<1> HIDE DEF g
<1>7. Separate(g)
  <2> SUFFICES ASSUME NEW y \in Places, NEW z \in Places, NEW i \in DOMAIN g[y], NEW j \in DOMAIN g[z],
                      g[y][i].query = g[z][j].query
               PROVE  y = z /\ i = j
    BY DEF Separate
  <2>1. CASE y = x /\ i = Len(f[x]) + 1
    <3>1. g[z][j].query = cb.query
      BY <2>1, <1>3
    <3> QED
      BY <3>1, <2>1, <1>4, <1>6
  <2>2. CASE z = x /\ j = Len(f[x]) + 1
    <3>1. g[y][i].query = cb.query
      BY <2>2, <1>3
    <3> QED
      BY <3>1, <2>2, <1>4, <1>6
  <2>3. CASE ~(y = x /\ i = Len(f[x]) + 1) /\ ~(z = x /\ j = Len(f[x]) + 1)
    <3>1. i \in DOMAIN f[y] /\ g[y][i] = f[y][i] /\ j \in DOMAIN f[z] /\ g[z][j] = f[z][j]
      BY <2>3, <1>4
    <3> QED
      BY <3>1 DEF Separate
  <2> QED
    BY <2>1, <2>2, <2>3
<1>8. ASSUME NEW c
      PROVE  c \in Held(g) <=> c \in Held(f) \/ c = cb
  <2> g \in [Places -> Seq(Callback)]
    BY <1>1
  <2>1. c \in Held(g) <=> \E y \in Places : \E i \in DOMAIN g[y] : c = g[y][i]
    BY DEF Held, ToSet
  <2>2. c \in Held(f) <=> \E y \in Places : \E i \in DOMAIN f[y] : c = f[y][i]
    BY DEF Held, ToSet
  <2>3. Len(f[x]) + 1 \in DOMAIN g[x]
    BY <1>2
  <2>4. c = cb => c \in Held(g)
    BY <2>1, <2>3, <1>3
  <2>5. c \in Held(f) => c \in Held(g)
    BY <2>1, <2>2, <1>5
  <2>6. c \in Held(g) => c \in Held(f) \/ c = cb
    BY <2>1, <2>2, <1>3, <1>4
  <2> QED
    BY <2>4, <2>5, <2>6
<1> QED
  BY <1>1, <1>7, <1>8 DEF g

(* Looking at the first callback of a place takes it away, and no other.     *)
LEMMA RemoveFacts ==
    ASSUME NEW f \in [Places -> Seq(Callback)], NEW x \in Places, f[x] # <<>>, Separate(f)
    PROVE  LET g == [f EXCEPT ![x] = Tail(@)]
           IN  /\ g \in [Places -> Seq(Callback)] /\ Separate(g)
               /\ Held(g) = Held(f) \ {Head(f[x])} /\ Head(f[x]) \in Held(f) /\ Head(f[x]) \in Callback
               /\ \A other \in Held(g) : other \in Callback /\ other.query # Head(f[x]).query
<1> DEFINE g == [f EXCEPT ![x] = Tail(@)]
<1> DEFINE h == Head(f[x])
<1>1. /\ g \in [Places -> Seq(Callback)] /\ g[x] = Tail(f[x])
      /\ \A y \in Places \ {x} : g[y] = f[y]
  OBVIOUS
<1>2. /\ DOMAIN f[x] = 1 .. Len(f[x]) /\ DOMAIN g[x] = 1 .. Len(f[x]) - 1 /\ Len(f[x]) \in Nat
      /\ Len(f[x]) >= 1 /\ h = f[x][1] /\ 1 \in DOMAIN f[x] /\ h \in Callback
  BY <1>1
<1>3. \A i \in DOMAIN g[x] : i + 1 \in DOMAIN f[x] /\ g[x][i] = f[x][i + 1] /\ i \in Nat
  BY <1>1, <1>2
<1>4. \A i \in DOMAIN f[x] : i = 1 \/ (i - 1 \in DOMAIN g[x] /\ g[x][i - 1] = f[x][i])
  BY <1>1, <1>2
<1> HIDE DEF g, h
<1>5. Separate(g)
  <2> SUFFICES ASSUME NEW y \in Places, NEW z \in Places, NEW i \in DOMAIN g[y], NEW j \in DOMAIN g[z],
                      g[y][i].query = g[z][j].query
               PROVE  y = z /\ i = j
    BY DEF Separate
  <2>1. CASE y = x /\ z = x
    <3>1. f[x][i + 1].query = f[x][j + 1].query /\ i + 1 \in DOMAIN f[x] /\ j + 1 \in DOMAIN f[x] /\ i \in Nat /\ j \in Nat
      BY <2>1, <1>3
    <3>2. i + 1 = j + 1
      BY <3>1 DEF Separate
    <3> QED
      BY <3>1, <3>2, <2>1
  <2>2. CASE y = x /\ z # x
    BY <2>2, <1>1, <1>3 DEF Separate
  <2>3. CASE y # x /\ z = x
    BY <2>3, <1>1, <1>3 DEF Separate
  <2>4. CASE y # x /\ z # x
    BY <2>4, <1>1 DEF Separate
  <2> QED
    BY <2>1, <2>2, <2>3, <2>4
<1>6. h \in Held(f)
  BY <1>2, HeldFacts
<1>7. ASSUME NEW c
      PROVE  /\ c \in Held(g) => c \in Held(f) /\ c \in Callback /\ c.query # h.query
             /\ c \in Held(f) /\ c # h => c \in Held(g)
  <2> g \in [Places -> Seq(Callback)]
    BY <1>1
  <2>1. c \in Held(g) <=> \E y \in Places : \E i \in DOMAIN g[y] : c = g[y][i]
    BY DEF Held, ToSet
  <2>2. c \in Held(f) <=> \E y \in Places : \E i \in DOMAIN f[y] : c = f[y][i]
    BY DEF Held, ToSet
  <2>3. ASSUME c \in Held(g)
        PROVE  c \in Held(f) /\ c \in Callback /\ c.query # h.query
    <3>1. PICK y \in Places : \E i \in DOMAIN g[y] : c = g[y][i]
      BY <2>3, <2>1
    <3>2. PICK i \in DOMAIN g[y] : c = g[y][i]
      BY <3>1
    <3>3. CASE y = x
      <4>1. c = f[x][i + 1] /\ i + 1 \in DOMAIN f[x] /\ i + 1 # 1
        BY <3>2, <3>3, <1>3, <1>2
      <4>2. c \in Held(f) /\ c \in Callback
        BY <4>1, <2>2
      <4>3. f[x][i + 1].query # f[x][1].query
        BY <4>1, <1>2 DEF Separate
      <4> QED
        BY <4>1, <4>2, <4>3, <1>2
    <3>4. CASE y # x
      <4>1. c = f[y][i] /\ i \in DOMAIN f[y] /\ f[y] \in Seq(Callback)
        BY <3>2, <3>4, <1>1
      <4>2. c \in Callback
        BY <4>1
      <4> QED
        BY <4>1, <4>2, <3>4, <2>2, <1>2 DEF Separate
    <3> QED
      BY <3>3, <3>4
  <2>4. ASSUME c \in Held(f), c # h
        PROVE  c \in Held(g)
    <3>1. PICK y \in Places : \E i \in DOMAIN f[y] : c = f[y][i]
      BY <2>4, <2>2
    <3>2. PICK i \in DOMAIN f[y] : c = f[y][i]
      BY <3>1
    <3>3. CASE y = x
      BY <3>2, <3>3, <1>4, <1>2, <2>4, <2>1
    <3>4. CASE y # x
      BY <3>2, <3>4, <1>1, <2>1
    <3> QED
      BY <3>3, <3>4
  <2> QED
    BY <2>3, <2>4
<1>8. Held(g) = Held(f) \ {h}
  <2>1. \A c : c \in Held(g) <=> c \in Held(f) /\ c # h
    BY <1>7
  <2> QED
    BY <2>1
<1> QED
  BY <1>1, <1>2, <1>5, <1>6, <1>7, <1>8 DEF g, h

(* Moving the callbacks of a place behind those of another neither loses nor *)
(* repeats one.                                                              *)
LEMMA MoveFacts ==
    ASSUME NEW f \in [Places -> Seq(Callback)], NEW x \in Places, NEW y \in Places, x # y, Separate(f)
    PROVE  LET g == [f EXCEPT ![x] = <<>>, ![y] = f[y] \o f[x]]
           IN  g \in [Places -> Seq(Callback)] /\ Separate(g) /\ Held(g) = Held(f)
<1> DEFINE g == [f EXCEPT ![x] = <<>>, ![y] = f[y] \o f[x]]
<1>1. /\ g \in [Places -> Seq(Callback)] /\ g[x] = <<>> /\ g[y] = f[y] \o f[x]
      /\ \A z \in Places : z # x /\ z # y => g[z] = f[z]
  <2>1. <<>> \in Seq(Callback) /\ f[y] \o f[x] \in Seq(Callback)
    OBVIOUS
  <2> QED
    BY <2>1
<1>2. /\ DOMAIN f[x] = 1 .. Len(f[x]) /\ DOMAIN f[y] = 1 .. Len(f[y]) /\ DOMAIN g[x] = {}
      /\ Len(f[x]) \in Nat /\ Len(f[y]) \in Nat /\ DOMAIN g[y] = 1 .. Len(f[y]) + Len(f[x])
  BY <1>1
<1>3. /\ \A i \in DOMAIN f[y] : i \in DOMAIN g[y] /\ g[y][i] = f[y][i]
      /\ \A i \in DOMAIN f[x] : Len(f[y]) + i \in DOMAIN g[y] /\ g[y][Len(f[y]) + i] = f[x][i]
  BY <1>1, <1>2
<1>4. ASSUME NEW i \in DOMAIN g[y]
      PROVE  \/ i \in DOMAIN f[y] /\ g[y][i] = f[y][i]
             \/ i - Len(f[y]) \in DOMAIN f[x] /\ g[y][i] = f[x][i - Len(f[y])] /\ i \in Nat
  <2>1. CASE i <= Len(f[y])
    BY <2>1, <1>2, <1>3
  <2>2. CASE i > Len(f[y])
    <3>1. i - Len(f[y]) \in DOMAIN f[x] /\ i = Len(f[y]) + (i - Len(f[y])) /\ i \in Nat
      BY <2>2, <1>2
    <3> QED
      BY <3>1, <1>3
  <2> QED
    BY <2>1, <2>2, <1>2
<1> HIDE DEF g
<1>5. ASSUME NEW z \in Places, NEW i \in DOMAIN g[z]
      PROVE  \E w \in Places : \E j \in DOMAIN f[w] :
               /\ g[z][i] = f[w][j]
               /\ \/ w = z /\ j = i /\ z # x
                  \/ z = y /\ w = x /\ j = i - Len(f[y]) /\ i \in Nat
  <2>1. CASE z = y
    BY <2>1, <1>4
  <2>2. CASE z # y
    BY <2>2, <1>1, <1>2
  <2> QED
    BY <2>1, <2>2
<1>6. Separate(g)
  <2> SUFFICES ASSUME NEW z \in Places, NEW w \in Places, NEW i \in DOMAIN g[z], NEW j \in DOMAIN g[w],
                      g[z][i].query = g[w][j].query
               PROVE  z = w /\ i = j
    BY DEF Separate
  <2>1. PICK zz \in Places : \E ii \in DOMAIN f[zz] :
               /\ g[z][i] = f[zz][ii]
               /\ \/ zz = z /\ ii = i /\ z # x
                  \/ z = y /\ zz = x /\ ii = i - Len(f[y]) /\ i \in Nat
    BY <1>5
  <2>2. PICK ww \in Places : \E jj \in DOMAIN f[ww] :
               /\ g[w][j] = f[ww][jj]
               /\ \/ ww = w /\ jj = j /\ w # x
                  \/ w = y /\ ww = x /\ jj = j - Len(f[y]) /\ j \in Nat
    BY <1>5
  <2>3. PICK ii \in DOMAIN f[zz] :
               /\ g[z][i] = f[zz][ii]
               /\ \/ zz = z /\ ii = i /\ z # x
                  \/ z = y /\ zz = x /\ ii = i - Len(f[y]) /\ i \in Nat
    BY <2>1
  <2>4. PICK jj \in DOMAIN f[ww] :
               /\ g[w][j] = f[ww][jj]
               /\ \/ ww = w /\ jj = j /\ w # x
                  \/ w = y /\ ww = x /\ jj = j - Len(f[y]) /\ j \in Nat
    BY <2>2
  <2>5. zz = ww /\ ii = jj
    BY <2>3, <2>4 DEF Separate
  <2> QED
    BY <2>3, <2>4, <2>5, <1>2
<1>7. ASSUME NEW c
      PROVE  c \in Held(g) <=> c \in Held(f)
  <2> g \in [Places -> Seq(Callback)]
    BY <1>1
  <2>1. c \in Held(g) <=> \E z \in Places : \E i \in DOMAIN g[z] : c = g[z][i]
    BY DEF Held, ToSet
  <2>2. c \in Held(f) <=> \E z \in Places : \E i \in DOMAIN f[z] : c = f[z][i]
    BY DEF Held, ToSet
  <2>3. ASSUME NEW z \in Places, NEW i \in DOMAIN f[z]
        PROVE  \E w \in Places : \E j \in DOMAIN g[w] : f[z][i] = g[w][j]
    <3>1. CASE z = x
      BY <3>1, <1>3
    <3>2. CASE z = y
      BY <3>2, <1>3
    <3>3. CASE z # x /\ z # y
      BY <3>3, <1>1
    <3> QED
      BY <3>1, <3>2, <3>3
  <2>4. c \in Held(f) => c \in Held(g)
    BY <2>1, <2>2, <2>3
  <2>5. c \in Held(g) => c \in Held(f)
    BY <2>1, <2>2, <1>5
  <2> QED
    BY <2>4, <2>5
<1> QED
  BY <1>1, <1>6, <1>7 DEF g

(* Concatenation: the elements, and the queries when they are separate.      *)
LEMMA ConcatFacts ==
    ASSUME NEW s \in Seq(Callback), NEW t \in Seq(Callback)
    PROVE  /\ s \o t \in Seq(Callback) /\ ToSet(s \o t) = ToSet(s) \cup ToSet(t)
           /\ (/\ \A i, j \in DOMAIN s : s[i].query = s[j].query => i = j
               /\ \A i, j \in DOMAIN t : t[i].query = t[j].query => i = j
               /\ \A cb \in ToSet(s), other \in ToSet(t) : cb.query # other.query)
              => \A i, j \in DOMAIN (s \o t) : (s \o t)[i].query = (s \o t)[j].query => i = j
<1> DEFINE u == s \o t
<1>1. /\ u \in Seq(Callback) /\ DOMAIN s = 1 .. Len(s) /\ DOMAIN t = 1 .. Len(t)
      /\ DOMAIN u = 1 .. Len(s) + Len(t) /\ Len(s) \in Nat /\ Len(t) \in Nat
  OBVIOUS
<1>2. /\ \A i \in DOMAIN s : i \in DOMAIN u /\ u[i] = s[i]
      /\ \A i \in DOMAIN t : Len(s) + i \in DOMAIN u /\ u[Len(s) + i] = t[i]
  BY <1>1
<1>3. ASSUME NEW i \in DOMAIN u
      PROVE  \/ i \in DOMAIN s /\ u[i] = s[i]
             \/ i - Len(s) \in DOMAIN t /\ u[i] = t[i - Len(s)] /\ i \in Nat
  <2>1. CASE i <= Len(s)
    BY <2>1, <1>1, <1>2
  <2>2. CASE i > Len(s)
    <3>1. i - Len(s) \in DOMAIN t /\ i = Len(s) + (i - Len(s)) /\ i \in Nat
      BY <2>2, <1>1
    <3> QED
      BY <3>1, <1>2
  <2> QED
    BY <2>1, <2>2, <1>1
<1> HIDE DEF u
<1>4. ToSet(u) = ToSet(s) \cup ToSet(t)
  BY <1>2, <1>3 DEF ToSet
<1>5. ASSUME \A i, j \in DOMAIN s : s[i].query = s[j].query => i = j,
             \A i, j \in DOMAIN t : t[i].query = t[j].query => i = j,
             \A cb \in ToSet(s), other \in ToSet(t) : cb.query # other.query,
             NEW i \in DOMAIN u, NEW j \in DOMAIN u, u[i].query = u[j].query
      PROVE  i = j
  <2>1. \A n \in DOMAIN s, m \in DOMAIN t : s[n].query # t[m].query
    BY <1>5 DEF ToSet
  <2>2. CASE i \in DOMAIN s /\ u[i] = s[i]
    BY <2>1, <2>2, <1>3, <1>5
  <2>3. CASE i - Len(s) \in DOMAIN t /\ u[i] = t[i - Len(s)] /\ i \in Nat
    <3>1. CASE j \in DOMAIN s /\ u[j] = s[j]
      BY <2>1, <2>3, <3>1, <1>5
    <3>2. CASE j - Len(s) \in DOMAIN t /\ u[j] = t[j - Len(s)] /\ j \in Nat
      <4>1. i - Len(s) = j - Len(s)
        BY <2>3, <3>2, <1>5
      <4> QED
        BY <4>1, <2>3, <3>2, <1>1
    <3> QED
      BY <3>1, <3>2, <1>3
  <2> QED
    BY <2>2, <2>3, <1>3
<1> QED
  BY <1>1, <1>4, <1>5 DEF u

(* What g holds differs from what f holds by one callback; a set with one    *)
(* element more. They are opaque to the provers where a lemma is cited.      *)
Gains(f, g, cb) == Held(g) = Held(f) \cup {cb}
Loses(f, g, cb) == Held(g) = Held(f) \ {cb}
With(S, e) == S \cup {e}

(* The same three changes in terms of the queries that are held.             *)
LEMMA ExactAdd ==
    ASSUME NEW f \in [Places -> Seq(Callback)], NEW n \in Nat, NEW r \in SUBSET (1 .. n), Exact(f, n, r),
           NEW x \in Places, NEW cb \in Callback, cb.query = n + 1
    PROVE  LET g == [f EXCEPT ![x] = Append(@, cb)]
           IN  g \in [Places -> Seq(Callback)] /\ Exact(g, n + 1, r) /\ Gains(f, g, cb)
<1> DEFINE g == [f EXCEPT ![x] = Append(@, cb)]
<1>1. Separate(f) /\ \A other \in Held(f) : other.query # cb.query
  BY DEF Exact
<1>2. g \in [Places -> Seq(Callback)] /\ Separate(g) /\ Held(g) = Held(f) \cup {cb}
  BY <1>1, AddFacts
<1> HIDE DEF g
<1>3. \A c \in Held(g) : c.query \in (1 .. n + 1) \ r
  BY <1>2 DEF Exact
<1>4. \A q \in (1 .. n + 1) \ r : \E c \in Held(g) : c.query = q
  <2> SUFFICES ASSUME NEW q \in (1 .. n + 1) \ r
               PROVE  \E c \in Held(g) : c.query = q
    OBVIOUS
  <2>1. CASE q = n + 1
    BY <2>1, <1>2
  <2>2. CASE q # n + 1
    <3>1. q \in (1 .. n) \ r
      BY <2>2
    <3> QED
      BY <3>1, <1>2 DEF Exact
  <2> QED
    BY <2>1, <2>2
<1> QED
  BY <1>2, <1>3, <1>4 DEF Exact, Gains, g

(* The first callback of a place and its query leave together.               *)
LEMMA ExactRemove ==
    ASSUME NEW f \in [Places -> Seq(Callback)], NEW n \in Nat, NEW r \in SUBSET (1 .. n), Exact(f, n, r),
           NEW x \in Places, f[x] # <<>>
    PROVE  LET g == [f EXCEPT ![x] = Tail(@)]
               h == Head(f[x])
           IN  /\ g \in [Places -> Seq(Callback)] /\ Exact(g, n, With(r, h.query)) /\ Loses(f, g, h)
               /\ h \in Callback /\ h \in Held(f) /\ h.query \in (1 .. n) \ r
               /\ \A other \in Held(g) : other.query # h.query
<1> DEFINE g == [f EXCEPT ![x] = Tail(@)]
<1> DEFINE h == Head(f[x])
<1>1. Separate(f)
  BY DEF Exact
<1>2. /\ g \in [Places -> Seq(Callback)] /\ Separate(g) /\ Held(g) = Held(f) \ {h} /\ h \in Held(f) /\ h \in Callback
      /\ \A other \in Held(g) : other \in Callback /\ other.query # h.query
  BY <1>1, RemoveFacts
<1> HIDE DEF g, h
<1>3. h.query \in (1 .. n) \ r /\ \A c \in Held(g) : c.query \in (1 .. n) \ (r \cup {h.query})
  BY <1>2 DEF Exact
<1>4. \A q \in (1 .. n) \ (r \cup {h.query}) : \E c \in Held(g) : c.query = q
  BY <1>2 DEF Exact
<1> QED
  BY <1>2, <1>3, <1>4 DEF Exact, With, Loses, g, h

(* Moves between two places change no query.                                 *)
LEMMA ExactMove ==
    ASSUME NEW f \in [Places -> Seq(Callback)], NEW n, NEW r, Exact(f, n, r),
           NEW x \in Places, NEW y \in Places, x # y
    PROVE  LET g == [f EXCEPT ![x] = <<>>, ![y] = f[y] \o f[x]]
           IN  g \in [Places -> Seq(Callback)] /\ Exact(g, n, r) /\ Held(g) = Held(f)
<1> DEFINE g == [f EXCEPT ![x] = <<>>, ![y] = f[y] \o f[x]]
<1>1. Separate(f)
  BY DEF Exact
<1>2. g \in [Places -> Seq(Callback)] /\ Separate(g) /\ Held(g) = Held(f)
  BY <1>1, MoveFacts
<1> HIDE DEF g
<1> QED
  BY <1>2 DEF Exact, g

(* A callback that is not ready goes from the moved out to the kept ones.    *)
LEMMA ExactKeep ==
    ASSUME NEW f \in [Places -> Seq(Callback)], NEW n \in Nat, NEW r \in SUBSET (1 .. n), Exact(f, n, r),
           f["updateCallbacks"] # <<>>
    PROVE  LET h == Head(f["updateCallbacks"])
               g == [f EXCEPT !["updateCallbacks"] = Tail(@), !["notReady"] = Append(@, h)]
           IN  g \in [Places -> Seq(Callback)] /\ Exact(g, n, r) /\ Held(g) = Held(f)
<1> DEFINE h == Head(f["updateCallbacks"])
<1> DEFINE f1 == [f EXCEPT !["updateCallbacks"] = Tail(@)]
<1> DEFINE g == [f1 EXCEPT !["notReady"] = Append(@, h)]
<1>0. "updateCallbacks" \in Places /\ "notReady" \in Places
  BY DEF Places
<1>1. /\ f1 \in [Places -> Seq(Callback)] /\ Exact(f1, n, With(r, h.query)) /\ Loses(f, f1, h)
      /\ h \in Callback /\ h \in Held(f) /\ h.query \in (1 .. n) \ r
      /\ \A other \in Held(f1) : other.query # h.query
  BY <1>0, ExactRemove
<1>2. f1 \in [Places -> Seq(Callback)] /\ h \in Callback /\ Separate(f1)
  BY <1>1 DEF Exact
<1>3. g = [f EXCEPT !["updateCallbacks"] = Tail(@), !["notReady"] = Append(@, h)]
  BY <1>0
<1> HIDE DEF f1, h
<1>4. g \in [Places -> Seq(Callback)] /\ Separate(g) /\ Held(g) = Held(f1) \cup {h}
  BY <1>0, <1>1, <1>2, AddFacts
<1> HIDE DEF g
<1>5. Held(g) = Held(f)
  BY <1>1, <1>4 DEF Loses
<1>6. Exact(g, n, r)
  BY <1>4, <1>5 DEF Exact
<1> QED
  BY <1>3, <1>4, <1>5, <1>6 DEF h

(* The places of a state, and of the next one.                               *)
LEMMA PartsFacts ==
    ASSUME TypeOK
    PROVE  /\ Parts \in [Places -> Seq(Callback)]
           /\ Parts["updateCallbacks"] = updateCallbacks /\ Parts["notReady"] = notReady
           /\ \A x \in {"query", "transaction", "holder"} : Parts[x] = callbacks[x]
           /\ callbacks \in [{"query", "transaction", "holder"} -> Seq(Callback)]
BY ProcessorNames DEF Parts, Places, TypeOK, CallbackTypeOK

(* The same of the next state, given the types of its three variables.       *)
LEMMA PartsNext ==
    ASSUME callbacks' \in [{"query", "transaction", "holder"} -> Seq(Callback)],
           updateCallbacks' \in Seq(Callback), notReady' \in Seq(Callback)
    PROVE  /\ Parts' \in [Places -> Seq(Callback)]
           /\ Parts'["updateCallbacks"] = updateCallbacks' /\ Parts'["notReady"] = notReady'
           /\ \A x \in {"query", "transaction", "holder"} : Parts'[x] = callbacks'[x]
           /\ callbacks' \in [ToSet(Processors) -> Seq(Callback)]
BY ProcessorNames DEF Parts, Places

(* The invariants about callbacks in the next state, of which f are the      *)
(* places.                                                                   *)
LEMMA PartsEqual ==
    ASSUME NEW f \in [Places -> Seq(Callback)], Parts' \in [Places -> Seq(Callback)],
           Parts'["updateCallbacks"] = f["updateCallbacks"], Parts'["notReady"] = f["notReady"],
           \A x \in {"query", "transaction", "holder"} : Parts'[x] = f[x]
    PROVE  Parts' = f
<1>1. PICK g : g = Parts'
  OBVIOUS
<1>2. g \in [Places -> Seq(Callback)] /\ \A x \in Places : g[x] = f[x]
  BY <1>1 DEF Places
<1> QED
  BY <1>1, <1>2

(* A handler or a continuation that asks the database.                       *)
LEMMA AddStep ==
    ASSUME TypeOK, pc # "deleted", CallbackInv, NEW p \in {"query", "transaction", "holder"},
           NEW kind \in Kinds,
           NEW who \in Addresses \cup Chars \cup {Null}, NEW left \in 0 .. 3,
           AddCallback(p, kind, who, left), UNCHANGED <<updateCallbacks, notReady, ran>>
    PROVE  LET cb == [query |-> queries + 1, kind |-> kind, who |-> who, left |-> left]
           IN  /\ callbacks' \in [ToSet(Processors) -> Seq(Callback)] /\ queries' = queries + 1 /\ queries' \in Nat
               /\ Exact(Parts, queries, ran)' /\ Held(Parts)' = Held(Parts) \cup {cb}
<1>0. PICK f, n, r, cb : f = Parts /\ n = queries /\ r = ran
                           /\ cb = [query |-> queries + 1, kind |-> kind, who |-> who, left |-> left]
  OBVIOUS
<1> DEFINE g == [f EXCEPT ![p] = Append(@, cb)]
<1>a. cb \in Callback /\ cb.query = n + 1
  <2>1. queries + 1 \in Nat
    BY DEF TypeOK, CallbackTypeOK
  <2> QED
    BY <2>1, <1>0 DEF Callback
<1>1. /\ f \in [Places -> Seq(Callback)] /\ n \in Nat /\ r \in SUBSET (1 .. n)
      /\ Exact(f, n, r) /\ p \in Places
  BY <1>0, PartsFacts DEF TypeOK, CallbackTypeOK, CallbackInv, Places
<1>2. g \in [Places -> Seq(Callback)] /\ Exact(g, n + 1, r) /\ Gains(f, g, cb)
  <2>1. g \in [Places -> Seq(Callback)]
    BY <1>1, <1>a
  <2>2. Exact(g, n + 1, r)
    BY <1>1, <1>a, ExactAdd
  <2>3. Gains(f, g, cb)
    BY <1>1, <1>a, ExactAdd
  <2> QED
    BY <2>1, <2>2, <2>3
<1>3. queries' = queries + 1 /\ queries' \in Nat
  BY <1>0, <1>1 DEF AddCallback
<1>4. callbacks' = [callbacks EXCEPT ![p] = Append(@, cb)]
  BY <1>0, <1>3 DEF AddCallback
<1>5. callbacks' \in [{"query", "transaction", "holder"} -> Seq(Callback)]
  BY <1>a, <1>1, <1>4, PartsFacts
<1>6. updateCallbacks' \in Seq(Callback) /\ notReady' \in Seq(Callback)
  BY DEF TypeOK, CallbackTypeOK
<1>7. Parts' = g
  <2>1. /\ Parts' \in [Places -> Seq(Callback)] /\ Parts'["updateCallbacks"] = updateCallbacks /\ Parts'["notReady"] = notReady
        /\ \A x \in {"query", "transaction", "holder"} : Parts'[x] = callbacks'[x]
    BY <1>5, <1>6, PartsNext
  <2>2. \A x \in {"query", "transaction", "holder"} : callbacks'[x] = g[x]
    <3>1. \A x \in {"query", "transaction", "holder"} : callbacks[x] = f[x]
      BY <1>0, PartsFacts
    <3> QED
      BY <3>1, <1>1, <1>4, PartsFacts DEF Places
  <2>3. g["updateCallbacks"] = updateCallbacks /\ g["notReady"] = notReady
    BY <1>0, <1>1, PartsFacts DEF Places
  <2> HIDE DEF g
  <2>4. /\ Parts'["updateCallbacks"] = g["updateCallbacks"] /\ Parts'["notReady"] = g["notReady"]
        /\ \A x \in {"query", "transaction", "holder"} : Parts'[x] = g[x]
    BY <2>1, <2>2, <2>3
  <2> QED
    BY <1>2, <2>1, <2>4, PartsEqual
<1> HIDE DEF g
<1>8. ran' = ran
  OBVIOUS
<1>9. callbacks' \in [ToSet(Processors) -> Seq(Callback)]
  BY <1>5, <1>6, PartsNext
<1>10. Exact(Parts, queries, ran)' /\ Held(Parts)' = Held(Parts) \cup {cb}
  BY <1>0, <1>2, <1>3, <1>7, <1>8 DEF Gains
<1> QED
  BY <1>0, <1>3, <1>9, <1>10

(* The callbacks one after the other are those that are held, and when they  *)
(* are separate no two of them have the same query.                          *)
LEMMA PendingFacts ==
    ASSUME TypeOK
    PROVE  /\ PendingCallbacks \in Seq(Callback) /\ ToSet(PendingCallbacks) = Held(Parts)
           /\ Separate(Parts) => \A i, j \in DOMAIN PendingCallbacks :
                                   PendingCallbacks[i].query = PendingCallbacks[j].query => i = j
<1>0. PICK f : f = Parts
  OBVIOUS
<1>1. /\ f \in [Places -> Seq(Callback)] /\ f["updateCallbacks"] = updateCallbacks /\ f["notReady"] = notReady
      /\ \A x \in {"query", "transaction", "holder"} : f[x] = callbacks[x]
  BY <1>0, PartsFacts
<1>2. PICK a, b, c, d, e : a = f["query"] /\ b = f["transaction"] /\ c = f["holder"] /\ d = f["updateCallbacks"] /\ e = f["notReady"]
  OBVIOUS
<1>3. a \in Seq(Callback) /\ b \in Seq(Callback) /\ c \in Seq(Callback) /\ d \in Seq(Callback) /\ e \in Seq(Callback)
  BY <1>1, <1>2 DEF Places
<1>4. PendingCallbacks = (((a \o b) \o c) \o d) \o e
  BY <1>1, <1>2 DEF PendingCallbacks
<1>5. PICK ab : ab = a \o b
  OBVIOUS
<1>6. PICK abc : abc = ab \o c
  OBVIOUS
<1>7. PICK abcd : abcd = abc \o d
  OBVIOUS
<1>8. PICK all : all = abcd \o e
  OBVIOUS
<1> DEFINE Inj(s) == \A i, j \in DOMAIN s : s[i].query = s[j].query => i = j
<1> DEFINE Apart(s, t) == \A cb \in ToSet(s), other \in ToSet(t) : cb.query # other.query
<1>9. /\ ab \in Seq(Callback) /\ ToSet(ab) = ToSet(a) \cup ToSet(b)
      /\ Inj(a) /\ Inj(b) /\ Apart(a, b) => Inj(ab)
  BY <1>3, <1>5, ConcatFacts
<1>10. /\ abc \in Seq(Callback) /\ ToSet(abc) = ToSet(ab) \cup ToSet(c)
       /\ Inj(ab) /\ Inj(c) /\ Apart(ab, c) => Inj(abc)
  BY <1>3, <1>6, <1>9, ConcatFacts
<1>11. /\ abcd \in Seq(Callback) /\ ToSet(abcd) = ToSet(abc) \cup ToSet(d)
       /\ Inj(abc) /\ Inj(d) /\ Apart(abc, d) => Inj(abcd)
  BY <1>3, <1>7, <1>10, ConcatFacts
<1>12. /\ all \in Seq(Callback) /\ ToSet(all) = ToSet(abcd) \cup ToSet(e)
       /\ Inj(abcd) /\ Inj(e) /\ Apart(abcd, e) => Inj(all)
  BY <1>3, <1>8, <1>11, ConcatFacts
<1>13. ToSet(all) = Held(f)
  <2>1. Held(f) = ToSet(a) \cup ToSet(b) \cup ToSet(c) \cup ToSet(d) \cup ToSet(e)
    BY <1>2 DEF Held, Places
  <2> QED
    BY <2>1, <1>9, <1>10, <1>11, <1>12
<1>14. ASSUME Separate(f)
       PROVE  Inj(all)
  <2>1. Inj(a) /\ Inj(b) /\ Inj(c) /\ Inj(d) /\ Inj(e)
    BY <1>2, <1>14 DEF Separate, Places
  <2>2. ASSUME NEW x \in Places, NEW y \in Places, x # y
        PROVE  Apart(f[x], f[y])
    BY <1>14, <2>2 DEF Separate, ToSet
  <2>3. /\ Apart(a, b) /\ Apart(a, c) /\ Apart(b, c) /\ Apart(a, d) /\ Apart(b, d) /\ Apart(c, d)
        /\ Apart(a, e) /\ Apart(b, e) /\ Apart(c, e) /\ Apart(d, e)
    BY <2>2, <1>2 DEF Places
  <2>4. Inj(ab)
    BY <2>1, <2>3, <1>9
  <2>5. Apart(ab, c)
    BY <2>3, <1>9
  <2>6. Inj(abc)
    BY <2>1, <2>4, <2>5, <1>10
  <2>7. Apart(abc, d)
    BY <2>3, <1>9, <1>10
  <2>8. Inj(abcd)
    BY <2>1, <2>6, <2>7, <1>11
  <2>9. Apart(abcd, e)
    BY <2>3, <1>9, <1>10, <1>11
  <2> QED
    BY <2>1, <2>8, <2>9, <1>12
<1>15. PendingCallbacks = all
  BY <1>4, <1>5, <1>6, <1>7, <1>8
<1> HIDE DEF Apart
<1> QED
  BY <1>0, <1>12, <1>13, <1>14, <1>15

(* The places of the next state are f.                                       *)
LEMMA PartsAre ==
    ASSUME NEW f \in [Places -> Seq(Callback)], callbacks' \in [{"query", "transaction", "holder"} -> Seq(Callback)],
           updateCallbacks' = f["updateCallbacks"], notReady' = f["notReady"],
           \A x \in {"query", "transaction", "holder"} : callbacks'[x] = f[x]
    PROVE  /\ Parts' = f /\ callbacks' \in [ToSet(Processors) -> Seq(Callback)]
           /\ updateCallbacks' \in Seq(Callback) /\ notReady' \in Seq(Callback)
<1>1. updateCallbacks' \in Seq(Callback) /\ notReady' \in Seq(Callback)
  BY DEF Places
<1>2. /\ Parts' \in [Places -> Seq(Callback)]
      /\ Parts'["updateCallbacks"] = updateCallbacks' /\ Parts'["notReady"] = notReady'
      /\ \A x \in {"query", "transaction", "holder"} : Parts'[x] = callbacks'[x]
      /\ callbacks' \in [ToSet(Processors) -> Seq(Callback)]
  BY <1>1, PartsNext
<1>3. \A x \in {"query", "transaction", "holder"} : Parts'[x] = f[x]
  BY <1>2
<1>4. Parts'["updateCallbacks"] = f["updateCallbacks"] /\ Parts'["notReady"] = f["notReady"]
  BY <1>2
<1> QED
  BY <1>1, <1>2, <1>3, <1>4, PartsEqual

(* A step that leaves the callbacks alone.                                   *)
LEMMA SameStep ==
    ASSUME TypeOK, UNCHANGED <<callbacks, updateCallbacks, notReady, queries, ran>>
    PROVE  Parts' = Parts /\ Held(Parts)' = Held(Parts) /\ (Exact(Parts, queries, ran) => Exact(Parts, queries, ran)')
<1>1. Parts' = Parts
  BY DEF Parts
<1>2. queries' = queries /\ ran' = ran
  OBVIOUS
<1> QED
  BY <1>1, <1>2

(* A continuation takes its result and asks nothing.                         *)
LEMMA FinishStep ==
    ASSUME TypeOK, pc # "deleted", CallbackInv, updateCallbacks # <<>>, updateCallbacks' = Tail(updateCallbacks),
           ran' = ran \cup {Head(updateCallbacks).query}, UNCHANGED <<callbacks, notReady, queries>>
    PROVE  LET cb == Head(updateCallbacks)
           IN  /\ cb \in Held(Parts) /\ cb \in Callback /\ cb.query \in (1 .. queries) \ ran
               /\ updateCallbacks' \in Seq(Callback)
               /\ Exact(Parts, queries, ran)' /\ Held(Parts)' = Held(Parts) \ {cb}
<1>0. PICK f, n, r, cb : f = Parts /\ n = queries /\ r = ran /\ cb = Head(f["updateCallbacks"])
  OBVIOUS
<1> DEFINE g == [f EXCEPT !["updateCallbacks"] = Tail(@)]
<1>1. /\ f \in [Places -> Seq(Callback)] /\ n \in Nat /\ r \in SUBSET (1 .. n)
      /\ Exact(f, n, r) /\ "updateCallbacks" \in Places
  BY <1>0, PartsFacts DEF TypeOK, CallbackTypeOK, CallbackInv, Places
<1>2. f["updateCallbacks"] = updateCallbacks /\ f["notReady"] = notReady
  BY <1>0, PartsFacts
<1>3. /\ g \in [Places -> Seq(Callback)] /\ Exact(g, n, With(r, cb.query)) /\ Loses(f, g, cb)
      /\ cb \in Callback /\ cb \in Held(f) /\ cb.query \in (1 .. n) \ r
  <2>1. g \in [Places -> Seq(Callback)]
    BY <1>1, <1>2
  <2>2. f["updateCallbacks"] # <<>>
    BY <1>2
  <2>3. /\ Exact(g, n, With(r, cb.query)) /\ Loses(f, g, cb)
        /\ cb \in Callback /\ cb \in Held(f) /\ cb.query \in (1 .. n) \ r
    BY <1>0, <1>1, <2>2, ExactRemove
  <2> QED
    BY <2>1, <2>3
<1>4. Parts' = g /\ updateCallbacks' \in Seq(Callback)
  <2>1. g["updateCallbacks"] = updateCallbacks' /\ g["notReady"] = notReady'
    BY <1>1, <1>2 DEF Places
  <2>2. callbacks' \in [{"query", "transaction", "holder"} -> Seq(Callback)]
    BY PartsFacts
  <2>3. \A x \in {"query", "transaction", "holder"} : callbacks'[x] = g[x]
    BY <1>0, <1>1, PartsFacts DEF Places
  <2> HIDE DEF g
  <2> QED
    BY <1>3, <2>1, <2>2, <2>3, PartsAre
<1> HIDE DEF g
<1>5. ran' = With(r, cb.query) /\ queries' = n
  BY <1>0, <1>2 DEF With
<1>6. Exact(Parts, queries, ran)' /\ Held(Parts)' = Held(Parts) \ {cb}
  BY <1>0, <1>3, <1>4, <1>5 DEF Loses
<1> QED
  BY <1>0, <1>2, <1>3, <1>4, <1>6

(* A callback that is not ready is kept.                                     *)
LEMMA KeepStep ==
    ASSUME TypeOK, pc # "deleted", CallbackInv, updateCallbacks # <<>>, updateCallbacks' = Tail(updateCallbacks),
           notReady' = Append(notReady, Head(updateCallbacks)), UNCHANGED <<callbacks, queries, ran>>
    PROVE  /\ updateCallbacks' \in Seq(Callback) /\ notReady' \in Seq(Callback)
           /\ Exact(Parts, queries, ran)' /\ Held(Parts)' = Held(Parts)
<1>0. PICK f, n, r, cb : f = Parts /\ n = queries /\ r = ran /\ cb = Head(f["updateCallbacks"])
  OBVIOUS
<1> DEFINE g == [f EXCEPT !["updateCallbacks"] = Tail(@), !["notReady"] = Append(@, cb)]
<1>1. /\ f \in [Places -> Seq(Callback)] /\ n \in Nat /\ r \in SUBSET (1 .. n)
      /\ Exact(f, n, r) /\ "updateCallbacks" \in Places /\ "notReady" \in Places
  BY <1>0, PartsFacts DEF TypeOK, CallbackTypeOK, CallbackInv, Places
<1>2. f["updateCallbacks"] = updateCallbacks /\ f["notReady"] = notReady
  BY <1>0, PartsFacts
<1>3. g \in [Places -> Seq(Callback)] /\ Exact(g, n, r) /\ Held(g) = Held(f)
  <2>1. f["updateCallbacks"] # <<>>
    BY <1>2
  <2> QED
    BY <1>0, <1>1, <2>1, ExactKeep
<1>4. Parts' = g /\ updateCallbacks' \in Seq(Callback) /\ notReady' \in Seq(Callback)
  <2>1. g["updateCallbacks"] = updateCallbacks' /\ g["notReady"] = notReady'
    BY <1>0, <1>1, <1>2 DEF Places
  <2>2. callbacks' \in [{"query", "transaction", "holder"} -> Seq(Callback)]
    BY PartsFacts
  <2>3. \A x \in {"query", "transaction", "holder"} : callbacks'[x] = g[x]
    BY <1>0, <1>1, PartsFacts DEF Places
  <2> HIDE DEF g
  <2> QED
    BY <1>3, <2>1, <2>2, <2>3, PartsAre
<1> HIDE DEF g
<1>5. ran' = r /\ queries' = n
  BY <1>0
<1> QED
  BY <1>0, <1>3, <1>4, <1>5

(* A continuation takes its result and asks for another: SetNextQuery keeps  *)
(* the callback with its new query, AddCallback adds one.                    *)
LEMMA ReplaceStep ==
    ASSUME TypeOK, pc # "deleted", CallbackInv, updateCallbacks # <<>>, updateCallbacks' = Tail(updateCallbacks),
           ran' = ran \cup {Head(updateCallbacks).query}, queries' = queries + 1,
           NEW new \in Callback, new.query = queries + 1,
           \/ UNCHANGED callbacks /\ notReady' = Append(notReady, new)
           \/ UNCHANGED notReady /\ callbacks' = [callbacks EXCEPT !["transaction"] = Append(@, new)]
    PROVE  LET cb == Head(updateCallbacks)
           IN  /\ cb \in Held(Parts) /\ cb \in Callback /\ cb.query \in (1 .. queries) \ ran
               /\ updateCallbacks' \in Seq(Callback) /\ notReady' \in Seq(Callback)
               /\ callbacks' \in [ToSet(Processors) -> Seq(Callback)]
               /\ Exact(Parts, queries, ran)' /\ Held(Parts)' = (Held(Parts) \ {cb}) \cup {new}
<1>0. PICK f, n, r, cb : f = Parts /\ n = queries /\ r = ran /\ cb = Head(f["updateCallbacks"])
  OBVIOUS
<1>p. PICK x : x = IF callbacks' = callbacks /\ notReady' = Append(notReady, new) THEN "notReady" ELSE "transaction"
  OBVIOUS
<1> DEFINE f1 == [f EXCEPT !["updateCallbacks"] = Tail(@)]
<1> DEFINE g == [f1 EXCEPT ![x] = Append(@, new)]
<1>1. /\ f \in [Places -> Seq(Callback)] /\ n \in Nat /\ r \in SUBSET (1 .. n)
      /\ Exact(f, n, r) /\ "updateCallbacks" \in Places /\ x \in Places /\ x # "updateCallbacks"
  BY <1>0, <1>p, PartsFacts DEF TypeOK, CallbackTypeOK, CallbackInv, Places
<1>2. f["updateCallbacks"] = updateCallbacks /\ f["notReady"] = notReady
  BY <1>0, PartsFacts
<1>3. /\ f1 \in [Places -> Seq(Callback)] /\ Exact(f1, n, With(r, cb.query)) /\ Loses(f, f1, cb)
      /\ cb \in Callback /\ cb \in Held(f) /\ cb.query \in (1 .. n) \ r
  <2>1. f1 \in [Places -> Seq(Callback)]
    BY <1>1, <1>2
  <2>2. f["updateCallbacks"] # <<>>
    BY <1>2
  <2>3. /\ Exact(f1, n, With(r, cb.query)) /\ Loses(f, f1, cb)
        /\ cb \in Callback /\ cb \in Held(f) /\ cb.query \in (1 .. n) \ r
    BY <1>0, <1>1, <2>2, ExactRemove
  <2> QED
    BY <2>1, <2>3
<1>4. With(r, cb.query) \in SUBSET (1 .. n)
  BY <1>1, <1>3 DEF With
<1>5. g \in [Places -> Seq(Callback)] /\ Exact(g, n + 1, With(r, cb.query)) /\ Gains(f1, g, new)
  <2>1. new.query = n + 1
    BY <1>0
  <2> HIDE DEF f1
  <2>2. g \in [Places -> Seq(Callback)]
    BY <1>1, <1>3
  <2>3. Exact(g, n + 1, With(r, cb.query))
    BY <1>1, <1>3, <1>4, <2>1, ExactAdd
  <2>4. Gains(f1, g, new)
    BY <1>1, <1>3, <1>4, <2>1, ExactAdd
  <2> QED
    BY <2>2, <2>3, <2>4
<1>6. /\ Parts' = g /\ callbacks' \in [ToSet(Processors) -> Seq(Callback)]
      /\ updateCallbacks' \in Seq(Callback) /\ notReady' \in Seq(Callback)
  <2>1. callbacks \in [{"query", "transaction", "holder"} -> Seq(Callback)]
    BY PartsFacts
  <2>2. \A y \in {"query", "transaction", "holder"} : callbacks[y] = f[y]
    BY <1>0, PartsFacts
  <2>3. f1["updateCallbacks"] = updateCallbacks' /\ \A y \in Places : y # "updateCallbacks" => f1[y] = f[y]
    BY <1>1, <1>2
  <2>4. g[x] = Append(f1[x], new) /\ \A y \in Places : y # x => g[y] = f1[y]
    BY <1>1, <1>3
  <2> HIDE DEF f1, g
  <2>5. /\ g["updateCallbacks"] = updateCallbacks' /\ g["notReady"] = notReady'
        /\ callbacks' \in [{"query", "transaction", "holder"} -> Seq(Callback)]
        /\ \A y \in {"query", "transaction", "holder"} : callbacks'[y] = g[y]
    <3>1. CASE callbacks' = callbacks /\ notReady' = Append(notReady, new)
      BY <3>1, <2>1, <2>2, <2>3, <2>4, <1>p, <1>1, <1>2 DEF Places
    <3>2. CASE ~(callbacks' = callbacks /\ notReady' = Append(notReady, new))
      <4>1. x = "transaction" /\ notReady' = notReady /\ callbacks' = [callbacks EXCEPT !["transaction"] = Append(@, new)]
        BY <3>2, <1>p
      <4>2. callbacks' \in [{"query", "transaction", "holder"} -> Seq(Callback)]
        BY <4>1, <2>1
      <4>3. /\ callbacks'["transaction"] = Append(callbacks["transaction"], new)
            /\ callbacks'["query"] = callbacks["query"] /\ callbacks'["holder"] = callbacks["holder"]
        BY <4>1, <2>1
      <4>4. g["updateCallbacks"] = updateCallbacks' /\ g["notReady"] = notReady'
        BY <4>1, <2>3, <2>4, <1>2 DEF Places
      <4>5. \A y \in {"query", "transaction", "holder"} : g[y] = IF y = x THEN Append(f[y], new) ELSE f[y]
        BY <4>1, <2>3, <2>4 DEF Places
      <4> QED
        BY <4>1, <4>2, <4>3, <4>4, <4>5, <2>2
    <3> QED
      BY <3>1, <3>2
  <2> QED
    BY <1>5, <2>5, PartsAre
<1> HIDE DEF f1, g
<1>7. ran' = With(r, cb.query) /\ queries' = n + 1
  BY <1>0, <1>2 DEF With
<1>8. Exact(Parts, queries, ran)'
  BY <1>5, <1>6, <1>7
<1>9. Held(Parts)' = (Held(Parts) \ {cb}) \cup {new}
  BY <1>0, <1>3, <1>5, <1>6 DEF Loses, Gains
<1>10. cb = Head(updateCallbacks)
  BY <1>0, <1>2
<1> QED
  BY <1>0, <1>3, <1>6, <1>8, <1>9, <1>10

(* The packet loop ends: the first processor starts.                         *)
LEMMA BeginStep ==
    ASSUME TypeOK, pc # "deleted", CallbackInv, updateCallbacks = <<>>, BeginProcessor(1),
           UNCHANGED <<notReady, queries, ran>>
    PROVE  /\ updateCallbacks' \in Seq(Callback) /\ callbacks' \in [ToSet(Processors) -> Seq(Callback)]
           /\ proc' = 1 /\ Exact(Parts, queries, ran)' /\ Held(Parts)' = Held(Parts)
<1>0. PICK f, n, r : f = Parts /\ n = queries /\ r = ran
  OBVIOUS
<1> DEFINE g == [f EXCEPT !["query"] = <<>>, !["updateCallbacks"] = f["updateCallbacks"] \o f["query"]]
<1>1. /\ f \in [Places -> Seq(Callback)] /\ Exact(f, n, r) /\ "updateCallbacks" \in Places /\ "query" \in Places
  BY <1>0, PartsFacts DEF TypeOK, CallbackTypeOK, CallbackInv, Places
<1>2. f["updateCallbacks"] = <<>> /\ f["notReady"] = notReady /\ f["query"] = callbacks["query"] /\ f["query"] \in Seq(Callback)
  BY <1>0, <1>1, PartsFacts
<1>3. g \in [Places -> Seq(Callback)] /\ Exact(g, n, r) /\ Held(g) = Held(f)
  BY <1>1, ExactMove
<1>4. /\ Parts' = g /\ callbacks' \in [ToSet(Processors) -> Seq(Callback)] /\ updateCallbacks' \in Seq(Callback)
  <2>0. proc' = 1 /\ updateCallbacks' = callbacks["query"] /\ callbacks' = [callbacks EXCEPT !["query"] = <<>>]
    BY ProcessorNames DEF BeginProcessor
  <2>1. g["updateCallbacks"] = updateCallbacks' /\ g["notReady"] = notReady'
    <3>1. <<>> \o f["query"] = f["query"]
      BY <1>2
    <3> QED
      BY <3>1, <1>1, <1>2, <2>0 DEF Places
  <2>2. callbacks' \in [{"query", "transaction", "holder"} -> Seq(Callback)]
    BY <2>0, PartsFacts
  <2>3. \A x \in {"query", "transaction", "holder"} : callbacks'[x] = g[x]
    <3>1. \A x \in {"query", "transaction", "holder"} : callbacks[x] = f[x]
      BY <1>0, PartsFacts
    <3>2. g["query"] = <<>> /\ g["transaction"] = f["transaction"] /\ g["holder"] = f["holder"]
      BY <1>1 DEF Places
    <3> QED
      BY <3>1, <3>2, <2>0, PartsFacts
  <2> HIDE DEF g
  <2> QED
    BY <1>3, <2>1, <2>2, <2>3, PartsAre
<1> HIDE DEF g
<1>5. ran' = r /\ queries' = n /\ proc' = 1
  BY <1>0 DEF BeginProcessor
<1> QED
  BY <1>0, <1>3, <1>4, <1>5

(* A processor gets back the callbacks that were not ready, and the next one *)
(* starts.                                                                   *)
LEMMA EndStep ==
    ASSUME TypeOK, CallbackInv, EndProcessor
    PROVE  /\ updateCallbacks' \in Seq(Callback) /\ callbacks' \in [ToSet(Processors) -> Seq(Callback)]
           /\ notReady' = <<>> /\ proc' \in 1 .. Len(Processors)
           /\ pc' \in {"callbacks", "tail", "sessions"} /\ (pc' # "callbacks" => updateCallbacks' = <<>>)
           /\ (pc' = "tail" => filter = "world")
           /\ Exact(Parts, queries, ran)' /\ Held(Parts)' = Held(Parts)
<1>0. PICK f, n, r, P : f = Parts /\ n = queries /\ r = ran /\ P = Processors[proc]
  OBVIOUS
<1> DEFINE kept == [callbacks EXCEPT ![P] = Kept(@, notReady)]
<1> DEFINE g == [f EXCEPT !["notReady"] = <<>>, ![P] = f[P] \o f["notReady"]]
<1>1. /\ f \in [Places -> Seq(Callback)] /\ Exact(f, n, r) /\ "notReady" \in Places /\ P \in Places
      /\ P \in {"query", "transaction", "holder"} /\ proc \in 1 .. 3
      /\ pc = "callbacks" /\ updateCallbacks = <<>> /\ notReady' = <<>> /\ ran' = r /\ queries' = n
  BY <1>0, ProcessorNames, PartsFacts DEF TypeOK, CallbackTypeOK, CallbackInv, Places, EndProcessor
<1>2. /\ f["updateCallbacks"] = <<>> /\ f["notReady"] = notReady
      /\ \A x \in {"query", "transaction", "holder"} : callbacks[x] = f[x]
      /\ callbacks \in [{"query", "transaction", "holder"} -> Seq(Callback)] /\ notReady \in Seq(Callback)
  BY <1>0, <1>1, PartsFacts DEF TypeOK, CallbackTypeOK
<1>3. g \in [Places -> Seq(Callback)] /\ Exact(g, n, r) /\ Held(g) = Held(f)
  <2>1. "notReady" # P
    BY <1>1
  <2> QED
    BY <1>1, <2>1, ExactMove
<1>4. /\ g["notReady"] = <<>> /\ g["updateCallbacks"] = <<>>
      /\ kept \in [{"query", "transaction", "holder"} -> Seq(Callback)]
      /\ \A x \in {"query", "transaction", "holder"} : kept[x] = g[x]
  BY <1>1, <1>2 DEF Kept, Places
<1>5. CASE proc = 3
  <2>1. /\ proc' = 1 /\ callbacks' = kept /\ updateCallbacks' = updateCallbacks
        /\ pc' = IF filter = "world" THEN "tail" ELSE "sessions"
    BY <1>0, <1>5, ProcessorNames DEF EndProcessor, LastProcessor
  <2> HIDE DEF g, kept
  <2>2. /\ Parts' = g /\ callbacks' \in [ToSet(Processors) -> Seq(Callback)] /\ updateCallbacks' \in Seq(Callback)
    <3>1. updateCallbacks' = g["updateCallbacks"] /\ notReady' = g["notReady"]
      BY <1>1, <1>4, <2>1
    <3>2. /\ callbacks' \in [{"query", "transaction", "holder"} -> Seq(Callback)]
          /\ \A x \in {"query", "transaction", "holder"} : callbacks'[x] = g[x]
      BY <1>4, <2>1
    <3> QED
      BY <1>3, <3>1, <3>2, PartsAre
  <2>3. Exact(Parts, queries, ran)' /\ Held(Parts)' = Held(Parts)
    BY <1>0, <1>1, <1>3, <2>2
  <2>4. pc' \in {"callbacks", "tail", "sessions"} /\ (pc' = "tail" => filter = "world") /\ proc' \in 1 .. Len(Processors)
    BY <2>1, ProcessorNames
  <2> QED
    BY <1>1, <2>1, <2>2, <2>3, <2>4
<1>6. CASE proc # 3
  <2>0. PICK N : N = Processors[proc + 1]
    OBVIOUS
  <2>1. N \in {"query", "transaction", "holder"} /\ N # P /\ N \in Places /\ "updateCallbacks" \in Places
    BY <1>0, <1>1, <1>6, <2>0, ProcessorNames DEF Places
  <2>2. /\ proc' = proc + 1 /\ updateCallbacks' = kept[N] /\ callbacks' = [kept EXCEPT ![N] = <<>>] /\ pc' = pc
    <3>1. ~LastProcessor(proc)
      BY <1>6, ProcessorNames DEF LastProcessor
    <3>2. kept = [callbacks EXCEPT ![Processors[proc]] = Kept(@, notReady)]
      BY <1>0
    <3> HIDE DEF kept
    <3>3. /\ proc' = proc + 1 /\ updateCallbacks' = kept[Processors[proc']]
          /\ callbacks' = [kept EXCEPT ![Processors[proc']] = <<>>] /\ pc' = pc
      BY <3>1, <3>2 DEF EndProcessor
    <3>4. Processors[proc'] = N
      BY <3>3, <2>0
    <3> QED
      BY <3>3, <3>4
  <2> HIDE DEF kept, g
  <2> DEFINE h == [g EXCEPT ![N] = <<>>, !["updateCallbacks"] = g["updateCallbacks"] \o g[N]]
  <2>3. h \in [Places -> Seq(Callback)] /\ Exact(h, n, r) /\ Held(h) = Held(g)
    <3>1. N # "updateCallbacks"
      BY <2>1
    <3> QED
      BY <1>3, <2>1, <3>1, ExactMove
  <2>4. updateCallbacks' = h["updateCallbacks"] /\ notReady' = h["notReady"]
    <3>1. <<>> \o g[N] = g[N]
      BY <1>3, <2>1
    <3> QED
      BY <3>1, <1>1, <1>3, <1>4, <2>1, <2>2 DEF Places
  <2>5. callbacks' \in [{"query", "transaction", "holder"} -> Seq(Callback)]
    <3>1. PICK k : k = kept
      OBVIOUS
    <3>2. k \in [{"query", "transaction", "holder"} -> Seq(Callback)] /\ <<>> \in Seq(Callback)
      BY <3>1, <1>4
    <3>3. [k EXCEPT ![N] = <<>>] \in [{"query", "transaction", "holder"} -> Seq(Callback)]
      BY <3>2
    <3> QED
      BY <3>1, <3>3, <2>2
  <2>6. ASSUME NEW x \in {"query", "transaction", "holder"}
        PROVE  callbacks'[x] = h[x]
    <3>1. x \in Places /\ x # "updateCallbacks"
      BY DEF Places
    <3>2. CASE x = N
      BY <3>1, <3>2, <2>1, <2>2, <1>3, <1>4
    <3>3. CASE x # N
      BY <3>1, <3>3, <2>1, <2>2, <1>3, <1>4
    <3> QED
      BY <3>2, <3>3
  <2> HIDE DEF h
  <2>7. /\ Parts' = h /\ callbacks' \in [ToSet(Processors) -> Seq(Callback)] /\ updateCallbacks' \in Seq(Callback)
    BY <2>3, <2>4, <2>5, <2>6, PartsAre
  <2>8. Exact(Parts, queries, ran)' /\ Held(Parts)' = Held(Parts)
    BY <1>0, <1>1, <1>3, <2>3, <2>7
  <2>9. pc' = "callbacks" /\ proc' \in 1 .. Len(Processors)
    BY <1>1, <1>6, <2>2, ProcessorNames
  <2> QED
    BY <1>1, <2>7, <2>8, <2>9
<1> QED
  BY <1>5, <1>6

-------------------------------------------------------------------------------
(* The packets that wait.                                                    *)

(* A packet that arrives is the last.                                        *)
LEMMA OrderAppend ==
    ASSUME NEW w \in Seq(Packet), NEW n \in Nat, NEW d \in SUBSET (1 .. n), InOrder(w, n, d),
           NEW p \in Packet, p.number = n + 1
    PROVE  InOrder(Append(w, p), n + 1, d)
<1> DEFINE v == Append(w, p)
<1>1. /\ DOMAIN w = 1 .. Len(w) /\ DOMAIN v = 1 .. Len(w) + 1 /\ Len(w) \in Nat
      /\ v[Len(w) + 1] = p /\ \A i \in DOMAIN w : v[i] = w[i]
  OBVIOUS
<1> HIDE DEF v
<1>2. \A i \in DOMAIN v : i \in DOMAIN w \/ i = Len(w) + 1
  BY <1>1
<1>3. ASSUME NEW i \in DOMAIN v
      PROVE  v[i].number \in (1 .. n + 1) \ d
  <2>1. CASE i \in DOMAIN w
    BY <2>1, <1>1 DEF InOrder
  <2>2. CASE i = Len(w) + 1
    BY <2>2, <1>1
  <2> QED
    BY <2>1, <2>2, <1>2
<1>4. ASSUME NEW i \in DOMAIN v, NEW j \in DOMAIN v, i < j
      PROVE  v[i].number < v[j].number
  <2>1. i \in DOMAIN w
    BY <1>1, <1>2, <1>4
  <2>2. w[i].number \in 1 .. n
    BY <2>1 DEF InOrder
  <2>3. CASE j \in DOMAIN w
    BY <2>1, <2>3, <1>1, <1>4 DEF InOrder
  <2>4. CASE j = Len(w) + 1
    BY <2>1, <2>2, <2>4, <1>1
  <2> QED
    BY <2>3, <2>4, <1>2
<1>5. ASSUME NEW k \in (1 .. n + 1) \ d
      PROVE  \E i \in DOMAIN v : v[i].number = k
  <2>1. CASE k = n + 1
    BY <2>1, <1>1
  <2>2. CASE k # n + 1
    <3>1. k \in (1 .. n) \ d
      BY <2>2
    <3>2. PICK i \in DOMAIN w : w[i].number = k
      BY <3>1 DEF InOrder
    <3> QED
      BY <3>2, <1>1
  <2> QED
    BY <2>1, <2>2
<1> QED
  BY <1>3, <1>4, <1>5 DEF InOrder, v

(* Dealing with the first packet of the queue: it is taken away and no       *)
(* other, its number is found once, and the smaller ones are all requeued.   *)
LEMMA OrderRemove ==
    ASSUME NEW a \in Seq(Packet), NEW b \in Seq(Packet), b # <<>>, NEW n \in Nat, NEW d, InOrder(a \o b, n, d)
    PROVE  /\ InOrder(a \o Tail(b), n, d \cup {Head(b).number}) /\ Head(b).number \in (1 .. n) \ d
           /\ \A i \in DOMAIN b : b[i] = Head(b) => i = 1
           /\ \A i \in DOMAIN (a \o b) : (a \o b)[i].number < Head(b).number => i \in DOMAIN a /\ (a \o b)[i] = a[i]
<1> DEFINE w == a \o b
<1> DEFINE v == a \o Tail(b)
<1> DEFINE m == Len(a)
<1>1. /\ DOMAIN a = 1 .. m /\ DOMAIN b = 1 .. Len(b) /\ m \in Nat /\ Len(b) \in Nat /\ Len(b) >= 1 /\ Head(b) = b[1]
      /\ DOMAIN w = 1 .. m + Len(b) /\ DOMAIN v = 1 .. m + Len(b) - 1
  OBVIOUS
<1>2. /\ \A i \in DOMAIN a : w[i] = a[i] /\ v[i] = a[i]
      /\ \A i \in DOMAIN b : w[m + i] = b[i]
      /\ \A i \in 1 .. Len(b) - 1 : v[m + i] = b[i + 1]
  OBVIOUS
<1> HIDE DEF w, v, m
<1>3. w[m + 1] = Head(b) /\ m + 1 \in DOMAIN w
  BY <1>1, <1>2
<1>4. ASSUME NEW i \in DOMAIN v
      PROVE  i \in Nat /\ \/ i <= m /\ i \in DOMAIN w /\ v[i] = w[i]
                          \/ i > m /\ i + 1 \in DOMAIN w /\ v[i] = w[i + 1]
  <2>1. CASE i <= m
    BY <2>1, <1>1, <1>2
  <2>2. CASE i > m
    <3>1. i - m \in 1 .. Len(b) - 1 /\ i - m + 1 \in DOMAIN b /\ m + (i - m) = i /\ m + (i - m + 1) = i + 1
      BY <2>2, <1>1
    <3> QED
      BY <3>1, <2>2, <1>1, <1>2
  <2> QED
    BY <2>1, <2>2, <1>1
<1>5. ASSUME NEW i \in DOMAIN w, i # m + 1
      PROVE  \E j \in DOMAIN v : v[j] = w[i]
  <2>1. CASE i <= m
    BY <2>1, <1>1, <1>2
  <2>2. CASE i > m + 1
    <3>1. i - 1 \in DOMAIN v /\ i - 1 > m /\ (i - 1) + 1 = i
      BY <2>2, <1>1
    <3> QED
      BY <3>1, <1>1, <1>4
  <2> QED
    BY <2>1, <2>2, <1>1, <1>5
<1>6. InOrder(w, n, d)
  BY DEF w
<1>7. \A i, j \in DOMAIN w : w[i].number = w[j].number => i = j
  <2> SUFFICES ASSUME NEW i \in DOMAIN w, NEW j \in DOMAIN w, w[i].number = w[j].number
               PROVE  i = j
    OBVIOUS
  <2>1. i \in Nat /\ j \in Nat /\ w[i].number \in Nat
    BY <1>1, <1>6 DEF InOrder
  <2>2. ~(i < j) /\ ~(j < i)
    BY <2>1, <1>6 DEF InOrder
  <2> QED
    BY <2>1, <2>2
<1>8. InOrder(v, n, d \cup {Head(b).number})
  <2>1. ASSUME NEW i \in DOMAIN v
        PROVE  v[i].number \in (1 .. n) \ (d \cup {Head(b).number})
    <3>1. PICK j \in DOMAIN w : v[i] = w[j] /\ j # m + 1
      <4>1. CASE i <= m /\ i \in DOMAIN w /\ v[i] = w[i]
        BY <4>1, <1>1, <1>4
      <4>2. CASE i > m /\ i + 1 \in DOMAIN w /\ v[i] = w[i + 1]
        <5>1. i + 1 # m + 1
          BY <4>2, <1>1, <1>4
        <5> QED
          BY <4>2, <5>1
      <4> QED
        BY <4>1, <4>2, <1>4
    <3> QED
      BY <3>1, <1>3, <1>6, <1>7 DEF InOrder
  <2>2. ASSUME NEW i \in DOMAIN v, NEW j \in DOMAIN v, i < j
        PROVE  v[i].number < v[j].number
    <3>1. CASE i <= m /\ j <= m
      <4>1. i \in DOMAIN w /\ v[i] = w[i] /\ j \in DOMAIN w /\ v[j] = w[j]
        <5>1. i \in DOMAIN a /\ j \in DOMAIN a
          BY <3>1, <1>1
        <5> QED
          BY <5>1, <1>1, <1>2
      <4> QED
        BY <4>1, <2>2, <1>6 DEF InOrder
    <3>2. CASE j > m
      <4>1. j + 1 \in DOMAIN w /\ v[j] = w[j + 1] /\ j \in Nat
        BY <3>2, <1>1, <1>4
      <4>2. PICK k \in DOMAIN w : v[i] = w[k] /\ k < j + 1
        BY <4>1, <2>2, <1>4
      <4> QED
        BY <4>1, <4>2, <1>6 DEF InOrder
    <3> QED
      BY <3>1, <3>2, <2>2, <1>1
  <2>3. ASSUME NEW k \in (1 .. n) \ (d \cup {Head(b).number})
        PROVE  \E i \in DOMAIN v : v[i].number = k
    <3>1. PICK i \in DOMAIN w : w[i].number = k
      BY <1>6 DEF InOrder
    <3>2. i # m + 1
      BY <3>1, <1>3
    <3> QED
      BY <3>1, <3>2, <1>5
  <2> QED
    BY <2>1, <2>2, <2>3 DEF InOrder
<1>9. Head(b).number \in (1 .. n) \ d
  BY <1>3, <1>6 DEF InOrder
<1>10. ASSUME NEW i \in DOMAIN b, b[i] = Head(b)
       PROVE  i = 1
  <2>1. w[m + i] = w[m + 1] /\ m + i \in DOMAIN w
    BY <1>1, <1>2, <1>3, <1>10
  <2>2. m + i = m + 1
    BY <2>1, <1>3, <1>7
  <2> QED
    BY <2>2, <1>1
<1>11. ASSUME NEW i \in DOMAIN w, w[i].number < Head(b).number
       PROVE  i \in DOMAIN a /\ w[i] = a[i]
  <2>1. w[i].number \in Nat /\ Head(b).number \in Nat
    BY <1>6, <1>9 DEF InOrder
  <2>2. ~(m + 1 < i) /\ i # m + 1
    BY <2>1, <1>3, <1>6, <1>11 DEF InOrder
  <2>3. i \in 1 .. m
    BY <2>2, <1>1
  <2> QED
    BY <2>3, <1>1, <1>2
<1> QED
  BY <1>8, <1>9, <1>10, <1>11 DEF w, v

(* Requeueing moves the boundary between the two sequences.                  *)
LEMMA RequeueFacts ==
    ASSUME NEW a \in Seq(Packet), NEW b \in Seq(Packet), b # <<>>
    PROVE  Append(a, Head(b)) \o Tail(b) = a \o b /\ Append(a, Head(b)) \in Seq(Packet) /\ Tail(b) \in Seq(Packet)
OBVIOUS

(* A packet that arrives behind the queue arrives behind Waiting.            *)
LEMMA ArrivalFacts ==
    ASSUME NEW a \in Seq(Packet), NEW b \in Seq(Packet), NEW p \in Packet
    PROVE  a \o Append(b, p) = Append(a \o b, p) /\ a \o b \in Seq(Packet) /\ <<>> \o (a \o b) = a \o b
OBVIOUS

-------------------------------------------------------------------------------
(* Every step keeps the invariant. First what a step keeps when it leaves    *)
(* the packets, the callbacks or the login alone.                            *)

(* A step that neither takes nor adds packets.                               *)
LEMMA QueueFrame ==
    ASSUME SessionInv, UNCHANGED <<received, recvQueue, done, requeuePackets>>,
           processedPackets' \in 0 .. Budget + 1, pc' # "deleted" => pc # "deleted",
           requeuePackets # <<>> => pc' = "packets" /\ player' = Null
    PROVE  QueueTypeOK' /\ RequeueInv' /\ QueueInv'
<1>1. QueueTypeOK'
  BY DEF SessionInv, TypeOK, QueueTypeOK
<1>2. RequeueInv'
  <2>1. requeuePackets' = requeuePackets
    OBVIOUS
  <2>2. \A i \in DOMAIN requeuePackets : Status(requeuePackets[i]) = "LOGGEDIN"
    BY DEF SessionInv, RequeueInv
  <2> QED
    BY <2>1, <2>2 DEF RequeueInv, Status
<1>3. QueueInv'
  <2>1. Waiting' = Waiting
    BY DEF Waiting
  <2> QED
    BY <2>1 DEF SessionInv, QueueInv
<1> QED
  BY <1>1, <1>2, <1>3

(* A step that neither takes nor adds callbacks.                             *)
LEMMA CallbackFrame ==
    ASSUME SessionInv, UNCHANGED <<callbacks, updateCallbacks, notReady, queries, ran, proc>>,
           ready' \subseteq (1 .. queries) \ ran,
           pc' # "callbacks" => pc # "callbacks", pc' # "deleted" => pc # "deleted"
    PROVE  CallbackTypeOK' /\ CallbackInv' /\ Held(Parts)' = Held(Parts)
<1>1. Parts' = Parts /\ Held(Parts)' = Held(Parts) /\ (Exact(Parts, queries, ran) => Exact(Parts, queries, ran)')
  BY SameStep DEF SessionInv
<1>2. CallbackTypeOK'
  BY DEF SessionInv, TypeOK, CallbackTypeOK
<1>3. CallbackInv'
  BY <1>1 DEF SessionInv, CallbackInv
<1> QED
  BY <1>1, <1>2, <1>3

(* A step that keeps the login, or logs the player out.                      *)
LEMMA LoginFrame ==
    ASSUME SessionInv, Held(Parts)' = Held(Parts), playerLoading' = playerLoading, forceExit => forceExit',
           misread' = misread,
           player' = player \/ player' = Null, pc' # "deleted" => pc # "deleted"
    PROVE  LoginInv'
<1>1. PICK H : H = Held(Parts)
  OBVIOUS
<1>2. Held(Parts)' = H
  BY <1>1
<1> QED
  BY <1>1, <1>2 DEF SessionInv, LoginInv

-------------------------------------------------------------------------------
(* The network thread, the login queue and the database.                     *)

(* QueuePacket, by the network thread.                                       *)
LEMMA QueuePacketStep ==
    ASSUME SessionInv, NEW k \in DOMAIN Opcode, QueuePacket(k)
    PROVE  SessionInv'
<1>1. /\ sock = "open" /\ received < MaxPackets /\ received' = received + 1
      /\ recvQueue' = Append(recvQueue, [number |-> received + 1, opcode |-> k])
      /\ UNCHANGED <<done, requeuePackets, processedPackets>>
  BY DEF QueuePacket
<1>2. UNCHANGED <<playerVars, cbVars, sock, inQueue, pc, filter, crashed>>
  BY DEF QueuePacket
<1>3. PICK p : p = [number |-> received + 1, opcode |-> k]
  OBVIOUS
<1>4. received \in Nat /\ MaxPackets \in Nat /\ received + 1 \in 0 .. MaxPackets /\ p \in Packet /\ p.number = received + 1
  <2>1. MaxPackets \in Nat
    BY ClientAssumption DEF MaxPackets
  <2>2. received \in 0 .. MaxPackets
    BY DEF SessionInv, TypeOK, QueueTypeOK
  <2>3. k \in Sent
    <3>1. k \in Client[received + 1] /\ received + 1 \in DOMAIN Client
      BY <1>1, <2>1, <2>2, ClientAssumption DEF QueuePacket, MaxPackets
    <3> QED
      BY <3>1 DEF Sent
  <2> QED
    BY <1>1, <1>3, <2>1, <2>2, <2>3 DEF Packet
<1>5. QueueTypeOK'
  BY <1>1, <1>3, <1>4 DEF SessionInv, TypeOK, QueueTypeOK
<1>6. RequeueInv'
  <2>1. requeuePackets' = requeuePackets /\ pc' = pc /\ player' = player
    BY <1>1, <1>2 DEF playerVars
  <2> QED
    BY <2>1 DEF SessionInv, RequeueInv, Status
<1>7. QueueInv'
  <2> SUFFICES ASSUME pc' # "deleted" PROVE InOrder(Waiting, received, done)'
    BY DEF QueueInv
  <2>0. PICK a, b, n, d : a = requeuePackets /\ b = recvQueue /\ n = received /\ d = done
    OBVIOUS
  <2>1. /\ a \in Seq(Packet) /\ b \in Seq(Packet) /\ n \in Nat /\ d \in SUBSET (1 .. n) /\ InOrder(a \o b, n, d)
    BY <1>2, <1>4, <2>0 DEF SessionInv, TypeOK, QueueTypeOK, QueueInv, Waiting
  <2>2. a \o Append(b, p) = Append(a \o b, p) /\ a \o b \in Seq(Packet)
    BY <1>4, <2>1, ArrivalFacts
  <2>3. InOrder(Append(a \o b, p), n + 1, d)
    BY <1>4, <2>0, <2>1, <2>2, OrderAppend
  <2>4. Waiting' = Append(a \o b, p) /\ received' = n + 1 /\ done' = d
    BY <1>1, <1>3, <2>0, <2>2 DEF Waiting
  <2> QED
    BY <2>3, <2>4
<1>8. PlayerTypeOK' /\ MapInv'
  BY <1>2 DEF SessionInv, TypeOK, PlayerTypeOK, MapInv, playerVars
<1>9. CallbackTypeOK' /\ CallbackInv' /\ Held(Parts)' = Held(Parts)
  <2>1. /\ UNCHANGED <<callbacks, updateCallbacks, notReady, queries, ran, proc>> /\ pc' = pc
        /\ ready' \subseteq (1 .. queries) \ ran
    BY <1>2 DEF cbVars, SessionInv, TypeOK, CallbackTypeOK
  <2> QED
    BY <2>1, CallbackFrame
<1>10. LoginInv'
  BY <1>2, <1>9, LoginFrame DEF playerVars
<1> QED
  BY <1>5, <1>6, <1>7, <1>8, <1>9, <1>10 DEF SessionInv, TypeOK

(* The steps that change neither the packets, nor the callbacks, nor the     *)
(* login: only where the thread is, the socket and the answered queries.     *)
LEMMA QuietStep ==
    ASSUME SessionInv, \/ CloseSocket \/ LeaveQueue \/ BeginWorldUpdate \/ BeginMapUpdate \/ SkipMapUpdate
                       \/ \E q \in 1 .. queries : QueryDone(q)
    PROVE  SessionInv'
<1>1. /\ UNCHANGED <<playerVars, received, recvQueue, done, requeuePackets, crashed>>
      /\ UNCHANGED <<callbacks, updateCallbacks, notReady, queries, ran, proc>>
  BY DEF CloseSocket, LeaveQueue, BeginWorldUpdate, BeginMapUpdate, SkipMapUpdate, QueryDone, cbVars, loopVars, netVars
<1>2. processedPackets' \in 0 .. Budget + 1
  BY SessionPacketsAssumption DEF SessionInv, TypeOK, QueueTypeOK, CloseSocket, LeaveQueue, BeginWorldUpdate, BeginMapUpdate,
         SkipMapUpdate, QueryDone, cbVars, loopVars, netVars
<1>3. \/ pc' = pc /\ filter' = filter
      \/ pc \in {"sessions", "maps"} /\ pc' = "sessions" /\ filter' = filter
      \/ pc \in {"sessions", "maps"} /\ pc' = "packets" /\ (filter' = "world" \/ (filter' = "map" /\ player # Null))
  <2>1. CASE CloseSocket \/ LeaveQueue
    BY <2>1 DEF CloseSocket, LeaveQueue
  <2>2. CASE \E q \in 1 .. queries : QueryDone(q)
    BY <2>2 DEF QueryDone
  <2>3. CASE BeginWorldUpdate
    BY <2>3 DEF BeginWorldUpdate
  <2>4. CASE BeginMapUpdate
    BY <2>4 DEF BeginMapUpdate
  <2>5. CASE SkipMapUpdate
    BY <2>5 DEF SkipMapUpdate
  <2> QED
    BY <2>1, <2>2, <2>3, <2>4, <2>5
<1>4. sock' \in {"open", "closed", "null"} /\ inQueue' \in BOOLEAN
  BY DEF SessionInv, TypeOK, PlayerTypeOK, CloseSocket, LeaveQueue, BeginWorldUpdate, BeginMapUpdate, SkipMapUpdate,
         QueryDone, netVars
<1>5. ready' \subseteq (1 .. queries) \ ran
  <2>0. ready \subseteq (1 .. queries) \ ran
    BY DEF SessionInv, TypeOK, CallbackTypeOK
  <2>1. CASE ready' = ready
    BY <2>0, <2>1
  <2>2. CASE \E q \in 1 .. queries : QueryDone(q)
    <3>1. PICK q \in 1 .. queries : QueryDone(q)
      BY <2>2
    <3>2. q \in (1 .. queries) \ ran
      <4>1. pc # "deleted" /\ \E cb \in ToSet(PendingCallbacks) : cb.query = q
        BY <3>1 DEF QueryDone
      <4>2. ToSet(PendingCallbacks) = Held(Parts) /\ Exact(Parts, queries, ran)
        BY <4>1, PendingFacts DEF SessionInv, CallbackInv
      <4> QED
        BY <4>1, <4>2 DEF Exact
    <3> QED
      BY <2>0, <3>1, <3>2 DEF QueryDone
  <2> QED
    BY <2>1, <2>2 DEF CloseSocket, LeaveQueue, BeginWorldUpdate, BeginMapUpdate, SkipMapUpdate, cbVars
<1>6. QueueTypeOK' /\ RequeueInv' /\ QueueInv'
  <2>1. requeuePackets # <<>> => pc' = "packets" /\ player' = Null
    BY <1>1, <1>3 DEF SessionInv, RequeueInv, playerVars
  <2>2. pc' # "deleted" => pc # "deleted"
    BY <1>3
  <2> QED
    BY <1>1, <1>2, <2>1, <2>2, QueueFrame
<1>7. CallbackTypeOK' /\ CallbackInv' /\ Held(Parts)' = Held(Parts)
  BY <1>1, <1>3, <1>5, CallbackFrame
<1>8. LoginInv'
  BY <1>1, <1>3, <1>7, LoginFrame DEF playerVars
<1>9. PlayerTypeOK' /\ MapInv'
  BY <1>1, <1>3, <1>4 DEF SessionInv, TypeOK, PlayerTypeOK, MapInv, playerVars
<1> QED
  BY <1>6, <1>7, <1>8, <1>9 DEF SessionInv, TypeOK

-------------------------------------------------------------------------------
(* The packet loop: what the handlers do to the session.                     *)

(* What is said of the session, without its packets.                         *)
Rest == PlayerTypeOK /\ CallbackTypeOK /\ CallbackInv /\ LoginInv

(* What no step of the packet loop changes.                                  *)
LoopFrame == UNCHANGED <<pc, filter, inQueue, crashed, proc, updateCallbacks, notReady, ready, ran>>

(* A handler that asks nothing: the login goes on, or the player is gone.    *)
LEMMA NoQueryFacts ==
    ASSUME SessionInv, LoopFrame, NoQuery, playerLoading' = playerLoading, forceExit => forceExit',
           misread' = misread,
           player' = player \/ player' = Null
    PROVE  CallbackTypeOK' /\ CallbackInv' /\ LoginInv'
<1>1. /\ UNCHANGED <<callbacks, updateCallbacks, notReady, queries, ran, proc>> /\ pc' = pc
      /\ ready' \subseteq (1 .. queries) \ ran
  BY DEF LoopFrame, NoQuery, SessionInv, TypeOK, CallbackTypeOK
<1>2. CallbackTypeOK' /\ CallbackInv' /\ Held(Parts)' = Held(Parts)
  BY <1>1, CallbackFrame
<1> QED
  BY <1>1, <1>2, LoginFrame

(* A handler that starts a query.                                            *)
LEMMA AskFacts ==
    ASSUME SessionInv, LoopFrame, pc = "packets", NEW p \in {"query", "holder"},
           NEW kind \in Kinds,
           NEW who \in Addresses \cup Chars \cup {Null}, NEW left \in 0 .. 3, AddCallback(p, kind, who, left)
    PROVE  /\ CallbackTypeOK' /\ CallbackInv'
           /\ Held(Parts)' = Held(Parts) \cup {[query |-> queries + 1, kind |-> kind, who |-> who, left |-> left]}
<1>1. UNCHANGED <<pc, proc, updateCallbacks, notReady, ready, ran>>
  BY DEF LoopFrame
<1>2. /\ callbacks' \in [ToSet(Processors) -> Seq(Callback)] /\ queries' = queries + 1 /\ queries' \in Nat
      /\ Exact(Parts, queries, ran)'
      /\ Held(Parts)' = Held(Parts) \cup {[query |-> queries + 1, kind |-> kind, who |-> who, left |-> left]}
  BY <1>1, AddStep DEF SessionInv
<1>3. CallbackTypeOK'
  <2>1. ready' \subseteq (1 .. queries') \ ran' /\ ran' \subseteq 1 .. queries'
    BY <1>1, <1>2 DEF SessionInv, TypeOK, CallbackTypeOK
  <2> QED
    BY <1>1, <1>2, <2>1 DEF SessionInv, TypeOK, CallbackTypeOK
<1>4. CallbackInv'
  BY <1>1, <1>2 DEF SessionInv, CallbackInv
<1> QED
  BY <1>2, <1>3, <1>4

(* A new callback: not a login, or the only one.                             *)
LEMMA LoginAsk ==
    ASSUME SessionInv, pc # "deleted", NEW cb, Held(Parts)' = Held(Parts) \cup {cb},
           cb.kind = "sendMail" => cb.who # Null,
           \/ cb.kind # "playerLogin" /\ UNCHANGED <<misread, playerLoading, forceExit, player>>
           \/ /\ cb.kind = "playerLogin" /\ cb.who \in Chars /\ ~playerLoading /\ playerLoading'
              /\ player' = Null
    PROVE  LoginInv'
<1>0. PICK H, K : H = Held(Parts) /\ K = Held(Parts)' /\ K = H \cup {cb}
  OBVIOUS
<1>1. /\ \A c, other \in H : c.kind = "playerLogin" /\ other.kind = "playerLogin" => c = other
      /\ \A c \in H : c.kind = "playerLogin" => playerLoading /\ player = Null /\ c.who \in Chars
      /\ playerLoading => forceExit \/ misread \/ \E c \in H : c.kind = "playerLogin"
      /\ \A c \in H : c.kind = "sendMail" => c.who # Null
  BY <1>0 DEF SessionInv, LoginInv
<1>2. CASE cb.kind # "playerLogin" /\ UNCHANGED <<misread, playerLoading, forceExit, player>>
  BY <1>0, <1>1, <1>2 DEF LoginInv
<1>3. CASE cb.kind = "playerLogin" /\ cb.who \in Chars /\ ~playerLoading /\ playerLoading' /\ player' = Null
  BY <1>0, <1>1, <1>3 DEF LoginInv
<1> QED
  BY <1>2, <1>3

(* The handlers one by one.                                                  *)
LEMMA HandlersAsk ==
    ASSUME SessionInv, LoopFrame, pc = "packets",
           \/ HandleCharEnumOpcode \/ HandleCharCreateOpcode
           \/ (HandleAddFriendOpcode /\ "addFriend" \in Sent) \/ (HandleSendMail /\ player # Null)
    PROVE  Rest' /\ player' = player
<1>1. /\ UNCHANGED <<sock, forceExit, player, inWorld, guid, legit, misread, playerLoading, logoutTime>>
      /\ recentlyLogout' \in BOOLEAN
  BY DEF HandleCharEnumOpcode, HandleCharCreateOpcode, HandleAddFriendOpcode, HandleSendMail, playerVars,
         SessionInv, TypeOK, PlayerTypeOK
<1>2. PlayerTypeOK'
  BY <1>1 DEF SessionInv, TypeOK, PlayerTypeOK, LoopFrame
<1>3. player \in Addresses \cup {Null} /\ guid \in Chars \cup {Null}
  BY DEF SessionInv, TypeOK, PlayerTypeOK
<1>4. CASE NoQuery
  BY <1>1, <1>2, <1>4, NoQueryFacts DEF Rest
<1>5. ASSUME NEW kind \in Kinds \ {"playerLogin"}, NEW left \in 0 .. 3,
             NEW who \in Addresses \cup Chars \cup {Null}, AddCallback("query", kind, who, left),
             kind = "sendMail" => who # Null
      PROVE  Rest' /\ player' = player
  <2>1. PICK cb : cb = [query |-> queries + 1, kind |-> kind, who |-> who, left |-> left]
    OBVIOUS
  <2>2. CallbackTypeOK' /\ CallbackInv' /\ Held(Parts)' = Held(Parts) \cup {cb}
    BY <1>5, <2>1, AskFacts
  <2>3. cb.kind = kind /\ cb.who = who
    BY <2>1
  <2>4. LoginInv'
    BY <1>1, <1>5, <2>2, <2>3, LoginAsk
  <2> QED
    BY <1>1, <1>2, <2>2, <2>4 DEF Rest
<1>6. CASE HandleCharEnumOpcode
  <2>1. AddCallback("query", "charEnum", Null, 0)
    BY <1>6 DEF HandleCharEnumOpcode
  <2> QED
    BY <2>1, <1>5 DEF Kinds
<1>7. CASE HandleCharCreateOpcode
  <2>1. NoQuery \/ AddCallback("query", "charCreate", Null, 3)
    BY <1>7 DEF HandleCharCreateOpcode
  <2> QED
    BY <2>1, <1>4, <1>5 DEF Kinds
<1>8. CASE HandleAddFriendOpcode /\ "addFriend" \in Sent
  <2>1. NoQuery \/ AddCallback("query", "addFriend", guid, 0)
    BY <1>8 DEF HandleAddFriendOpcode
  <2> QED
    BY <2>1, <1>3, <1>4, <1>5, <1>8 DEF Kinds
<1>9. CASE HandleSendMail /\ player # Null
  <2>1. NoQuery \/ AddCallback("query", "sendMail", player, 0)
    BY <1>9 DEF HandleSendMail
  <2> QED
    BY <2>1, <1>3, <1>4, <1>5, <1>9 DEF Kinds
<1> QED
  BY <1>6, <1>7, <1>8, <1>9

(* Only one login is under way: the second is refused.                       *)
LEMMA HandlersLogin ==
    ASSUME SessionInv, LoopFrame, pc = "packets", HandlePlayerLoginOpcode
    PROVE  Rest' /\ player' = player
<1>1. /\ UNCHANGED <<player, inWorld, guid, legit, recentlyLogout, logoutTime>> /\ playerLoading' \in BOOLEAN
      /\ misread' \in BOOLEAN
      /\ sock' \in {"open", "closed", "null"} /\ forceExit' \in BOOLEAN
  BY DEF HandlePlayerLoginOpcode, MisreadLogin, InitializeFails, KickPlayer, SessionInv, TypeOK, PlayerTypeOK
<1>2. PlayerTypeOK'
  BY <1>1 DEF SessionInv, TypeOK, PlayerTypeOK, LoopFrame
<1>3. CASE (playerLoading \/ player # Null) /\ KickPlayer /\ NoQuery /\ UNCHANGED <<playerLoading, misread>>
  BY <1>1, <1>2, <1>3, NoQueryFacts DEF Rest, KickPlayer
<1>4. CASE /\ ~playerLoading /\ player = Null /\ NoQuery
           /\ playerLoading' => KickPlayer \/ misread'
  <2>1. /\ UNCHANGED <<callbacks, updateCallbacks, notReady, queries, ran, proc>> /\ pc' = pc
        /\ ready' \subseteq (1 .. queries) \ ran
    BY <1>4 DEF LoopFrame, NoQuery, SessionInv, TypeOK, CallbackTypeOK
  <2>2. CallbackTypeOK' /\ CallbackInv' /\ Held(Parts)' = Held(Parts)
    BY <2>1, CallbackFrame
  <2>3. LoginInv'
    <3>1. PICK H : H = Held(Parts) /\ H = Held(Parts)'
      BY <2>2
    <3> QED
      BY <1>1, <1>4, <2>1, <3>1 DEF SessionInv, LoginInv, KickPlayer
  <2> QED
    BY <1>1, <1>2, <2>2, <2>3 DEF Rest
<1>5. CASE /\ ~playerLoading /\ player = Null /\ playerLoading' = TRUE /\ UNCHANGED <<misread, sock, forceExit>>
           /\ \E c \in Chars : AddCallback("holder", "playerLogin", c, 0)
  <2>0. PICK c \in Chars : AddCallback("holder", "playerLogin", c, 0)
    BY <1>5
  <2>1. PICK cb : cb = [query |-> queries + 1, kind |-> "playerLogin", who |-> c, left |-> 0]
    OBVIOUS
  <2>2. CallbackTypeOK' /\ CallbackInv' /\ Held(Parts)' = Held(Parts) \cup {cb}
    BY <2>0, <2>1, AskFacts DEF Kinds
  <2>3. cb.kind = "playerLogin" /\ cb.who \in Chars
    BY <2>1
  <2>4. LoginInv'
    BY <1>1, <1>5, <2>2, <2>3, LoginAsk
  <2> QED
    BY <1>1, <1>2, <2>2, <2>4 DEF Rest
<1> QED
  BY <1>3, <1>4, <1>5 DEF HandlePlayerLoginOpcode, MisreadLogin, InitializeFails

(* The handlers that move the player or log it out.                          *)
LEMMA HandlersMove ==
    ASSUME SessionInv, LoopFrame, pc = "packets",
           \/ HandleLogoutRequestOpcode \/ HandleAreaTriggerOpcode \/ HandleMoveWorldportAck
           \/ NoQuery /\ UNCHANGED <<playerVars, sock>>
    PROVE  Rest' /\ (player' = player \/ player' = Null) /\ (HandleAreaTriggerOpcode => player' = player)
<1>1. /\ NoQuery /\ UNCHANGED <<sock, forceExit, playerLoading, guid, legit, misread>>
      /\ inWorld' \in BOOLEAN /\ recentlyLogout' \in BOOLEAN /\ logoutTime' \in BOOLEAN
      /\ player' = player \/ player' = Null
  <2>1. CASE HandleLogoutRequestOpcode
    BY <2>1 DEF HandleLogoutRequestOpcode, LogoutPlayer, SessionInv, TypeOK, PlayerTypeOK
  <2>2. CASE HandleAreaTriggerOpcode
    BY <2>2 DEF HandleAreaTriggerOpcode, SessionInv, TypeOK, PlayerTypeOK
  <2>3. CASE HandleMoveWorldportAck
    BY <2>3 DEF HandleMoveWorldportAck, LogoutPlayer, SessionInv, TypeOK, PlayerTypeOK
  <2>4. CASE NoQuery /\ UNCHANGED <<playerVars, sock>>
    BY <2>4 DEF playerVars, SessionInv, TypeOK, PlayerTypeOK
  <2> QED
    BY <2>1, <2>2, <2>3, <2>4
<1>2. PlayerTypeOK'
  BY <1>1 DEF SessionInv, TypeOK, PlayerTypeOK, LoopFrame
<1>3. CallbackTypeOK' /\ CallbackInv' /\ LoginInv'
  BY <1>1, NoQueryFacts
<1>4. HandleAreaTriggerOpcode => player' = player
  BY DEF HandleAreaTriggerOpcode
<1> QED
  BY <1>1, <1>2, <1>3, <1>4 DEF Rest

(* A handler, whichever it is. A map thread calls none that ends a session's *)
(* player.                                                                   *)
LEMMA CallStep ==
    ASSUME SessionInv, LoopFrame, pc = "packets", NEW packet \in Packet, Expected(packet), Process(packet),
           Call(packet.opcode)
    PROVE  Rest' /\ (player' = player \/ (player' = Null /\ filter # "map"))
<1>0. PICK k : k = packet.opcode
  OBVIOUS
<1>1. k \in DOMAIN Opcode /\ k \in Sent /\ Call(k)
  BY <1>0, SentFacts DEF Packet
<1>2. \/ k = "charEnum" /\ HandleCharEnumOpcode
      \/ k = "charCreate" /\ HandleCharCreateOpcode
      \/ k = "playerLogin" /\ HandlePlayerLoginOpcode
      \/ k = "sendMail" /\ HandleSendMail
      \/ k = "addFriend" /\ HandleAddFriendOpcode
      \/ k = "logout" /\ HandleLogoutRequestOpcode
      \/ k = "areaTrigger" /\ HandleAreaTriggerOpcode
      \/ k = "worldport" /\ HandleMoveWorldportAck
      \/ k \in {"jump", "cancelTrade", "bootMe"} /\ NoQuery /\ UNCHANGED <<playerVars, sock>>
  BY <1>1, OpcodeFacts, CallFacts
<1>3. filter = "map" => k \in {"jump", "areaTrigger", "bootMe"}
  BY <1>0, OpcodeFacts DEF Process, MapSessionFilter
<1>4. k = "sendMail" => player # Null
  BY <1>0, OpcodeFacts, ExpectedFacts
<1>5. CASE \/ HandleCharEnumOpcode \/ HandleCharCreateOpcode
           \/ (HandleAddFriendOpcode /\ "addFriend" \in Sent) \/ (HandleSendMail /\ player # Null)
  BY <1>5, HandlersAsk
<1>6. CASE HandlePlayerLoginOpcode
  BY <1>6, HandlersLogin
<1>7. CASE k = "areaTrigger" /\ HandleAreaTriggerOpcode
  BY <1>7, HandlersMove
<1>8. CASE k \in {"logout", "worldport"} /\ (HandleLogoutRequestOpcode \/ HandleMoveWorldportAck)
  BY <1>3, <1>8, HandlersMove
<1>9. CASE NoQuery /\ UNCHANGED <<playerVars, sock>>
  <2>1. player' = player
    BY <1>9 DEF playerVars
  <2> QED
    BY <2>1, <1>9, HandlersMove
<1> QED
  BY <1>1, <1>2, <1>4, <1>5, <1>6, <1>7, <1>8, <1>9

(* The packet of a step of the loop is the first of the queue, and is taken  *)
(* from its front.                                                           *)
LEMMA PacketFacts ==
    ASSUME SessionInv, ProcessPacket
    PROVE  \E packet \in Packet :
             /\ recvQueue # <<>> /\ packet = Head(recvQueue) /\ Process(packet) /\ recvQueue' = Tail(recvQueue)
             /\ RequeuePacket(packet) \/ DropPacket(packet) \/ HandlePacket(packet) \/ RefusePacket(packet)
<1>1. PICK packet \in NextPacket :
        RequeuePacket(packet) \/ DropPacket(packet) \/ HandlePacket(packet) \/ RefusePacket(packet)
  BY DEF ProcessPacket
<1>2. recvQueue # <<>> /\ packet = Head(recvQueue) /\ Process(packet)
  BY <1>1 DEF NextPacket
<1>0. PICK a, b, n, d : a = requeuePackets /\ b = recvQueue /\ n = received /\ d = done
  OBVIOUS
<1>3. a \in Seq(Packet) /\ b \in Seq(Packet) /\ n \in Nat /\ InOrder(a \o b, n, d) /\ b # <<>>
  <2>1. MaxPackets \in Nat
    BY ClientAssumption DEF MaxPackets
  <2> QED
    BY <1>0, <1>2, <2>1 DEF SessionInv, TypeOK, QueueTypeOK, QueueInv, Waiting, ProcessPacket
<1>4. packet \in Packet
  BY <1>0, <1>2, <1>3
<1>5. Take(packet)
  BY <1>1 DEF RequeuePacket, DropPacket, HandlePacket, RefusePacket
<1>6. PICK i \in DOMAIN b : b[i] = Head(b) /\ recvQueue' = RemoveAt(b, i)
  BY <1>0, <1>2, <1>5 DEF Take
<1>7. i = 1
  BY <1>3, <1>6, OrderRemove
<1>8. recvQueue' = Tail(recvQueue)
  BY <1>0, <1>3, <1>6, <1>7, TakeHead
<1> QED
  BY <1>1, <1>2, <1>4, <1>8

(* A packet that has been dealt with is gone, and only it.                   *)
LEMMA DealtFacts ==
    ASSUME SessionInv, pc = "packets", recvQueue # <<>>, recvQueue' = Tail(recvQueue), pc' = pc,
           done' = done \cup {Head(recvQueue).number}, UNCHANGED <<requeuePackets, received>>,
           processedPackets' \in 0 .. Budget + 1, player' = player \/ player' = Null
    PROVE  QueueTypeOK' /\ RequeueInv' /\ QueueInv'
<1>0. PICK a, b, n, d : a = requeuePackets /\ b = recvQueue /\ n = received /\ d = done
  OBVIOUS
<1>1. a \in Seq(Packet) /\ b \in Seq(Packet) /\ n \in Nat /\ InOrder(a \o b, n, d) /\ b # <<>> /\ d \subseteq 1 .. n
  <2>1. MaxPackets \in Nat
    BY ClientAssumption DEF MaxPackets
  <2> QED
    BY <1>0, <2>1 DEF SessionInv, TypeOK, QueueTypeOK, QueueInv, Waiting
<1>2. InOrder(a \o Tail(b), n, d \cup {Head(b).number}) /\ Head(b).number \in (1 .. n) \ d
  BY <1>1, OrderRemove
<1>3. PICK e : e = d \cup {Head(b).number}
  OBVIOUS
<1>4. Waiting' = a \o Tail(b) /\ received' = n /\ done' = e
  BY <1>0, <1>3 DEF Waiting
<1>5. QueueInv'
  BY <1>2, <1>3, <1>4 DEF QueueInv
<1>6. QueueTypeOK'
  <2>1. Tail(b) \in Seq(Packet) /\ e \subseteq 1 .. n
    <3>1. Tail(b) \in Seq(Packet)
      BY <1>1
    <3>2. PICK h : h = Head(b).number
      OBVIOUS
    <3>3. h \in 1 .. n
      BY <1>2, <3>2
    <3>4. e = d \cup {h}
      BY <1>3, <3>2
    <3> QED
      BY <1>1, <3>1, <3>3, <3>4
  <2>2. /\ received \in 0 .. MaxPackets /\ recvQueue' = Tail(b) /\ requeuePackets' = a
        /\ received' = received /\ received' = n /\ done' = e
    BY <1>0, <1>4 DEF SessionInv, TypeOK, QueueTypeOK
  <2> QED
    BY <1>1, <2>1, <2>2 DEF QueueTypeOK
<1>7. RequeueInv'
  <2>1. requeuePackets' = requeuePackets /\ pc' = "packets"
    OBVIOUS
  <2> QED
    BY <2>1 DEF SessionInv, RequeueInv, Status
<1> QED
  BY <1>5, <1>6, <1>7

(* A packet that is set aside keeps its place.                               *)
LEMMA RequeuedFacts ==
    ASSUME SessionInv, pc = "packets", recvQueue # <<>>, recvQueue' = Tail(recvQueue), pc' = pc,
           requeuePackets' = Append(requeuePackets, Head(recvQueue)), UNCHANGED <<done, received>>,
           processedPackets' \in 0 .. Budget + 1, player' = Null, Status(Head(recvQueue)) = "LOGGEDIN"
    PROVE  QueueTypeOK' /\ RequeueInv' /\ QueueInv'
<1>0. PICK a, b, n, d : a = requeuePackets /\ b = recvQueue /\ n = received /\ d = done
  OBVIOUS
<1>1. a \in Seq(Packet) /\ b \in Seq(Packet) /\ InOrder(a \o b, n, d) /\ b # <<>>
  BY <1>0 DEF SessionInv, TypeOK, QueueTypeOK, QueueInv, Waiting
<1>2. Append(a, Head(b)) \o Tail(b) = a \o b /\ Append(a, Head(b)) \in Seq(Packet) /\ Tail(b) \in Seq(Packet)
  BY <1>1, RequeueFacts
<1>3. Waiting' = a \o b /\ received' = n /\ done' = d
  BY <1>0, <1>2 DEF Waiting
<1>4. QueueInv'
  BY <1>1, <1>3 DEF QueueInv
<1>5. QueueTypeOK'
  BY <1>0, <1>2, <1>3 DEF SessionInv, TypeOK, QueueTypeOK
<1>6. RequeueInv'
  <2>1. ASSUME NEW i \in DOMAIN Append(a, Head(b))
        PROVE  Status(Append(a, Head(b))[i]) = "LOGGEDIN"
    <3>1. CASE i \in DOMAIN a
      <4>1. Append(a, Head(b))[i] = a[i]
        BY <1>1, <3>1
      <4> QED
        BY <4>1, <3>1, <1>0 DEF SessionInv, RequeueInv
    <3>2. CASE i \notin DOMAIN a
      <4>1. Append(a, Head(b))[i] = Head(b)
        <5>1. DOMAIN Append(a, Head(b)) = 1 .. Len(a) + 1 /\ DOMAIN a = 1 .. Len(a) /\ Len(a) \in Nat
          BY <1>1
        <5>2. i = Len(a) + 1
          BY <3>2, <5>1
        <5> QED
          BY <1>1, <5>2
      <4> QED
        BY <4>1, <1>0
    <3> QED
      BY <3>1, <3>2
  <2>2. requeuePackets' = Append(a, Head(b)) /\ pc' = "packets"
    BY <1>0
  <2> QED
    BY <2>1, <2>2 DEF RequeueInv, Status
<1> QED
  BY <1>4, <1>5, <1>6

(* A step of the packet loop; the last conjuncts are for the action          *)
(* properties.                                                               *)
LEMMA ProcessPacketStep ==
    ASSUME SessionInv, ProcessPacket
    PROVE  /\ SessionInv'
           /\ player' = player \/ (player' = Null /\ filter # "map")
           /\ recvQueue # <<>> /\ (done' = done \/ done' = done \cup {Head(recvQueue).number})
<1>1. PICK packet \in Packet :
        /\ recvQueue # <<>> /\ packet = Head(recvQueue) /\ Process(packet) /\ recvQueue' = Tail(recvQueue)
        /\ RequeuePacket(packet) \/ DropPacket(packet) \/ HandlePacket(packet) \/ RefusePacket(packet)
  BY PacketFacts
<1>2. LoopFrame /\ pc = "packets" /\ pc' = pc /\ filter' = filter /\ received' = received /\ WithinBudget /\ crashed' = crashed
  BY DEF ProcessPacket, LoopFrame
<1>3. processedPackets' \in 0 .. Budget + 1
  BY <1>1, <1>2, SessionPacketsAssumption DEF SessionInv, TypeOK, QueueTypeOK, WithinBudget,
                   RequeuePacket, DropPacket, HandlePacket, RefusePacket
<1>4. Rest' /\ (player' = player \/ (player' = Null /\ filter # "map"))
  <2>1. CASE RequeuePacket(packet) \/ DropPacket(packet)
    <3>1. NoQuery /\ UNCHANGED <<playerVars, sock>>
      BY <2>1 DEF RequeuePacket, DropPacket
    <3>2. player' = player
      BY <3>1 DEF playerVars
    <3> QED
      BY <1>2, <3>1, <3>2, HandlersMove
  <2>2. CASE HandlePacket(packet)
    BY <1>1, <1>2, <2>2, CallStep DEF HandlePacket
  <2>3. CASE RefusePacket(packet)
    <3>1. /\ NoQuery /\ UNCHANGED <<player, inWorld, guid, legit, misread, playerLoading, logoutTime>> /\ sock' = "closed"
          /\ forceExit' = TRUE /\ recentlyLogout' = (recentlyLogout /\ packet.opcode # "charEnum")
      BY <2>3 DEF RefusePacket, KickPlayer
    <3>2. recentlyLogout' \in BOOLEAN
      BY <3>1
    <3>3. PlayerTypeOK'
      BY <1>2, <3>1, <3>2 DEF SessionInv, TypeOK, PlayerTypeOK, LoopFrame
    <3>4. CallbackTypeOK' /\ CallbackInv' /\ LoginInv'
      BY <1>2, <3>1, NoQueryFacts
    <3> QED
      BY <3>1, <3>3, <3>4 DEF Rest
  <2> QED
    BY <1>1, <2>1, <2>2, <2>3
<1>5. /\ QueueTypeOK' /\ RequeueInv' /\ QueueInv'
      /\ done' = done \/ done' = done \cup {Head(recvQueue).number}
  <2>1. CASE RequeuePacket(packet)
    <3>1. /\ requeuePackets' = Append(requeuePackets, Head(recvQueue)) /\ done' = done
          /\ player' = Null /\ Status(Head(recvQueue)) = "LOGGEDIN"
      BY <1>1, <2>1 DEF RequeuePacket, Early, playerVars
    <3> QED
      BY <1>1, <1>2, <1>3, <3>1, RequeuedFacts
  <2>2. CASE DropPacket(packet) \/ HandlePacket(packet) \/ RefusePacket(packet)
    <3>1. done' = done \cup {Head(recvQueue).number} /\ requeuePackets' = requeuePackets
      BY <1>1, <2>2 DEF DropPacket, HandlePacket, RefusePacket
    <3> QED
      BY <1>1, <1>2, <1>3, <1>4, <3>1, DealtFacts
  <2> QED
    BY <1>1, <2>1, <2>2
<1>6. MapInv'
  BY <1>2, <1>4 DEF SessionInv, MapInv
<1> QED
  BY <1>1, <1>4, <1>5, <1>6 DEF SessionInv, TypeOK, Rest

(* The end of the packet loop: Waiting stays as it is.                       *)
LEMMA EndPacketsStep ==
    ASSUME SessionInv, EndPackets
    PROVE  SessionInv' /\ player' = player /\ done' = done
<1>1. /\ pc = "packets" /\ pc' = "callbacks" /\ recvQueue' = requeuePackets \o recvQueue /\ requeuePackets' = <<>>
      /\ BeginProcessor(1) /\ UNCHANGED <<notReady, queries, ready, ran, done, processedPackets, received>>
      /\ UNCHANGED <<playerVars, sock, inQueue, filter, crashed>>
  BY DEF EndPackets, Readd, netVars
<1>2. PlayerTypeOK' /\ MapInv' /\ player' = player
  BY <1>1 DEF SessionInv, TypeOK, PlayerTypeOK, MapInv, playerVars
<1>0. PICK a, b, n, d : a = requeuePackets /\ b = recvQueue /\ n = received /\ d = done
  OBVIOUS
<1>3. a \in Seq(Packet) /\ b \in Seq(Packet) /\ InOrder(a \o b, n, d)
  BY <1>0, <1>1 DEF SessionInv, TypeOK, QueueTypeOK, QueueInv, Waiting
<1>4. a \o b \in Seq(Packet) /\ <<>> \o (a \o b) = a \o b
  BY <1>3
<1>5. QueueInv' /\ RequeueInv'
  <2>1. Waiting' = a \o b /\ received' = n /\ done' = d
    BY <1>0, <1>1, <1>4 DEF Waiting
  <2>2. QueueInv'
    BY <1>3, <2>1 DEF QueueInv
  <2>3. RequeueInv'
    BY <1>1 DEF RequeueInv
  <2> QED
    BY <2>2, <2>3
<1>6. QueueTypeOK'
  BY <1>0, <1>1, <1>4 DEF SessionInv, TypeOK, QueueTypeOK
<1>7. /\ updateCallbacks' \in Seq(Callback) /\ callbacks' \in [ToSet(Processors) -> Seq(Callback)]
      /\ proc' = 1 /\ Exact(Parts, queries, ran)' /\ Held(Parts)' = Held(Parts)
  <2>1. pc # "deleted" /\ updateCallbacks = <<>>
    BY <1>1 DEF SessionInv, CallbackInv
  <2> QED
    BY <1>1, <2>1, BeginStep DEF SessionInv
<1>8. CallbackTypeOK' /\ CallbackInv'
  <2>1. CallbackInv'
    BY <1>1, <1>7 DEF CallbackInv
  <2>2. proc' \in 1 .. Len(Processors)
    BY <1>7, ProcessorNames
  <2> QED
    BY <1>1, <1>7, <2>1, <2>2 DEF SessionInv, TypeOK, CallbackTypeOK
<1>9. LoginInv'
  BY <1>1, <1>7, LoginFrame DEF playerVars
<1> QED
  BY <1>1, <1>2, <1>5, <1>6, <1>8, <1>9 DEF SessionInv, TypeOK

-------------------------------------------------------------------------------
(* The continuations.                                                        *)

(* What no continuation changes.                                             *)
CallbackLoopFrame == UNCHANGED <<loopVars, received, inQueue, pc, filter, proc>>

(* The packets while continuations run.                                      *)
LEMMA LoopSame ==
    ASSUME SessionInv, pc = "callbacks", CallbackLoopFrame
    PROVE  QueueTypeOK' /\ RequeueInv' /\ QueueInv'
<1>1. UNCHANGED <<received, recvQueue, done, requeuePackets, processedPackets, pc>>
  BY DEF CallbackLoopFrame, loopVars
<1>2. requeuePackets = <<>> /\ processedPackets \in 0 .. Budget + 1
  BY DEF SessionInv, RequeueInv, TypeOK, QueueTypeOK
<1> QED
  BY <1>1, <1>2, QueueFrame

(* A continuation that only takes its result.                                *)
LEMMA FinishFacts ==
    ASSUME SessionInv, pc = "callbacks", CallbackLoopFrame, updateCallbacks # <<>>, NoQuery,
           updateCallbacks' = Tail(updateCallbacks), Finish(Head(updateCallbacks))
    PROVE  /\ CallbackTypeOK' /\ CallbackInv' /\ Held(Parts)' = Held(Parts) \ {Head(updateCallbacks)}
           /\ Head(updateCallbacks) \in Held(Parts) /\ Head(updateCallbacks) \in Callback
<1>0. PICK cb : cb = Head(updateCallbacks)
  OBVIOUS
<1>1. /\ ran' = ran \cup {cb.query} /\ ready' = ready \ {cb.query} /\ UNCHANGED <<notReady, callbacks, queries, pc, proc>>
  BY <1>0 DEF Finish, Result, NoQuery, CallbackLoopFrame
<1>2. /\ cb \in Held(Parts) /\ cb \in Callback /\ cb.query \in (1 .. queries) \ ran
      /\ updateCallbacks' \in Seq(Callback)
      /\ Exact(Parts, queries, ran)' /\ Held(Parts)' = Held(Parts) \ {cb}
  BY <1>0, <1>1, FinishStep DEF SessionInv
<1>3. CallbackTypeOK'
  <2>1. ready' \subseteq (1 .. queries) \ ran' /\ ran' \subseteq 1 .. queries
    BY <1>1, <1>2 DEF SessionInv, TypeOK, CallbackTypeOK
  <2> QED
    BY <1>1, <1>2, <2>1 DEF SessionInv, TypeOK, CallbackTypeOK
<1>4. CallbackInv'
  BY <1>1, <1>2 DEF CallbackInv
<1> QED
  BY <1>0, <1>2, <1>3, <1>4

(* SetNextQuery, or a query of another processor.                            *)
LEMMA ReplaceFacts ==
    ASSUME SessionInv, pc = "callbacks", CallbackLoopFrame, updateCallbacks # <<>>,
           updateCallbacks' = Tail(updateCallbacks), Result(Head(updateCallbacks)), queries' = queries + 1,
           NEW new \in Callback, new.query = queries + 1,
           \/ UNCHANGED callbacks /\ notReady' = Append(notReady, new)
           \/ UNCHANGED notReady /\ callbacks' = [callbacks EXCEPT !["transaction"] = Append(@, new)]
    PROVE  /\ CallbackTypeOK' /\ CallbackInv' /\ Held(Parts)' = (Held(Parts) \ {Head(updateCallbacks)}) \cup {new}
           /\ Head(updateCallbacks) \in Held(Parts)
<1>0. PICK cb : cb = Head(updateCallbacks)
  OBVIOUS
<1>1. /\ ran' = ran \cup {cb.query} /\ ready' = ready \ {cb.query} /\ UNCHANGED <<pc, proc>>
  BY <1>0 DEF Result, CallbackLoopFrame
<1>2. /\ cb \in Held(Parts) /\ cb \in Callback /\ cb.query \in (1 .. queries) \ ran
      /\ updateCallbacks' \in Seq(Callback) /\ notReady' \in Seq(Callback)
      /\ callbacks' \in [ToSet(Processors) -> Seq(Callback)]
      /\ Exact(Parts, queries, ran)' /\ Held(Parts)' = (Held(Parts) \ {cb}) \cup {new}
  BY <1>0, <1>1, ReplaceStep DEF SessionInv
<1>3. CallbackTypeOK'
  <2>0. PICK n, m, r : n = queries /\ m = queries' /\ r = ran
    OBVIOUS
  <2>a. n \in Nat /\ m = n + 1 /\ cb.query \in 1 .. n /\ r \subseteq 1 .. n /\ ready \subseteq (1 .. n) \ r
    BY <1>2, <2>0 DEF SessionInv, TypeOK, CallbackTypeOK
  <2>b. m \in Nat /\ \A q \in 1 .. n : q \in 1 .. m
    BY <2>a
  <2>1. ready' \subseteq (1 .. queries') \ ran' /\ ran' \subseteq 1 .. queries' /\ queries' \in Nat
    BY <1>1, <2>0, <2>a, <2>b
  <2> QED
    BY <1>1, <1>2, <2>1 DEF SessionInv, TypeOK, CallbackTypeOK
<1>4. CallbackInv'
  BY <1>1, <1>2 DEF CallbackInv
<1> QED
  BY <1>0, <1>2, <1>3, <1>4

(* The login: other callbacks leave it alone.                                *)
LEMMA LoginDrop ==
    ASSUME SessionInv, pc # "deleted", NEW cb \in Held(Parts), cb.kind # "playerLogin", NEW new \in SUBSET Callback,
           \A c \in new : c.kind \notin {"playerLogin", "sendMail"},
           Held(Parts)' = (Held(Parts) \ {cb}) \cup new, UNCHANGED <<misread, playerLoading, forceExit, player>>
    PROVE  LoginInv'
<1>0. PICK H, K : H = Held(Parts) /\ K = Held(Parts)' /\ K = (H \ {cb}) \cup new
  OBVIOUS
<1>1. /\ \A c, other \in H : c.kind = "playerLogin" /\ other.kind = "playerLogin" => c = other
      /\ \A c \in H : c.kind = "playerLogin" => playerLoading /\ player = Null /\ c.who \in Chars
      /\ playerLoading => forceExit \/ misread \/ \E c \in H : c.kind = "playerLogin"
      /\ \A c \in H : c.kind = "sendMail" => c.who # Null
  BY <1>0 DEF SessionInv, LoginInv
<1>2. /\ \A c, other \in K : c.kind = "playerLogin" /\ other.kind = "playerLogin" => c = other
      /\ \A c \in K : c.kind = "playerLogin" => playerLoading /\ player = Null /\ c.who \in Chars
      /\ \A c \in K : c.kind = "sendMail" => c.who # Null
  BY <1>0, <1>1
<1>3. playerLoading => forceExit \/ misread \/ \E c \in K : c.kind = "playerLogin"
  <2>1. ASSUME NEW c \in H, c.kind = "playerLogin"
        PROVE  c \in K
    BY <1>0, <2>1
  <2> QED
    BY <1>1, <2>1
<1> QED
  BY <1>0, <1>2, <1>3 DEF LoginInv

(* The character is loaded, or cannot be: the login under way was this one.  *)
LEMMA LoginDone ==
    ASSUME SessionInv, pc # "deleted", NEW cb \in Held(Parts), cb.kind = "playerLogin",
           Held(Parts)' = Held(Parts) \ {cb}, playerLoading' = FALSE
    PROVE  LoginInv' /\ cb.who \in Chars /\ player = Null
<1>0. PICK H, K : H = Held(Parts) /\ K = Held(Parts)' /\ K = H \ {cb}
  OBVIOUS
<1>1. /\ \A c, other \in H : c.kind = "playerLogin" /\ other.kind = "playerLogin" => c = other
      /\ \A c \in H : c.kind = "playerLogin" => playerLoading /\ player = Null /\ c.who \in Chars
      /\ \A c \in H : c.kind = "sendMail" => c.who # Null
  BY <1>0 DEF SessionInv, LoginInv
<1>2. \A c \in K : c.kind # "playerLogin"
  BY <1>0, <1>1
<1> QED
  BY <1>0, <1>1, <1>2 DEF LoginInv

(* A continuation of each kind.                                              *)
LEMMA InvokeStep ==
    ASSUME SessionInv, pc = "callbacks", CallbackLoopFrame, updateCallbacks # <<>>,
           updateCallbacks' = Tail(updateCallbacks), Invoke(Head(updateCallbacks))
    PROVE  /\ Rest' /\ (player' = player \/ filter # "map") /\ (filter = "map" => player # Null)
           /\ crashed' => crashed \/ (Head(updateCallbacks).kind = "addFriend" /\ Head(updateCallbacks) \in Held(Parts))
<1>0. PICK cb : cb = Head(updateCallbacks)
  OBVIOUS
<1>1. cb \in Callback /\ cb \in Held(Parts)
  <2>1. updateCallbacks \in Seq(Callback) /\ cb \in ToSet(updateCallbacks) /\ "updateCallbacks" \in Places
    BY <1>0 DEF SessionInv, TypeOK, CallbackTypeOK, ToSet, Places
  <2>2. Parts["updateCallbacks"] = updateCallbacks
    BY PartsFacts DEF SessionInv
  <2> QED
    BY <1>0, <2>1, <2>2 DEF Held
<1>2. \/ cb.kind = "charEnum" /\ HandleCharEnum(cb)
      \/ cb.kind = "charCreate" /\ CharCreateContinuation(cb)
      \/ cb.kind = "charSaved" /\ CharSavedContinuation(cb)
      \/ cb.kind = "playerLogin" /\ HandlePlayerLogin(cb)
      \/ cb.kind = "sendMail" /\ MailContinuation(cb)
      \/ cb.kind = "addFriend" /\ FriendContinuation(cb)
  <2>1. cb.kind \in {"charEnum", "charCreate", "charSaved", "playerLogin", "sendMail", "addFriend"}
    BY <1>1 DEF Callback, Kinds
  <2>2. Invoke(cb)
    BY <1>0
  <2> QED
    BY <2>1, <2>2, InvokeFacts
<1>3. /\ filter' = filter /\ pc' = pc /\ inQueue' = inQueue /\ (filter = "map" => player # Null) /\ pc # "deleted"
  BY DEF CallbackLoopFrame, SessionInv, MapInv
<1>4. ASSUME Finish(cb), NoQuery
      PROVE  CallbackTypeOK' /\ CallbackInv' /\ Held(Parts)' = Held(Parts) \ {cb}
  BY <1>0, <1>4, FinishFacts
<1>5. ASSUME Finish(cb), NoQuery, cb.kind # "playerLogin",
             UNCHANGED <<sock, forceExit, player, inWorld, guid, misread, playerLoading, recentlyLogout, logoutTime>>,
             legit' \in BOOLEAN, crashed' \in BOOLEAN
      PROVE  Rest' /\ player' = player
  <2>1. CallbackTypeOK' /\ CallbackInv' /\ Held(Parts)' = Held(Parts) \ {cb}
    BY <1>4, <1>5
  <2>2. LoginInv'
    <3>1. Held(Parts)' = (Held(Parts) \ {cb}) \cup {} /\ {} \in SUBSET Callback
      BY <2>1
    <3> QED
      BY <1>1, <1>3, <1>5, <3>1, LoginDrop
  <2>3. PlayerTypeOK'
    BY <1>3, <1>5 DEF SessionInv, TypeOK, PlayerTypeOK
  <2> QED
    BY <1>5, <2>1, <2>2, <2>3 DEF Rest
<1>6. CASE cb.kind = "charEnum" /\ HandleCharEnum(cb)
  <2>1. /\ Finish(cb) /\ NoQuery /\ legit' \in BOOLEAN /\ crashed' = crashed
        /\ UNCHANGED <<sock, forceExit, player, inWorld, guid, misread, playerLoading, recentlyLogout, logoutTime>>
    BY <1>6 DEF HandleCharEnum
  <2>2. crashed' \in BOOLEAN
    BY <2>1 DEF SessionInv, TypeOK, PlayerTypeOK
  <2>3. Rest' /\ player' = player
    BY <1>5, <1>6, <2>1, <2>2
  <2> QED
    BY <1>3, <2>1, <2>3
<1>7. CASE cb.kind \in {"charSaved", "sendMail", "addFriend"} /\ Finish(cb) /\ NoQuery /\ UNCHANGED <<playerVars, sock>>
              /\ crashed' \in BOOLEAN /\ (crashed' => crashed \/ cb.kind = "addFriend")
  <2>1. /\ UNCHANGED <<sock, forceExit, player, inWorld, guid, misread, playerLoading, recentlyLogout, logoutTime>> /\ legit' \in BOOLEAN
    BY <1>7 DEF playerVars, SessionInv, TypeOK, PlayerTypeOK
  <2>2. Rest' /\ player' = player
    BY <1>5, <1>7, <2>1
  <2> QED
    BY <1>0, <1>1, <1>3, <1>7, <2>2
<1>8. CASE cb.kind = "charSaved" /\ CharSavedContinuation(cb)
  BY <1>7, <1>8 DEF CharSavedContinuation, SessionInv, TypeOK, PlayerTypeOK
<1>9. CASE cb.kind = "sendMail" /\ MailContinuation(cb)
  <2>1. cb.who # Null
    BY <1>1, <1>3, <1>9 DEF SessionInv, LoginInv
  <2>2. crashed' = FALSE
    BY <1>9, <2>1 DEF MailContinuation, MailGoesOn
  <2> QED
    BY <1>7, <1>9, <2>2 DEF MailContinuation
<1>10. CASE cb.kind = "addFriend" /\ FriendContinuation(cb)
  <2>1. crashed' \in BOOLEAN
    BY <1>10 DEF FriendContinuation
  <2> QED
    BY <1>7, <1>10, <2>1 DEF FriendContinuation
<1>11. CASE cb.kind = "playerLogin" /\ HandlePlayerLogin(cb)
  <2>1. Finish(cb) /\ NoQuery /\ playerLoading' = FALSE /\ UNCHANGED <<legit, misread, recentlyLogout, logoutTime, crashed>>
    BY <1>11 DEF HandlePlayerLogin
  <2>2. CallbackTypeOK' /\ CallbackInv' /\ Held(Parts)' = Held(Parts) \ {cb}
    BY <1>4, <2>1
  <2>3. LoginInv' /\ cb.who \in Chars /\ player = Null
    BY <1>1, <1>3, <1>11, <2>1, <2>2, LoginDone
  <2>4. /\ sock' \in {"open", "closed", "null"} /\ forceExit' \in BOOLEAN /\ inWorld' \in BOOLEAN
        /\ player' \in Addresses \cup {Null} /\ guid' \in Chars \cup {Null}
    BY <1>11, <2>3 DEF HandlePlayerLogin, KickPlayer, SessionInv, TypeOK, PlayerTypeOK
  <2>5. PlayerTypeOK'
    BY <1>3, <2>1, <2>4 DEF SessionInv, TypeOK, PlayerTypeOK
  <2> QED
    BY <1>3, <2>1, <2>2, <2>3, <2>5 DEF Rest
<1>12. CASE cb.kind = "charCreate" /\ CharCreateContinuation(cb)
  <2>1. UNCHANGED <<playerVars, sock, crashed>>
    BY <1>12 DEF CharCreateContinuation
  <2>2. PlayerTypeOK' /\ player' = player /\ crashed' = crashed /\ UNCHANGED <<misread, playerLoading, forceExit, player>>
    BY <1>3, <2>1 DEF playerVars, SessionInv, TypeOK, PlayerTypeOK
  <2>3. CASE Finish(cb) /\ NoQuery
    <3>1. Held(Parts)' = (Held(Parts) \ {cb}) \cup {} /\ {} \in SUBSET Callback /\ CallbackTypeOK' /\ CallbackInv'
      BY <1>4, <2>3
    <3>2. LoginInv'
      BY <1>1, <1>3, <1>12, <2>2, <3>1, LoginDrop
    <3> QED
      BY <1>3, <2>2, <3>1, <3>2 DEF Rest
  <2>4. ASSUME Result(cb), queries' = queries + 1, NEW new \in Callback, new.query = queries + 1,
               new.kind \in {"charCreate", "charSaved"},
               \/ UNCHANGED callbacks /\ notReady' = Append(notReady, new)
               \/ UNCHANGED notReady /\ callbacks' = [callbacks EXCEPT !["transaction"] = Append(@, new)]
        PROVE  Rest'
    <3>1. CallbackTypeOK' /\ CallbackInv' /\ Held(Parts)' = (Held(Parts) \ {cb}) \cup {new}
      BY <1>0, <2>4, ReplaceFacts
    <3>2. PICK N : N = {new}
      OBVIOUS
    <3>3. N \in SUBSET Callback /\ \A c \in N : c.kind \notin {"playerLogin", "sendMail"}
      BY <2>4, <3>2
    <3>4. LoginInv'
      BY <1>1, <1>3, <1>12, <2>2, <3>1, <3>2, <3>3, LoginDrop
    <3> QED
      BY <2>2, <3>1, <3>4 DEF Rest
  <2>5. CASE /\ cb.left > 0 /\ queries' = queries + 1 /\ Result(cb) /\ UNCHANGED callbacks
             /\ notReady' = Append(notReady, [cb EXCEPT !.query = queries', !.left = @ - 1])
    <3>1. PICK new : new = [cb EXCEPT !.query = queries + 1, !.left = @ - 1]
      OBVIOUS
    <3>2. new \in Callback /\ new.query = queries + 1 /\ new.kind = "charCreate"
      <4>1. queries + 1 \in Nat /\ cb.left - 1 \in 0 .. 3
        BY <1>1, <2>5 DEF SessionInv, TypeOK, CallbackTypeOK, Callback
      <4> QED
        BY <1>1, <1>12, <3>1, <4>1 DEF Callback
    <3> QED
      BY <1>3, <2>2, <2>4, <2>5, <3>1, <3>2
  <2>6. CASE Finish(cb) /\ AddCallback("transaction", "charSaved", Null, 0)
    <3>1. PICK new : new = [query |-> queries + 1, kind |-> "charSaved", who |-> Null, left |-> 0]
      OBVIOUS
    <3>2. new \in Callback /\ new.query = queries + 1 /\ new.kind = "charSaved"
      <4>1. queries + 1 \in Nat
        BY DEF SessionInv, TypeOK, CallbackTypeOK
      <4> QED
        BY <3>1, <4>1 DEF Callback, Kinds
    <3>3. /\ Result(cb) /\ queries' = queries + 1 /\ UNCHANGED notReady
          /\ callbacks' = [callbacks EXCEPT !["transaction"] = Append(@, new)]
      BY <2>6, <3>1 DEF Finish, AddCallback
    <3> QED
      BY <1>3, <2>2, <2>4, <3>2, <3>3
  <2> QED
    BY <1>12, <2>3, <2>5, <2>6 DEF CharCreateContinuation
<1> QED
  BY <1>2, <1>6, <1>8, <1>9, <1>10, <1>11, <1>12

(* InvokeIfReady on one callback.                                            *)
LEMMA ProcessCallbackStep ==
    ASSUME SessionInv, ProcessCallback
    PROVE  /\ SessionInv' /\ (player' = player \/ filter # "map") /\ done' = done
           /\ crashed' => crashed \/ \E cb \in Held(Parts) : cb.kind = "addFriend"
<1>1. /\ pc = "callbacks" /\ updateCallbacks # <<>> /\ updateCallbacks' = Tail(updateCallbacks)
      /\ CallbackLoopFrame /\ filter' = filter /\ pc' = pc /\ done' = done
      /\ \/ Invoke(Head(updateCallbacks))
         \/ /\ notReady' = Append(notReady, Head(updateCallbacks))
            /\ NoQuery /\ UNCHANGED <<playerVars, sock, ready, ran, crashed>>
  BY DEF ProcessCallback, CallbackLoopFrame, loopVars
<1>2. QueueTypeOK' /\ RequeueInv' /\ QueueInv'
  BY <1>1, LoopSame
<1>3. CASE Invoke(Head(updateCallbacks))
  <2>1. /\ Rest' /\ (player' = player \/ filter # "map") /\ (filter = "map" => player # Null)
        /\ crashed' => crashed \/ (Head(updateCallbacks).kind = "addFriend" /\ Head(updateCallbacks) \in Held(Parts))
    BY <1>1, <1>3, InvokeStep
  <2>2. MapInv'
    BY <1>1, <2>1 DEF MapInv
  <2> QED
    BY <1>1, <1>2, <2>1, <2>2 DEF SessionInv, TypeOK, Rest
<1>4. CASE /\ notReady' = Append(notReady, Head(updateCallbacks))
           /\ NoQuery /\ UNCHANGED <<playerVars, sock, ready, ran, crashed>>
  <2>1. UNCHANGED <<callbacks, queries, ran, ready, proc>>
    BY <1>1, <1>4 DEF NoQuery, CallbackLoopFrame
  <2>2. /\ updateCallbacks' \in Seq(Callback) /\ notReady' \in Seq(Callback)
        /\ Exact(Parts, queries, ran)' /\ Held(Parts)' = Held(Parts)
    BY <1>1, <1>4, <2>1, KeepStep DEF SessionInv
  <2>3. CallbackTypeOK'
    BY <2>1, <2>2 DEF SessionInv, TypeOK, CallbackTypeOK
  <2>4. CallbackInv'
    BY <1>1, <2>2 DEF CallbackInv
  <2>5. PlayerTypeOK' /\ MapInv' /\ player' = player /\ UNCHANGED <<playerLoading, forceExit, misread>>
    BY <1>1, <1>4 DEF playerVars, CallbackLoopFrame, SessionInv, TypeOK, PlayerTypeOK, MapInv
  <2>6. LoginInv'
    BY <1>1, <2>2, <2>5, LoginFrame
  <2> QED
    BY <1>1, <1>2, <1>4, <2>3, <2>4, <2>5, <2>6 DEF SessionInv, TypeOK
<1> QED
  BY <1>1, <1>3, <1>4

(* The end of ProcessReadyCallbacks of one processor.                        *)
LEMMA EndProcessorStep ==
    ASSUME SessionInv, EndProcessor
    PROVE  SessionInv' /\ player' = player /\ done' = done
<1>1. /\ pc = "callbacks" /\ UNCHANGED <<received, recvQueue, done, requeuePackets, processedPackets>>
      /\ UNCHANGED <<playerVars, sock, inQueue, filter, queries, ready, ran, crashed>>
  BY DEF EndProcessor, loopVars, netVars
<1>2. /\ updateCallbacks' \in Seq(Callback) /\ callbacks' \in [ToSet(Processors) -> Seq(Callback)]
      /\ notReady' = <<>> /\ proc' \in 1 .. Len(Processors)
      /\ pc' \in {"callbacks", "tail", "sessions"} /\ (pc' # "callbacks" => updateCallbacks' = <<>>)
      /\ Exact(Parts, queries, ran)' /\ Held(Parts)' = Held(Parts)
  BY EndStep DEF SessionInv
<1>3. QueueTypeOK' /\ RequeueInv' /\ QueueInv'
  <2>1. requeuePackets = <<>> /\ processedPackets \in 0 .. Budget + 1
    BY <1>1 DEF SessionInv, RequeueInv, TypeOK, QueueTypeOK
  <2> QED
    BY <1>1, <1>2, <2>1, QueueFrame
<1>4. CallbackTypeOK' /\ CallbackInv'
  <2>1. notReady' \in Seq(Callback)
    BY <1>2
  <2> QED
    BY <1>1, <1>2, <2>1 DEF SessionInv, TypeOK, CallbackTypeOK, CallbackInv
<1>5. PlayerTypeOK' /\ MapInv' /\ player' = player /\ UNCHANGED <<playerLoading, forceExit, misread>>
  BY <1>1, <1>2 DEF playerVars, SessionInv, TypeOK, PlayerTypeOK, MapInv
<1>6. LoginInv'
  BY <1>1, <1>2, <1>5, LoginFrame
<1> QED
  BY <1>1, <1>3, <1>4, <1>5, <1>6 DEF SessionInv, TypeOK

-------------------------------------------------------------------------------
(* The end of the world's update and of the session.                         *)

(* The timed logout, and the session that is left behind by its socket.      *)
LEMMA EndWorldUpdateStep ==
    ASSUME SessionInv, EndWorldUpdate
    PROVE  SessionInv' /\ done' = done
<1>1. /\ pc = "tail" /\ pc' \in {"maps", "expired"} /\ sock' \in {"open", "closed", "null"}
      /\ UNCHANGED <<received, recvQueue, done, requeuePackets, processedPackets>>
      /\ UNCHANGED <<callbacks, updateCallbacks, notReady, queries, ran, proc, ready>>
      /\ UNCHANGED <<forceExit, inQueue, filter, crashed, guid, legit, misread, playerLoading>>
      /\ inWorld' \in BOOLEAN /\ recentlyLogout' \in BOOLEAN /\ logoutTime' \in BOOLEAN
      /\ player' = player \/ player' = Null
  <2>1. /\ pc = "tail" /\ pc' \in {"maps", "expired"} /\ sock' \in {"open", "closed", "null"}
        /\ UNCHANGED <<received, recvQueue, done, requeuePackets, processedPackets>>
        /\ UNCHANGED <<callbacks, updateCallbacks, notReady, queries, ran, proc, ready>>
        /\ UNCHANGED <<forceExit, inQueue, filter, crashed>>
    BY DEF EndWorldUpdate, loopVars, cbVars, SessionInv, TypeOK, PlayerTypeOK
  <2>2. \/ LogoutPlayer
        \/ UNCHANGED <<player, inWorld, guid, legit, misread, playerLoading, recentlyLogout, logoutTime>>
    BY DEF EndWorldUpdate
  <2>3. /\ UNCHANGED <<guid, legit, misread, playerLoading>> /\ inWorld' \in BOOLEAN /\ recentlyLogout' \in BOOLEAN
        /\ logoutTime' \in BOOLEAN /\ (player' = player \/ player' = Null)
    BY <2>2 DEF LogoutPlayer, SessionInv, TypeOK, PlayerTypeOK
  <2> QED
    BY <2>1, <2>3
<1>2. QueueTypeOK' /\ RequeueInv' /\ QueueInv'
  <2>1. requeuePackets = <<>> /\ processedPackets \in 0 .. Budget + 1
    BY <1>1 DEF SessionInv, RequeueInv, TypeOK, QueueTypeOK
  <2> QED
    BY <1>1, <2>1, QueueFrame
<1>3. CallbackTypeOK' /\ CallbackInv' /\ Held(Parts)' = Held(Parts)
  <2>1. ready' \subseteq (1 .. queries) \ ran
    BY <1>1 DEF SessionInv, TypeOK, CallbackTypeOK
  <2> QED
    BY <1>1, <2>1, CallbackFrame
<1>4. LoginInv'
  BY <1>1, <1>3, LoginFrame
<1>5. PlayerTypeOK' /\ MapInv'
  BY <1>1 DEF SessionInv, TypeOK, PlayerTypeOK, MapInv
<1> QED
  BY <1>1, <1>2, <1>3, <1>4, <1>5 DEF SessionInv, TypeOK

(* The destructor of the session.                                            *)
LEMMA DeleteSessionStep ==
    ASSUME SessionInv, DeleteSession
    PROVE  SessionInv' /\ done' = done
<1>1. /\ pc = "expired" /\ pc' = "deleted" /\ recvQueue' = <<>> /\ UNCHANGED <<received, done, requeuePackets, processedPackets>>
      /\ callbacks' = [p \in ToSet(Processors) |-> <<>>]
      /\ UNCHANGED <<updateCallbacks, notReady, queries, ran, proc, ready>>
      /\ UNCHANGED <<sock, forceExit, inQueue, filter, crashed>>
  BY DEF DeleteSession, netVars
<1>2. /\ UNCHANGED <<guid, legit, misread, playerLoading>> /\ inWorld' \in BOOLEAN /\ recentlyLogout' \in BOOLEAN
      /\ logoutTime' \in BOOLEAN /\ (player' = player \/ player' = Null)
  BY DEF DeleteSession, LogoutPlayer, SessionInv, TypeOK, PlayerTypeOK
<1>3. QueueTypeOK'
  <2>1. <<>> \in Seq(Packet)
    OBVIOUS
  <2> QED
    BY <1>1, <2>1 DEF SessionInv, TypeOK, QueueTypeOK
<1>4. RequeueInv' /\ QueueInv'
  <2>1. requeuePackets = <<>>
    BY <1>1 DEF SessionInv, RequeueInv
  <2> QED
    BY <1>1, <2>1 DEF RequeueInv, QueueInv
<1>5. CallbackTypeOK'
  <2>1. callbacks' \in [ToSet(Processors) -> Seq(Callback)]
    BY <1>1
  <2> QED
    BY <1>1, <2>1 DEF SessionInv, TypeOK, CallbackTypeOK
<1>6. CallbackInv' /\ LoginInv'
  BY <1>1 DEF SessionInv, CallbackInv, LoginInv
<1>7. PlayerTypeOK' /\ MapInv'
  BY <1>1, <1>2 DEF SessionInv, TypeOK, PlayerTypeOK, MapInv
<1> QED
  BY <1>1, <1>3, <1>4, <1>5, <1>6, <1>7 DEF SessionInv, TypeOK

(* A new session.                                                            *)
LEMMA InitSession == Init => SessionInv
<1> SUFFICES ASSUME Init PROVE SessionInv
  OBVIOUS
<1>1. MaxPackets \in Nat
  BY ClientAssumption DEF MaxPackets
<1>2. QueueTypeOK
  BY <1>1, SessionPacketsAssumption DEF Init, QueueTypeOK
<1>3. PlayerTypeOK
  BY DEF Init, PlayerTypeOK
<1>4. CallbackTypeOK
  BY ProcessorNames DEF Init, CallbackTypeOK
<1>5. RequeueInv /\ MapInv
  BY DEF Init, RequeueInv, MapInv
<1>6. QueueInv
  <2>1. Waiting = <<>>
    BY DEF Init, Waiting
  <2>2. DOMAIN Waiting = {} /\ received = 0 /\ done = {}
    BY <2>1 DEF Init
  <2> QED
    BY <2>2 DEF QueueInv, InOrder
<1>7. /\ \A x \in Places : Parts[x] = <<>>
  BY ProcessorNames DEF Init, Parts, Places
<1>8. Held(Parts) = {} /\ Separate(Parts)
  <2>1. \A x \in Places : DOMAIN Parts[x] = {}
    BY <1>7
  <2> QED
    BY <2>1 DEF Held, Separate, ToSet
<1>9. CallbackInv
  BY <1>8 DEF Init, CallbackInv, Exact
<1>10. LoginInv
  BY <1>8 DEF Init, LoginInv
<1> QED
  BY <1>2, <1>3, <1>4, <1>5, <1>6, <1>9, <1>10 DEF SessionInv, TypeOK

-------------------------------------------------------------------------------
(* The theorems.                                                             *)

(* One step of any actor, with what the action properties need of it.        *)
LEMMA NextStep ==
    ASSUME SessionInv, [Next]_vars
    PROVE  /\ SessionInv'
           /\ filter = "map" /\ pc \in {"packets", "callbacks"} => player' = player
           /\ done' = done \/ (ProcessPacket /\ recvQueue # <<>> /\ done' = done \cup {Head(recvQueue).number})
           /\ crashed' => crashed \/ \E cb \in Held(Parts) : cb.kind = "addFriend"
<1>1. CASE \E k \in DOMAIN Opcode : QueuePacket(k)
  <2>1. PICK k \in DOMAIN Opcode : QueuePacket(k)
    BY <1>1
  <2>2. player' = player /\ done' = done /\ crashed' = crashed
    BY <2>1 DEF QueuePacket, playerVars
  <2> QED
    BY <2>1, <2>2, QueuePacketStep
<1>2. CASE \/ CloseSocket \/ LeaveQueue \/ BeginWorldUpdate \/ BeginMapUpdate \/ SkipMapUpdate
           \/ \E q \in 1 .. queries : QueryDone(q)
  <2>1. player' = player /\ done' = done /\ crashed' = crashed
    BY <1>2 DEF CloseSocket, LeaveQueue, BeginWorldUpdate, BeginMapUpdate, SkipMapUpdate, QueryDone, playerVars, loopVars
  <2> QED
    BY <1>2, <2>1, QuietStep
<1>3. CASE ProcessPacket
  <2>1. crashed' = crashed
    BY <1>3 DEF ProcessPacket
  <2> QED
    BY <1>3, <2>1, ProcessPacketStep
<1>4. CASE EndPackets
  <2>1. crashed' = crashed
    BY <1>4 DEF EndPackets
  <2> QED
    BY <1>4, <2>1, EndPacketsStep
<1>5. CASE ProcessCallback
  BY <1>5, ProcessCallbackStep
<1>6. CASE EndProcessor
  <2>1. crashed' = crashed
    BY <1>6 DEF EndProcessor
  <2> QED
    BY <1>6, <2>1, EndProcessorStep
<1>7. CASE EndWorldUpdate
  <2>1. pc = "tail" /\ crashed' = crashed
    BY <1>7 DEF EndWorldUpdate
  <2> QED
    BY <1>7, <2>1, EndWorldUpdateStep
<1>8. CASE DeleteSession
  <2>1. pc = "expired" /\ crashed' = crashed
    BY <1>8 DEF DeleteSession
  <2> QED
    BY <1>8, <2>1, DeleteSessionStep
<1>9. CASE UNCHANGED vars
  <2>1. /\ UNCHANGED <<received, recvQueue, done, requeuePackets, processedPackets>>
        /\ UNCHANGED <<callbacks, updateCallbacks, notReady, queries, ran, proc, ready>>
        /\ UNCHANGED <<pc, filter, sock, forceExit, inQueue, player, inWorld, guid, legit, misread, playerLoading, recentlyLogout,
                       logoutTime, crashed>>
    BY <1>9 DEF vars
  <2>2. requeuePackets # <<>> => pc' = "packets" /\ player' = Null
    BY <2>1 DEF SessionInv, RequeueInv
  <2>3. processedPackets' \in 0 .. Budget + 1 /\ ready' \subseteq (1 .. queries) \ ran
    BY <2>1 DEF SessionInv, TypeOK, QueueTypeOK, CallbackTypeOK
  <2>4. QueueTypeOK' /\ RequeueInv' /\ QueueInv'
    BY <2>1, <2>2, <2>3, QueueFrame
  <2>5. CallbackTypeOK' /\ CallbackInv' /\ Held(Parts)' = Held(Parts)
    BY <2>1, <2>3, CallbackFrame
  <2>6. LoginInv'
    BY <2>1, <2>5, LoginFrame
  <2>7. PlayerTypeOK' /\ MapInv'
    BY <2>1 DEF SessionInv, TypeOK, PlayerTypeOK, MapInv
  <2> QED
    BY <2>1, <2>4, <2>5, <2>6, <2>7 DEF SessionInv, TypeOK
<1> QED
  BY <1>1, <1>2, <1>3, <1>4, <1>5, <1>6, <1>7, <1>8, <1>9 DEF Next, WorldStep

(* SessionInv is an invariant of every session: any client, any budget.      *)
THEOREM Inductive == Spec => []SessionInv
<1>1. SessionInv /\ [Next]_vars => SessionInv'
  BY NextStep
<1> QED
  BY <1>1, InitSession, PTL DEF Spec

(* The members of a WorldSession keep their types.                           *)
THEOREM TypeCorrect == Spec => []TypeOK
<1>1. SessionInv => TypeOK
  BY DEF SessionInv
<1> QED
  BY <1>1, Inductive, PTL

(* However the network thread's QueuePacket falls between the steps of the   *)
(* packet loop, and whatever is requeued, no packet is lost, repeated or     *)
(* moved before an earlier one.                                              *)
THEOREM QueueCorrect == Spec => []QueueExact
<1>1. SessionInv => QueueExact
  <2> SUFFICES ASSUME SessionInv, pc # "deleted"
               PROVE  LET numbers == [i \in DOMAIN Waiting |-> Waiting[i].number] IN
                        Increasing(numbers) /\ ToSet(numbers) = (1 .. received) \ done
    BY DEF QueueExact
  <2>0. PICK w, n, d : w = Waiting /\ n = received /\ d = done
    OBVIOUS
  <2>1. InOrder(w, n, d)
    BY <2>0 DEF SessionInv, QueueInv
  <2>2. PICK numbers : numbers = [i \in DOMAIN w |-> w[i].number]
    OBVIOUS
  <2>3. DOMAIN numbers = DOMAIN w /\ \A i \in DOMAIN w : numbers[i] = w[i].number
    BY <2>2
  <2>4. Increasing(numbers)
    BY <2>1, <2>3 DEF Increasing, InOrder
  <2>5. ToSet(numbers) = (1 .. n) \ d
    <3>1. ToSet(numbers) \subseteq (1 .. n) \ d
      BY <2>1, <2>3 DEF InOrder, ToSet
    <3>2. ASSUME NEW k \in (1 .. n) \ d
          PROVE  k \in ToSet(numbers)
      <4>1. PICK i \in DOMAIN w : w[i].number = k
        BY <2>1 DEF InOrder
      <4> QED
        BY <2>3, <4>1 DEF ToSet
    <3> QED
      BY <3>1, <3>2
  <2> QED
    BY <2>0, <2>2, <2>4, <2>5
<1> QED
  BY <1>1, Inductive, PTL

(* Each query that was started is answered to exactly one continuation, or   *)
(* its callback is still held, once.                                         *)
THEOREM CallbackCorrect == Spec => []CallbackExact
<1>1. SessionInv => CallbackExact
  <2> SUFFICES ASSUME SessionInv, pc # "deleted"
               PROVE  LET held == [i \in DOMAIN PendingCallbacks |-> PendingCallbacks[i].query] IN
                        IsInjective(held) /\ ToSet(held) = (1 .. queries) \ ran
    BY DEF CallbackExact
  <2>0. PICK w, n, r : w = PendingCallbacks /\ n = queries /\ r = ran
    OBVIOUS
  <2>1. /\ \A i, j \in DOMAIN w : w[i].query = w[j].query => i = j
        /\ \A cb \in ToSet(w) : cb.query \in (1 .. n) \ r
        /\ \A q \in (1 .. n) \ r : \E cb \in ToSet(w) : cb.query = q
    BY <2>0, PendingFacts DEF SessionInv, CallbackInv, Exact
  <2>2. PICK held : held = [i \in DOMAIN w |-> w[i].query]
    OBVIOUS
  <2>3. DOMAIN held = DOMAIN w /\ \A i \in DOMAIN w : held[i] = w[i].query
    BY <2>2
  <2>4. IsInjective(held)
    BY <2>1, <2>3 DEF IsInjective
  <2>5. ToSet(held) = (1 .. n) \ r
    <3>1. ToSet(held) \subseteq (1 .. n) \ r
      BY <2>1, <2>3 DEF ToSet
    <3>2. ASSUME NEW q \in (1 .. n) \ r
          PROVE  q \in ToSet(held)
      <4>1. PICK i \in DOMAIN w : w[i].query = q
        BY <2>1 DEF ToSet
      <4> QED
        BY <2>3, <4>1 DEF ToSet
    <3> QED
      BY <3>1, <3>2
  <2> QED
    BY <2>0, <2>2, <2>4, <2>5
<1> QED
  BY <1>1, Inductive, PTL

(* m_playerLoading admits one login at a time, across all its updates; it is *)
(* left set when the client is kicked or its packet was too short.           *)
THEOREM LoginCorrect == Spec => []LoginExact
<1>1. SessionInv => LoginExact
  <2> SUFFICES ASSUME SessionInv, pc # "deleted"
               PROVE  /\ Cardinality(PendingLogins) <= 1
                      /\ PendingLogins # {} => playerLoading /\ player = Null
                      /\ playerLoading => PendingLogins # {} \/ forceExit \/ misread
    BY DEF LoginExact
  <2>0. PICK H, L : H = Held(Parts) /\ L = PendingLogins
    OBVIOUS
  <2>1. L = {cb \in H : cb.kind = "playerLogin"}
    BY <2>0, PendingFacts DEF SessionInv, PendingLogins
  <2>2. /\ \A cb, other \in H : cb.kind = "playerLogin" /\ other.kind = "playerLogin" => cb = other
        /\ \A cb \in H : cb.kind = "playerLogin" => playerLoading /\ player = Null
        /\ playerLoading => forceExit \/ misread \/ \E cb \in H : cb.kind = "playerLogin"
    BY <2>0 DEF SessionInv, LoginInv
  <2>3. Cardinality(L) <= 1
    <3>1. CASE L = {}
      BY <3>1, FS_EmptySet
    <3>2. CASE L # {}
      <4>1. PICK cb : cb \in L
        BY <3>2
      <4>2. L = {cb}
        BY <4>1, <2>1, <2>2
      <4>3. Cardinality(L) = 1
        BY <4>2, FS_Singleton
      <4> QED
        BY <4>3
    <3> QED
      BY <3>1, <3>2
  <2>4. L # {} => playerLoading /\ player = Null
    BY <2>1, <2>2
  <2>5. playerLoading => L # {} \/ forceExit \/ misread
    BY <2>1, <2>2
  <2> QED
    BY <2>0, <2>3, <2>4, <2>5
<1> QED
  BY <1>1, Inductive, PTL

(* Nothing that happens inside a map's update takes its player away.         *)
THEOREM MapKeepsPlayer == Spec => NoLogoutInMapUpdate
<1>1. SessionInv /\ [Next]_vars
        => [filter = "map" /\ pc \in {"packets", "callbacks"} => player' = player]_vars
  BY NextStep
<1> QED
  BY <1>1, Inductive, PTL DEF Spec, NoLogoutInMapUpdate

(* Only packets that wait for a login are overtaken.                         *)
THEOREM OrderKept == Spec => OvertakesOnlyBeforeLogin
<1>1. SessionInv /\ [Next]_vars
        => [\A i \in done' \ done : \A p \in ToSet(Waiting) : p.number < i => Status(p) = "LOGGEDIN" /\ player = Null]_vars
  <2> SUFFICES ASSUME SessionInv, [Next]_vars, NEW i \in done' \ done, NEW p \in ToSet(Waiting), p.number < i
               PROVE  Status(p) = "LOGGEDIN" /\ player = Null
    OBVIOUS
  <2>1. ProcessPacket /\ recvQueue # <<>> /\ i = Head(recvQueue).number
    BY NextStep
  <2>0. PICK a, b, n, d : a = requeuePackets /\ b = recvQueue /\ n = received /\ d = done
    OBVIOUS
  <2>2. a \in Seq(Packet) /\ b \in Seq(Packet) /\ n \in Nat /\ InOrder(a \o b, n, d) /\ b # <<>>
    <3>1. MaxPackets \in Nat
      BY ClientAssumption DEF MaxPackets
    <3> QED
      BY <2>0, <2>1, <3>1 DEF SessionInv, TypeOK, QueueTypeOK, QueueInv, Waiting, ProcessPacket
  <2>3. PICK j \in DOMAIN (a \o b) : p = (a \o b)[j]
    BY <2>0 DEF Waiting, ToSet
  <2>4. (a \o b)[j].number < Head(b).number
    BY <2>0, <2>1, <2>3
  <2>5. j \in DOMAIN a /\ (a \o b)[j] = a[j]
    <3>1. \A m \in DOMAIN (a \o b) : (a \o b)[m].number < Head(b).number => m \in DOMAIN a /\ (a \o b)[m] = a[m]
      BY <2>2, OrderRemove
    <3> QED
      BY <2>4, <3>1
  <2>6. Status(p) = "LOGGEDIN"
    BY <2>0, <2>3, <2>5 DEF SessionInv, RequeueInv
  <2>7. a # <<>>
    BY <2>5
  <2> QED
    BY <2>0, <2>6, <2>7 DEF SessionInv, RequeueInv
<1> QED
  BY <1>1, Inductive, PTL DEF Spec, OvertakesOnlyBeforeLogin

(* A session whose client never adds a friend uses no null player: the test  *)
(* in the continuation of HandleSendMail is enough. (That of                 *)
(* HandleAddFriendOpcode is not.)                                            *)
THEOREM MailFindsPlayer ==
    ASSUME \A n \in DOMAIN Client : "addFriend" \notin Client[n]
    PROVE  Spec => []NoNullPlayer
<1>1. Init => NoNullPlayer
  BY DEF Init, NoNullPlayer
<1>2. SessionInv /\ NoNullPlayer /\ [Next]_vars => NoNullPlayer'
  <2> SUFFICES ASSUME SessionInv, NoNullPlayer, [Next]_vars
               PROVE  NoNullPlayer'
    OBVIOUS
  <2>1. "addFriend" \notin Sent
    BY DEF Sent
  <2>2. \A cb \in Held(Parts) : cb.kind # "addFriend"
    <3> SUFFICES ASSUME NEW cb \in Held(Parts) PROVE cb.kind # "addFriend"
      OBVIOUS
    <3>1. Parts \in [Places -> Seq(Callback)]
      BY PartsFacts DEF SessionInv
    <3>2. cb \in Callback
      BY <3>1 DEF Held, ToSet
    <3> QED
      BY <2>1, <3>2 DEF Callback, Kinds
  <2> QED
    BY <2>2, NextStep DEF NoNullPlayer
<1> QED
  BY <1>1, <1>2, Inductive, PTL DEF Spec
=============================================================================
