--------------------------- MODULE MapUpdaterProofs ---------------------------
(* Proofs that the threads that update the maps never share a map, for any     *)
(* number of workers, base maps and instances.                                 *)
EXTENDS MapUpdater, FiniteSetTheorems, TLAPS

Inv ==
    /\ TypeOK /\ PlaceInv /\ CountInv
    /\ WorldAlone /\ NoDeletedMap /\ OneUpdater /\ TurnInv

ElementsOf(q) == {q[k] : k \in DOMAIN q}
Distinct(q) == \A j, k \in DOMAIN q : q[j] = q[k] => j = k

(* What a push does to the requests.                                           *)
LEMMA PushFacts ==
    ASSUME NEW q \in Seq(Maps), NEW m \in Maps, m \notin ElementsOf(q), Distinct(q)
    PROVE  /\ Append(q, m) \in Seq(Maps) /\ Len(Append(q, m)) = Len(q) + 1
           /\ ElementsOf(Append(q, m)) = ElementsOf(q) \cup {m}
           /\ Distinct(Append(q, m)) /\ Append(q, m) # <<>>
<1> DEFINE r == Append(q, m)
<1>1. /\ r \in Seq(Maps) /\ Len(r) = Len(q) + 1 /\ r[Len(q) + 1] = m
      /\ \A k \in 1..Len(q) : r[k] = q[k]
      /\ Len(q) \in Nat /\ DOMAIN q = 1..Len(q)
  OBVIOUS
<1> HIDE DEF r
<1>2. DOMAIN r = 1..(Len(q) + 1)
  BY <1>1
<1>3. ElementsOf(r) = ElementsOf(q) \cup {m}
  BY <1>1, <1>2 DEF ElementsOf
<1>4. Distinct(r)
  BY <1>1, <1>2 DEF Distinct, ElementsOf
<1>5. r # <<>>
  BY <1>1
<1> QED
  BY <1>1, <1>3, <1>4, <1>5 DEF r

(* What a pop does to the requests.                                            *)
LEMMA PopFacts ==
    ASSUME NEW q \in Seq(Maps), q # <<>>, Distinct(q)
    PROVE  /\ Tail(q) \in Seq(Maps) /\ Len(Tail(q)) = Len(q) - 1
           /\ Head(q) \in Maps /\ Head(q) \in ElementsOf(q)
           /\ ElementsOf(Tail(q)) = ElementsOf(q) \ {Head(q)}
           /\ Distinct(Tail(q))
<1> DEFINE r == Tail(q)
<1>1. /\ r \in Seq(Maps) /\ Len(r) = Len(q) - 1
      /\ \A k \in 1..(Len(q) - 1) : r[k] = q[k + 1]
      /\ Len(q) \in Nat /\ Len(q) > 0 /\ DOMAIN q = 1..Len(q)
      /\ Head(q) = q[1] /\ Head(q) \in Maps
  OBVIOUS
<1> HIDE DEF r
<1>2. DOMAIN r = 1..(Len(q) - 1) /\ 1 \in DOMAIN q
  BY <1>1
<1>3. \A k \in DOMAIN r : k + 1 \in DOMAIN q /\ r[k] = q[k + 1] /\ k + 1 # 1 /\ k \in Nat
  BY <1>1, <1>2
<1>4. \A j \in DOMAIN q : j = 1 \/ (j - 1 \in DOMAIN r /\ (j - 1) + 1 = j)
  BY <1>1, <1>2
<1>5. ElementsOf(r) \subseteq ElementsOf(q) \ {Head(q)}
  BY <1>1, <1>2, <1>3 DEF ElementsOf, Distinct
<1>6. ASSUME NEW x \in ElementsOf(q) \ {Head(q)} PROVE x \in ElementsOf(r)
  <2>1. PICK j \in DOMAIN q : q[j] = x
    BY DEF ElementsOf
  <2>2. j - 1 \in DOMAIN r /\ (j - 1) + 1 = j
    BY <1>1, <1>4, <2>1
  <2>3. r[j - 1] = x
    BY <1>3, <2>1, <2>2
  <2> QED
    BY <2>2, <2>3 DEF ElementsOf
<1>7. Distinct(r)
  BY <1>3 DEF Distinct
<1>8. Head(q) \in ElementsOf(q)
  BY <1>1, <1>2 DEF ElementsOf
<1> QED
  BY <1>1, <1>5, <1>6, <1>7, <1>8 DEF r

(* Busy is finite, so counting it makes sense.                                 *)
LEMMA BusyFinite ==
    /\ IsFiniteSet(Busy) /\ Cardinality(Busy) \in Nat
    /\ Cardinality(Busy) = 0 => Busy = {}
<1>1. IsFiniteSet(Busy)
  BY WorkersAssumption, FS_Subset DEF Busy
<1> QED
  BY <1>1, FS_CardinalityType, FS_EmptySet
-----------------------------------------------------------------------------
(* A step of the world thread that leaves the requests and the workers alone.  *)
LEMMA ControlKeeps ==
    ASSUME Inv, UNCHANGED <<pc, request, left, queue, pending, shutdown>>,
           wpc' \in WorldPlaces, todo' \subseteq Bases, todo' \subseteq live', token' \in BOOLEAN,
           live' \subseteq Maps, timer' \subseteq Instances, inside' \subseteq Instances,
           updated' \in [Maps -> Nat],
           todo' # {} => wpc' = "schedule",
           token' <=> wpc' \in {"lastwait", "lastsleep", "cancel", "join", "done"},
           token => token', shutdown => wpc' \in {"join", "done"},
           (wpc' \in {"schedule", "wait", "asleep"} /\ todo' \subseteq todo) \/ (queue = <<>> /\ Busy = {}),
           live \subseteq live' \/ (queue = <<>> /\ Busy = {})
    PROVE  Inv'
<1>1. TypeOK'
  BY DEF Inv, TypeOK
<1>2. PlaceInv'
  BY DEF Inv, PlaceInv
<1>3. CountInv'
  BY DEF Inv, CountInv, Busy
<1>4. WorldAlone'
  BY DEF Inv, WorldAlone, Busy
<1>5. Busy = {} => \A w \in Workers : request[w] = None /\ left[w] = {}
  BY DEF Inv, PlaceInv, Busy
<1>6. queue = <<>> => Queued = {}
  BY DEF Queued
<1>0. Queued' = Queued /\ Busy' = Busy
  BY DEF Queued, Busy
<1>7. NoDeletedMap'
  BY <1>5, <1>6, <1>0 DEF Inv, NoDeletedMap, Busy
<1>8. OneUpdater'
  BY <1>0 DEF Inv, OneUpdater
<1>9. TurnInv'
  <2>1. \A m \in todo' : m \notin Queued' /\ \A w \in Workers : request'[w] # m
    <3>1. CASE todo' \subseteq todo
      BY <1>0, <3>1 DEF Inv, TurnInv
    <3>2. CASE queue = <<>> /\ Busy = {}
      BY <1>5, <1>6, <1>0, <3>2, MapsAssumption
    <3> QED
      BY <3>1, <3>2
  <2>2. \A v \in Workers : \A i \in left'[v] :
           i \notin Queued' /\ \A w \in Workers : request'[w] # i
    BY <1>0 DEF Inv, TurnInv
  <2>3. \A i \in Instances : (i \in Queued' \/ \E w \in Workers : request'[w] = i) =>
           /\ Parent[i] \notin todo' \cup Queued'
           /\ \A w \in Workers : request'[w] = Parent[i] => pc'[w] \in {"instances", "finish"}
    <3>1. CASE todo' \subseteq todo
      BY <1>0, <3>1 DEF Inv, TurnInv
    <3>2. CASE queue = <<>> /\ Busy = {}
      BY <1>5, <1>6, <1>0, <3>2, MapsAssumption
    <3> QED
      BY <3>1, <3>2
  <2> QED
    BY <2>1, <2>2, <2>3 DEF TurnInv
<1> QED
  BY <1>1, <1>2, <1>3, <1>4, <1>7, <1>8, <1>9 DEF Inv

(* Outside a pass there are no requests and nobody visits instances.           *)
LEMMA AloneFacts ==
    ASSUME Inv, wpc \notin {"schedule", "wait", "asleep"}
    PROVE  queue = <<>> /\ Busy = {} /\ \A w \in Workers : request[w] = None /\ left[w] = {}
BY DEF Inv, WorldAlone, PlaceInv, Busy

(* The pass of the world thread, its work between passes, and the shutdown.    *)
LEMMA WorldKeeps ==
    ASSUME Inv,
           \/ BeginUpdate \/ EndSchedule \/ Wait \/ DelayedUpdate \/ Deactivate \/ Join \/ UnloadAll
           \/ \E i \in Instances :
                 CreateInstance(i) \/ AddPlayerToMap(i) \/ RemovePlayerFromMap(i) \/ SetUnload(i)
    PROVE  Inv'
<1> USE DEF WorldPlaces
<1>1. TypeOK /\ PlaceInv /\ todo \subseteq live
  BY DEF Inv, TurnInv
<1>2. CASE BeginUpdate
  <2>1. /\ wpc = "run" /\ wpc' = "schedule" /\ todo' = live \cap Bases
        /\ updated' = [m \in Maps |-> 0]
        /\ UNCHANGED <<pc, request, left, queue, shutdown, token, pending, live, timer, inside>>
    BY <1>2 DEF BeginUpdate, workers, requests
  <2>2. updated' \in [Maps -> Nat] /\ queue = <<>> /\ Busy = {}
    BY <2>1, AloneFacts
  <2> QED
    BY <1>1, <2>1, <2>2, ControlKeeps DEF TypeOK, PlaceInv
<1>3. CASE EndSchedule
  <2>1. /\ wpc = "schedule" /\ wpc' = "wait" /\ todo = {}
        /\ UNCHANGED <<todo, pc, request, left, queue, shutdown, token, pending, live, timer, inside, updated>>
    BY <1>3 DEF EndSchedule, workers, requests, maps
  <2> QED
    BY <1>1, <2>1, ControlKeeps DEF TypeOK, PlaceInv
<1>4. CASE Wait
  <2>1. UNCHANGED <<todo, pc, request, left, queue, shutdown, token, pending, live, timer, inside, updated>>
    BY <1>4 DEF Wait, workers, requests, maps
  <2>2. CASE wpc = "wait" /\ pending = 0
    <3>1. queue = <<>> /\ Busy = {}
      <4>1. Len(queue) \in Nat /\ Len(queue) + Cardinality(Busy) = 0 /\ Cardinality(Busy) \in Nat
        BY <1>1, <2>2, BusyFinite DEF Inv, CountInv, TypeOK
      <4>2. Len(queue) = 0 /\ Cardinality(Busy) = 0
        BY <4>1
      <4> QED
        BY <1>1, <4>2, BusyFinite DEF TypeOK
    <3>2. wpc' = "delayed"
      BY <1>4, <2>2 DEF Wait
    <3> QED
      BY <1>1, <2>1, <2>2, <3>1, <3>2, ControlKeeps DEF TypeOK, PlaceInv
  <2>3. CASE wpc = "wait" /\ pending # 0
    <3>1. wpc' = "asleep"
      BY <1>4, <2>3 DEF Wait
    <3> QED
      BY <1>1, <2>1, <2>3, <3>1, ControlKeeps DEF TypeOK, PlaceInv
  <2>4. CASE wpc = "lastwait"
    <3>1. wpc' \in {"cancel", "lastsleep"} /\ queue = <<>> /\ Busy = {}
      BY <1>4, <2>4, AloneFacts DEF Wait
    <3> QED
      BY <1>1, <2>1, <2>4, <3>1, ControlKeeps DEF TypeOK, PlaceInv
  <2> QED
    BY <1>4, <2>2, <2>3, <2>4 DEF Wait
<1>5. CASE DelayedUpdate
  <2>1. /\ wpc = "delayed" /\ wpc' = "run"
        /\ UNCHANGED <<todo, pc, request, left, queue, shutdown, token, pending, live, timer, inside, updated>>
    BY <1>5 DEF DelayedUpdate, workers, requests, maps
  <2>2. queue = <<>> /\ Busy = {}
    BY <2>1, AloneFacts
  <2> QED
    BY <1>1, <2>1, <2>2, ControlKeeps DEF TypeOK, PlaceInv
<1>6. CASE Deactivate
  <2>1. /\ wpc = "deactivate" /\ wpc' = "lastwait" /\ token' = TRUE
        /\ UNCHANGED <<todo, pc, request, left, queue, shutdown, pending, live, timer, inside, updated>>
    BY <1>6 DEF Deactivate, workers, maps
  <2>2. queue = <<>> /\ Busy = {}
    BY <2>1, AloneFacts
  <2> QED
    BY <1>1, <2>1, <2>2, ControlKeeps DEF TypeOK, PlaceInv
<1>7. CASE Join
  <2>1. /\ wpc = "join" /\ wpc' = "done"
        /\ UNCHANGED <<todo, pc, request, left, queue, shutdown, token, pending, live, timer, inside, updated>>
    BY <1>7 DEF Join, workers, requests, maps
  <2>2. queue = <<>> /\ Busy = {}
    BY <2>1, AloneFacts
  <2> QED
    BY <1>1, <2>1, <2>2, ControlKeeps DEF TypeOK, PlaceInv
<1>8. CASE UnloadAll
  <2>1. /\ wpc = "run" /\ wpc' = "deactivate" /\ live' = {} /\ timer' = {}
        /\ UNCHANGED <<todo, pc, request, left, queue, shutdown, token, pending, inside, updated>>
    BY <1>8 DEF UnloadAll, workers, requests
  <2>2. queue = <<>> /\ Busy = {} /\ todo = {}
    BY <1>1, <2>1, AloneFacts DEF PlaceInv
  <2> QED
    BY <1>1, <2>1, <2>2, ControlKeeps DEF TypeOK, PlaceInv
<1>9. ASSUME NEW i \in Instances,
             CreateInstance(i) \/ AddPlayerToMap(i) \/ RemovePlayerFromMap(i) \/ SetUnload(i)
      PROVE  Inv'
  <2>1. /\ wpc = "run" /\ live \subseteq live' /\ live' \subseteq live \cup {i}
        /\ timer' \subseteq timer \cup {i} /\ inside' \subseteq inside \cup {i}
        /\ UNCHANGED <<wpc, todo, pc, request, left, queue, shutdown, token, pending, updated>>
    BY <1>9 DEF CreateInstance, AddPlayerToMap, RemovePlayerFromMap, LastPlayerLeaves, SetUnload,
                world, workers, requests
  <2>2. queue = <<>> /\ Busy = {}
    BY <2>1, AloneFacts
  <2>3. live' \subseteq Maps /\ timer' \subseteq Instances /\ inside' \subseteq Instances
    BY <1>1, <2>1 DEF TypeOK, Maps
  <2> QED
    BY <1>1, <2>1, <2>2, <2>3, ControlKeeps DEF TypeOK, PlaceInv
<1> QED
  BY <1>2, <1>3, <1>4, <1>5, <1>6, <1>7, <1>8, <1>9
-----------------------------------------------------------------------------
(* A step that only moves workers, none of which gives up what it holds.       *)
LEMMA PlaceKeeps ==
    ASSUME Inv, UNCHANGED <<wpc, todo, request, left, queue, shutdown, token, pending, maps>>,
           pc' \in [Workers -> WorkerPlaces],
           \A w \in Workers : \/ pc'[w] = pc[w]
                              \/ /\ request[w] = None /\ left[w] = {}
                                 /\ pc'[w] \in {"pop", "asleep", "gone"} \/ (pc'[w] = "check" /\ token)
                              \/ /\ request[w] # None
                                 /\ pc[w] = "check" /\ pc'[w] = "update"
                              \/ /\ request[w] # None /\ left[w] = {}
                                 /\ pc[w] = "instances" /\ pc'[w] = "finish"
    PROVE  Inv'
<1>0. Queued' = Queued /\ Busy' = Busy
  BY DEF Queued, Busy
<1>1. TypeOK'
  BY DEF Inv, TypeOK, maps
<1>2. PlaceInv'
  <2>1. \A w \in Workers :
          /\ request'[w] # None => pc'[w] \in {"check", "update", "instances", "finish"}
          /\ pc'[w] \in {"update", "instances", "finish"} => request'[w] # None
          /\ left'[w] # {} => pc'[w] = "instances"
          /\ \A i \in left'[w] : Parent[i] = request'[w]
    BY DEF Inv, PlaceInv
  <2>2. \A w \in Workers : pc'[w] = "check" => request'[w] # None \/ token'
    BY DEF Inv, PlaceInv
  <2> QED
    BY <2>1, <2>2 DEF Inv, PlaceInv
<1>3. CountInv' /\ WorldAlone'
  BY <1>0 DEF Inv, CountInv, WorldAlone
<1>4. NoDeletedMap' /\ OneUpdater'
  BY <1>0 DEF Inv, NoDeletedMap, OneUpdater, maps
<1>5. TurnInv'
  <2>1. \A m \in todo' : m \notin Queued' /\ \A w \in Workers : request'[w] # m
    BY <1>0 DEF Inv, TurnInv
  <2>2. \A v \in Workers : \A i \in left'[v] :
           i \notin Queued' /\ \A w \in Workers : request'[w] # i
    BY <1>0 DEF Inv, TurnInv
  <2>3. \A i \in Instances : (i \in Queued' \/ \E w \in Workers : request'[w] = i) =>
           /\ Parent[i] \notin todo' \cup Queued'
           /\ \A w \in Workers : request'[w] = Parent[i] => pc'[w] \in {"instances", "finish"}
    <3> SUFFICES ASSUME NEW i \in Instances, i \in Queued \/ \E w \in Workers : request[w] = i
                 PROVE  /\ Parent[i] \notin todo \cup Queued
                        /\ \A w \in Workers : request[w] = Parent[i] => pc'[w] \in {"instances", "finish"}
      BY <1>0
    <3>1. /\ Parent[i] \notin todo \cup Queued
          /\ \A w \in Workers : request[w] = Parent[i] => pc[w] \in {"instances", "finish"}
      BY DEF Inv, TurnInv
    <3>2. Parent[i] # None
      BY MapsAssumption
    <3> QED
      BY <3>1, <3>2
  <2> QED
    BY <2>1, <2>2, <2>3 DEF Inv, TurnInv, maps
<1> QED
  BY <1>1, <1>2, <1>3, <1>4, <1>5 DEF Inv

(* schedule_update of a map whose turn it is.                                  *)
LEMMA ScheduleKeeps ==
    ASSUME Inv, NEW m \in live, Schedule(m), wpc \in {"schedule", "wait", "asleep"},
           m \notin Queued, \A w \in Workers : request[w] # m,
           UNCHANGED <<wpc, request, shutdown, token, maps>>,
           todo' = todo \ {m}, left' = [w \in Workers |-> left[w] \ {m}],
           \A i \in Instances : Parent[i] = m =>
              i \notin Queued /\ \A w \in Workers : request[w] # i,
           m \in Instances =>
              /\ Parent[m] \notin todo \cup Queued
              /\ \A w \in Workers : request[w] = Parent[m] => pc[w] \in {"instances", "finish"}
    PROVE  Inv'
<1>1. /\ TypeOK /\ Distinct(queue) /\ queue \in Seq(Maps) /\ m \in Maps
      /\ Queued = ElementsOf(queue)
  BY DEF Inv, TypeOK, OneUpdater, Distinct, Queued, ElementsOf
<1>2. /\ queue' \in Seq(Maps) /\ Len(queue') = Len(queue) + 1
      /\ Queued' = Queued \cup {m} /\ Distinct(queue')
  <2>1. queue' = Append(queue, m) /\ Queued' = ElementsOf(queue')
    BY DEF Schedule, Queued, ElementsOf
  <2> QED
    BY <1>1, <2>1, PushFacts
<1>3. /\ pc' \in [Workers -> WorkerPlaces]
      /\ \A w \in Workers : pc'[w] = pc[w] \/ (pc[w] = "asleep" /\ pc'[w] = "pop")
  BY <1>1 DEF Schedule, TypeOK, WorkerPlaces
<1>4. Busy' = Busy
  BY DEF Busy
<1>5. TypeOK'
  BY <1>1, <1>2, <1>3 DEF TypeOK, Schedule, maps
<1>6. PlaceInv'
  <2>1. \A w \in Workers :
          /\ request'[w] # None => pc'[w] \in {"check", "update", "instances", "finish"}
          /\ pc'[w] \in {"update", "instances", "finish"} => request'[w] # None
          /\ left'[w] # {} => pc'[w] = "instances"
          /\ \A i \in left'[w] : Parent[i] = request'[w]
    BY <1>3 DEF Inv, PlaceInv
  <2>2. \A w \in Workers : pc'[w] = "check" => request'[w] # None \/ token'
    BY <1>3 DEF Inv, PlaceInv
  <2> QED
    BY <2>1, <2>2 DEF Inv, PlaceInv
<1>7. CountInv'
  <2>1. pending' = pending + 1 /\ Len(queue) \in Nat
    BY <1>1 DEF Schedule
  <2> QED
    BY <1>2, <1>4, <2>1, BusyFinite DEF Inv, CountInv
<1>8. WorldAlone'
  BY DEF WorldAlone
<1>9. NoDeletedMap'
  BY <1>2, <1>4 DEF Inv, NoDeletedMap, maps
<1>10. OneUpdater'
  <2>1. \A w \in Busy' : request'[w] \notin Queued'
    BY <1>2, <1>4 DEF Inv, OneUpdater, Busy
  <2> QED
    BY <1>2, <1>4, <2>1 DEF Inv, OneUpdater, Distinct
<1>11. TurnInv'
  <2>1. \A x \in todo' : x \notin Queued' /\ \A w \in Workers : request'[w] # x
    BY <1>2 DEF Inv, TurnInv
  <2>2. \A v \in Workers : \A i \in left'[v] :
           i \notin Queued' /\ \A w \in Workers : request'[w] # i
    BY <1>2 DEF Inv, TurnInv
  <2>3. ASSUME NEW i \in Instances, i \in Queued' \/ \E w \in Workers : request'[w] = i
        PROVE  /\ Parent[i] \notin todo' \cup Queued'
               /\ \A w \in Workers : request'[w] = Parent[i] => pc'[w] \in {"instances", "finish"}
    <3>1. /\ Parent[i] \notin todo \cup Queued
          /\ \A w \in Workers : request[w] = Parent[i] => pc[w] \in {"instances", "finish"}
      BY <1>2, <2>3 DEF Inv, TurnInv
    <3>2. Parent[i] # m
      BY <1>2, <2>3, MapsAssumption
    <3> QED
      BY <1>2, <1>3, <3>1, <3>2
  <2> QED
    BY <2>1, <2>2, <2>3 DEF Inv, TurnInv, maps
<1> QED
  BY <1>5, <1>6, <1>7, <1>8, <1>9, <1>10, <1>11 DEF Inv

(* The world thread schedules a base map.                                      *)
LEMMA ScheduleBaseKeeps ==
    ASSUME Inv, ScheduleBase
    PROVE  Inv'
<1>1. PICK m \in todo : Schedule(m) /\ todo' = todo \ {m}
  BY DEF ScheduleBase
<1>2. /\ wpc = "schedule" /\ UNCHANGED <<wpc, request, left, shutdown, token, maps>>
      /\ m \in live /\ m \in Bases
      /\ m \notin Queued /\ \A w \in Workers : request[w] # m
  BY DEF ScheduleBase, Inv, TurnInv, TypeOK
<1>3. \A i \in Instances : Parent[i] = m => i \notin Queued /\ \A w \in Workers : request[w] # i
  BY DEF Inv, TurnInv
<1>4. m \notin Instances
  BY <1>2, MapsAssumption
<1>5. left' = [w \in Workers |-> left[w] \ {m}]
  <2>1. left \in [Workers -> SUBSET Instances]
    BY DEF Inv, TypeOK
  <2>2. \A w \in Workers : left[w] \ {m} = left[w]
    BY <1>4, <2>1
  <2> QED
    BY <1>2, <2>1, <2>2
<1> QED
  BY <1>1, <1>2, <1>3, <1>4, <1>5, ScheduleKeeps

(* Cancel finds no request.                                                    *)
LEMMA CancelKeeps ==
    ASSUME Inv, Cancel
    PROVE  Inv'
<1>1. /\ wpc = "cancel" /\ wpc' = "join" /\ queue' = <<>> /\ shutdown' = TRUE
      /\ pc' = [w \in Workers |-> IF pc[w] = "asleep" THEN "pop" ELSE pc[w]]
      /\ UNCHANGED <<todo, request, left, token, pending, live, timer, inside, updated>>
  BY DEF Cancel, maps
<1>2. /\ queue = <<>> /\ Busy = {} /\ todo = {}
      /\ \A w \in Workers : request[w] = None /\ left[w] = {}
  BY <1>1, AloneFacts DEF Inv, PlaceInv
<1>3. Queued' = {} /\ Busy' = Busy
  BY <1>1 DEF Queued, Busy
<1>4. pc' \in [Workers -> WorkerPlaces]
  BY <1>1 DEF Inv, TypeOK, WorkerPlaces
<1>5. TypeOK'
  BY <1>1, <1>4 DEF Inv, TypeOK, WorldPlaces
<1>6. PlaceInv'
  <2>1. \A w \in Workers :
          /\ request'[w] # None => pc'[w] \in {"check", "update", "instances", "finish"}
          /\ pc'[w] \in {"update", "instances", "finish"} => request'[w] # None
          /\ left'[w] # {} => pc'[w] = "instances"
          /\ \A i \in left'[w] : Parent[i] = request'[w]
    BY <1>1, <1>2 DEF Inv, PlaceInv
  <2>2. PICK t : t = token
    OBVIOUS
  <2>3. \A w \in Workers : pc'[w] = "check" => request'[w] # None \/ t
    BY <1>1, <2>2 DEF Inv, PlaceInv
  <2>4. token /\ todo' = {}
    BY <1>1, <1>2 DEF Inv, PlaceInv
  <2> QED
    BY <1>1, <2>1, <2>2, <2>3, <2>4 DEF PlaceInv
<1>7. CountInv' /\ WorldAlone'
  BY <1>1, <1>2, <1>3 DEF Inv, CountInv, WorldAlone
<1>8. NoDeletedMap' /\ OneUpdater' /\ TurnInv'
  <2>1. /\ todo' = {} /\ DOMAIN queue' = {}
        /\ \A w \in Workers : request'[w] = None /\ left'[w] = {}
    BY <1>1, <1>2
  <2>2. NoDeletedMap' /\ OneUpdater'
    BY <1>2, <1>3, <2>1 DEF NoDeletedMap, OneUpdater
  <2>3. \A i \in Instances : i # None
    BY MapsAssumption
  <2>4. TurnInv'
    BY <1>3, <2>1, <2>3 DEF TurnInv
  <2> QED
    BY <2>2, <2>4
<1> QED
  BY <1>5, <1>6, <1>7, <1>8 DEF Inv

(* A worker takes a request.                                                   *)
LEMMA PopKeeps ==
    ASSUME Inv, NEW w \in Workers, pc[w] = "pop", queue # <<>>, ~shutdown,
           request' = [request EXCEPT ![w] = Head(queue)], queue' = Tail(queue),
           pc' = [pc EXCEPT ![w] = "check"],
           UNCHANGED <<wpc, todo, left, shutdown, token, pending, maps>>
    PROVE  Inv'
<1>1. /\ TypeOK /\ Distinct(queue) /\ queue \in Seq(Maps) /\ Queued = ElementsOf(queue)
  BY DEF Inv, TypeOK, OneUpdater, Distinct, Queued, ElementsOf
<1>2. PICK m : m = Head(queue)
  OBVIOUS
<1>3. /\ queue' \in Seq(Maps) /\ Len(queue') = Len(queue) - 1 /\ m \in Maps /\ m \in Queued
      /\ Queued' = Queued \ {m} /\ Distinct(queue')
  <2>1. Queued' = ElementsOf(queue')
    BY DEF Queued, ElementsOf
  <2> QED
    BY <1>1, <1>2, <2>1, PopFacts
<1>4. /\ request[w] = None /\ m # None
      /\ \A v \in Workers : request[v] # m
      /\ wpc \in {"schedule", "wait", "asleep"}
  <2>1. request[w] = None
    BY DEF Inv, PlaceInv
  <2>2. m # None
    BY <1>3, MapsAssumption DEF Maps
  <2>3. \A v \in Workers : request[v] # m
    BY <1>3, <2>2 DEF Inv, OneUpdater, Busy
  <2> QED
    BY <2>1, <2>2, <2>3 DEF Inv, WorldAlone
<1>5. /\ request' = [request EXCEPT ![w] = m] /\ request'[w] = m /\ pc'[w] = "check"
      /\ \A v \in Workers : v # w => request'[v] = request[v] /\ pc'[v] = pc[v]
  BY <1>1, <1>2 DEF TypeOK
<1>6. Busy' = Busy \cup {w} /\ w \notin Busy
  BY <1>4, <1>5 DEF Busy
<1>7. TypeOK'
  BY <1>1, <1>3, <1>5 DEF TypeOK, WorkerPlaces, maps
<1>8. PlaceInv'
  <2>1. left[w] = {}
    BY DEF Inv, PlaceInv
  <2>2. \A v \in Workers :
          /\ request'[v] # None => pc'[v] \in {"check", "update", "instances", "finish"}
          /\ pc'[v] \in {"update", "instances", "finish"} => request'[v] # None
          /\ left'[v] # {} => pc'[v] = "instances"
          /\ \A i \in left'[v] : Parent[i] = request'[v]
    BY <1>4, <1>5, <2>1 DEF Inv, PlaceInv
  <2>3. \A v \in Workers : pc'[v] = "check" => request'[v] # None \/ token'
    BY <1>4, <1>5 DEF Inv, PlaceInv
  <2> QED
    BY <2>2, <2>3 DEF Inv, PlaceInv
<1>9. CountInv'
  <2>1. Cardinality(Busy') = Cardinality(Busy) + 1
    BY <1>6, BusyFinite, FS_AddElement
  <2>2. Len(queue) \in Nat
    BY <1>1
  <2> QED
    BY <1>3, <2>1, <2>2, BusyFinite DEF Inv, CountInv
<1>10. WorldAlone'
  BY <1>4 DEF WorldAlone
<1>11. NoDeletedMap'
  BY <1>3, <1>5, <1>6 DEF Inv, NoDeletedMap, maps
<1>12. OneUpdater'
  <2>1. \A u, v \in Busy' : request'[u] = request'[v] => u = v
    BY <1>4, <1>5, <1>6 DEF Inv, OneUpdater, Busy
  <2>2. \A v \in Busy' : request'[v] \notin Queued'
    BY <1>3, <1>5, <1>6 DEF Inv, OneUpdater, Busy
  <2> QED
    BY <1>3, <2>1, <2>2 DEF OneUpdater, Distinct
<1>13. TurnInv'
  <2>1. \A x \in todo' : x \notin Queued' /\ \A v \in Workers : request'[v] # x
    BY <1>3, <1>5 DEF Inv, TurnInv
  <2>2. \A u \in Workers : \A i \in left'[u] :
           i \notin Queued' /\ \A v \in Workers : request'[v] # i
    BY <1>3, <1>5 DEF Inv, TurnInv
  <2>3. ASSUME NEW i \in Instances, i \in Queued' \/ \E v \in Workers : request'[v] = i
        PROVE  /\ Parent[i] \notin todo' \cup Queued'
               /\ \A v \in Workers : request'[v] = Parent[i] => pc'[v] \in {"instances", "finish"}
    <3>1. i \in Queued \/ \E v \in Workers : request[v] = i
      BY <1>3, <1>5, <2>3
    <3>2. /\ Parent[i] \notin todo \cup Queued
          /\ \A v \in Workers : request[v] = Parent[i] => pc[v] \in {"instances", "finish"}
      BY <3>1 DEF Inv, TurnInv
    <3> QED
      BY <1>3, <1>5, <3>2
  <2> QED
    BY <2>1, <2>2, <2>3 DEF Inv, TurnInv, maps
<1> QED
  BY <1>7, <1>8, <1>9, <1>10, <1>11, <1>12, <1>13 DEF Inv

(* A worker updates its map and finds the instances of it.                     *)
LEMMA UpdateKeeps ==
    ASSUME Inv, NEW w \in Workers, Update(w)
    PROVE  Inv'
<1>1. PICK m : m = request[w]
  OBVIOUS
<1>2. /\ TypeOK /\ pc[w] = "update" /\ m # None /\ m \in Maps
      /\ updated' = [updated EXCEPT ![m] = @ + 1]
      /\ left' = [left EXCEPT ![w] = {i \in live \cap Instances : Parent[i] = m}]
      /\ pc' = [pc EXCEPT ![w] = IF m \in Bases THEN "instances" ELSE "finish"]
      /\ UNCHANGED <<wpc, todo, request, queue, shutdown, token, pending, live>>
  BY <1>1 DEF Inv, TypeOK, Update, world, requests
<1>3. timer' \subseteq Instances /\ inside' \subseteq Instances
  <2>1. CASE UNCHANGED <<timer, inside>>
    BY <1>2, <2>1 DEF TypeOK
  <2>2. CASE LastPlayerLeaves(request[w])
    BY <1>2, <2>2 DEF TypeOK, LastPlayerLeaves
  <2> QED
    BY <2>1, <2>2 DEF Update
<1>4. Queued' = Queued /\ Busy' = Busy
  BY <1>2 DEF Queued, Busy
<1>5. /\ pc'[w] \in {"instances", "finish"}
      /\ \A v \in Workers : v # w => pc'[v] = pc[v] /\ left'[v] = left[v]
      /\ left'[w] = {i \in live \cap Instances : Parent[i] = m}
      /\ left'[w] # {} => pc'[w] = "instances"
  <2>1. /\ pc'[w] = (IF m \in Bases THEN "instances" ELSE "finish")
        /\ \A v \in Workers : v # w => pc'[v] = pc[v] /\ left'[v] = left[v]
        /\ left'[w] = {i \in live \cap Instances : Parent[i] = m}
    BY <1>2 DEF TypeOK
  <2>2. left'[w] # {} => m \in Bases
    BY <2>1, MapsAssumption
  <2> QED
    BY <2>1, <2>2
<1>6. TypeOK'
  <2>1. updated' \in [Maps -> Nat]
    BY <1>2 DEF TypeOK
  <2>2. left' \in [Workers -> SUBSET Instances] /\ pc' \in [Workers -> WorkerPlaces]
    BY <1>2 DEF TypeOK, WorkerPlaces
  <2> QED
    BY <1>2, <1>3, <2>1, <2>2 DEF TypeOK
<1>7. PlaceInv'
  <2>1. \A v \in Workers :
          /\ request'[v] # None => pc'[v] \in {"check", "update", "instances", "finish"}
          /\ pc'[v] \in {"update", "instances", "finish"} => request'[v] # None
          /\ left'[v] # {} => pc'[v] = "instances"
          /\ \A i \in left'[v] : Parent[i] = request'[v]
    BY <1>1, <1>2, <1>5 DEF Inv, PlaceInv
  <2>2. \A v \in Workers : pc'[v] = "check" => request'[v] # None \/ token'
    BY <1>2, <1>5 DEF Inv, PlaceInv
  <2> QED
    BY <1>2, <2>1, <2>2 DEF Inv, PlaceInv
<1>8. CountInv' /\ WorldAlone'
  BY <1>2, <1>4 DEF Inv, CountInv, WorldAlone
<1>9. NoDeletedMap' /\ OneUpdater'
  <2>1. \A v \in Workers : left'[v] \subseteq live
    BY <1>5 DEF Inv, NoDeletedMap
  <2> QED
    BY <1>2, <1>4, <2>1 DEF Inv, NoDeletedMap, OneUpdater
<1>10. TurnInv'
  <2>1. \A x \in todo' : x \notin Queued' /\ \A v \in Workers : request'[v] # x
    BY <1>2, <1>4 DEF Inv, TurnInv
  <2>2. ASSUME NEW u \in Workers, NEW i \in left'[u]
        PROVE  i \notin Queued' /\ \A v \in Workers : request'[v] # i
    <3>1. CASE u # w
      BY <1>2, <1>4, <1>5, <2>2, <3>1 DEF Inv, TurnInv
    <3>2. CASE u = w
      <4>1. i \in Instances /\ Parent[i] = request[w]
        BY <1>1, <1>5, <2>2, <3>2
      <4>2. pc[w] \notin {"instances", "finish"}
        BY <1>2
      <4>3. i \notin Queued /\ \A v \in Workers : request[v] # i
        BY <4>1, <4>2 DEF Inv, TurnInv
      <4> QED
        BY <1>2, <1>4, <4>3
    <3> QED
      BY <3>1, <3>2
  <2>3. ASSUME NEW i \in Instances, i \in Queued' \/ \E v \in Workers : request'[v] = i
        PROVE  /\ Parent[i] \notin todo' \cup Queued'
               /\ \A v \in Workers : request'[v] = Parent[i] => pc'[v] \in {"instances", "finish"}
    <3>1. i \in Queued \/ \E v \in Workers : request[v] = i
      BY <1>2, <1>4, <2>3
    <3>2. /\ Parent[i] \notin todo \cup Queued
          /\ \A v \in Workers : request[v] = Parent[i] => pc[v] \in {"instances", "finish"}
      BY <3>1 DEF Inv, TurnInv
    <3> QED
      BY <1>2, <1>4, <1>5, <3>2
  <2> QED
    BY <1>2, <2>1, <2>2, <2>3 DEF Inv, TurnInv
<1> QED
  BY <1>6, <1>7, <1>8, <1>9, <1>10 DEF Inv

(* A worker visits an instance: it is left alone, destroyed or scheduled.      *)
LEMMA VisitKeeps ==
    ASSUME Inv, NEW w \in Workers, VisitInstance(w)
    PROVE  Inv'
<1>1. PICK i \in left[w] :
         /\ left' = [left EXCEPT ![w] = @ \ {i}]
         /\ \/ i \in timer /\ DestroyInstance(i) /\ UNCHANGED <<pc, queue, pending>>
            \/ Schedule(i) /\ UNCHANGED <<live, timer, inside>>
  BY DEF VisitInstance
<1>2. /\ TypeOK /\ pc[w] = "instances" /\ UNCHANGED <<wpc, todo, request, shutdown, token, updated>>
      /\ i \in Instances /\ i \in live /\ i \notin Queued /\ request[w] # None
      /\ Parent[i] = request[w] /\ \A v \in Workers : request[v] # i
  BY <1>1 DEF VisitInstance, world, Inv, TypeOK, PlaceInv, NoDeletedMap, TurnInv
<1>3. i \notin Bases /\ i \notin todo
  BY <1>2, MapsAssumption DEF TypeOK
<1>4. \A v \in Workers : v # w => i \notin left[v]
  <2>1. w \in Busy
    BY <1>2 DEF Busy
  <2> SUFFICES ASSUME NEW v \in Workers, i \in left[v] PROVE v = w
    OBVIOUS
  <2>2. v \in Busy /\ request[v] = request[w]
    BY <1>2 DEF Inv, PlaceInv, Busy
  <2> QED
    BY <2>1, <2>2 DEF Inv, OneUpdater
<1>5. left' = [v \in Workers |-> left[v] \ {i}]
  <2>1. \A v \in Workers : left'[v] = left[v] \ {i}
    BY <1>1, <1>2, <1>4 DEF TypeOK
  <2>2. left' \in [Workers -> SUBSET Instances]
    BY <1>1, <1>2 DEF TypeOK
  <2> QED
    BY <2>1, <2>2
<1>6. CASE Schedule(i) /\ UNCHANGED <<live, timer, inside>>
  <2>1. wpc \in {"schedule", "wait", "asleep"}
    BY <1>2, AloneFacts
  <2>2. \A j \in Instances : Parent[j] = i => j \notin Queued /\ \A v \in Workers : request[v] # j
    BY <1>3, MapsAssumption
  <2>3. Parent[i] \notin todo \cup Queued
    <3>1. w \in Busy
      BY <1>2 DEF Busy
    <3> QED
      BY <1>2, <3>1 DEF Inv, TurnInv, OneUpdater
  <2>4. \A v \in Workers : request[v] = Parent[i] => pc[v] \in {"instances", "finish"}
    <3> SUFFICES ASSUME NEW v \in Workers, request[v] = Parent[i] PROVE v = w
      BY <1>2
    <3>1. v \in Busy /\ w \in Busy
      BY <1>2 DEF Busy
    <3> QED
      BY <1>2, <3>1 DEF Inv, OneUpdater
  <2>5. todo' = todo \ {i} /\ UNCHANGED maps
    BY <1>2, <1>3, <1>6 DEF maps
  <2> QED
    BY <1>2, <1>5, <1>6, <2>1, <2>2, <2>3, <2>4, <2>5, ScheduleKeeps
<1>7. CASE DestroyInstance(i) /\ UNCHANGED <<pc, queue, pending>>
  <2>1. /\ live \ {i} \subseteq live' /\ live' \subseteq live
        /\ timer' \subseteq Instances /\ inside' \subseteq Instances
    BY <1>2, <1>7 DEF DestroyInstance, TypeOK
  <2>2. Queued' = Queued /\ Busy' = Busy
    BY <1>2, <1>7 DEF Queued, Busy
  <2>3. \A v \in Workers : left'[v] = left[v] \ {i}
    BY <1>5
  <2>4. TypeOK'
    BY <1>2, <1>5, <1>7, <2>1 DEF TypeOK
  <2>5. PlaceInv'
    <3>1. \A v \in Workers :
            /\ request'[v] # None => pc'[v] \in {"check", "update", "instances", "finish"}
            /\ pc'[v] \in {"update", "instances", "finish"} => request'[v] # None
            /\ left'[v] # {} => pc'[v] = "instances"
            /\ \A j \in left'[v] : Parent[j] = request'[v]
      BY <1>2, <1>7, <2>3 DEF Inv, PlaceInv
    <3>2. \A v \in Workers : pc'[v] = "check" => request'[v] # None \/ token'
      BY <1>2, <1>7 DEF Inv, PlaceInv
    <3> QED
      BY <1>2, <3>1, <3>2 DEF Inv, PlaceInv
  <2>6. CountInv' /\ WorldAlone' /\ OneUpdater'
    BY <1>2, <1>7, <2>2 DEF Inv, CountInv, WorldAlone, OneUpdater
  <2>7. NoDeletedMap'
    BY <1>2, <2>1, <2>2, <2>3 DEF Inv, NoDeletedMap, Busy
  <2>8. TurnInv'
    <3>1. todo' \subseteq live'
      BY <1>2, <1>3, <2>1 DEF Inv, TurnInv
    <3>2. \A x \in todo' : x \notin Queued' /\ \A v \in Workers : request'[v] # x
      BY <1>2, <2>2 DEF Inv, TurnInv
    <3>3. \A u \in Workers : \A j \in left'[u] :
             j \notin Queued' /\ \A v \in Workers : request'[v] # j
      BY <1>2, <2>2, <2>3 DEF Inv, TurnInv
    <3>4. \A j \in Instances : (j \in Queued' \/ \E v \in Workers : request'[v] = j) =>
             /\ Parent[j] \notin todo' \cup Queued'
             /\ \A v \in Workers : request'[v] = Parent[j] => pc'[v] \in {"instances", "finish"}
      BY <1>2, <1>7, <2>2 DEF Inv, TurnInv
    <3> QED
      BY <3>1, <3>2, <3>3, <3>4 DEF TurnInv
  <2> QED
    BY <2>4, <2>5, <2>6, <2>7, <2>8 DEF Inv
<1> QED
  BY <1>1, <1>6, <1>7

(* A worker gives its request back.                                            *)
LEMMA FinishedKeeps ==
    ASSUME Inv, NEW w \in Workers, UpdateFinished(w)
    PROVE  Inv'
<1>1. /\ TypeOK /\ pc[w] = "finish" /\ pending' = pending - 1 /\ WakeWorld
      /\ request' = [request EXCEPT ![w] = None] /\ pc' = [pc EXCEPT ![w] = "pop"]
      /\ UNCHANGED <<todo, left, queue, shutdown, token, live, timer, inside, updated>>
  BY DEF Inv, UpdateFinished, maps
<1>2. request[w] # None /\ left[w] = {} /\ w \in Busy
  BY <1>1 DEF Inv, PlaceInv, Busy
<1>3. wpc \in {"schedule", "wait", "asleep"} /\ wpc' \in {"schedule", "wait"}
  BY <1>1, <1>2, AloneFacts DEF WakeWorld
<1>4. /\ request'[w] = None /\ pc'[w] = "pop"
      /\ \A v \in Workers : v # w => request'[v] = request[v] /\ pc'[v] = pc[v]
  BY <1>1 DEF TypeOK
<1>5. Queued' = Queued /\ Busy' = Busy \ {w}
  <2>1. Queued' = Queued
    BY <1>1 DEF Queued
  <2>2. Busy' = Busy \ {w}
    BY <1>4 DEF Busy
  <2> QED
    BY <2>1, <2>2
<1>6. Cardinality(Busy') = Cardinality(Busy) - 1
  BY <1>2, <1>5, BusyFinite, FS_RemoveElement
<1>7. pending' = Len(queue) + Cardinality(Busy') /\ pending' \in Nat
  <2>1. Len(queue) \in Nat /\ Cardinality(Busy) \in Nat /\ Cardinality(Busy) # 0
    BY <1>1, <1>2, BusyFinite DEF TypeOK
  <2>2. pending = Len(queue) + Cardinality(Busy)
    BY DEF Inv, CountInv
  <2> QED
    BY <1>1, <1>6, <2>1, <2>2
<1>8. TypeOK'
  BY <1>1, <1>3, <1>7 DEF TypeOK, WorldPlaces, WorkerPlaces
<1>9. PlaceInv'
  <2>1. \A v \in Workers :
          /\ request'[v] # None => pc'[v] \in {"check", "update", "instances", "finish"}
          /\ pc'[v] \in {"update", "instances", "finish"} => request'[v] # None
          /\ left'[v] # {} => pc'[v] = "instances"
          /\ \A i \in left'[v] : Parent[i] = request'[v]
    BY <1>1, <1>2, <1>4 DEF Inv, PlaceInv
  <2>2. \A v \in Workers : pc'[v] = "check" => request'[v] # None \/ token'
    BY <1>1, <1>4 DEF Inv, PlaceInv
  <2>3. todo' # {} => wpc' = "schedule"
    BY <1>1, <1>3 DEF Inv, PlaceInv, WakeWorld
  <2>4. ~token /\ ~shutdown
    BY <1>3 DEF Inv, PlaceInv
  <2> QED
    BY <1>1, <1>3, <2>1, <2>2, <2>3, <2>4 DEF PlaceInv
<1>10. CountInv' /\ WorldAlone'
  BY <1>1, <1>3, <1>7 DEF CountInv, WorldAlone
<1>11. NoDeletedMap' /\ OneUpdater'
  BY <1>1, <1>4, <1>5 DEF Inv, NoDeletedMap, OneUpdater
<1>12. TurnInv'
  <2>0. \A x \in Maps : x # None
    BY MapsAssumption DEF Maps
  <2>1. \A x \in todo' : x \notin Queued' /\ \A v \in Workers : request'[v] # x
    BY <1>1, <1>4, <1>5, <2>0 DEF Inv, TurnInv, TypeOK, Maps
  <2>2. \A u \in Workers : \A i \in left'[u] :
           i \notin Queued' /\ \A v \in Workers : request'[v] # i
    <3> TAKE u \in Workers
    <3> TAKE i \in left'[u]
    <3>1. i \in left[u] /\ i \in Maps
      BY <1>1 DEF TypeOK, Maps
    <3>2. i \notin Queued /\ \A v \in Workers : request[v] # i
      BY <3>1 DEF Inv, TurnInv
    <3> QED
      BY <1>4, <1>5, <2>0, <3>1, <3>2
  <2>3. ASSUME NEW i \in Instances, i \in Queued' \/ \E v \in Workers : request'[v] = i
        PROVE  /\ Parent[i] \notin todo' \cup Queued'
               /\ \A v \in Workers : request'[v] = Parent[i] => pc'[v] \in {"instances", "finish"}
    <3>1. i \in Queued \/ \E v \in Workers : request[v] = i
      BY <1>4, <1>5, <2>0, <2>3 DEF Maps
    <3>2. /\ Parent[i] \notin todo \cup Queued
          /\ \A v \in Workers : request[v] = Parent[i] => pc[v] \in {"instances", "finish"}
      BY <3>1 DEF Inv, TurnInv
    <3>3. Parent[i] # None
      BY MapsAssumption
    <3> QED
      BY <1>1, <1>4, <1>5, <3>2, <3>3
  <2> QED
    BY <1>1, <2>1, <2>2, <2>3 DEF Inv, TurnInv
<1> QED
  BY <1>8, <1>9, <1>10, <1>11, <1>12 DEF Inv
-----------------------------------------------------------------------------
(* Every step of a worker.                                                     *)
LEMMA WorkerKeeps ==
    ASSUME Inv, NEW w \in Workers, WorkerStep(w) \/ SpuriousWakeup(w)
    PROVE  Inv'
<1>1. TypeOK /\ PlaceInv
  BY DEF Inv
<1>2. ASSUME NEW x \in WorkerPlaces, pc' = [pc EXCEPT ![w] = x],
             UNCHANGED <<wpc, todo, request, left, queue, shutdown, token, pending, maps>>,
             \/ /\ request[w] = None /\ left[w] = {}
                /\ x \in {"pop", "asleep", "gone"} \/ (x = "check" /\ token)
             \/ request[w] # None /\ pc[w] = "check" /\ x = "update"
             \/ request[w] # None /\ left[w] = {} /\ pc[w] = "instances" /\ x = "finish"
      PROVE  Inv'
  <2>1. pc'[w] = x /\ \A v \in Workers : v # w => pc'[v] = pc[v]
    BY <1>1, <1>2 DEF TypeOK
  <2>2. pc' \in [Workers -> WorkerPlaces]
    BY <1>1, <1>2 DEF TypeOK
  <2> QED
    BY <1>2, <2>1, <2>2, PlaceKeeps
<1>3. pc[w] \in {"pop", "asleep"} => request[w] = None /\ left[w] = {}
  BY <1>1 DEF PlaceInv
<1>4. CASE WaitAndPop(w)
  <2>1. pc[w] = "pop" /\ UNCHANGED <<wpc, todo, left, shutdown, token, pending, maps>>
    BY <1>4 DEF WaitAndPop, world
  <2>2. CASE queue # <<>> /\ ~shutdown
    BY <1>4, <2>1, <2>2, PopKeeps DEF WaitAndPop
  <2>3. CASE queue = <<>> /\ ~shutdown
    <3>1. pc' = [pc EXCEPT ![w] = "asleep"] /\ UNCHANGED <<request, queue>>
      BY <1>4, <2>3 DEF WaitAndPop
    <3> QED
      BY <1>2, <1>3, <2>1, <3>1 DEF WorkerPlaces
  <2>4. CASE shutdown
    <3>1. pc' = [pc EXCEPT ![w] = "check"] /\ UNCHANGED <<request, queue>> /\ token
      BY <1>1, <1>4, <2>4 DEF WaitAndPop, PlaceInv
    <3> QED
      BY <1>2, <1>3, <2>1, <3>1 DEF WorkerPlaces
  <2> QED
    BY <2>2, <2>3, <2>4
<1>5. CASE SpuriousWakeup(w)
  <2>1. /\ pc[w] = "asleep" /\ pc' = [pc EXCEPT ![w] = "pop"]
        /\ UNCHANGED <<wpc, todo, request, left, queue, shutdown, token, pending, maps>>
    BY <1>5 DEF SpuriousWakeup, world, requests
  <2> QED
    BY <1>2, <1>3, <2>1 DEF WorkerPlaces
<1>6. CASE CheckToken(w)
  <2>1. /\ pc[w] = "check" /\ left[w] = {}
        /\ UNCHANGED <<wpc, todo, request, left, queue, shutdown, token, pending, maps>>
    BY <1>1, <1>6 DEF CheckToken, world, requests, PlaceInv
  <2>2. CASE token
    <3>1. pc' = [pc EXCEPT ![w] = "gone"]
      BY <1>6, <2>2 DEF CheckToken
    <3>2. request[w] = None
      BY <1>1, <2>2, AloneFacts DEF PlaceInv
    <3> QED
      BY <1>2, <2>1, <3>1, <3>2 DEF WorkerPlaces
  <2>3. CASE ~token
    <3>1. pc' = [pc EXCEPT ![w] = "update"]
      BY <1>6, <2>3 DEF CheckToken
    <3>2. request[w] # None
      BY <1>1, <2>1, <2>3 DEF PlaceInv
    <3> QED
      BY <1>2, <2>1, <3>1, <3>2 DEF WorkerPlaces
  <2> QED
    BY <2>2, <2>3
<1>7. CASE EndInstances(w)
  <2>1. /\ pc[w] = "instances" /\ left[w] = {} /\ request[w] # None
        /\ pc' = [pc EXCEPT ![w] = "finish"]
        /\ UNCHANGED <<wpc, todo, request, left, queue, shutdown, token, pending, maps>>
    BY <1>1, <1>7 DEF EndInstances, world, requests, PlaceInv
  <2> QED
    BY <1>2, <2>1 DEF WorkerPlaces
<1> QED
  BY <1>4, <1>5, <1>6, <1>7, UpdateKeeps, VisitKeeps, FinishedKeeps DEF WorkerStep

(* The invariant holds in every reachable state.                               *)
THEOREM Inductive == Spec => []Inv
<1>1. Init => Inv
  <2> SUFFICES ASSUME Init PROVE Inv
    OBVIOUS
  <2>1. /\ Queued = {} /\ Busy = {} /\ Len(queue) = 0 /\ DOMAIN queue = {} /\ todo = {}
        /\ \A w \in Workers : request[w] = None /\ left[w] = {} /\ pc[w] = "pop"
    BY DEF Init, Queued, Busy
  <2>2. TypeOK
    <3>1. /\ pc \in [Workers -> WorkerPlaces] /\ request \in [Workers -> Maps \cup {None}]
          /\ left \in [Workers -> SUBSET Instances] /\ updated \in [Maps -> Nat]
      BY DEF Init, WorkerPlaces
    <3>2. live \subseteq Maps /\ timer \subseteq Instances /\ inside \subseteq Instances
      BY DEF Init, Maps
    <3>3. wpc \in WorldPlaces /\ todo \subseteq Bases /\ queue \in Seq(Maps) /\ pending \in Nat
      BY DEF Init, WorldPlaces
    <3>4. shutdown \in BOOLEAN /\ token \in BOOLEAN
      BY DEF Init
    <3> QED
      BY <3>1, <3>2, <3>3, <3>4 DEF TypeOK
  <2>3. PlaceInv
    BY <2>1 DEF Init, PlaceInv
  <2>4. CountInv
    BY <2>1, FS_EmptySet DEF Init, CountInv
  <2>5. WorldAlone /\ NoDeletedMap /\ OneUpdater
    BY <2>1 DEF Init, WorldAlone, NoDeletedMap, OneUpdater
  <2>6. TurnInv
    <3>1. \A i \in Instances : i # None
      BY MapsAssumption
    <3> QED
      BY <2>1, <3>1 DEF TurnInv
  <2> QED
    BY <2>2, <2>3, <2>4, <2>5, <2>6 DEF Inv
<1>2. Inv /\ [Next]_vars => Inv'
  <2> SUFFICES ASSUME Inv, [Next]_vars PROVE Inv'
    OBVIOUS
  <2>1. CASE WorldStep \/ WorldChoice
    BY <2>1, WorldKeeps, ScheduleBaseKeeps, CancelKeeps DEF WorldStep, WorldChoice
  <2>2. CASE \E w \in Workers : WorkerStep(w) \/ SpuriousWakeup(w)
    BY <2>2, WorkerKeeps
  <2>3. CASE UNCHANGED vars
    <3>1. UNCHANGED <<wpc, todo, request, left, queue, shutdown, token, pending, maps>> /\ pc' = pc
      BY <2>3 DEF vars, maps
    <3> QED
      BY <3>1, PlaceKeeps DEF Inv, TypeOK
  <2> QED
    BY <2>1, <2>2, <2>3 DEF Next
<1> QED
  BY <1>1, <1>2, PTL DEF Spec

(* The variables keep their types.                                             *)
THEOREM TypeCorrect == Spec => []TypeOK
<1>1. Inv => TypeOK
  BY DEF Inv
<1> QED
  BY <1>1, Inductive, PTL

(* The world thread has the maps to itself outside its wait.                   *)
THEOREM AlwaysAlone == Spec => []WorldAlone
<1>1. Inv => WorldAlone
  BY DEF Inv
<1> QED
  BY <1>1, Inductive, PTL

(* No request, no worker and no loop refers to a map that was destroyed.       *)
THEOREM MapsExist == Spec => []NoDeletedMap
<1>1. Inv => NoDeletedMap
  BY DEF Inv
<1> QED
  BY <1>1, Inductive, PTL

(* No map has two updaters, nor one and a request.                             *)
THEOREM MapsExclusive == Spec => []OneUpdater
<1>1. Inv => OneUpdater
  BY DEF Inv
<1> QED
  BY <1>1, Inductive, PTL

(* No worker calls a null request.                                             *)
THEOREM RequestsReal == Spec => []NoNullRequest
<1>1. Inv => NoNullRequest
  BY DEF Inv, PlaceInv, NoNullRequest
<1> QED
  BY <1>1, Inductive, PTL
-----------------------------------------------------------------------------
(* A step that updates no map and changes nobody's turn.                       *)
LEMMA SameTurn ==
    ASSUME ProgressInv, live' = live, timer \cap inside \subseteq timer' \cap inside',
           UNCHANGED updated,
           wpc' \in {"schedule", "wait", "asleep", "delayed"} =>
              wpc \in {"schedule", "wait", "asleep", "delayed"},
           \A m \in live : Due(m)' <=> Due(m)
    PROVE  ProgressInv'
BY DEF ProgressInv

(* What is due follows from four facts about a map.                            *)
LEMMA DueSame ==
    ASSUME UNCHANGED <<todo, left>>, NEW m, Requested(m)' <=> Requested(m),
           m \in Instances => (Requested(Parent[m])' <=> Requested(Parent[m]))
    PROVE  Due(m)' <=> Due(m)
BY DEF Due

(* The pass of the world thread, and what it does outside of a pass.           *)
LEMMA WorldProgress ==
    ASSUME Inv, ProgressInv,
           \/ BeginUpdate \/ EndSchedule \/ Wait \/ DelayedUpdate \/ Deactivate \/ Join \/ UnloadAll
           \/ Cancel
           \/ \E i \in Instances :
                 CreateInstance(i) \/ AddPlayerToMap(i) \/ RemovePlayerFromMap(i) \/ SetUnload(i)
    PROVE  ProgressInv'
<1>1. CASE BeginUpdate
  <2>1. /\ wpc = "run" /\ todo' = live \cap Bases /\ live' = live /\ live \subseteq Maps
        /\ updated' = [m \in Maps |-> 0]
    BY <1>1 DEF BeginUpdate, Inv, TypeOK
  <2>2. ASSUME NEW m \in live PROVE Due(m)' /\ updated'[m] = 0
    <3>1. updated'[m] = 0 /\ (m \in Bases \/ m \in Instances)
      BY <2>1 DEF Maps
    <3>2. m \in Instances => Parent[m] \in live \cap Bases
      BY MapsAssumption DEF ProgressInv
    <3> QED
      BY <2>1, <3>1, <3>2 DEF Due
  <2> QED
    BY <2>1, <2>2 DEF ProgressInv
<1>2. CASE EndSchedule \/ Wait
  <2>1. UNCHANGED <<todo, pc, request, left, queue, live, timer, inside, updated>>
    BY <1>2 DEF EndSchedule, Wait, workers, requests, maps
  <2>2. \A m \in live : Due(m)' <=> Due(m)
    BY <2>1 DEF Due, Requested, Queued
  <2>3. wpc' \in {"schedule", "wait", "asleep", "delayed"} =>
           wpc \in {"schedule", "wait", "asleep", "delayed"}
    BY <1>2 DEF EndSchedule, Wait
  <2> QED
    BY <2>1, <2>2, <2>3, SameTurn
<1>3. CASE DelayedUpdate \/ Deactivate \/ Join \/ Cancel
  <2>1. wpc' \notin {"schedule", "wait", "asleep", "delayed"} /\ live' = live
    BY <1>3 DEF DelayedUpdate, Deactivate, Join, Cancel, maps
  <2> QED
    BY <2>1 DEF ProgressInv
<1>4. CASE UnloadAll
  BY <1>4 DEF UnloadAll, ProgressInv
<1>5. ASSUME NEW i \in Instances,
             CreateInstance(i) \/ AddPlayerToMap(i) \/ RemovePlayerFromMap(i) \/ SetUnload(i)
      PROVE  ProgressInv'
  <2>1. wpc' = "run" /\ (live' = live \/ (live' = live \cup {i} /\ Parent[i] \in live))
    BY <1>5 DEF CreateInstance, AddPlayerToMap, RemovePlayerFromMap, SetUnload, world
  <2> QED
    BY <2>1 DEF ProgressInv
<1> QED
  BY <1>1, <1>2, <1>3, <1>4, <1>5

(* A schedule_update changes nobody's turn: the map was due before it.         *)
LEMMA ScheduleProgress ==
    ASSUME Inv, NEW x \in Maps, Schedule(x), UNCHANGED request, NEW m \in Maps
    PROVE  Requested(m)' <=> Requested(m) \/ m = x
<1>1. queue \in Seq(Maps) /\ Queued' = Queued \cup {x}
  <2>1. queue \in Seq(Maps) /\ queue' = Append(queue, x)
    BY DEF Schedule, Inv, TypeOK
  <2>2. /\ Len(queue) \in Nat /\ DOMAIN queue = 1..Len(queue) /\ DOMAIN queue' = 1..(Len(queue) + 1)
        /\ queue'[Len(queue) + 1] = x /\ \A k \in 1..Len(queue) : queue'[k] = queue[k]
    BY <2>1
  <2>3. \A k \in DOMAIN queue' : k \in DOMAIN queue \/ k = Len(queue) + 1
    BY <2>2
  <2> QED
    BY <2>1, <2>2, <2>3 DEF Queued
<1>2. \A w \in Workers : pc'[w] \in {"check", "update"} <=> pc[w] \in {"check", "update"}
  BY DEF Schedule, Inv, TypeOK
<1> QED
  BY <1>1, <1>2 DEF Requested

(* The world thread schedules a base map.                                      *)
LEMMA ScheduleBaseProgress ==
    ASSUME Inv, ProgressInv, ScheduleBase
    PROVE  ProgressInv'
<1>1. PICK x \in todo : Schedule(x) /\ todo' = todo \ {x}
  BY DEF ScheduleBase
<1>2. UNCHANGED <<wpc, request, left, live, timer, inside, updated>> /\ live \subseteq Maps /\ x \in Maps
  BY <1>1 DEF ScheduleBase, maps, Inv, TypeOK, Maps
<1>3. ASSUME NEW m \in Maps
      PROVE  (m \in todo \/ Requested(m))' <=> (m \in todo \/ Requested(m))
  BY <1>1, <1>2, ScheduleProgress
<1>4. ASSUME NEW m \in live PROVE Due(m)' <=> Due(m)
  <2>1. m \in Maps /\ (m \in Instances => Parent[m] \in Maps)
    BY <1>2, MapsAssumption DEF Maps
  <2> QED
    BY <1>2, <1>3, <2>1 DEF Due
<1> QED
  BY <1>2, <1>4, SameTurn

(* A worker takes a request, or moves without updating a map.                  *)
LEMMA MoveProgress ==
    ASSUME Inv, Inv', ProgressInv, NEW w \in Workers,
           \/ WaitAndPop(w) \/ SpuriousWakeup(w) \/ CheckToken(w) \/ EndInstances(w)
           \/ UpdateFinished(w)
    PROVE  ProgressInv'
<1>1. UNCHANGED <<todo, left, live, timer, inside, updated>> /\ live \subseteq Maps /\ TypeOK
  BY DEF WaitAndPop, SpuriousWakeup, CheckToken, EndInstances, UpdateFinished, world, maps, Inv, TypeOK
<1>2. wpc' \in {"schedule", "wait", "asleep", "delayed"} =>
        wpc \in {"schedule", "wait", "asleep", "delayed"}
  <2>1. CASE UpdateFinished(w)
    <3>1. wpc \in WorldPlaces /\ WakeWorld
      BY <1>1, <2>1 DEF TypeOK, UpdateFinished
    <3> QED
      BY <3>1 DEF WakeWorld, WorldPlaces
  <2> QED
    BY <2>1 DEF WaitAndPop, SpuriousWakeup, CheckToken, EndInstances, world
<1>3. ASSUME NEW m \in Maps, wpc \in {"schedule", "wait", "asleep", "delayed"}
      PROVE  Requested(m)' <=> Requested(m)
  <2>0. m # None /\ ~token /\ ~shutdown
    BY <1>3, MapsAssumption DEF Maps, Inv, PlaceInv
  <2>1. CASE WaitAndPop(w) /\ queue # <<>>
    <3>1. /\ pc[w] = "pop" /\ request' = [request EXCEPT ![w] = Head(queue)]
          /\ queue' = Tail(queue) /\ pc' = [pc EXCEPT ![w] = "check"]
      BY <2>0, <2>1 DEF WaitAndPop
    <3>2. /\ request'[w] = Head(queue) /\ pc'[w] = "check"
          /\ \A v \in Workers : v # w => request'[v] = request[v] /\ pc'[v] = pc[v]
      BY <1>1, <3>1 DEF TypeOK
    <3>3. Queued' = Queued \ {Head(queue)} /\ Head(queue) \in Queued
      <4>1. queue \in Seq(Maps) /\ Distinct(queue) /\ Queued = ElementsOf(queue)
        BY DEF Inv, TypeOK, OneUpdater, Distinct, Queued, ElementsOf
      <4>2. Queued' = ElementsOf(queue')
        BY DEF Queued, ElementsOf
      <4> QED
        BY <2>1, <3>1, <4>1, <4>2, PopFacts
    <3> QED
      BY <3>1, <3>2, <3>3 DEF Requested
  <2>2. CASE (WaitAndPop(w) /\ queue = <<>>) \/ SpuriousWakeup(w) \/ CheckToken(w) \/ EndInstances(w)
    <3>1. /\ UNCHANGED <<request, queue>>
          /\ pc'[w] \in {"check", "update"} <=> pc[w] \in {"check", "update"}
          /\ \A v \in Workers : v # w => pc'[v] = pc[v]
      BY <1>1, <2>0, <2>2 DEF WaitAndPop, SpuriousWakeup, CheckToken, EndInstances, requests, TypeOK
    <3>2. Queued' = Queued
      BY <3>1 DEF Queued
    <3> QED
      BY <3>1, <3>2 DEF Requested
  <2>3. CASE UpdateFinished(w)
    <3>1. /\ pc[w] = "finish" /\ queue' = queue
          /\ request'[w] = None /\ \A v \in Workers : v # w => request'[v] = request[v] /\ pc'[v] = pc[v]
      BY <1>1, <2>3 DEF UpdateFinished, TypeOK
    <3>2. Queued' = Queued
      BY <3>1 DEF Queued
    <3> QED
      BY <2>0, <3>1, <3>2 DEF Requested
  <2> QED
    BY <2>1, <2>2, <2>3
<1>4. ASSUME NEW m \in live, wpc \in {"schedule", "wait", "asleep", "delayed"}
      PROVE  Due(m)' <=> Due(m)
  <2>1. m \in Maps /\ (m \in Instances => Parent[m] \in Maps)
    BY <1>1, MapsAssumption DEF Maps
  <2> QED
    BY <1>1, <1>3, <1>4, <2>1, DueSame
<1> QED
  BY <1>1, <1>2, <1>4 DEF ProgressInv

(* A worker updates the map of its request; a base map's instances, due until  *)
(* now because of it, are listed for its loop.                                 *)
LEMMA UpdateProgress ==
    ASSUME Inv, ProgressInv, NEW w \in Workers, Update(w)
    PROVE  ProgressInv'
<1>1. PICK x \in Maps : x = request[w]
  BY DEF Inv, TypeOK, Update
<1>2. /\ TypeOK /\ pc[w] = "update" /\ UNCHANGED <<wpc, todo, request, queue, live>>
      /\ updated' = [updated EXCEPT ![x] = @ + 1]
      /\ left' = [left EXCEPT ![w] = {i \in live \cap Instances : Parent[i] = x}]
      /\ pc' = [pc EXCEPT ![w] = IF x \in Bases THEN "instances" ELSE "finish"]
      /\ LastPlayerLeaves(x) \/ UNCHANGED <<timer, inside>>
      /\ x # None
  BY <1>1, MapsAssumption DEF Update, world, requests, Inv, Maps
<1>3. /\ pc'[w] \in {"instances", "finish"} /\ \A v \in Workers : v # w => pc'[v] = pc[v]
      /\ left'[w] = {i \in live \cap Instances : Parent[i] = x}
      /\ \A v \in Workers : v # w => left'[v] = left[v]
      /\ left[w] = {}
      /\ \A m \in Maps : updated'[m] = IF m = x THEN updated[m] + 1 ELSE updated[m]
  BY <1>2 DEF TypeOK, Inv, PlaceInv
<1>4. x \in live /\ x \notin Queued /\ x \notin todo /\ \A v \in Workers : request[v] = x => v = w
  BY <1>1, <1>2 DEF Inv, NoDeletedMap, OneUpdater, TurnInv, Busy
<1>5. Queued' = Queued
  BY <1>2 DEF Queued
<1>6. ~Requested(x)' /\ Requested(x)
  BY <1>1, <1>2, <1>3, <1>4, <1>5 DEF Requested
<1>7. ASSUME NEW m, m # x PROVE Requested(m)' <=> Requested(m)
  BY <1>1, <1>2, <1>3, <1>5, <1>7 DEF Requested
<1>8. Due(x) /\ ~Due(x)'
  <2>1. Due(x)
    BY <1>6 DEF Due
  <2>2. \A v \in Workers : x \notin left'[v]
    <3> TAKE v \in Workers
    <3>1. x \notin left[v]
      BY <1>1, <1>4 DEF Inv, TurnInv
    <3>2. x \in Instances => Parent[x] # x
      BY MapsAssumption
    <3> QED
      BY <1>3, <3>1, <3>2
  <2>3. x \in Instances => Parent[x] \notin todo /\ Parent[x] # x /\ ~Requested(Parent[x])
    <3> SUFFICES ASSUME x \in Instances
                 PROVE  Parent[x] \notin todo /\ Parent[x] # x /\ ~Requested(Parent[x])
      OBVIOUS
    <3>1. /\ Parent[x] \notin todo \cup Queued
          /\ \A v \in Workers : request[v] = Parent[x] => pc[v] \in {"instances", "finish"}
      BY <1>1 DEF Inv, TurnInv
    <3> QED
      BY <3>1, MapsAssumption DEF Requested
  <2> QED
    BY <1>2, <1>4, <1>6, <1>7, <2>1, <2>2, <2>3 DEF Due
<1>9. ASSUME NEW m \in live, m # x PROVE Due(m)' <=> Due(m)
  <2>1. m \in Instances /\ Parent[m] = x => Due(m)' /\ Due(m)
    BY <1>3, <1>6 DEF Due
  <2>2. ~(m \in Instances /\ Parent[m] = x) =>
           /\ \A v \in Workers : m \in left'[v] <=> m \in left[v]
           /\ m \in Instances => (Requested(Parent[m])' <=> Requested(Parent[m]))
    BY <1>3, <1>7
  <2>3. (m \in todo \/ Requested(m))' <=> (m \in todo \/ Requested(m))
    BY <1>2, <1>7, <1>9
  <2> QED
    BY <1>2, <2>1, <2>2, <2>3 DEF Due
<1>10. \A m \in live : m # x => (m \in timer \cap inside => m \in timer' \cap inside')
  BY <1>2 DEF LastPlayerLeaves
<1>11. ASSUME wpc \in {"schedule", "wait", "asleep", "delayed"}, NEW m \in live
       PROVE  \/ Due(m)' /\ updated'[m] = 0
              \/ ~Due(m)' /\ (updated'[m] = 1 \/ (updated'[m] = 0 /\ m \in timer' \cap inside'))
  <2>0. m \in Maps
    BY <1>2 DEF TypeOK
  <2>1. \/ Due(m) /\ updated[m] = 0
        \/ ~Due(m) /\ (updated[m] = 1 \/ (updated[m] = 0 /\ m \in timer \cap inside))
    BY <1>11 DEF ProgressInv
  <2>2. CASE m = x
    BY <1>3, <1>8, <2>0, <2>1, <2>2
  <2>3. CASE m # x
    BY <1>3, <1>9, <1>10, <2>0, <2>1, <2>3
  <2> QED
    BY <2>2, <2>3
<1> QED
  BY <1>2, <1>11 DEF ProgressInv

(* A worker visits an instance.                                                *)
LEMMA VisitProgress ==
    ASSUME Inv, ProgressInv, NEW w \in Workers, VisitInstance(w)
    PROVE  ProgressInv'
<1>1. PICK i \in left[w] :
         /\ left' = [left EXCEPT ![w] = @ \ {i}]
         /\ \/ i \in timer /\ DestroyInstance(i) /\ UNCHANGED <<pc, queue, pending>>
            \/ Schedule(i) /\ UNCHANGED <<live, timer, inside>>
  BY DEF VisitInstance
<1>2. /\ TypeOK /\ UNCHANGED <<wpc, todo, request, updated>>
      /\ i \in Instances /\ i \in Maps /\ Parent[i] = request[w] /\ i \notin todo
      /\ i \notin Queued /\ pc[w] = "instances" /\ Parent[i] \in Maps
      /\ \A v \in Workers : request[v] # i
  BY <1>1, MapsAssumption DEF VisitInstance, world, Inv, TypeOK, PlaceInv, TurnInv, Maps
<1>3. i \in left[w] /\ \A v \in Workers : left'[v] = IF v = w THEN left[w] \ {i} ELSE left[v]
  BY <1>1, <1>2 DEF TypeOK
<1>4. \A m : m # i => ((\E v \in Workers : m \in left'[v]) <=> \E v \in Workers : m \in left[v])
  BY <1>3
<1>5. Due(i)
  BY <1>3 DEF Due
<1>6. \A m \in Instances : Parent[m] # i /\ Parent[m] \in Maps
  BY <1>2, MapsAssumption DEF Maps
<1>7. CASE Schedule(i) /\ UNCHANGED <<live, timer, inside>>
  <2>1. \A m \in Maps : Requested(m)' <=> Requested(m) \/ m = i
    BY <1>2, <1>7, ScheduleProgress
  <2>2. ASSUME NEW m \in live PROVE Due(m)' <=> Due(m)
    <3>1. m \in Maps
      BY <1>2 DEF TypeOK
    <3>2. CASE m = i
      BY <1>2, <1>5, <2>1, <3>2 DEF Due
    <3>3. CASE m # i
      BY <1>2, <1>4, <1>6, <2>1, <3>1, <3>3 DEF Due
    <3> QED
      BY <3>2, <3>3
  <2> QED
    BY <1>2, <1>7, <2>2, SameTurn
<1>8. CASE i \in timer /\ DestroyInstance(i) /\ UNCHANGED <<pc, queue, pending>>
  <2>1. ASSUME NEW m PROVE Requested(m)' <=> Requested(m)
    BY <1>2, <1>8 DEF Requested, Queued
  <2>2. ASSUME NEW m \in live, m # i PROVE Due(m)' <=> Due(m)
    BY <1>2, <1>4, <2>1, <2>2 DEF Due
  <2>3. /\ live' \subseteq live
        /\ \A m \in live : m # i => m \in live' /\ (m \in timer \cap inside => m \in timer' \cap inside')
    BY <1>8 DEF DestroyInstance
  <2>4. \A j \in live' \cap Instances : Parent[j] \in live'
    <3> TAKE j \in live' \cap Instances
    <3>1. j \in live \cap Instances /\ Parent[j] # i
      BY <1>6, <2>3
    <3>2. Parent[j] \in live
      BY <3>1 DEF ProgressInv
    <3> QED
      BY <2>3, <3>1, <3>2
  <2>5. ~Due(i)'
    <3>1. ~Requested(i)
      BY <1>2 DEF Requested
    <3>2. \A v \in Workers : i \notin left'[v]
      <4>1. w \in Busy
        BY <1>2 DEF Busy, Inv, PlaceInv
      <4>2. ASSUME NEW v \in Workers, i \in left[v] PROVE v = w
        <5>1. v \in Busy /\ request[v] = request[w]
          BY <1>2, <4>2 DEF Inv, PlaceInv, Busy
        <5> QED
          BY <4>1, <5>1 DEF Inv, OneUpdater
      <4> QED
        BY <1>3, <4>2
    <3>3. Parent[i] \notin todo /\ ~Requested(Parent[i])
      <4>1. w \in Busy
        BY <1>2 DEF Busy, Inv, PlaceInv
      <4>2. \A v \in Workers : request[v] = Parent[i] => v = w
        BY <1>2, <4>1 DEF Inv, OneUpdater, Busy
      <4>3. Parent[i] \notin Queued /\ Parent[i] \notin todo
        BY <1>2, <4>1 DEF Inv, OneUpdater, TurnInv
      <4> QED
        BY <1>2, <4>2, <4>3 DEF Requested
    <3> QED
      BY <1>2, <2>1, <3>1, <3>2, <3>3 DEF Due
  <2>6. ASSUME wpc \in {"schedule", "wait", "asleep", "delayed"}, NEW m \in live'
        PROVE  \/ Due(m)' /\ updated'[m] = 0
               \/ ~Due(m)' /\ (updated'[m] = 1 \/ (updated'[m] = 0 /\ m \in timer' \cap inside'))
    <3>1. \/ Due(m) /\ updated[m] = 0
          \/ ~Due(m) /\ (updated[m] = 1 \/ (updated[m] = 0 /\ m \in timer \cap inside))
      BY <2>3, <2>6 DEF ProgressInv
    <3>2. CASE m = i
      <4>1. i \in timer' \cap inside'
        BY <1>8, <2>6, <3>2 DEF DestroyInstance
      <4> QED
        BY <1>2, <1>5, <2>5, <3>1, <3>2, <4>1
    <3>3. CASE m # i
      BY <1>2, <2>2, <2>3, <2>6, <3>1, <3>3
    <3> QED
      BY <3>2, <3>3
  <2> QED
    BY <1>2, <2>4, <2>6 DEF ProgressInv
<1> QED
  BY <1>1, <1>7, <1>8

(* In every state of a pass the maps are either due or done.                   *)
THEOREM Progress == Spec => []ProgressInv
<1>1. Init => ProgressInv
  BY MapsAssumption DEF Init, ProgressInv
<1>2. Inv /\ Inv' /\ ProgressInv /\ [Next]_vars => ProgressInv'
  <2> SUFFICES ASSUME Inv, Inv', ProgressInv, [Next]_vars PROVE ProgressInv'
    OBVIOUS
  <2>1. CASE WorldStep \/ WorldChoice
    BY <2>1, WorldProgress, ScheduleBaseProgress DEF WorldStep, WorldChoice
  <2>2. CASE \E w \in Workers : WorkerStep(w) \/ SpuriousWakeup(w)
    BY <2>2, MoveProgress, UpdateProgress, VisitProgress DEF WorkerStep
  <2>3. CASE UNCHANGED vars
    BY <2>3 DEF vars, ProgressInv, Due, Requested, Queued
  <2> QED
    BY <2>1, <2>2, <2>3 DEF Next
<1> QED
  BY <1>1, <1>2, Inductive, PTL DEF Spec

(* When MapManager::Update has waited, every map that exists was updated once  *)
(* in this pass, but for an instance that its players kept from being          *)
(* destroyed.                                                                  *)
THEOREM AllUpdated == Spec => []UpdatedOnce
<1>1. Inv /\ ProgressInv => UpdatedOnce
  <2> SUFFICES ASSUME Inv, ProgressInv, wpc = "delayed", NEW m \in live
               PROVE  updated[m] = 1 \/ (updated[m] = 0 /\ m \in timer \cap inside)
    BY DEF UpdatedOnce
  <2>1. /\ queue = <<>> /\ todo = {} /\ \A w \in Workers : request[w] = None /\ left[w] = {}
        /\ m \in Maps
    BY AloneFacts DEF Inv, PlaceInv, TypeOK
  <2>2. \A x \in Maps : ~Requested(x)
    <3>1. Queued = {} /\ None \notin Maps
      BY <2>1, MapsAssumption DEF Queued, Maps
    <3> QED
      BY <2>1, <3>1 DEF Requested
  <2>3. m \in Instances => Parent[m] \in Maps
    BY MapsAssumption DEF Maps
  <2> QED
    BY <2>1, <2>2, <2>3 DEF ProgressInv, Due
<1> QED
  BY <1>1, Inductive, Progress, PTL
=============================================================================
