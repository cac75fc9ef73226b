------------------------------ MODULE MapUpdater ------------------------------
(* The update of the maps on worker threads: MapUpdater with the queue of      *)
(* requests it is built on (ProducerConsumerQueue), the pass of the world      *)
(* thread over the base maps (MapManager), and the base maps that schedule     *)
(* their instances from inside a worker (MapInstanced).  Each mutex is held    *)
(* for one action; MapUpdater::_lock is taken before the lock of the queue,    *)
(* never after it.                                                             *)
EXTENDS Integers, Sequences, FiniteSets

CONSTANTS
    Workers,        \* the threads of MapUpdater, at least one
    Bases,          \* i_maps
    Instances,      \* dungeon and battleground maps
    Parent,         \* the MapInstanced of an instance
    Battlegrounds,  \* the instances that are BattlegroundMaps
    None            \* a null request

ASSUME WorkersAssumption == IsFiniteSet(Workers) /\ Workers # {}
ASSUME MapsAssumption ==
    /\ Bases \cap Instances = {} /\ None \notin Bases \cup Instances
    /\ Parent \in [Instances -> Bases] /\ Battlegrounds \subseteq Instances

Maps == Bases \cup Instances

VARIABLES
    wpc,        \* the world thread's place
    todo,       \* MapManager::Update: the base maps still to schedule
    pc,         \* the place of every worker in WorkerThread
    request,    \* the map of the request a worker holds, or None
    left,       \* MapInstanced::Update: the instances a worker has yet to visit
    queue,      \* _queue: the maps of the requests
    shutdown,   \* ProducerConsumerQueue::_shutdown
    token,      \* _cancelationToken
    pending,    \* pending_requests
    live,       \* the maps that exist
    timer,      \* the instances whose m_unloadTimer runs
    inside,     \* the instances with players
    updated     \* history: how often each map was updated in this pass

vars == <<wpc, todo, pc, request, left, queue, shutdown, token, pending, live, timer, inside, updated>>
world == <<wpc, todo>>
workers == <<pc, request, left>>
requests == <<queue, shutdown, token, pending>>
maps == <<live, timer, inside, updated>>

WorldPlaces == {"run", "schedule", "wait", "asleep", "delayed",
                "deactivate", "lastwait", "lastsleep", "cancel", "join", "done"}
WorkerPlaces == {"pop", "asleep", "check", "update", "instances", "finish", "gone"}

TypeOK ==
    /\ wpc \in WorldPlaces /\ todo \subseteq Bases
    /\ pc \in [Workers -> WorkerPlaces]
    /\ request \in [Workers -> Maps \cup {None}]
    /\ left \in [Workers -> SUBSET Instances]
    /\ queue \in Seq(Maps)
    /\ shutdown \in BOOLEAN /\ token \in BOOLEAN /\ pending \in Nat
    /\ live \subseteq Maps /\ timer \subseteq Instances /\ inside \subseteq Instances
    /\ updated \in [Maps -> Nat]

(* The server has started its workers and the base maps; instances come later. *)
Init ==
    /\ wpc = "run" /\ todo = {}
    /\ pc = [w \in Workers |-> "pop"]
    /\ request = [w \in Workers |-> None]
    /\ left = [w \in Workers |-> {}]
    /\ queue = <<>> /\ shutdown = FALSE /\ token = FALSE /\ pending = 0
    /\ live = Bases /\ timer = {} /\ inside = {}
    /\ updated = [m \in Maps |-> 0]
-----------------------------------------------------------------------------
(* schedule_update, called by the world thread and by workers: the request is  *)
(* counted and queued, and one sleeping worker is woken.  Variant: nobody is   *)
(* woken.                                                                      *)
ScheduleSilently(m) ==
    /\ pending' = pending + 1
    /\ queue' = Append(queue, m)
    /\ UNCHANGED pc

Schedule(m) ==
    /\ pending' = pending + 1
    /\ queue' = Append(queue, m)
    /\ \/ \E v \in Workers : pc[v] = "asleep" /\ pc' = [pc EXCEPT ![v] = "pop"]
       \/ (\A v \in Workers : pc[v] # "asleep") /\ UNCHANGED pc
-----------------------------------------------------------------------------
(* MapManager::Update, the timer having passed.  Variant: the instances are    *)
(* in i_maps too.                                                              *)
BeginUpdateAll ==
    /\ wpc = "run"
    /\ wpc' = "schedule" /\ todo' = live
    /\ updated' = [m \in Maps |-> 0]
    /\ UNCHANGED <<workers, requests, live, timer, inside>>

BeginUpdate ==
    /\ wpc = "run"
    /\ wpc' = "schedule" /\ todo' = live \cap Bases
    /\ updated' = [m \in Maps |-> 0]
    /\ UNCHANGED <<workers, requests, live, timer, inside>>

ScheduleBase ==
    /\ wpc = "schedule"
    /\ \E m \in todo : Schedule(m) /\ todo' = todo \ {m}
    /\ UNCHANGED <<wpc, request, left, shutdown, token, maps>>

EndSchedule ==
    /\ wpc = "schedule" /\ todo = {}
    /\ wpc' = "wait"
    /\ UNCHANGED <<todo, workers, requests, maps>>

(* wait: the predicate is evaluated under the lock, before and after sleeping. *)
Wait ==
    /\ \/ wpc = "wait" /\ wpc' = IF pending = 0 THEN "delayed" ELSE "asleep"
       \/ wpc = "lastwait" /\ wpc' = IF pending = 0 THEN "cancel" ELSE "lastsleep"
    /\ UNCHANGED <<todo, workers, requests, maps>>

(* DelayedUpdate of every map, on the world thread.                            *)
DelayedUpdate ==
    /\ wpc = "delayed"
    /\ wpc' = "run"
    /\ UNCHANGED <<todo, workers, requests, maps>>
-----------------------------------------------------------------------------
(* The rest of World::Update, as far as it touches the maps: a player's map is *)
(* created (the unload timer of a dungeon runs from the start), the player     *)
(* enters it or leaves it, a battleground ends or a dungeon is reset.          *)
CreateInstance(i) ==
    /\ wpc = "run" /\ i \notin live /\ Parent[i] \in live
    /\ live' = live \cup {i}
    /\ timer' = IF i \in Battlegrounds THEN timer ELSE timer \cup {i}
    /\ UNCHANGED <<world, workers, requests, inside, updated>>

AddPlayerToMap(i) ==
    /\ wpc = "run" /\ i \in live
    /\ inside' = inside \cup {i}
    /\ timer' = IF i \in Battlegrounds THEN timer ELSE timer \ {i}
    /\ UNCHANGED <<world, workers, requests, live, updated>>

LastPlayerLeaves(i) ==
    /\ i \in inside
    /\ inside' = inside \ {i}
    /\ timer' = IF i \in Battlegrounds THEN timer ELSE timer \cup {i}

RemovePlayerFromMap(i) ==
    /\ wpc = "run" /\ LastPlayerLeaves(i)
    /\ UNCHANGED <<world, workers, requests, live, updated>>

SetUnload(i) ==
    /\ wpc = "run" /\ i \in live
    /\ i \in Battlegrounds \/ i \notin inside
    /\ timer' = timer \cup {i}
    /\ UNCHANGED <<world, workers, requests, live, inside, updated>>
-----------------------------------------------------------------------------
(* MapManager::UnloadAll, when the world has stopped and every player was      *)
(* kicked: the maps are deleted, then the updater is deactivated.              *)
UnloadAll ==
    /\ wpc = "run" /\ inside = {}
    /\ live' = {} /\ timer' = {}
    /\ wpc' = "deactivate"
    /\ UNCHANGED <<todo, workers, requests, inside, updated>>

(* deactivate, up to its wait.                                                 *)
Deactivate ==
    /\ wpc = "deactivate"
    /\ token' = TRUE
    /\ wpc' = "lastwait"
    /\ UNCHANGED <<todo, workers, queue, shutdown, pending, maps>>

(* ProducerConsumerQueue::Cancel.  Variant: one worker is woken, not all.      *)
CancelWakingOne ==
    /\ wpc = "cancel"
    /\ queue' = <<>> /\ shutdown' = TRUE
    /\ \E w \in Workers : pc' = [pc EXCEPT ![w] = IF @ = "asleep" THEN "pop" ELSE @]
    /\ wpc' = "join"
    /\ UNCHANGED <<todo, request, left, token, pending, maps>>

Cancel ==
    /\ wpc = "cancel"
    /\ queue' = <<>> /\ shutdown' = TRUE
    /\ pc' = [w \in Workers |-> IF pc[w] = "asleep" THEN "pop" ELSE pc[w]]
    /\ wpc' = "join"
    /\ UNCHANGED <<todo, request, left, token, pending, maps>>

Join ==
    /\ wpc = "join" /\ \A w \in Workers : pc[w] = "gone"
    /\ wpc' = "done"
    /\ UNCHANGED <<todo, workers, requests, maps>>
-----------------------------------------------------------------------------
(* WorkerThread: WaitAndPop sleeps while there is no request and no shutdown,  *)
(* and returns without a request on shutdown.                                  *)
WaitAndPop(w) ==
    /\ pc[w] = "pop"
    /\ \/ /\ queue = <<>> /\ ~shutdown
          /\ pc' = [pc EXCEPT ![w] = "asleep"]
          /\ UNCHANGED <<request, queue>>
       \/ /\ shutdown
          /\ pc' = [pc EXCEPT ![w] = "check"]
          /\ UNCHANGED <<request, queue>>
       \/ /\ queue # <<>> /\ ~shutdown
          /\ request' = [request EXCEPT ![w] = Head(queue)]
          /\ queue' = Tail(queue)
          /\ pc' = [pc EXCEPT ![w] = "check"]
    /\ UNCHANGED <<world, left, shutdown, token, pending, maps>>

(* A condition variable may wake without having been notified.                 *)
SpuriousWakeup(w) ==
    /\ pc[w] = "asleep"
    /\ pc' = [pc EXCEPT ![w] = "pop"]
    /\ UNCHANGED <<world, request, left, requests, maps>>

(* The token is tested between the pop and the call.                           *)
CheckToken(w) ==
    /\ pc[w] = "check"
    /\ pc' = [pc EXCEPT ![w] = IF token THEN "gone" ELSE "update"]
    /\ UNCHANGED <<world, request, left, requests, maps>>

(* Map::Update of the request's map: the last player of an instance may leave  *)
(* it.  A MapInstanced then goes through its instances.                        *)
Update(w) ==
    /\ pc[w] = "update" /\ request[w] # None
    /\ LET m == request[w] IN
          /\ updated' = [updated EXCEPT ![m] = @ + 1]
          /\ left' = [left EXCEPT ![w] = {i \in live \cap Instances : Parent[i] = m}]
          /\ pc' = [pc EXCEPT ![w] = IF m \in Bases THEN "instances" ELSE "finish"]
          /\ \/ LastPlayerLeaves(m)
             \/ UNCHANGED <<timer, inside>>
    /\ UNCHANGED <<world, request, requests, live>>

(* CanUnload, and DestroyInstance: the players are teleported away; if one is  *)
(* left the instance stays.                                                    *)
DestroyInstance(i) ==
    \/ i \in inside /\ UNCHANGED <<live, timer, inside>>
    \/ live' = live \ {i} /\ timer' = timer \ {i} /\ inside' = inside \ {i}

(* One round of the loop of MapInstanced::Update.  Variants: an instance is    *)
(* scheduled before it is known whether it will be destroyed; one whose timer  *)
(* runs is not updated.                                                        *)
VisitSkipping(w) ==
    /\ pc[w] = "instances"
    /\ \E i \in left[w] :
          /\ left' = [left EXCEPT ![w] = @ \ {i}]
          /\ \/ /\ i \in timer
                /\ DestroyInstance(i) \/ UNCHANGED <<live, timer, inside>>
                /\ UNCHANGED <<pc, queue, pending>>
             \/ i \notin timer /\ Schedule(i) /\ UNCHANGED <<live, timer, inside>>
    /\ UNCHANGED <<world, request, shutdown, token, updated>>

VisitScheduling(w) ==
    /\ pc[w] = "instances"
    /\ \E i \in left[w] :
          /\ left' = [left EXCEPT ![w] = @ \ {i}]
          /\ Schedule(i)
          /\ \/ i \in timer /\ DestroyInstance(i)
             \/ UNCHANGED <<live, timer, inside>>
    /\ UNCHANGED <<world, request, shutdown, token, updated>>

VisitInstance(w) ==
    /\ pc[w] = "instances"
    /\ \E i \in left[w] :
          /\ left' = [left EXCEPT ![w] = @ \ {i}]
          /\ \/ i \in timer /\ DestroyInstance(i) /\ UNCHANGED <<pc, queue, pending>>
             \/ Schedule(i) /\ UNCHANGED <<live, timer, inside>>
    /\ UNCHANGED <<world, request, shutdown, token, updated>>

EndInstances(w) ==
    /\ pc[w] = "instances" /\ left[w] = {}
    /\ pc' = [pc EXCEPT ![w] = "finish"]
    /\ UNCHANGED <<world, request, left, requests, maps>>

(* update_finished wakes the world thread, which evaluates its predicate.      *)
(* Variant: wait has no predicate.                                             *)
WakeUnconditionally ==
    wpc' = CASE wpc = "asleep" -> "delayed" [] wpc = "lastsleep" -> "cancel" [] OTHER -> wpc

WakeWorld ==
    wpc' = CASE wpc = "asleep" -> "wait" [] wpc = "lastsleep" -> "lastwait" [] OTHER -> wpc

UpdateFinished(w) ==
    /\ pc[w] = "finish"
    /\ pending' = pending - 1
    /\ WakeWorld
    /\ request' = [request EXCEPT ![w] = None]
    /\ pc' = [pc EXCEPT ![w] = "pop"]
    /\ UNCHANGED <<todo, left, queue, shutdown, token, maps>>
-----------------------------------------------------------------------------
(* What the world thread does whenever it can; a new pass and the end are up   *)
(* to it.                                                                      *)
WorldStep ==
    ScheduleBase \/ EndSchedule \/ Wait \/ DelayedUpdate \/ Deactivate \/ Cancel \/ Join

WorldChoice ==
    \/ BeginUpdate \/ UnloadAll
    \/ \E i \in Instances :
          CreateInstance(i) \/ AddPlayerToMap(i) \/ RemovePlayerFromMap(i) \/ SetUnload(i)

WorkerStep(w) ==
    \/ WaitAndPop(w) \/ CheckToken(w) \/ Update(w) \/ VisitInstance(w) \/ EndInstances(w)
    \/ UpdateFinished(w)

Next == WorldStep \/ WorldChoice \/ \E w \in Workers : WorkerStep(w) \/ SpuriousWakeup(w)

(* Every running thread is scheduled; nothing is assumed of spurious wakeups.  *)
Spec ==
    /\ Init /\ [][Next]_vars
    /\ WF_vars(WorldStep)
    /\ \A w \in Workers : WF_vars(WorkerStep(w))
-----------------------------------------------------------------------------
Queued == {queue[k] : k \in DOMAIN queue}
Busy == {w \in Workers : request[w] # None}

(* Outside MapManager::Update's wait the world thread has the maps to itself:  *)
(* no request is queued and no worker holds one.  The handlers of sessions,    *)
(* DelayedUpdate and UnloadAll touch the maps without a lock.                  *)
WorldAlone ==
    wpc \notin {"schedule", "wait", "asleep"} => queue = <<>> /\ Busy = {}

(* A map that is queued, being updated or about to be visited by its parent    *)
(* exists: no worker updates an instance that another one has destroyed.       *)
NoDeletedMap ==
    /\ Queued \subseteq live
    /\ \A w \in Busy : request[w] \in live
    /\ \A w \in Workers : left[w] \subseteq live

(* No map is updated by two workers, or queued while it is updated.            *)
OneUpdater ==
    /\ \A j, k \in DOMAIN queue : queue[j] = queue[k] => j = k
    /\ \A v, w \in Busy : request[v] = request[w] => v = w
    /\ \A w \in Busy : request[w] \notin Queued

(* After the wait every map was updated once, but for an instance that could   *)
(* not be destroyed because of its players.                                    *)
UpdatedOnce ==
    wpc = "delayed" =>
        \A m \in live : updated[m] = 1 \/ (updated[m] = 0 /\ m \in timer \cap inside)

(* WorkerThread does not call a null request: whoever leaves WaitAndPop        *)
(* without one finds the token set.                                            *)
NoNullRequest == \A w \in Workers : pc[w] = "update" => request[w] # None

(* What makes these inductive.  Where the threads are: requests and unvisited  *)
(* instances belong to workers at the places that use them, and the token is   *)
(* up before the queue is shut down.                                           *)
PlaceInv ==
    /\ todo # {} => wpc = "schedule"
    /\ token <=> wpc \in {"lastwait", "lastsleep", "cancel", "join", "done"}
    /\ shutdown => token /\ wpc \in {"join", "done"}
    /\ \A w \in Workers :
          /\ request[w] # None => pc[w] \in {"check", "update", "instances", "finish"}
          /\ pc[w] \in {"update", "instances", "finish"} => request[w] # None
          /\ pc[w] = "check" => request[w] # None \/ token
          /\ left[w] # {} => pc[w] = "instances"
          /\ \A i \in left[w] : Parent[i] = request[w]

(* pending_requests counts the requests that are queued or held.               *)
CountInv == pending = Len(queue) + Cardinality(Busy)

(* A map waiting for its turn, in todo or in left, has no request yet; and an  *)
(* instance has one only when its parent's loop has reached it.                *)
TurnInv ==
    /\ todo \subseteq live
    /\ \A m \in todo : m \notin Queued /\ \A w \in Workers : request[w] # m
    /\ \A v \in Workers : \A i \in left[v] :
          i \notin Queued /\ \A w \in Workers : request[w] # i
    /\ \A i \in Instances :
          (i \in Queued \/ \E w \in Workers : request[w] = i) =>
             /\ Parent[i] \notin todo \cup Queued
             /\ \A w \in Workers : request[w] = Parent[i] => pc[w] \in {"instances", "finish"}

(* A map that this pass has yet to update: it waits for its turn, for a worker *)
(* or for its parent's loop; or its parent's update, which lists it, is still  *)
(* to come.                                                                    *)
Requested(m) ==
    m \in Queued \/ \E w \in Workers : request[w] = m /\ pc[w] \in {"check", "update"}

Due(m) ==
    \/ m \in todo \/ Requested(m)
    \/ \E w \in Workers : m \in left[w]
    \/ m \in Instances /\ (Parent[m] \in todo \/ Requested(Parent[m]))

(* During a pass a map that is due was not updated and every other one was,    *)
(* but for the instances that could not be destroyed.                          *)
ProgressInv ==
    /\ \A i \in live \cap Instances : Parent[i] \in live
    /\ wpc \in {"schedule", "wait", "asleep", "delayed"} =>
          \A m \in live :
             \/ Due(m) /\ updated[m] = 0
             \/ ~Due(m) /\ (updated[m] = 1 \/ (updated[m] = 0 /\ m \in timer \cap inside))

(* A pass ends: no wakeup is lost between the queue, the workers and wait.     *)
PassEnds == wpc = "schedule" ~> wpc = "run"

(* The shutdown ends: every worker is woken and leaves.                        *)
ShutdownEnds == wpc = "deactivate" ~> wpc = "done"
=============================================================================
