------------------------------- MODULE DevTools -------------------------------
(* DevToolsMgr: creature spawns deleted and added in game by developers, kept  *)
(* in memory until they are committed to an update file, which DBUpdater       *)
(* applies at the next start.  Everything here runs in the world thread; the   *)
(* server can crash between two steps, and inside the writing of a file.  One  *)
(* map with one grid and one spawn mode; creatures of the default (dynamic)    *)
(* spawn group that are in no pool.                                            *)
EXTENDS DBUpdater, FiniteSetsExt, Sequences

CONSTANTS
    MaxAttempts,     \* bound: attempts to write a file
    MaxName,         \* bound: names of files
    MaxDead,         \* bound: spawns that are dead at a time
    MaxQueue         \* bound: transactions in the queue

ASSUME BoundsAssumption == {MaxAttempts, MaxName, MaxDead, MaxQueue} \subseteq Nat

VARIABLES
    creatureData,    \* ObjectMgr::_creatureDataStore
    creatureSpawnId, \* ObjectMgr::_creatureSpawnId
    changes,         \* DevToolsMgr::_changes
    hidden,          \* DevToolsMgr::_hiddenCreatureSpawns
    cells,           \* ObjectMgr::_mapObjectGuidsStore, the spawns a grid loads
    grid,            \* the grid is loaded
    present,         \* spawns with a living creature in the map
    corpses,         \* spawns with a dead creature in the map
    timer,           \* spawns with a respawn time
    queue,           \* the world database's queue: transactions not executed yet
    attempts,        \* how often a file was written
    promised,        \* history: the rows as the last start, the commits and the commands
                     \* .npc add and .npc delete left them
    overruled        \* history: spawns deleted with .npc delete while a file or a
                     \* change still inserts them

mapVars == <<grid, present, corpses, timer>>
memVars == <<creatureData, creatureSpawnId, changes, hidden, cells, mapVars, queue>>
history == <<promised, overruled>>
vars == <<updaterVars, memVars, attempts, history>>

TypeOK ==
    /\ server \in {"down", "update", "record", "load", "running"}
    /\ db \in Rows /\ creatureData \in Rows /\ promised \in Rows
    /\ files \subseteq File /\ todo \subseteq files
    /\ updates \subseteq [name : Nat, text : Nat]
    /\ applied \subseteq known /\ known \subseteq [name : Nat, text : Nat]
    /\ \A f, g \in files : f.name = g.name => f = g
    /\ creatureSpawnId \in 1..(MaxId + 1)
    /\ changes \subseteq Change
    /\ hidden \subseteq Ids /\ cells \subseteq Ids
    /\ present \subseteq Ids /\ corpses \subseteq Ids /\ timer \subseteq Ids
    /\ queue \in Seq(Change)
    /\ overruled \subseteq Ids
    /\ grid \in BOOLEAN /\ spoiled \in BOOLEAN
    /\ attempts \in 0..MaxAttempts

NoRows == [s \in Ids |-> None]

Init ==
    /\ UpdaterInit
    /\ creatureData = NoRows /\ creatureSpawnId = 1
    /\ changes = {} /\ hidden = {} /\ cells = {}
    /\ grid = FALSE /\ present = {} /\ corpses = {} /\ timer = {}
    /\ queue = <<>>
    /\ attempts = 0
    /\ promised = db /\ overruled = {}
-----------------------------------------------------------------------------
(* SetHighestGuids and LoadCreatures.  The character database keeps respawn    *)
(* times: any of the spawns may have one.                                      *)
LoadCreatures ==
    /\ server = "load"
    /\ server' = "running"
    /\ creatureData' = db
    /\ creatureSpawnId' = 1 + Max({0} \cup {s \in Ids : db[s] # None})
    /\ cells' = {s \in Ids : db[s] # None}
    /\ timer' \in {T \in SUBSET cells' : Cardinality(T) <= MaxDead}
    /\ promised' = db /\ overruled' = {} /\ spoiled' = FALSE
    /\ UNCHANGED <<db, files, updates, loop, changes, hidden, grid, present, corpses, queue,
                   attempts>>

(* The process ends, at any point: what was in memory is gone, the queue of    *)
(* the database too.  Of the spawns in it no more is promised than the rows    *)
(* the database has, unless a file promises it.                                *)
Recorded(f) == \E r \in updates : r.text = f.text
Touches(sql, s) == \E c \in sql : c.spawn = s
ToCome(s) == {f \in files : ~f.failed /\ ~Recorded(f) /\ Touches(f.sql, s)}
Queued(s) == {i \in DOMAIN queue : queue[i].spawn = s}

Forget ==
    /\ server' = "down"
    /\ creatureData' = NoRows /\ creatureSpawnId' = 1
    /\ changes' = {} /\ hidden' = {} /\ cells' = {}
    /\ grid' = FALSE /\ present' = {} /\ corpses' = {} /\ timer' = {}
    /\ queue' = <<>>
    /\ promised' = [s \in Ids |-> IF Queued(s) # {} /\ ToCome(s) = {} THEN db[s] ELSE promised[s]]
    /\ Return

Crash ==
    /\ server # "down"
    /\ Forget
    /\ UNCHANGED <<db, files, updates, spoiled, attempts, overruled>>
-----------------------------------------------------------------------------
Running == server = "running"
IsCreatureSpawnHidden(s) == s \in hidden

(* Creature::LoadFromDB gives a creature.                                      *)
LoadsFromDB(s) == ~IsCreatureSpawnHidden(s) /\ creatureData[s] # None

(* A change is appended, under an id of its own.                               *)
Record(type, s, e) == changes' = changes \cup {[type |-> type, spawn |-> s, entry |-> e]}

(* Undo, once the change is found.  A spawn that waits for its respawn is left *)
(* to it.                                                                      *)
RemoveSpawn(s) ==
    /\ creatureData' = [creatureData EXCEPT ![s] = None]
    /\ cells' = cells \ {s}
    /\ present' = present \ {s} /\ corpses' = corpses \ {s}
    /\ timer' = timer \ {s}

CreateAgain(s) ==
    present' = IF creatureData[s] # None /\ grid /\ s \notin timer THEN present \cup {s}
                                                                    ELSE present

UndoChange(c) ==
    /\ changes' = changes \ {c}
    /\ \/ c.type = "spawn" /\ RemoveSpawn(c.spawn) /\ UNCHANGED hidden
       \/ /\ c.type = "delete"
          /\ hidden' = hidden \ {c.spawn}
          /\ CreateAgain(c.spawn)
          /\ UNCHANGED <<creatureData, cells, corpses, timer>>
    /\ UNCHANGED <<creatureSpawnId, grid>>

outside == <<updaterVars, queue, attempts, history>>

(* DeleteCreatureSpawn of a spawn of the database, alive or a corpse; a        *)
(* respawn time goes on running ...                                            *)
PendingSpawn(s) == {c \in changes : c.type = "spawn" /\ c.spawn = s}

DeleteCreatureSpawn(s) ==
    /\ Running /\ s \in present \cup corpses /\ creatureData[s] # None
    /\ ~IsCreatureSpawnHidden(s) /\ PendingSpawn(s) = {}
    /\ Record("delete", s, None)
    /\ hidden' = hidden \cup {s}
    /\ present' = present \ {s} /\ corpses' = corpses \ {s}
    /\ UNCHANGED <<outside, creatureData, creatureSpawnId, cells, grid, timer>>

(* ... and of one made with the DevTools and not committed, which is           *)
(* cancelled.                                                                  *)
CancelSpawn(s) ==
    /\ Running /\ s \in present \cup corpses
    /\ \E c \in PendingSpawn(s) : UndoChange(c)
    /\ UNCHANGED outside

(* A spawn id, and the creature of that spawn in front of the developer.       *)
NewSpawn(e) ==
    /\ Running /\ grid /\ creatureSpawnId <= MaxId
    /\ creatureSpawnId' = creatureSpawnId + 1
    /\ creatureData' = [creatureData EXCEPT ![creatureSpawnId] = e]

AddSpawn(e) ==
    /\ NewSpawn(e)
    /\ cells' = cells \cup {creatureSpawnId}
    /\ present' = present \cup {creatureSpawnId}

SpawnCreature(e) ==
    /\ AddSpawn(e)
    /\ Record("spawn", creatureSpawnId, e)
    /\ UNCHANGED <<outside, hidden, grid, corpses, timer>>

(* CreateCreatureFromDB fails: the data is deleted, the id is spent.           *)
SpawnCreatureFails ==
    /\ Running /\ grid /\ creatureSpawnId <= MaxId
    /\ creatureSpawnId' = creatureSpawnId + 1
    /\ UNCHANGED <<outside, creatureData, changes, hidden, cells, mapVars>>

(* Undo of a pending change; of any other id it is an error and nothing else.  *)
Undo(c) == Running /\ UndoChange(c) /\ UNCHANGED outside
-----------------------------------------------------------------------------
(* Commit: the name after the greatest of the day, or the first of a new day:  *)
(* one that follows all others, as no file is dated after the server's day.    *)
(* As only their order counts, the names used are numbered without gaps.       *)
(* Variant: the number of the files.                                           *)
CountedName == {Cardinality(files)}
NextNames ==
    {n \in 0..MaxName : /\ \A f \in files : f.name < n
                        /\ n = 0 \/ \E g \in files \cup updates : g.name = n - 1}

NewFile(sql, cut, failed) ==
    /\ attempts < MaxAttempts
    /\ attempts' = attempts + 1
    /\ failed => FewFailures(files)
    /\ \E n \in NextNames :
          files' = files \cup {[name |-> n, text |-> attempts, sql |-> sql, cut |-> cut,
                                failed |-> failed]}

(* The file is written: the changes are cleared, hidden spawns stay hidden.    *)
(* Variant: hidden spawns come back.                                           *)
KeepHiddenNot == hidden' = {}
KeepHidden == UNCHANGED hidden

Commit ==
    /\ Running /\ changes # {}
    /\ NewFile(changes, FALSE, FALSE)
    /\ promised' = Execute(promised, changes)
    /\ changes' = {}
    /\ KeepHidden
    /\ UNCHANGED <<server, db, updates, loop, spoiled, creatureData, creatureSpawnId, cells,
                   mapVars, queue, overruled>>

(* What is on the disk when the writing stops: some changes, perhaps a piece   *)
(* of the next one.                                                            *)
PartOf(sql, cut) ==
    \E part \in SUBSET sql : (cut => part # sql) /\ NewFile(part, cut, TRUE)

(* The write fails: the changes are kept, and so is what was written.          *)
CommitFails ==
    /\ Running /\ changes # {}
    /\ \E cut \in BOOLEAN : PartOf(changes, cut)
    /\ UNCHANGED <<server, db, updates, loop, spoiled, memVars, history>>

(* The server ends while it writes.                                            *)
CrashInCommit ==
    /\ Running /\ changes # {}
    /\ \E cut \in BOOLEAN : PartOf(changes, cut)
    /\ Forget
    /\ UNCHANGED <<db, updates, spoiled, overruled>>
-----------------------------------------------------------------------------
(* Maps: the grid is loaded and unloaded, creatures die, the respawn time is   *)
(* saved at their death, and they respawn, whether the corpse is still there   *)
(* or not.                                                                     *)
otherwise == <<outside, creatureData, creatureSpawnId, changes, hidden, cells>>

LoadGrid ==
    /\ Running /\ ~grid
    /\ grid' = TRUE
    /\ present' = {s \in cells \ timer : LoadsFromDB(s)}
    /\ UNCHANGED <<otherwise, corpses, timer>>

UnloadGrid ==
    /\ Running /\ grid
    /\ grid' = FALSE /\ present' = {} /\ corpses' = {}
    /\ UNCHANGED <<otherwise, timer>>

Die(s) ==
    /\ Running /\ s \in present
    /\ Cardinality(corpses \cup timer \cup {s}) <= MaxDead
    /\ present' = present \ {s} /\ corpses' = corpses \cup {s}
    /\ timer' = timer \cup {s}
    /\ UNCHANGED <<otherwise, grid>>

(* The last corpse of a spawn decays.                                          *)
RemoveCorpse(s) ==
    /\ Running /\ s \in corpses
    /\ corpses' = corpses \ {s}
    /\ UNCHANGED <<otherwise, grid, present, timer>>

(* ProcessRespawns, DoRespawn.  Variant: the deleted are left out where a grid *)
(* is loaded, and only there.                                                  *)
RespawnHidden(s) == grid /\ creatureData[s] # None
DoRespawn(s) == grid /\ LoadsFromDB(s)

Respawn(s) ==
    /\ Running /\ s \in timer
    /\ timer' = timer \ {s}
    /\ present' = IF DoRespawn(s) THEN present \cup {s} ELSE present
    /\ UNCHANGED <<otherwise, grid, corpses>>
-----------------------------------------------------------------------------
(* The commands .npc add and .npc delete change memory at once and queue the   *)
(* transaction; the one worker of the world database executes the queue (that  *)
(* a transaction fails is a matter of module Transactions).                    *)
Enqueue(type, s, e) ==
    /\ Len(queue) < MaxQueue
    /\ queue' = Append(queue, [type |-> type, spawn |-> s, entry |-> e])
    /\ promised' = [promised EXCEPT ![s] = e]

NpcAdd(e) ==
    /\ AddSpawn(e)
    /\ Enqueue("spawn", creatureSpawnId, e)
    /\ UNCHANGED <<updaterVars, attempts, overruled, changes, hidden, grid, corpses, timer>>

(* CreateCreatureFromDB fails: the data and the row stay, the spawn is not     *)
(* added to its cell.                                                          *)
NpcAddFails(e) ==
    /\ NewSpawn(e)
    /\ Enqueue("spawn", creatureSpawnId, e)
    /\ UNCHANGED <<updaterVars, attempts, overruled, changes, hidden, cells, mapVars>>

Announced(s) ==
    \E c \in changes \cup UNION {f.sql : f \in {g \in files : Entry(g) \notin updates}} :
        c.type = "spawn" /\ c.spawn = s

NpcDelete(s) ==
    /\ Running /\ creatureData[s] # None
    /\ RemoveSpawn(s)
    /\ Enqueue("delete", s, None)
    /\ overruled' = IF Announced(s) THEN overruled \cup {s} ELSE overruled
    /\ UNCHANGED <<updaterVars, attempts, creatureSpawnId, changes, hidden, grid>>

ExecuteWrite ==
    /\ Running /\ queue # <<>>
    /\ db' = Execute(db, {Head(queue)})
    /\ queue' = Tail(queue)
    /\ UNCHANGED <<server, files, updates, loop, spoiled, creatureData, creatureSpawnId, changes,
                   hidden, cells, mapVars, attempts, history>>
-----------------------------------------------------------------------------
(* The update directory between starts: the developers remove what a failed    *)
(* commit left, and remove files that were applied; while the server is down   *)
(* they also give these a later name, one the table does not know.             *)
RemoveFile(f) ==
    /\ server \in {"down", "running"} /\ f \in files
    /\ f.failed \/ Entry(f) \in updates
    /\ files' = files \ {f}
    /\ UNCHANGED <<server, db, updates, loop, spoiled, memVars, attempts, history>>

RenameFile(f) ==
    /\ server = "down" /\ f \in files /\ Entry(f) \in updates
    /\ \E n \in NextNames :
          /\ \A r \in updates : r.name # n
          /\ files' = (files \ {f}) \cup {[f EXCEPT !.name = n]}
    /\ UNCHANGED <<server, db, updates, loop, spoiled, memVars, attempts, history>>

Next ==
    \/ UpdateStep /\ UNCHANGED <<memVars, attempts, history>>
    \/ LoadCreatures \/ Crash
    \/ \E s \in Ids : \/ DeleteCreatureSpawn(s) \/ CancelSpawn(s) \/ NpcDelete(s)
                      \/ Die(s) \/ RemoveCorpse(s) \/ Respawn(s)
    \/ \E e \in Entries : SpawnCreature(e) \/ NpcAdd(e) \/ NpcAddFails(e)
    \/ ExecuteWrite
    \/ SpawnCreatureFails \/ \E c \in changes : Undo(c)
    \/ Commit \/ CommitFails \/ CrashInCommit
    \/ LoadGrid \/ UnloadGrid
    \/ \E f \in files : RemoveFile(f) \/ RenameFile(f)

Spec == Init /\ [][Next]_vars
-----------------------------------------------------------------------------
(* What the world shows of a spawn, and what the database will have of it once *)
(* the pending changes are committed.                                          *)
Shown(s) == IF s \in hidden THEN None ELSE creatureData[s]

(* DevToolsMgr.h:48, "Changes are only applied in memory": through deletions,  *)
(* spawns, cancellations, undos in any order, commits and failed commits, the  *)
(* running world is what was committed with the pending changes on top, and a  *)
(* commit changes nothing in it.                                               *)
WorldIsPromise ==
    server = "running" =>
        \A s \in Ids \ overruled : Shown(s) = Execute(promised, changes)[s]

(* IscHandler.cpp:266, "applied at the next restart": after any crashes,       *)
(* renames, removals and starts that were cut short, a start that comes to     *)
(* loading the creatures has the rows the commits, .npc add and .npc delete    *)
(* promised.  The code promises no more: a crash loses the transactions it     *)
(* finds in the queue (Creature.cpp:1455, :1887), and a start that applies a   *)
(* file left by a failed commit, or by a failed entry in `updates`, may give   *)
(* any rows.                                                                   *)
StartKeepsPromise ==
    server = "load" /\ ~spoiled =>
        \A s \in Ids \ overruled : db[s] = promised[s]

(* DevToolsMgr.h:55, "a deleted spawn neither loads with its grid nor          *)
(* respawns", though it was deleted as a corpse and its respawn time runs out; *)
(* what is not deleted is there or will respawn, also after an undo, unless    *)
(* .npc add failed to create it; what has a respawn time has its data          *)
(* (Map.cpp:1693, the assertion of CheckRespawn).                              *)
MapShowsWorld ==
    server = "running" =>
        /\ \A s \in present \cup corpses : grid /\ Shown(s) # None
        /\ grid => \A s \in cells : Shown(s) # None => s \in present \cup timer
        /\ \A s \in timer : creatureData[s] # None

(* What makes these inductive.  The memory of the server is empty until the    *)
(* creatures are loaded.                                                       *)
MemoryInv ==
    server # "running" =>
        /\ creatureData = NoRows /\ changes = {} /\ hidden = {}
        /\ ~grid /\ present = {} /\ corpses = {} /\ timer = {}
        /\ queue = <<>>

(* The next spawn id is not used by a row, by a pending change or by a file    *)
(* that is still to be applied.                                                *)
IdInv ==
    server = "running" =>
        /\ \A s \in Ids : s >= creatureSpawnId =>
              /\ creatureData[s] = None /\ promised[s] = None
              /\ s \notin hidden /\ s \notin cells /\ ~Touches(changes, s)
        /\ \A f \in files : ~f.failed /\ ~Recorded(f) => \A c \in f.sql : c.spawn < creatureSpawnId

(* The pending changes are about different spawns; each can be undone.         *)
ChangeInv ==
    /\ \A c, d \in changes : c.spawn = d.spawn => c = d
    /\ \A c \in changes :
          LET s == c.spawn IN
          \/ /\ c.type = "delete" /\ c.entry = None /\ s \in hidden
             /\ s \notin overruled => creatureData[s] = promised[s]
          \/ /\ c.type = "spawn" /\ s \notin hidden
             /\ s \notin overruled => promised[s] = None

(* Names and texts identify the files and the rows of `updates`; a row with    *)
(* the text of a file has its name, or the name it had before it was renamed,  *)
(* which no file has taken since.                                              *)
FileInv ==
    /\ \A f \in files :
          /\ f.text < attempts
          /\ \A c \in f.sql : c.type = "delete" => c.entry = None
    /\ \A f, g \in files : f.text = g.text => f = g
    /\ \A r \in updates : r.text < attempts
    /\ \A q, r \in updates : q.name = r.name \/ q.text = r.text => q = r

RenameInv ==
    \A f \in files, r \in updates :
        r.text = f.text /\ r.name # f.name =>
            /\ r.name < f.name
            /\ \A g \in files : g.name # r.name
            /\ \A q \in updates : q.name # f.name

(* The loop of Update has met the files it has passed; of the others its maps  *)
(* and the table say the same.                                                 *)
LoopInv ==
    /\ server \notin {"update", "record"} => todo = {} /\ applied = {} /\ known = {}
    /\ server \in {"update", "record", "load"} =>
          \A f \in files \ todo : (f.failed \/ Entry(f) \in updates) /\ ~IsApplied(f)
    /\ \A f \in todo :
          /\ \A r \in updates : r.text = f.text => r \in applied
          /\ \A r \in known : r.text = f.text => r \in updates
          /\ \A q, r \in known : r.text = f.text /\ r.name # f.name => q.name # f.name

(* A file that was applied and not recorded is the one at hand, and its rows   *)
(* are in the database.                                                        *)
Written(sql, s) == (CHOOSE c \in sql : c.spawn = s).entry

RecordInv ==
    server = "record" =>
        \A f \in todo : (\A g \in todo : f.name <= g.name) =>
            /\ ~Recorded(f)
            /\ ~spoiled => \A s \in Ids : Touches(f.sql, s) => db[s] = Written(f.sql, s)

(* A row is promised by the last file that is still to be applied and changes  *)
(* it; without such a file it is in the database, or will be when the queue is *)
(* executed.                                                                   *)
Stored(s) == IF Queued(s) = {} THEN db[s] ELSE queue[Max(Queued(s))].entry

PromiseInv ==
    ~spoiled =>
        \A s \in Ids \ overruled :
            /\ ToCome(s) = {} => promised[s] = Stored(s)
            /\ \A f \in ToCome(s) :
                  (\A g \in ToCome(s) : g.name <= f.name) => promised[s] = Written(f.sql, s)
=============================================================================
