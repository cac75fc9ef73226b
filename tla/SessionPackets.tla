--------------------------- MODULE SessionPackets ---------------------------
(***************************************************************************)
(* One WorldSession between its socket and the database: the queue of      *)
(* received packets that the world thread and the thread of the player's   *)
(* map empty in turn (WorldSession::Update with a WorldSessionFilter or a  *)
(* MapSessionFilter), the handlers that log a character in and out, and    *)
(* the continuations of their queries (AsyncCallbackProcessor), which run  *)
(* in a later update, when the character may have left.                    *)
(* An opcode stands for all opcodes with its status and its place.         *)
(***************************************************************************)
EXTENDS Naturals, Sequences, FiniteSets, SequencesExt

CONSTANTS
  Chars,        \* the characters of the account
  Addresses,    \* where the allocator can put a Player object
  Null,         \* the null pointer, and no character
  Client,       \* the opcodes the client may send, first, second, and so on
  Budget        \* MAX_PROCESSED_PACKETS_IN_SAME_WORLDSESSION_UPDATE

ASSUME SessionPacketsAssumption ==
  /\ Null \notin Addresses \cup Chars
  /\ Budget \in Nat

\* The entries of the opcode table.
Opcode == [
  charEnum    |-> [status |-> "AUTHED",              place |-> "THREADUNSAFE"],
  charCreate  |-> [status |-> "AUTHED",              place |-> "THREADUNSAFE"],
  playerLogin |-> [status |-> "AUTHED",              place |-> "THREADUNSAFE"],
  jump        |-> [status |-> "LOGGEDIN",            place |-> "THREADSAFE"],
  areaTrigger |-> [status |-> "LOGGEDIN",            place |-> "INPLACE"],
  sendMail    |-> [status |-> "LOGGEDIN",            place |-> "THREADUNSAFE"],
  addFriend   |-> [status |-> "LOGGEDIN",            place |-> "THREADUNSAFE"],
  logout      |-> [status |-> "LOGGEDIN",            place |-> "THREADUNSAFE"],
  worldport   |-> [status |-> "TRANSFER",            place |-> "THREADUNSAFE"],
  cancelTrade |-> [status |-> "LOGGEDIN_OR_RECENTLY_LOGGOUT", place |-> "THREADUNSAFE"],
  bootMe      |-> [status |-> "NEVER",               place |-> "INPLACE"] ]

ASSUME ClientAssumption == Client \in Seq(SUBSET DOMAIN Opcode)

\* Bound on the packets of a behaviour.
MaxPackets == Len(Client)

Processors == <<"query", "transaction", "holder">>

VARIABLES
  received,         \* number of packets received
  recvQueue,        \* _recvQueue: packets, numbered in the order of arrival
  done,             \* the numbers of the packets handled, refused or dropped
  sock,             \* m_Socket: "open", "closed", or "null"
  forceExit,
  inQueue,          \* m_inQueue: the session waits for a place on the server
  player,           \* _player
  inWorld,          \* _player->IsInWorld()
  guid,             \* m_GUIDLow
  legit,            \* _legitCharacters has been filled
  misread,          \* history: a CMSG_PLAYER_LOGIN was too short
  playerLoading,
  recentlyLogout,   \* m_playerRecentlyLogout
  logoutTime,       \* _logoutTime > 0
  pc,               \* where the thread that updates the session is
  filter,           \* the filter of the update: "world" or "map"
  requeuePackets,
  processedPackets,
  callbacks,        \* _callbacks of the three processors
  proc,             \* the processor that is processing
  updateCallbacks,  \* its callbacks not yet looked at
  notReady,         \* its callbacks that erase_if keeps
  queries,          \* number of queries started
  ready,            \* the queries whose result has arrived and was not taken
  ran,              \* the queries whose result a continuation has taken
  crashed           \* a null _player was used

netVars == <<received, sock>>
playerVars == <<forceExit, player, inWorld, guid, legit, misread, playerLoading, recentlyLogout, logoutTime>>
loopVars == <<recvQueue, done, requeuePackets, processedPackets>>
cbVars == <<callbacks, proc, updateCallbacks, notReady, queries, ready, ran>>
vars == <<received, recvQueue, done, sock, forceExit, inQueue, player, inWorld, guid, legit,
          misread, playerLoading, recentlyLogout, logoutTime, pc, filter, requeuePackets, processedPackets,
          callbacks, proc, updateCallbacks, notReady, queries, ready, ran, crashed>>

Init ==
  /\ received = 0 /\ recvQueue = <<>> /\ done = {}
  /\ sock = "open" /\ forceExit = FALSE /\ inQueue \in BOOLEAN
  /\ player = Null /\ inWorld = FALSE /\ guid = Null /\ legit = FALSE /\ misread = FALSE
  /\ playerLoading = FALSE /\ recentlyLogout = FALSE /\ logoutTime = FALSE
  /\ pc = "sessions" /\ filter = "world" /\ requeuePackets = <<>> /\ processedPackets = 0
  /\ callbacks = [p \in ToSet(Processors) |-> <<>>] /\ proc = 1
  /\ updateCallbacks = <<>> /\ notReady = <<>> /\ queries = 0 /\ ready = {} /\ ran = {}
  /\ crashed = FALSE

Status(packet) == Opcode[packet.opcode].status
Place(packet) == Opcode[packet.opcode].place
-----------------------------------------------------------------------------
(* The network thread, the world's login queue and the database.           *)

\* WorldSession::QueuePacket, called by the socket's read handler.
QueuePacket(k) ==
  /\ sock = "open" /\ received < MaxPackets /\ k \in Client[received + 1]
  /\ received' = received + 1
  /\ recvQueue' = Append(recvQueue, [number |-> received', opcode |-> k])
  /\ UNCHANGED <<playerVars, cbVars, sock, inQueue, done, requeuePackets, processedPackets, pc, filter, crashed>>

\* The connection ends: the client leaves, or is idle for too long.
CloseSocket ==
  /\ sock = "open" /\ sock' = "closed"
  /\ UNCHANGED <<playerVars, cbVars, loopVars, received, inQueue, pc, filter, crashed>>

\* The world lets the session in (InitializeSession, SendAuthWaitQueue(0)).
LeaveQueue ==
  /\ inQueue /\ pc = "sessions" /\ inQueue' = FALSE
  /\ UNCHANGED <<playerVars, cbVars, loopVars, netVars, pc, filter, crashed>>

PendingCallbacks ==
  callbacks["query"] \o callbacks["transaction"] \o callbacks["holder"] \o updateCallbacks \o notReady

\* A database worker sets the promise of a query.
QueryDone(q) ==
  /\ pc # "deleted"
  /\ \E cb \in ToSet(PendingCallbacks) : cb.query = q
  /\ q \notin ready /\ ready' = ready \cup {q}
  /\ UNCHANGED <<playerVars, loopVars, netVars, callbacks, proc, updateCallbacks, notReady, queries, ran,
                 inQueue, pc, filter, crashed>>
-----------------------------------------------------------------------------
(* The packet loop of WorldSession::Update.                                *)

\* Variant: thread-unsafe packets are processed by map threads too.
MapSessionFilterUnsafe(packet) == Place(packet) = "INPLACE" \/ (player # Null /\ inWorld)

MapSessionFilter(packet) ==
  \/ Place(packet) = "INPLACE"
  \/ Place(packet) = "THREADSAFE" /\ player # Null /\ inWorld

WorldSessionFilter(packet) ==
  \/ Place(packet) \in {"INPLACE", "THREADUNSAFE"}
  \/ player = Null
  \/ ~inWorld

Process(packet) == IF filter = "map" THEN MapSessionFilter(packet) ELSE WorldSessionFilter(packet)

\* Variant: the filter skips packets instead of stopping at the first.
NextPacketSkipping ==
  LET passing == SelectSeq(recvQueue, Process) IN IF passing = <<>> THEN {} ELSE {Head(passing)}

\* The packet that LockedQueue::next(result, check) returns, if any: the
\* first of the queue, or none when the filter refuses it.
NextPacket == IF recvQueue # <<>> /\ Process(Head(recvQueue)) THEN {Head(recvQueue)} ELSE {}

\* Variant: the count of processed packets is not reset.
BeginWorldUpdateCounting ==
  /\ pc = "sessions"
  /\ pc' = "packets" /\ filter' = "world"
  /\ UNCHANGED <<playerVars, cbVars, loopVars, netVars, inQueue, crashed>>

\* World::UpdateSessions updates every session once in a tick.
BeginWorldUpdate ==
  /\ pc = "sessions"
  /\ pc' = "packets" /\ filter' = "world" /\ processedPackets' = 0
  /\ UNCHANGED <<playerVars, cbVars, netVars, recvQueue, done, requeuePackets, inQueue, crashed>>

\* Map::Update updates the sessions of the players that are in its world.
BeginMapUpdate ==
  /\ pc = "maps" /\ player # Null /\ inWorld
  /\ pc' = "packets" /\ filter' = "map" /\ processedPackets' = 0
  /\ UNCHANGED <<playerVars, cbVars, netVars, recvQueue, done, requeuePackets, inQueue, crashed>>

\* No map has the player, or the interval of the map updates has not passed.
SkipMapUpdate ==
  /\ pc = "maps" /\ pc' = "sessions"
  /\ UNCHANGED <<playerVars, cbVars, loopVars, netVars, inQueue, filter, crashed>>

KickPlayer == sock' = "closed" /\ forceExit' = TRUE

LogoutPlayer ==
  /\ player' = Null /\ inWorld' = FALSE
  /\ recentlyLogout' = TRUE /\ logoutTime' = FALSE
  /\ UNCHANGED <<guid, legit, misread, playerLoading>>

AddCallback(p, kind, who, left) ==
  /\ queries' = queries + 1
  /\ callbacks' = [callbacks EXCEPT ![p] =
                     Append(@, [query |-> queries', kind |-> kind, who |-> who, left |-> left])]

NoQuery == UNCHANGED <<callbacks, queries>>

\* Variant: the packets are added to the end of the queue.
ReaddAtEnd(again, queue) == queue \o again

\* What LockedQueue::readd leaves in the queue.
Readd(again, queue) == again \o queue

\* A packet whose handler is called, if AntiDOS lets it.
Expected(packet) ==
  CASE Status(packet) = "AUTHED" -> ~inQueue
    [] Status(packet) = "LOGGEDIN" -> player # Null /\ inWorld
    [] Status(packet) = "TRANSFER" -> player # Null /\ ~inWorld
    [] Status(packet) = "LOGGEDIN_OR_RECENTLY_LOGGOUT" -> player # Null \/ recentlyLogout
    [] OTHER -> FALSE

\* A packet that waits for the login of its character.
Early(packet) == Status(packet) = "LOGGEDIN" /\ player = Null /\ ~recentlyLogout
-----------------------------------------------------------------------------
(* The handlers: their effect on the session.                              *)

HandleCharEnumOpcode ==
  /\ recentlyLogout' = FALSE
  /\ AddCallback("query", "charEnum", Null, 0)
  /\ UNCHANGED <<sock, forceExit, player, inWorld, guid, legit, misread, playerLoading, logoutTime>>

\* The name, the account's characters, the realm's characters and perhaps
\* their race and class are asked for one after the other by one callback.
HandleCharCreateOpcode ==
  /\ \/ AddCallback("query", "charCreate", Null, 3)
     \/ NoQuery
  /\ UNCHANGED <<playerVars, sock>>

\* Variant: a login that is under way is not noticed.
HandlePlayerLoginAgain ==
  /\ playerLoading' = TRUE
  /\ \E c \in Chars : AddCallback("holder", "playerLogin", c, 0)
  /\ UNCHANGED <<sock, forceExit, player, inWorld, guid, legit, misread, recentlyLogout, logoutTime>>

\* m_playerLoading is set before the guid is read: the exception of a packet
\* that is too short leaves it set, and Update only skips the packet.
MisreadLogin == playerLoading' = TRUE /\ misread' = TRUE /\ NoQuery /\ UNCHANGED <<sock, forceExit>>

\* The queries of the holder cannot be set.
InitializeFails == legit /\ playerLoading' = FALSE /\ NoQuery /\ UNCHANGED <<misread, sock, forceExit>>

HandlePlayerLoginOpcode ==
  \/ /\ playerLoading \/ player # Null
     /\ KickPlayer /\ NoQuery
     /\ UNCHANGED <<player, inWorld, guid, legit, misread, playerLoading, recentlyLogout, logoutTime>>
  \/ /\ ~playerLoading /\ player = Null
     /\ \/ MisreadLogin
        \/ playerLoading' = TRUE /\ KickPlayer /\ NoQuery /\ UNCHANGED misread
        \/ InitializeFails
        \/ /\ legit /\ playerLoading' = TRUE /\ UNCHANGED <<misread, sock, forceExit>>
           /\ \E c \in Chars : AddCallback("holder", "playerLogin", c, 0)
     /\ UNCHANGED <<player, inWorld, guid, legit, recentlyLogout, logoutTime>>

\* The receiver is connected, or his mails are counted in the database.
HandleSendMail ==
  /\ \/ AddCallback("query", "sendMail", player, 0)
     \/ NoQuery
  /\ UNCHANGED <<playerVars, sock>>

HandleAddFriendOpcode ==
  /\ \/ AddCallback("query", "addFriend", guid, 0)
     \/ NoQuery
  /\ UNCHANGED <<playerVars, sock>>

HandleLogoutRequestOpcode ==
  /\ \/ LogoutPlayer
     \/ /\ logoutTime' \in BOOLEAN
        /\ UNCHANGED <<player, inWorld, guid, legit, misread, playerLoading, recentlyLogout>>
  /\ NoQuery /\ UNCHANGED <<sock, forceExit>>

\* The trigger may send the player to another map.
HandleAreaTriggerOpcode ==
  /\ inWorld' \in BOOLEAN
  /\ NoQuery
  /\ UNCHANGED <<sock, forceExit, player, guid, legit, misread, playerLoading, recentlyLogout, logoutTime>>

\* The player enters the new map, is sent on to its home when it cannot, or
\* is logged out when the position is not valid.
HandleMoveWorldportAck ==
  /\ \/ /\ inWorld' \in BOOLEAN
        /\ UNCHANGED <<player, guid, legit, misread, playerLoading, recentlyLogout, logoutTime>>
     \/ LogoutPlayer
  /\ NoQuery /\ UNCHANGED <<sock, forceExit>>

Call(k) ==
  CASE k = "charEnum" -> HandleCharEnumOpcode
    [] k = "charCreate" -> HandleCharCreateOpcode
    [] k = "playerLogin" -> HandlePlayerLoginOpcode
    [] k = "sendMail" -> HandleSendMail
    [] k = "addFriend" -> HandleAddFriendOpcode
    [] k = "logout" -> HandleLogoutRequestOpcode
    [] k = "areaTrigger" -> HandleAreaTriggerOpcode
    [] k = "worldport" -> HandleMoveWorldportAck
    [] OTHER -> NoQuery /\ UNCHANGED <<playerVars, sock>>
-----------------------------------------------------------------------------
(* The steps of WorldSession::Update.                                      *)

Take(packet) == \E n \in DOMAIN recvQueue : recvQueue[n] = packet /\ recvQueue' = RemoveAt(recvQueue, n)

\* STATUS_LOGGEDIN without a player: the packet waits for the login.
RequeuePacket(packet) ==
  /\ Early(packet)
  /\ Take(packet) /\ requeuePackets' = Append(requeuePackets, packet)
  /\ processedPackets' = processedPackets + 1
  /\ NoQuery /\ UNCHANGED <<playerVars, sock, done>>

\* Neither expected nor early: logged or ignored, and deleted.
DropPacket(packet) ==
  /\ ~Expected(packet) /\ ~Early(packet)
  /\ Take(packet) /\ done' = done \cup {packet.number}
  /\ processedPackets' = processedPackets + 1
  /\ NoQuery /\ UNCHANGED <<playerVars, sock, requeuePackets>>

HandlePacket(packet) ==
  /\ Expected(packet)
  /\ Take(packet) /\ done' = done \cup {packet.number}
  /\ processedPackets' = processedPackets + 1
  /\ Call(packet.opcode)
  /\ UNCHANGED requeuePackets

\* AntiDOS: too many of this opcode in a second. The client is kicked and
\* the loop ends.
RefusePacket(packet) ==
  /\ Expected(packet)
  /\ Take(packet) /\ done' = done \cup {packet.number}
  /\ processedPackets' = Budget + 1
  /\ KickPlayer
  /\ recentlyLogout' = (recentlyLogout /\ packet.opcode # "charEnum")
  /\ NoQuery /\ UNCHANGED <<player, inWorld, guid, legit, misread, playerLoading, logoutTime, requeuePackets>>

\* The loop ends when processedPackets > MAX_PROCESSED_PACKETS...
WithinBudget == processedPackets <= Budget

ProcessPacket ==
  /\ pc = "packets" /\ WithinBudget
  /\ \E packet \in NextPacket : RequeuePacket(packet) \/ DropPacket(packet) \/ HandlePacket(packet) \/ RefusePacket(packet)
  /\ UNCHANGED <<received, inQueue, pc, filter, proc, updateCallbacks, notReady, ready, ran, crashed>>

\* The callbacks of a processor are moved out before they are looked at.
BeginProcessor(n) ==
  /\ proc' = n
  /\ updateCallbacks' = callbacks[Processors[n]]
  /\ callbacks' = [callbacks EXCEPT ![Processors[n]] = <<>>]

EndPackets ==
  /\ pc = "packets"
  /\ ~WithinBudget \/ NextPacket = {}
  /\ recvQueue' = Readd(requeuePackets, recvQueue) /\ requeuePackets' = <<>>
  /\ pc' = "callbacks" /\ BeginProcessor(1)
  /\ UNCHANGED <<playerVars, netVars, done, processedPackets, inQueue, filter, notReady, queries, ready, ran, crashed>>
-----------------------------------------------------------------------------
(* ProcessQueryCallbacks and the continuations.                            *)

\* The result of the query is taken; after the last one the callback is
\* erased.
Result(cb) == ran' = ran \cup {cb.query} /\ ready' = ready \ {cb.query}
Finish(cb) == Result(cb) /\ UNCHANGED notReady

HandleCharEnum(cb) ==
  /\ Finish(cb) /\ legit' = TRUE
  /\ NoQuery
  /\ UNCHANGED <<sock, forceExit, player, inWorld, guid, misread, playerLoading, recentlyLogout, logoutTime, crashed>>

\* The character cannot be created; or SetNextQuery puts the next query in
\* the place of the one that is done; or the character is saved.
CharCreateContinuation(cb) ==
  /\ \/ Finish(cb) /\ NoQuery
     \/ /\ cb.left > 0
        /\ queries' = queries + 1 /\ Result(cb)
        /\ notReady' = Append(notReady, [cb EXCEPT !.query = queries', !.left = @ - 1])
        /\ UNCHANGED callbacks
     \/ /\ cb.left \in {0, 1}
        /\ Finish(cb) /\ AddCallback("transaction", "charSaved", Null, 0)
  /\ UNCHANGED <<playerVars, sock, crashed>>

CharSavedContinuation(cb) ==
  /\ Finish(cb) /\ NoQuery /\ UNCHANGED <<playerVars, sock, crashed>>

\* LoadFromDB may fail before or after it has given the player, and with it
\* m_GUIDLow, to the session.
HandlePlayerLogin(cb) ==
  /\ Finish(cb) /\ NoQuery
  /\ playerLoading' = FALSE
  /\ \/ /\ KickPlayer /\ player' = Null /\ inWorld' = FALSE /\ guid' \in {guid, cb.who}
     \/ /\ player' \in Addresses \ {player} /\ inWorld' \in BOOLEAN /\ guid' = cb.who
        /\ UNCHANGED <<sock, forceExit>>
  /\ UNCHANGED <<legit, misread, recentlyLogout, logoutTime, crashed>>

\* Variant: the player is not compared.
MailAlwaysGoesOn(cb) == TRUE

\* The mail is sent for the player that is logged in, if it is the one that
\* wanted to send it.
MailGoesOn(cb) == player = cb.who

MailContinuation(cb) ==
  /\ Finish(cb) /\ NoQuery
  /\ crashed' = (MailGoesOn(cb) /\ player = Null)
  /\ UNCHANGED <<playerVars, sock>>

\* The friend is added for the character of m_GUIDLow; a friend that is not
\* an ordinary account is refused without looking at m_GUIDLow.
FriendContinuation(cb) ==
  /\ Finish(cb) /\ NoQuery
  /\ \E ordinary \in BOOLEAN : crashed' = ((~ordinary \/ cb.who = guid) /\ player = Null)
  /\ UNCHANGED <<playerVars, sock>>

Invoke(cb) ==
  CASE cb.kind = "charEnum" -> HandleCharEnum(cb)
    [] cb.kind = "charCreate" -> CharCreateContinuation(cb)
    [] cb.kind = "charSaved" -> CharSavedContinuation(cb)
    [] cb.kind = "playerLogin" -> HandlePlayerLogin(cb)
    [] cb.kind = "sendMail" -> MailContinuation(cb)
    [] cb.kind = "addFriend" -> FriendContinuation(cb)

\* InvokeIfReady on the next callback: invoked, or kept for later.
ProcessCallback ==
  /\ pc = "callbacks" /\ updateCallbacks # <<>>
  /\ updateCallbacks' = Tail(updateCallbacks)
  /\ LET cb == Head(updateCallbacks) IN
       \/ cb.query \in ready /\ Invoke(cb)
       \/ /\ cb.query \notin ready /\ notReady' = Append(notReady, cb)
          /\ NoQuery /\ UNCHANGED <<playerVars, sock, ready, ran, crashed>>
  /\ UNCHANGED <<loopVars, received, inQueue, pc, filter, proc>>

\* Variant: the callbacks that are not ready are forgotten.
KeptOnly(added, waiting) == added

\* What the processor holds afterwards: the callbacks added meanwhile, then
\* the ones that were not ready.
Kept(added, waiting) == added \o waiting

\* Variant: the last processor is forgotten.
LastProcessorEarly(n) == n >= Len(Processors) - 1

LastProcessor(n) == n = Len(Processors)

EndProcessor ==
  /\ pc = "callbacks" /\ updateCallbacks = <<>> /\ notReady' = <<>>
  /\ LET kept == [callbacks EXCEPT ![Processors[proc]] = Kept(@, notReady)] IN
       IF LastProcessor(proc)
       THEN /\ proc' = 1 /\ callbacks' = kept /\ UNCHANGED updateCallbacks
            /\ pc' = IF filter = "world" THEN "tail" ELSE "sessions"
       ELSE /\ proc' = proc + 1
            /\ updateCallbacks' = kept[Processors[proc']]
            /\ callbacks' = [kept EXCEPT ![Processors[proc']] = <<>>]
            /\ UNCHANGED pc
  /\ UNCHANGED <<playerVars, loopVars, netVars, inQueue, filter, queries, ready, ran, crashed>>
-----------------------------------------------------------------------------
(* The end of an update by the world thread.                               *)

\* ShouldLogOut: 20 seconds after the request. Never while a character loads.
LogoutDue == logoutTime /\ ~playerLoading

EndWorldUpdate ==
  /\ pc = "tail"
  /\ \/ LogoutDue /\ LogoutPlayer
     \/ UNCHANGED <<player, inWorld, guid, legit, misread, playerLoading, recentlyLogout, logoutTime>>
  /\ \/ sock = "open" /\ pc' = "maps" /\ UNCHANGED sock
     \/ sock = "closed" /\ ~forceExit /\ player' # Null /\ pc' = "maps" /\ UNCHANGED sock
     \/ sock = "closed" /\ pc' = "expired" /\ sock' = "null"
  /\ UNCHANGED <<loopVars, cbVars, received, forceExit, inQueue, filter, crashed>>

\* World::UpdateSessions deletes the session, whose destructor logs the
\* player out and deletes the packets and the callbacks that are left.
DeleteSession ==
  /\ pc = "expired" /\ pc' = "deleted"
  /\ IF player # Null THEN LogoutPlayer
     ELSE UNCHANGED <<player, inWorld, guid, legit, misread, playerLoading, recentlyLogout, logoutTime>>
  /\ recvQueue' = <<>>
  /\ callbacks' = [p \in ToSet(Processors) |-> <<>>]
  /\ UNCHANGED <<netVars, done, requeuePackets, processedPackets, forceExit, inQueue, filter,
                 proc, updateCallbacks, notReady, queries, ready, ran, crashed>>

WorldStep ==
  \/ BeginWorldUpdate \/ BeginMapUpdate \/ SkipMapUpdate \/ ProcessPacket \/ EndPackets
  \/ ProcessCallback \/ EndProcessor \/ EndWorldUpdate \/ DeleteSession

Next ==
  /\ ~crashed
  /\ \/ \E k \in DOMAIN Opcode : QueuePacket(k)
     \/ CloseSocket \/ LeaveQueue
     \/ \E q \in 1 .. queries : QueryDone(q)
     \/ WorldStep

\* The world thread never stops, updates the maps again and again, and the
\* database answers every query.
Fairness ==
  /\ WF_vars(~crashed /\ WorldStep)
  /\ SF_vars(~crashed /\ BeginMapUpdate)
  /\ WF_vars(~crashed /\ \E q \in 1 .. queries : QueryDone(q))

Spec == Init /\ [][Next]_vars /\ Fairness
-----------------------------------------------------------------------------
(* Properties.                                                             *)

\* The opcodes the client ever sends.
Sent == UNION {Client[n] : n \in DOMAIN Client}
Packet == [number : Nat, opcode : Sent]

Kinds == {"charEnum", "charCreate", "charSaved", "playerLogin", "sendMail"} \cup (Sent \cap {"addFriend"})
Callback == [query : Nat, kind : Kinds, who : Addresses \cup Chars \cup {Null}, left : 0 .. 3]

QueueTypeOK ==
  /\ received \in 0 .. MaxPackets /\ done \subseteq 1 .. received
  /\ recvQueue \in Seq(Packet) /\ requeuePackets \in Seq(Packet)
  /\ processedPackets \in 0 .. Budget + 1

PlayerTypeOK ==
  /\ sock \in {"open", "closed", "null"} /\ filter \in {"world", "map"}
  /\ pc \in {"sessions", "packets", "callbacks", "tail", "maps", "expired", "deleted"}
  /\ forceExit \in BOOLEAN /\ inQueue \in BOOLEAN /\ inWorld \in BOOLEAN /\ legit \in BOOLEAN
  /\ misread \in BOOLEAN
  /\ playerLoading \in BOOLEAN /\ recentlyLogout \in BOOLEAN /\ logoutTime \in BOOLEAN /\ crashed \in BOOLEAN
  /\ player \in Addresses \cup {Null} /\ guid \in Chars \cup {Null}

CallbackTypeOK ==
  /\ proc \in 1 .. Len(Processors) /\ queries \in Nat
  /\ callbacks \in [ToSet(Processors) -> Seq(Callback)]
  /\ updateCallbacks \in Seq(Callback) /\ notReady \in Seq(Callback)
  /\ ready \subseteq (1 .. queries) \ ran /\ ran \subseteq 1 .. queries

\* The type of the state of a session (the members of WorldSession).
TypeOK == QueueTypeOK /\ PlayerTypeOK /\ CallbackTypeOK

Waiting == requeuePackets \o recvQueue

Increasing(s) == \A i, j \in DOMAIN s : i < j => s[i] < s[j]

\* Between Update's local requeuePackets and _recvQueue, to which the
\* network thread adds meanwhile, every packet that was received and not
\* dealt with is there once, in the order of arrival: requeueing neither
\* loses, repeats nor reorders packets.
QueueExact ==
  pc # "deleted" =>
    LET numbers == [i \in DOMAIN Waiting |-> Waiting[i].number] IN
      Increasing(numbers) /\ ToSet(numbers) = (1 .. received) \ done

PendingLogins == {cb \in ToSet(PendingCallbacks) : cb.kind = "playerLogin"}

\* m_playerLoading guards the login across the updates it takes: at most one
\* login is on its way, then the flag is set and no player is there; and the
\* flag is set for nothing else, but for a client that is being kicked, and
\* for one whose CMSG_PLAYER_LOGIN was too short: that leaves it set for good.
LoginExact ==
  pc # "deleted" =>
    /\ Cardinality(PendingLogins) <= 1
    /\ PendingLogins # {} => playerLoading /\ player = Null
    /\ playerLoading => PendingLogins # {} \/ forceExit \/ misread

\* The result of a query is taken exactly once: the callbacks that the three
\* processors hold, in whatever order, are those of the other queries, while
\* ProcessReadyCallbacks moves them out and callbacks add new ones.
CallbackExact ==
  pc # "deleted" =>
    LET held == [i \in DOMAIN PendingCallbacks |-> PendingCallbacks[i].query] IN
      IsInjective(held) /\ ToSet(held) = (1 .. queries) \ ran

\* A continuation that acts on the player finds one: the character that asked
\* may have logged out since (the test of _player in HandleSendMail's
\* continuation).
NoNullPlayer == ~crashed

\* A packet is dealt with before an earlier one only when that one waits for
\* a login: a filter that refuses the first packet holds up the others.
OvertakesOnlyBeforeLogin ==
  [][\A i \in done' \ done : \A p \in ToSet(Waiting) :
       p.number < i => Status(p) = "LOGGEDIN" /\ player = Null]_vars

\* "logout procedure should happen only in World::UpdateSessions() method":
\* while a map updates the session, and iterates over its players, no packet
\* and no continuation removes or replaces the player.
NoLogoutInMapUpdate ==
  [][filter = "map" /\ pc \in {"packets", "callbacks"} => player' = player]_vars

\* More packets wait for a login than one update looks at, so that it never
\* comes to this one; or the packet waits for a login itself.
Starved(packet) ==
  /\ player = Null
  /\ \/ Status(packet) = "LOGGEDIN"
     \/ Cardinality({p \in ToSet(Waiting) : p.number < packet.number /\ Status(p) = "LOGGEDIN"}) > Budget

\* "Any leftover will be processed in next update": the packets of a client
\* that stays are all dealt with in the end, except those that wait for a
\* login and those behind too many of them.
PacketsDealtWith ==
  []<>(sock # "open" \/ \A packet \in ToSet(Waiting) : Starved(packet))

\* Every query's continuation runs in the end, unless the session is deleted.
CallbacksRun == []<>(pc = "deleted" \/ PendingCallbacks = <<>>)
-----------------------------------------------------------------------------
(* What is true between any two steps, from which the properties follow.   *)

\* The packets set aside by the loop wait for a login, and the loop puts
\* them back before it ends.
RequeueInv ==
  /\ requeuePackets # <<>> => pc = "packets" /\ player = Null
  /\ \A i \in DOMAIN requeuePackets : Status(requeuePackets[i]) = "LOGGEDIN"

\* w holds the first n packets but those in d, in their order.
InOrder(w, n, d) ==
  /\ \A i \in DOMAIN w : w[i].number \in (1 .. n) \ d
  /\ \A i, j \in DOMAIN w : i < j => w[i].number < w[j].number
  /\ \A k \in (1 .. n) \ d : \E i \in DOMAIN w : w[i].number = k

QueueInv == pc # "deleted" => InOrder(Waiting, received, done)

\* The five places that hold callbacks: the processors, the callbacks moved
\* out of one of them, and those of them that are kept.
Places == {"query", "transaction", "holder", "updateCallbacks", "notReady"}
Parts ==
  [x \in Places |-> IF x = "updateCallbacks" THEN updateCallbacks
                    ELSE IF x = "notReady" THEN notReady ELSE callbacks[x]]

\* No query is that of two positions of the sequences of f.
Separate(f) ==
  \A x, y \in Places : \A i \in DOMAIN f[x], j \in DOMAIN f[y] :
    f[x][i].query = f[y][j].query => x = y /\ i = j

Held(f) == UNION {ToSet(f[x]) : x \in Places}

\* f holds the callbacks of the first n queries but those in r.
Exact(f, n, r) ==
  /\ Separate(f)
  /\ \A cb \in Held(f) : cb.query \in (1 .. n) \ r
  /\ \A q \in (1 .. n) \ r : \E cb \in Held(f) : cb.query = q

CallbackInv ==
  /\ pc # "callbacks" => updateCallbacks = <<>> /\ notReady = <<>>
  /\ pc # "deleted" => Exact(Parts, queries, ran)

\* LoginExact in terms of the callbacks that are held, and who asked for
\* a mail to be sent.
LoginInv ==
  pc # "deleted" =>
    /\ \A cb, other \in Held(Parts) : cb.kind = "playerLogin" /\ other.kind = "playerLogin" => cb = other
    /\ \A cb \in Held(Parts) : cb.kind = "playerLogin" => playerLoading /\ player = Null /\ cb.who \in Chars
    /\ playerLoading => forceExit \/ misread \/ \E cb \in Held(Parts) : cb.kind = "playerLogin"
    /\ \A cb \in Held(Parts) : cb.kind = "sendMail" => cb.who # Null

\* A map updates the session of a player that is there until it is done.
MapInv == filter = "map" /\ pc \in {"packets", "callbacks"} => player # Null

SessionInv == TypeOK /\ RequeueInv /\ QueueInv /\ CallbackInv /\ LoginInv /\ MapInv
=============================================================================
