----------------------------- MODULE WorldSessions -----------------------------
(* World's session map and login queue: AddSession, AddSession_, RemoveSession,*)
(* UpdateSessions, AddQueuedPlayer, RemoveQueuedPlayer, KickAll.  Network      *)
(* threads create sessions, hand them over through addSessQueue and lose       *)
(* sockets at any time; everything else runs in the world thread, one pass of  *)
(* UpdateSessions after another.  A session is the address of a WorldSession:  *)
(* it can be allocated again after it was deleted.                             *)
EXTENDS Integers, Sequences, FiniteSets

CONSTANTS
    Accounts,       \* accounts that log in
    Sessions,       \* addresses of WorldSession objects
    NoSession,      \* a null pointer, also: an account without session
    NoAccount,      \* the account of memory that is not allocated
    SkipQueue,      \* accounts with RBAC_PERM_SKIP_QUEUE
    Limit,          \* m_playerLimit, 0 for no limit; it is not changed while the
                    \* server runs, as .server plimit and .reload config can
    Tolerance,      \* CONFIG_INTERVAL_DISCONNECT_TOLERANCE, 0 for none
    MaxTime         \* bound on the game time

ASSUME NoSessionAssumption == NoSession \notin Sessions
ASSUME NoAccountAssumption == NoAccount \notin Accounts
ASSUME AccountsAssumption == IsFiniteSet(Accounts)
ASSUME SkipQueueAssumption == SkipQueue \subseteq Accounts
ASSUME NumbersAssumption == Limit \in Nat /\ Tolerance \in Nat /\ MaxTime \in Nat

VARIABLES
    account,        \* account of an allocated session, NoAccount for free memory
    m_sessions,     \* World::m_sessions
    addSessQueue,   \* World::addSessQueue
    m_QueuedPlayer, \* World::m_QueuedPlayer
    m_inQueue,      \* WorldSession::m_inQueue
    initPending,    \* sessions whose InitializeSession query is not answered
    character,      \* how far the session's character is in the game
    open,           \* sessions whose socket is open
    forceExit,      \* sessions that KickPlayer marked
    m_disconnects,  \* World::m_disconnects, MaxTime + 1 for no entry
    now,            \* the game time
    told,           \* queue position last sent to the client of a session
    admitted,       \* history: sessions InitializeSession was called for
    bypass,         \* history: those admitted to a full server
    pc, todo        \* the world thread's place in UpdateSessions

sessVars == <<account, open, forceExit, character>>
queueVars == <<m_QueuedPlayer, m_inQueue, initPending, told, admitted>>
timeVars == <<m_disconnects, now>>
vars == <<account, m_sessions, addSessQueue, m_QueuedPlayer, m_inQueue, initPending,
          character, open, forceExit, m_disconnects, now, told, admitted, bypass, pc, todo>>

Never == MaxTime + 1

TypeOK ==
    /\ account \in [Sessions -> Accounts \cup {NoAccount}]
    /\ m_sessions \in [Accounts -> Sessions \cup {NoSession}]
    /\ addSessQueue \in Seq(Sessions)
    /\ m_QueuedPlayer \in Seq(Sessions)
    /\ m_inQueue \in [Sessions -> BOOLEAN]
    /\ initPending \subseteq Sessions
    /\ character \in [Sessions -> {"none", "loading", "ingame"}]
    /\ open \subseteq Sessions
    /\ forceExit \subseteq Sessions
    /\ m_disconnects \in [Accounts -> 0..Never]
    /\ now \in 0..MaxTime
    /\ told \in [Sessions -> Nat]
    /\ admitted \subseteq Sessions
    /\ bypass \subseteq Sessions
    /\ pc \in {"idle", "add", "update", "kicked", "lastadd", "lastupdate", "stopped"}
    /\ todo \subseteq Accounts

Init ==
    /\ account = [s \in Sessions |-> NoAccount]
    /\ m_sessions = [a \in Accounts |-> NoSession]
    /\ addSessQueue = <<>> /\ m_QueuedPlayer = <<>>
    /\ m_inQueue = [s \in Sessions |-> FALSE]
    /\ initPending = {}
    /\ character = [s \in Sessions |-> "none"]
    /\ open = {} /\ forceExit = {}
    /\ m_disconnects = [a \in Accounts |-> Never] /\ now = 0
    /\ told = [s \in Sessions |-> 0]
    /\ admitted = {} /\ bypass = {}
    /\ pc = "idle" /\ todo = {}
-----------------------------------------------------------------------------
(* GetActiveAndQueuedSessionCount and the accounts it counts.                  *)
InMap == {a \in Accounts : m_sessions[a] # NoSession}
SessionCount == Cardinality(InMap)

Live == {s \in Sessions : account[s] # NoAccount /\ m_sessions[account[s]] = s}

(* The queue without s.  Variant: s stays in the queue.                        *)
Listed(q, s) == \E i \in DOMAIN q : q[i] = s
Position(q, s) == CHOOSE i \in DOMAIN q : q[i] = s
NotErased(q, s) == q
Erase(q, s) ==
    IF Listed(q, s)
    THEN [i \in 1..(Len(q) - 1) |-> IF i < Position(q, s) THEN q[i] ELSE q[i + 1]]
    ELSE q

(* RemoveQueuedPlayer(s) with n sessions in the map and queue q: the sessions  *)
(* that remain active once s is gone, whether the first of the queue is        *)
(* accepted, the queue left, and from where on the queue is told its position. *)
(* Variants: the departing session is counted as active, or taken off the      *)
(* count although it was queued; the last of the queue is accepted; positions  *)
(* are told from the place of the erased session although the head left too.   *)
ActiveWith(q, n, s) == n - Len(q)
ActiveLessOne(q, n, s) == IF n - Len(q) > 0 THEN n - Len(q) - 1 ELSE n - Len(q)
ActiveWithout(q, n, s) ==
    IF ~Listed(q, s) /\ n - Len(q) > 0 THEN n - Len(q) - 1 ELSE n - Len(q)

AcceptsFirst(q, n, s) ==
    /\ Limit = 0 \/ ActiveWithout(q, n, s) < Limit
    /\ Erase(q, s) # <<>>

TakeLast(q) == [taken |-> q[Len(q)], rest |-> SubSeq(q, 1, Len(q) - 1)]
TakeFirst(q) == [taken |-> Head(q), rest |-> Tail(q)]

QueueLeft(q, n, s) ==
    IF AcceptsFirst(q, n, s) THEN TakeFirst(Erase(q, s)).rest ELSE Erase(q, s)
Accepted(q, n, s) == IF AcceptsFirst(q, n, s) THEN {TakeFirst(Erase(q, s)).taken} ELSE {}

TellFromErased(q, n, s) == IF Listed(q, s) THEN Position(q, s) ELSE Len(q) + 1
TellFrom(q, n, s) ==
    IF AcceptsFirst(q, n, s) THEN 1
    ELSE IF Listed(q, s) THEN Position(q, s) ELSE Len(q) + 1

(* SendAuthWaitQueue to the sessions of q from position k on.                  *)
Tell(t, q, k) ==
    [s \in Sessions |-> IF \E i \in DOMAIN q : i >= k /\ q[i] = s
                        THEN Position(q, s) ELSE t[s]]

(* delete s, with what ~WorldSession leaves of it.                             *)
Freed(f, ss, default) == [s \in Sessions |-> IF s \in ss THEN default ELSE f[s]]
-----------------------------------------------------------------------------
(* A network thread: HandleAuthSessionCallback creates the session,            *)
(* LoadSessionPermissionsCallback hands it to World::AddSession.               *)
AddSession(s, a) ==
    /\ account[s] = NoAccount
    /\ account' = [account EXCEPT ![s] = a]
    /\ open' = open \cup {s}
    /\ addSessQueue' = Append(addSessQueue, s)
    /\ UNCHANGED <<m_sessions, queueVars, timeVars, forceExit, character, bypass, pc, todo>>

(* A network thread closes the socket of a session.                            *)
SocketLost(s) ==
    /\ account[s] # NoAccount /\ s \in open
    /\ open' = open \ {s}
    /\ UNCHANGED <<account, m_sessions, addSessQueue, queueVars, timeVars, forceExit,
                   character, bypass, pc, todo>>
-----------------------------------------------------------------------------
(* The world thread enters UpdateSessions.                                     *)
BeginUpdateSessions ==
    /\ pc \in {"idle", "kicked"}
    /\ pc' = IF pc = "idle" THEN "add" ELSE "lastadd"
    /\ UNCHANGED <<sessVars, m_sessions, addSessQueue, queueVars, timeVars, bypass, todo>>

(* HasRecentlyDisconnected: difftime(then, now) is then - now.                 *)
HasRecentlyDisconnected(a) ==
    Tolerance > 0 /\ m_disconnects[a] # Never /\ m_disconnects[a] - now < Tolerance

(* The queueing condition of AddSession_ for n sessions: the server is full    *)
(* and the account may not pass the queue.                                     *)
Full(n) == Limit > 0 /\ n >= Limit
MayPass(a) == a \in SkipQueue \/ HasRecentlyDisconnected(a)

Adding == pc \in {"add", "lastadd"}

(* AddSession_, the old session of the account is loading a character: the new *)
(* one is kicked and deleted.                                                  *)
RefuseSession ==
    /\ Adding /\ addSessQueue # <<>>
    /\ LET s == Head(addSessQueue)
           old == m_sessions[account[s]]
       IN  /\ old # NoSession /\ character[old] = "loading"
           /\ account' = [account EXCEPT ![s] = NoAccount]
           /\ open' = open \ {s}
    /\ addSessQueue' = Tail(addSessQueue)
    /\ UNCHANGED <<m_sessions, queueVars, timeVars, forceExit, character, bypass, pc, todo>>

(* AddSession_ otherwise: the old session of the account is kicked, taken off  *)
(* the queue and deleted; the new one is queued or initialised.                *)
AcceptSession ==
    /\ Adding /\ addSessQueue # <<>>
    /\ LET s     == Head(addSessQueue)
           a     == account[s]
           old   == m_sessions[a]
           gone  == {old} \ {NoSession}
           n     == SessionCount
           isOld == old # NoSession
           found == isOld /\ Listed(m_QueuedPlayer, old)
           q     == IF isOld THEN QueueLeft(m_QueuedPlayer, n, old) ELSE m_QueuedPlayer
           first == IF isOld THEN Accepted(m_QueuedPlayer, n, old) ELSE {}
           from  == IF isOld THEN TellFrom(m_QueuedPlayer, n, old) ELSE Len(m_QueuedPlayer) + 1
           size  == IF isOld THEN n ELSE n + 1
           full  == Full(IF found THEN size ELSE size - 1)
           waits == full /\ ~MayPass(a)
           t     == Freed(Tell(told, q, from), gone, 0)
       IN  /\ ~(isOld /\ character[old] = "loading")
           /\ m_sessions' = [m_sessions EXCEPT ![a] = s]
           /\ account' = Freed(account, gone, NoAccount)
           /\ open' = open \ gone
           /\ forceExit' = forceExit \ gone
           /\ character' = Freed(character, gone, "none")
           /\ bypass' = (bypass \ gone) \cup (IF full /\ ~waits THEN {s} ELSE {})
           /\ admitted' = ((admitted \cup first) \ gone) \cup (IF waits THEN {} ELSE {s})
           /\ initPending' = ((initPending \cup first) \ gone) \cup (IF waits THEN {} ELSE {s})
           /\ m_inQueue' = [Freed(m_inQueue, gone, FALSE) EXCEPT ![s] = waits]
           /\ m_QueuedPlayer' = IF waits THEN Append(q, s) ELSE q
           /\ told' = IF waits THEN [t EXCEPT ![s] = Len(q) + 1] ELSE t
    /\ addSessQueue' = Tail(addSessQueue)
    /\ UNCHANGED <<timeVars, pc, todo>>

(* addSessQueue is empty: the sessions of the map are updated one by one.      *)
EndAdd ==
    /\ Adding /\ addSessQueue = <<>>
    /\ pc' = IF pc = "add" THEN "update" ELSE "lastupdate"
    /\ todo' = InMap
    /\ UNCHANGED <<sessVars, m_sessions, addSessQueue, queueVars, timeVars, bypass>>
-----------------------------------------------------------------------------
Updating(a) == pc \in {"update", "lastupdate"} /\ a \in todo

(* WorldSession::Update, query callbacks: InitializeSessionCallback.           *)
InitializeSessionCallback(a) ==
    /\ Updating(a) /\ m_sessions[a] \in initPending
    /\ initPending' = initPending \ {m_sessions[a]}
    /\ m_inQueue' = [m_inQueue EXCEPT ![m_sessions[a]] = FALSE]
    /\ told' = [told EXCEPT ![m_sessions[a]] = 0]
    /\ UNCHANGED <<sessVars, m_sessions, addSessQueue, m_QueuedPlayer, admitted, timeVars,
                   bypass, pc, todo>>

(* WorldSession::Update, packets: CMSG_PLAYER_LOGIN (STATUS_AUTHED, so not     *)
(* from the queue) starts the loading of a character.                          *)
HandlePlayerLoginOpcode(a) ==
    /\ Updating(a)
    /\ ~m_inQueue[m_sessions[a]] /\ character[m_sessions[a]] = "none"
    /\ character' = [character EXCEPT ![m_sessions[a]] = "loading"]
    /\ UNCHANGED <<account, open, forceExit, m_sessions, addSessQueue, queueVars, timeVars,
                   bypass, pc, todo>>

(* WorldSession::Update, query callbacks: HandlePlayerLogin, which kicks the   *)
(* session when the character cannot be loaded.                                *)
HandlePlayerLogin(a) ==
    /\ Updating(a)
    /\ LET s == m_sessions[a] IN
          /\ character[s] = "loading"
          /\ \/ /\ character' = [character EXCEPT ![s] = "ingame"]
                /\ UNCHANGED <<open, forceExit>>
             \/ /\ character' = [character EXCEPT ![s] = "none"]
                /\ open' = open \ {s}
                /\ forceExit' = forceExit \cup {s}
    /\ UNCHANGED <<account, m_sessions, addSessQueue, queueVars, timeVars, bypass, pc, todo>>

(* WorldSession::LogoutPlayer.                                                 *)
LogoutPlayer(a) ==
    /\ Updating(a)
    /\ character[m_sessions[a]] = "ingame"
    /\ character' = [character EXCEPT ![m_sessions[a]] = "none"]
    /\ UNCHANGED <<account, open, forceExit, m_sessions, addSessQueue, queueVars, timeVars,
                   bypass, pc, todo>>

(* WorldSession::KickPlayer, from a command, a handler or World::RemoveSession *)
(* outside AddSession_.                                                        *)
KickPlayer(a) ==
    /\ pc \in {"idle", "update"}
    /\ m_sessions[a] # NoSession
    /\ open' = open \ {m_sessions[a]}
    /\ forceExit' = forceExit \cup {m_sessions[a]}
    /\ UNCHANGED <<account, character, m_sessions, addSessQueue, queueVars, timeVars, bypass,
                   pc, todo>>

(* WorldSession::Update returns true.                                          *)
KeepSession(a) ==
    /\ Updating(a)
    /\ LET s == m_sessions[a] IN
          s \in open \/ (character[s] = "ingame" /\ s \notin forceExit)
    /\ todo' = todo \ {a}
    /\ UNCHANGED <<sessVars, m_sessions, addSessQueue, queueVars, timeVars, bypass, pc>>

(* WorldSession::Update returns false: RemoveQueuedPlayer is called twice, and *)
(* the session leaves the map and is deleted.                                  *)
DropSession(a) ==
    /\ Updating(a)
    /\ LET s  == m_sessions[a]
           n  == SessionCount
           q1 == QueueLeft(m_QueuedPlayer, n, s)
           q2 == QueueLeft(q1, n, s)
           first == Accepted(m_QueuedPlayer, n, s) \cup Accepted(q1, n, s)
           t  == Tell(told, q1, TellFrom(m_QueuedPlayer, n, s))
       IN  /\ s \notin open
           /\ m_QueuedPlayer' = q2
           /\ told' = Freed(Tell(t, q2, TellFrom(q1, n, s)), {s}, 0)
           /\ admitted' = (admitted \cup first) \ {s}
           /\ initPending' = (initPending \cup first) \ {s}
           /\ m_inQueue' = [m_inQueue EXCEPT ![s] = FALSE]
           /\ m_disconnects' = IF ~Listed(m_QueuedPlayer, s) /\ Tolerance > 0
                               THEN [m_disconnects EXCEPT ![a] = now] ELSE m_disconnects
           /\ account' = [account EXCEPT ![s] = NoAccount]
           /\ forceExit' = forceExit \ {s}
           /\ character' = [character EXCEPT ![s] = "none"]
           /\ bypass' = bypass \ {s}
    /\ m_sessions' = [m_sessions EXCEPT ![a] = NoSession]
    /\ todo' = todo \ {a}
    /\ UNCHANGED <<open, addSessQueue, now, pc>>

EndUpdateSessions ==
    /\ pc \in {"update", "lastupdate"} /\ todo = {}
    /\ pc' = IF pc = "update" THEN "idle" ELSE "stopped"
    /\ UNCHANGED <<sessVars, m_sessions, addSessQueue, queueVars, timeVars, bypass, todo>>
-----------------------------------------------------------------------------
(* The server stops: KickAll, then a last UpdateSessions.                      *)
KickAll ==
    /\ pc = "idle"
    /\ m_QueuedPlayer' = <<>>
    /\ open' = open \ {m_sessions[a] : a \in InMap}
    /\ forceExit' = forceExit \cup {m_sessions[a] : a \in InMap}
    /\ pc' = "kicked"
    /\ UNCHANGED <<account, character, m_sessions, addSessQueue, m_inQueue, initPending, told,
                   admitted, timeVars, bypass, todo>>

AdvanceTime ==
    /\ pc = "idle" /\ now < MaxTime
    /\ now' = now + 1
    /\ UNCHANGED <<sessVars, m_sessions, addSessQueue, queueVars, m_disconnects, bypass, pc, todo>>

UpdateSession(a) ==
    \/ InitializeSessionCallback(a) \/ HandlePlayerLoginOpcode(a) \/ HandlePlayerLogin(a)
    \/ LogoutPlayer(a) \/ KeepSession(a) \/ DropSession(a)

Next ==
    \/ \E s \in Sessions : (\E a \in Accounts : AddSession(s, a)) \/ SocketLost(s)
    \/ BeginUpdateSessions \/ RefuseSession \/ AcceptSession \/ EndAdd
    \/ \E a \in Accounts : UpdateSession(a) \/ KickPlayer(a)
    \/ EndUpdateSessions \/ KickAll \/ AdvanceTime

Spec == Init /\ [][Next]_vars
-----------------------------------------------------------------------------
(* No pointer kept by World dangles: a session in m_sessions, addSessQueue or  *)
(* m_QueuedPlayer has not been deleted, is there once, and the queue holds     *)
(* only sessions of the map.                                                   *)
NoDanglingSession ==
    /\ \A a \in Accounts : m_sessions[a] # NoSession => account[m_sessions[a]] = a
    /\ \A i \in DOMAIN m_QueuedPlayer : m_QueuedPlayer[i] \in Live
    /\ \A i, j \in DOMAIN m_QueuedPlayer : m_QueuedPlayer[i] = m_QueuedPlayer[j] => i = j
    /\ \A i \in DOMAIN addSessQueue :
          account[addSessQueue[i]] # NoAccount /\ addSessQueue[i] \notin Live

(* What makes the two invariants around it inductive: nothing is handed over   *)
(* twice, and the accounts still to be updated have a session.                 *)
PassInv ==
    /\ \A i, j \in DOMAIN addSessQueue : addSessQueue[i] = addSessQueue[j] => i = j
    /\ pc \in {"update", "lastupdate"} => todo \subseteq InMap

(* Nobody waits in the queue while the server has room: whenever the queue is  *)
(* not empty, the sessions outside it fill the limit, through reconnections,   *)
(* kicks and the double call of RemoveQueuedPlayer.                            *)
NoIdleSlot ==
    m_QueuedPlayer # <<>> => Limit > 0 /\ SessionCount - Len(m_QueuedPlayer) >= Limit

(* The double call of RemoveQueuedPlayer never lets in one too many: the       *)
(* sessions admitted without permission or tolerance never exceed the limit.   *)
LimitRespected ==
    Limit > 0 => Cardinality((Live \cap admitted) \ bypass) <= Limit

(* The position a waiting client was told last is its position, and a          *)
(* connected session marked as queued (whose packets are refused and which is  *)
(* never idle) is in the queue or about to be initialised.                     *)
PositionTold ==
    /\ \A i \in DOMAIN m_QueuedPlayer : told[m_QueuedPlayer[i]] = i
    /\ \A s \in Live \cap open :
          m_inQueue[s] => Listed(m_QueuedPlayer, s) \/ s \in initPending

(* What these need to be inductive: a session that InitializeSession was       *)
(* called for is in the map and not in the queue.                              *)
AdmittedInv ==
    /\ initPending \subseteq admitted /\ admitted \subseteq Live
    /\ \A i \in DOMAIN m_QueuedPlayer : m_QueuedPlayer[i] \notin admitted

(* A session that is initialised from the queue was not overtaken: no session  *)
(* ahead of it is still waiting.                                               *)
NoOvertaking ==
    [][\A i, j \in DOMAIN m_QueuedPlayer :
          i < j /\ m_QueuedPlayer[j] \in admitted' => ~Listed(m_QueuedPlayer', m_QueuedPlayer[i])]_vars
=============================================================================
