-------------------------- MODULE WorldSessionsProofs --------------------------
(* Proofs that World's session map and login queue keep no pointer to a        *)
(* deleted session, leave no slot idle, tell every waiting client its place,   *)
(* let nobody overtake and never admit one too many, for any accounts,         *)
(* sessions, limit and tolerance.                                              *)
EXTENDS WorldSessions, FiniteSetTheorems, TLAPS

Distinct(q) == \A i, j \in DOMAIN q : q[i] = q[j] => i = j

(* Erasing a session from the queue keeps the others, in order and once each.  *)
LEMMA EraseLemma ==
    ASSUME NEW q \in Seq(Sessions), NEW s \in Sessions, Distinct(q)
    PROVE  /\ Erase(q, s) \in Seq(Sessions)
           /\ Len(Erase(q, s)) = IF Listed(q, s) THEN Len(q) - 1 ELSE Len(q)
           /\ Distinct(Erase(q, s))
           /\ ~Listed(Erase(q, s), s)
           /\ \A i \in DOMAIN Erase(q, s) : Listed(q, Erase(q, s)[i])
<1>1. CASE ~Listed(q, s)
  BY <1>1 DEF Erase, Listed
<1>2. CASE Listed(q, s)
  <2> DEFINE p == Position(q, s)
             r == [i \in 1..(Len(q) - 1) |-> IF i < p THEN q[i] ELSE q[i + 1]]
  <2>1. p \in 1..Len(q) /\ q[p] = s
    BY <1>2 DEF Listed, Position
  <2>2. r \in Seq(Sessions) /\ Len(r) = Len(q) - 1
    BY <2>1
  <2>3. \A i \in DOMAIN r : r[i] = IF i < p THEN q[i] ELSE q[i + 1]
    OBVIOUS
  <2>4. DOMAIN r = 1..(Len(q) - 1) /\ DOMAIN q = 1..Len(q)
    OBVIOUS
  <2>5. Distinct(r)
    BY <2>1, <2>3, <2>4 DEF Distinct
  <2>6. ~Listed(r, s)
    BY <2>1, <2>3, <2>4 DEF Distinct, Listed
  <2>7. \A i \in DOMAIN r : Listed(q, r[i])
    BY <2>1, <2>3, <2>4 DEF Listed
  <2>8. Erase(q, s) = r
    BY <1>2 DEF Erase
  <2> QED
    BY <1>2, <2>2, <2>5, <2>6, <2>7, <2>8
<1> QED
  BY <1>1, <1>2

(* RemoveQueuedPlayer leaves a queue of sessions that were queued, without the *)
(* removed one, and accepts at most one session.                               *)
LEMMA QueueLeftLemma ==
    ASSUME NEW q \in Seq(Sessions), NEW n \in Nat, NEW s \in Sessions, Distinct(q)
    PROVE  /\ QueueLeft(q, n, s) \in Seq(Sessions)
           /\ Len(QueueLeft(q, n, s)) =
                 Len(Erase(q, s)) - (IF AcceptsFirst(q, n, s) THEN 1 ELSE 0)
           /\ Distinct(QueueLeft(q, n, s))
           /\ ~Listed(QueueLeft(q, n, s), s)
           /\ \A i \in DOMAIN QueueLeft(q, n, s) : Listed(q, QueueLeft(q, n, s)[i])
           /\ Accepted(q, n, s) \subseteq Sessions
<1> DEFINE e == Erase(q, s)
<1>1. /\ e \in Seq(Sessions) /\ Distinct(e) /\ ~Listed(e, s)
      /\ \A i \in DOMAIN e : Listed(q, e[i])
  BY EraseLemma
<1> HIDE DEF e
<1>2. CASE AcceptsFirst(q, n, s)
  <2>1. e # <<>> /\ QueueLeft(q, n, s) = Tail(e) /\ Accepted(q, n, s) = {Head(e)}
    BY <1>2 DEF AcceptsFirst, QueueLeft, Accepted, TakeFirst, e
  <2>2. /\ Tail(e) \in Seq(Sessions) /\ Len(Tail(e)) = Len(e) - 1
        /\ \A i \in DOMAIN Tail(e) : i + 1 \in DOMAIN e /\ Tail(e)[i] = e[i + 1]
        /\ Head(e) \in Sessions
    BY <1>1, <2>1
  <2>3. Distinct(Tail(e)) /\ ~Listed(Tail(e), s)
    BY <1>1, <2>2 DEF Distinct, Listed
  <2> QED
    BY <1>1, <1>2, <2>1, <2>2, <2>3 DEF e
<1>3. CASE ~AcceptsFirst(q, n, s)
  BY <1>1, <1>3 DEF QueueLeft, Accepted, e
<1> QED
  BY <1>2, <1>3
-----------------------------------------------------------------------------
(* What the three invariants speak of, but for the pass of the world thread.   *)
core == <<account, m_sessions, addSessQueue, m_QueuedPlayer>>

(* The session count is a number.                                              *)
LEMMA CountLemma ==
    ASSUME TypeOK
    PROVE  IsFiniteSet(InMap) /\ SessionCount \in Nat
<1>1. IsFiniteSet(InMap)
  BY AccountsAssumption, FS_Subset DEF InMap
<1> QED
  BY <1>1, FS_CardinalityType DEF SessionCount

(* Deleting sessions, and telling positions, keep the type of what they touch. *)
LEMMA FreedType ==
    ASSUME NEW T, NEW f \in [Sessions -> T], NEW d \in T, NEW ss
    PROVE  Freed(f, ss, d) \in [Sessions -> T]
  BY DEF Freed

(* Telling the waiting sessions their positions keeps the types.               *)
LEMMA TellType ==
    ASSUME NEW t \in [Sessions -> Nat], NEW q \in Seq(Sessions), NEW k \in Int
    PROVE  Tell(t, q, k) \in [Sessions -> Nat]
<1>1. \A s \in Sessions : (\E i \in DOMAIN q : i >= k /\ q[i] = s) => Position(q, s) \in Nat
  BY DEF Position
<1> QED
  BY <1>1 DEF Tell

(* AcceptSession and DropSession keep the types.                               *)
LEMMA AcceptType ==
    ASSUME TypeOK, NoDanglingSession, PassInv, AcceptSession
    PROVE  TypeOK'
<1> DEFINE s == Head(addSessQueue)
           a == account[s]
           old == m_sessions[a]
           gone == {old} \ {NoSession}
           n == SessionCount
           isOld == old # NoSession
           found == isOld /\ Listed(m_QueuedPlayer, old)
           q == IF isOld THEN QueueLeft(m_QueuedPlayer, n, old) ELSE m_QueuedPlayer
           first == IF isOld THEN Accepted(m_QueuedPlayer, n, old) ELSE {}
           from == IF isOld THEN TellFrom(m_QueuedPlayer, n, old) ELSE Len(m_QueuedPlayer) + 1
           size == IF isOld THEN n ELSE n + 1
           full == Full(IF found THEN size ELSE size - 1)
           waits == full /\ ~MayPass(a)
           t == Freed(Tell(told, q, from), gone, 0)
<1>1. s \in Sessions /\ a \in Accounts /\ old \in Sessions \cup {NoSession}
  BY DEF AcceptSession, TypeOK, NoDanglingSession
<1>2. n \in Nat
  BY CountLemma
<1>3. Distinct(m_QueuedPlayer)
  BY DEF Distinct, NoDanglingSession
<1>4. m_QueuedPlayer \in Seq(Sessions)
  BY DEF TypeOK
<1>5. q \in Seq(Sessions) /\ first \subseteq Sessions
  BY <1>1, <1>2, <1>3, <1>4, QueueLeftLemma
<1>6. from \in Int
  BY <1>4 DEF TellFrom, Listed, Position
<1>7. t \in [Sessions -> Nat]
  BY <1>5, <1>6, TellType, FreedType DEF TypeOK
<1>8. waits \in BOOLEAN
  BY DEF Full
<1>9. /\ m_sessions' = [m_sessions EXCEPT ![a] = s]
      /\ account' = Freed(account, gone, NoAccount)
      /\ open' = open \ gone
      /\ forceExit' = forceExit \ gone
      /\ character' = Freed(character, gone, "none")
      /\ bypass' = (bypass \ gone) \cup (IF full /\ ~waits THEN {s} ELSE {})
      /\ admitted' = ((admitted \cup first) \ gone) \cup (IF waits THEN {} ELSE {s})
      /\ initPending' = ((initPending \cup first) \ gone) \cup (IF waits THEN {} ELSE {s})
      /\ m_inQueue' = [Freed(m_inQueue, gone, FALSE) EXCEPT ![s] = waits]
      /\ m_QueuedPlayer' = (IF waits THEN Append(q, s) ELSE q)
      /\ told' = (IF waits THEN [t EXCEPT ![s] = Len(q) + 1] ELSE t)
      /\ addSessQueue # <<>>
      /\ addSessQueue' = Tail(addSessQueue)
      /\ UNCHANGED <<timeVars, pc, todo>>
  BY DEF AcceptSession
<1> HIDE DEF s, a, old, q, first, from, full, waits, t, gone
<1>10. account' \in [Sessions -> Accounts \cup {NoAccount}]
  BY <1>9, FreedType DEF TypeOK
<1>11. m_sessions' \in [Accounts -> Sessions \cup {NoSession}]
  BY <1>1, <1>9 DEF TypeOK
<1>12. addSessQueue' \in Seq(Sessions) /\ m_QueuedPlayer' \in Seq(Sessions)
  BY <1>1, <1>5, <1>9 DEF TypeOK
<1>13. m_inQueue' \in [Sessions -> BOOLEAN]
  <2>1. Freed(m_inQueue, gone, FALSE) \in [Sessions -> BOOLEAN]
    BY FreedType DEF TypeOK
  <2> QED
    BY <1>1, <1>8, <1>9, <2>1
<1>14. character' \in [Sessions -> {"none", "loading", "ingame"}]
  BY <1>9, FreedType DEF TypeOK
<1>15. /\ initPending' \subseteq Sessions /\ open' \subseteq Sessions
       /\ forceExit' \subseteq Sessions /\ admitted' \subseteq Sessions
       /\ bypass' \subseteq Sessions
  BY <1>1, <1>5, <1>9 DEF TypeOK
<1>16. told' \in [Sessions -> Nat]
  BY <1>1, <1>5, <1>7, <1>9
<1> QED
  BY <1>9, <1>10, <1>11, <1>12, <1>13, <1>14, <1>15, <1>16 DEF TypeOK, timeVars

(* The same for a session that leaves.                                         *)
LEMMA DropType ==
    ASSUME TypeOK, NoDanglingSession, PassInv, NEW a \in Accounts, DropSession(a)
    PROVE  TypeOK'
<1> DEFINE s == m_sessions[a]
           n == SessionCount
           q1 == QueueLeft(m_QueuedPlayer, n, s)
           q2 == QueueLeft(q1, n, s)
           first == Accepted(m_QueuedPlayer, n, s) \cup Accepted(q1, n, s)
           t == Tell(told, q1, TellFrom(m_QueuedPlayer, n, s))
           t2 == Freed(Tell(t, q2, TellFrom(q1, n, s)), {s}, 0)
<1>1. s \in Sessions
  BY DEF DropSession, Updating, PassInv, InMap, TypeOK
<1>2. n \in Nat
  BY CountLemma
<1>3. m_QueuedPlayer \in Seq(Sessions) /\ Distinct(m_QueuedPlayer)
  BY DEF TypeOK, NoDanglingSession, Distinct
<1>4. q1 \in Seq(Sessions) /\ Distinct(q1) /\ Accepted(m_QueuedPlayer, n, s) \subseteq Sessions
  BY <1>1, <1>2, <1>3, QueueLeftLemma
<1>5. q2 \in Seq(Sessions) /\ Accepted(q1, n, s) \subseteq Sessions
  BY <1>1, <1>2, <1>4, QueueLeftLemma
<1>6. TellFrom(m_QueuedPlayer, n, s) \in Int /\ TellFrom(q1, n, s) \in Int
  <2> HIDE DEF q1
  <2> QED
    BY <1>3, <1>4 DEF TellFrom, Listed, Position
<1>7. t2 \in [Sessions -> Nat]
  <2>1. t \in [Sessions -> Nat]
    BY <1>4, <1>6, TellType DEF TypeOK
  <2> HIDE DEF t
  <2>2. Tell(t, q2, TellFrom(q1, n, s)) \in [Sessions -> Nat]
    BY <1>5, <1>6, <2>1, TellType
  <2> QED
    BY <2>2, FreedType
<1>8. /\ m_QueuedPlayer' = q2
      /\ told' = t2
      /\ admitted' = (admitted \cup first) \ {s}
      /\ initPending' = (initPending \cup first) \ {s}
      /\ m_inQueue' = [m_inQueue EXCEPT ![s] = FALSE]
      /\ m_disconnects' = (IF ~Listed(m_QueuedPlayer, s) /\ Tolerance > 0
                           THEN [m_disconnects EXCEPT ![a] = now] ELSE m_disconnects)
      /\ account' = [account EXCEPT ![s] = NoAccount]
      /\ forceExit' = forceExit \ {s}
      /\ character' = [character EXCEPT ![s] = "none"]
      /\ bypass' = bypass \ {s}
      /\ m_sessions' = [m_sessions EXCEPT ![a] = NoSession]
      /\ todo' = todo \ {a}
      /\ UNCHANGED <<open, addSessQueue, now, pc>>
  BY DEF DropSession
<1> HIDE DEF s, q1, q2, first, t, t2, n
<1>9. m_disconnects' \in [Accounts -> 0..Never]
  BY <1>8, NumbersAssumption DEF TypeOK, Never
<1>10. first \subseteq Sessions
  BY <1>4, <1>5 DEF first
<1>11. /\ admitted' \subseteq Sessions /\ initPending' \subseteq Sessions
       /\ forceExit' \subseteq Sessions /\ bypass' \subseteq Sessions
       /\ todo' \subseteq Accounts
  BY <1>8, <1>10 DEF TypeOK
<1>12. /\ account' \in [Sessions -> Accounts \cup {NoAccount}]
       /\ m_sessions' \in [Accounts -> Sessions \cup {NoSession}]
       /\ m_inQueue' \in [Sessions -> BOOLEAN]
       /\ character' \in [Sessions -> {"none", "loading", "ingame"}]
  BY <1>8 DEF TypeOK
<1> QED
  BY <1>5, <1>7, <1>8, <1>9, <1>11, <1>12 DEF TypeOK

(* Every step keeps the types.                                                 *)
LEMMA NextType ==
    ASSUME TypeOK, NoDanglingSession, PassInv, [Next]_vars
    PROVE  TypeOK'
<1>1. CASE \E s \in Sessions, a \in Accounts : AddSession(s, a)
  BY <1>1 DEF AddSession, TypeOK, queueVars, timeVars
<1>2. CASE \E s \in Sessions : SocketLost(s)
  BY <1>2 DEF SocketLost, TypeOK, queueVars, timeVars
<1>3. CASE BeginUpdateSessions
  BY <1>3 DEF BeginUpdateSessions, TypeOK, sessVars, queueVars, timeVars
<1>4. CASE RefuseSession
  <2>1. Head(addSessQueue) \in Sessions /\ Tail(addSessQueue) \in Seq(Sessions)
    BY <1>4 DEF RefuseSession, TypeOK
  <2> QED
    BY <1>4, <2>1 DEF RefuseSession, TypeOK, queueVars, timeVars
<1>5. CASE AcceptSession
  BY <1>5, AcceptType
<1>6. CASE EndAdd
  BY <1>6 DEF EndAdd, TypeOK, sessVars, queueVars, timeVars, InMap
<1>7. CASE \E a \in Accounts : KickPlayer(a)
  BY <1>7 DEF KickPlayer, TypeOK, queueVars, timeVars
<1>8. CASE EndUpdateSessions
  BY <1>8 DEF EndUpdateSessions, TypeOK, sessVars, queueVars, timeVars
<1>9. CASE KickAll
  <2>1. {m_sessions[a] : a \in InMap} \subseteq Sessions
    BY DEF InMap, TypeOK
  <2> QED
    BY <1>9, <2>1 DEF KickAll, TypeOK, timeVars
<1>10. CASE AdvanceTime
  BY <1>10, NumbersAssumption DEF AdvanceTime, TypeOK, sessVars, queueVars, Never
<1>11. ASSUME NEW a \in Accounts, UpdateSession(a)
       PROVE  TypeOK'
  <2>1. CASE InitializeSessionCallback(a)
    BY <2>1 DEF InitializeSessionCallback, TypeOK, sessVars, timeVars
  <2>2. CASE HandlePlayerLoginOpcode(a)
    BY <2>2 DEF HandlePlayerLoginOpcode, TypeOK, queueVars, timeVars
  <2>3. CASE HandlePlayerLogin(a)
    <3>1. m_sessions[a] \in Sessions
      BY <2>3 DEF HandlePlayerLogin, Updating, PassInv, InMap, TypeOK
    <3> QED
      BY <2>3, <3>1 DEF HandlePlayerLogin, TypeOK, queueVars, timeVars
  <2>4. CASE LogoutPlayer(a)
    BY <2>4 DEF LogoutPlayer, TypeOK, queueVars, timeVars
  <2>5. CASE KeepSession(a)
    BY <2>5 DEF KeepSession, TypeOK, sessVars, queueVars, timeVars
  <2>6. CASE DropSession(a)
    BY <2>6, DropType
  <2> QED
    BY <1>11, <2>1, <2>2, <2>3, <2>4, <2>5, <2>6 DEF UpdateSession
<1>12. CASE UNCHANGED vars
  BY <1>12 DEF TypeOK, vars
<1> QED
  BY <1>1, <1>2, <1>3, <1>4, <1>5, <1>6, <1>7, <1>8, <1>9, <1>10, <1>11, <1>12 DEF Next
-----------------------------------------------------------------------------
(* AddSession_ deletes the old session of the account and no pointer to it     *)
(* stays behind.                                                               *)
LEMMA AcceptKeepsPointers ==
    ASSUME TypeOK, NoDanglingSession, PassInv, AcceptSession
    PROVE  NoDanglingSession' /\ PassInv'
<1> DEFINE s == Head(addSessQueue)
           a == account[s]
           old == m_sessions[a]
           gone == {old} \ {NoSession}
           n == SessionCount
           isOld == old # NoSession
           q == IF isOld THEN QueueLeft(m_QueuedPlayer, n, old) ELSE m_QueuedPlayer
<1>1. s \in Sessions /\ a \in Accounts /\ old \in Sessions \cup {NoSession}
  BY DEF AcceptSession, TypeOK, NoDanglingSession
<1>2. n \in Nat
  BY CountLemma
<1>3. m_QueuedPlayer \in Seq(Sessions) /\ Distinct(m_QueuedPlayer)
  BY DEF Distinct, NoDanglingSession, TypeOK
<1>4. /\ q \in Seq(Sessions) /\ Distinct(q)
      /\ isOld => ~Listed(q, old)
      /\ \A i \in DOMAIN q : Listed(m_QueuedPlayer, q[i])
  <2>1. CASE isOld
    BY <1>1, <1>2, <1>3, <2>1, QueueLeftLemma
  <2>2. CASE ~isOld
    BY <1>3, <2>2 DEF Listed
  <2> QED
    BY <2>1, <2>2
<1>5. /\ m_sessions' = [m_sessions EXCEPT ![a] = s]
      /\ account' = Freed(account, gone, NoAccount)
      /\ m_QueuedPlayer' = Append(q, s) \/ m_QueuedPlayer' = q
      /\ addSessQueue # <<>> /\ addSessQueue' = Tail(addSessQueue)
      /\ pc \in {"add", "lastadd"} /\ pc' = pc
  BY DEF AcceptSession, Adding
<1> HIDE DEF s, q, n
<1>6. s \notin Live
  BY <1>5 DEF NoDanglingSession, TypeOK, s
<1>7. isOld => old \in Live /\ account[old] = a
  <2> SUFFICES ASSUME isOld PROVE old \in Live /\ account[old] = a
    OBVIOUS
  <2> HIDE DEF a
  <2>1. account[m_sessions[a]] = a /\ m_sessions[a] \in Sessions
    BY <1>1 DEF NoDanglingSession
  <2> QED
    BY <1>1, <2>1, NoAccountAssumption DEF Live
<1>8. account'[s] = a /\ \A x \in Sessions : x \in gone \/ account'[x] = account[x]
  BY <1>1, <1>5, <1>6, <1>7 DEF Freed, TypeOK
<1>9. \A b \in Accounts : m_sessions'[b] # NoSession => account'[m_sessions'[b]] = b
  BY <1>1, <1>5, <1>7, <1>8 DEF NoDanglingSession, TypeOK
<1>10. s \in Live'
  BY <1>1, <1>5, <1>8, NoAccountAssumption DEF Live, TypeOK
<1>11. \A x \in Live : (isOld /\ x = old) \/ x \in Live'
  <2> SUFFICES ASSUME NEW x \in Live, ~(isOld /\ x = old) PROVE x \in Live'
    OBVIOUS
  <2>1. x \in Sessions /\ account[x] \in Accounts /\ m_sessions[account[x]] = x
    BY DEF Live, TypeOK
  <2>2. account[x] # a
    BY <2>1, NoSessionAssumption
  <2>3. account'[x] = account[x]
    BY <1>8, <2>1
  <2> QED
    BY <1>5, <2>1, <2>2, <2>3, NoAccountAssumption DEF Live, TypeOK
<1>12. \A i \in DOMAIN q : q[i] \in Live /\ q[i] \in Live' /\ q[i] # s
  BY <1>4, <1>6, <1>11 DEF Listed, NoDanglingSession
<1>13. /\ \A i \in DOMAIN m_QueuedPlayer' : m_QueuedPlayer'[i] \in Live'
       /\ \A i, j \in DOMAIN m_QueuedPlayer' : m_QueuedPlayer'[i] = m_QueuedPlayer'[j] => i = j
  <2>1. CASE m_QueuedPlayer' = q
    BY <1>4, <1>12, <2>1 DEF Distinct
  <2>2. CASE m_QueuedPlayer' = Append(q, s)
    <3>1. /\ DOMAIN Append(q, s) = 1..(Len(q) + 1) /\ DOMAIN q = 1..Len(q)
          /\ Append(q, s)[Len(q) + 1] = s
          /\ \A i \in DOMAIN q : Append(q, s)[i] = q[i]
      BY <1>1, <1>4
    <3> QED
      BY <1>4, <1>10, <1>12, <2>2, <3>1 DEF Distinct
  <2> QED
    BY <1>5, <2>1, <2>2
<1>14. \A i \in DOMAIN addSessQueue' : i + 1 \in DOMAIN addSessQueue /\ i + 1 # 1
          /\ addSessQueue'[i] = addSessQueue[i + 1] /\ addSessQueue[i + 1] \in Sessions
  BY <1>5 DEF TypeOK
<1>15. s = addSessQueue[1] /\ 1 \in DOMAIN addSessQueue
  BY <1>5 DEF TypeOK, s
<1>16. \A i \in DOMAIN addSessQueue' :
          account'[addSessQueue'[i]] # NoAccount /\ addSessQueue'[i] \notin Live'
  <2> SUFFICES ASSUME NEW i \in DOMAIN addSessQueue'
               PROVE  account'[addSessQueue'[i]] # NoAccount /\ addSessQueue'[i] \notin Live'
    OBVIOUS
  <2> DEFINE x == addSessQueue[i + 1]
  <2>1. x \in Sessions /\ addSessQueue'[i] = x /\ account[x] # NoAccount /\ x \notin Live
    BY <1>14 DEF NoDanglingSession
  <2>2. x # s
    BY <1>14, <1>15 DEF PassInv
  <2>3. account'[x] = account[x]
    BY <1>7, <1>8, <2>1
  <2> QED
    BY <1>1, <1>5, <2>1, <2>2, <2>3 DEF Live, TypeOK
<1>17. PassInv'
  BY <1>5, <1>14 DEF PassInv
<1> QED
  BY <1>9, <1>13, <1>16, <1>17 DEF NoDanglingSession

(* Nor does one when UpdateSessions deletes a session.                         *)
LEMMA DropKeepsPointers ==
    ASSUME TypeOK, NoDanglingSession, PassInv, NEW a \in Accounts, DropSession(a)
    PROVE  NoDanglingSession' /\ PassInv'
<1> DEFINE s == m_sessions[a]
           n == SessionCount
           q1 == QueueLeft(m_QueuedPlayer, n, s)
           q2 == QueueLeft(q1, n, s)
<1>1. s \in Sessions /\ account[s] = a /\ s \in Live
  BY NoSessionAssumption, NoAccountAssumption
     DEF DropSession, Updating, PassInv, InMap, TypeOK, NoDanglingSession, Live
<1>2. n \in Nat
  BY CountLemma
<1>3. m_QueuedPlayer \in Seq(Sessions) /\ Distinct(m_QueuedPlayer)
  BY DEF TypeOK, NoDanglingSession, Distinct
<1>4. /\ q1 \in Seq(Sessions) /\ Distinct(q1)
      /\ \A i \in DOMAIN q1 : Listed(m_QueuedPlayer, q1[i])
  BY <1>1, <1>2, <1>3, QueueLeftLemma
<1> HIDE DEF q1
<1>5. /\ q2 \in Seq(Sessions) /\ Distinct(q2) /\ ~Listed(q2, s)
      /\ \A i \in DOMAIN q2 : Listed(q1, q2[i])
  BY <1>1, <1>2, <1>4, QueueLeftLemma
<1>6. /\ m_QueuedPlayer' = q2
      /\ account' = [account EXCEPT ![s] = NoAccount]
      /\ m_sessions' = [m_sessions EXCEPT ![a] = NoSession]
      /\ todo' = todo \ {a}
      /\ UNCHANGED <<addSessQueue, pc>>
  BY DEF DropSession, q1
<1> HIDE DEF s, q2, n
<1>7. \A b \in Accounts : m_sessions'[b] # NoSession => account'[m_sessions'[b]] = b
  BY <1>1, <1>6 DEF NoDanglingSession, TypeOK
<1>8. \A x \in Live : x = s \/ x \in Live'
  BY <1>1, <1>6 DEF Live, TypeOK, s
<1>9. \A x \in Live' : x \in Live
  BY <1>1, <1>6, NoSessionAssumption DEF Live, TypeOK
<1>10. \A i \in DOMAIN q2 : q2[i] \in Live'
  BY <1>4, <1>5, <1>8 DEF Listed, NoDanglingSession
<1>11. \A i \in DOMAIN addSessQueue' :
          account'[addSessQueue'[i]] # NoAccount /\ addSessQueue'[i] \notin Live'
  BY <1>1, <1>6, <1>9 DEF NoDanglingSession, TypeOK
<1>12. PassInv'
  BY <1>6 DEF PassInv, InMap, TypeOK
<1> QED
  BY <1>5, <1>6, <1>7, <1>10, <1>11, <1>12 DEF NoDanglingSession, Distinct

(* A session whose old namesake is loading is deleted before World knows it.   *)
LEMMA RefuseKeepsPointers ==
    ASSUME TypeOK, NoDanglingSession, PassInv, RefuseSession
    PROVE  NoDanglingSession' /\ PassInv'
<1> DEFINE s == Head(addSessQueue)
<1>1. /\ addSessQueue # <<>> /\ addSessQueue' = Tail(addSessQueue)
      /\ account' = [account EXCEPT ![s] = NoAccount]
      /\ UNCHANGED <<m_sessions, m_QueuedPlayer, pc, todo>>
      /\ pc \in {"add", "lastadd"}
  BY DEF RefuseSession, queueVars, Adding
<1>2. s \in Sessions /\ s = addSessQueue[1] /\ 1 \in DOMAIN addSessQueue
  BY <1>1 DEF TypeOK
<1> HIDE DEF s
<1>3. s \notin Live
  BY <1>2 DEF NoDanglingSession
<1>4. \A x \in Live : x \in Live'
  BY <1>1, <1>2, <1>3 DEF Live, TypeOK
<1>5. \A x \in Live' : x \in Live
  BY <1>1, <1>2, <1>3 DEF Live, TypeOK
<1>6. \A b \in Accounts : m_sessions[b] # NoSession => m_sessions[b] \in Live
  BY NoAccountAssumption DEF NoDanglingSession, Live, TypeOK
<1>7. \A b \in Accounts : m_sessions'[b] # NoSession => account'[m_sessions'[b]] = b
  BY <1>1, <1>2, <1>3, <1>6 DEF NoDanglingSession, TypeOK
<1>8. \A i \in DOMAIN addSessQueue' : i + 1 \in DOMAIN addSessQueue /\ i + 1 # 1 /\ i \in Int
          /\ addSessQueue'[i] = addSessQueue[i + 1] /\ addSessQueue[i + 1] \in Sessions
  BY <1>1 DEF TypeOK
<1>9. \A i \in DOMAIN addSessQueue' :
          account'[addSessQueue'[i]] # NoAccount /\ addSessQueue'[i] \notin Live'
  <2> SUFFICES ASSUME NEW i \in DOMAIN addSessQueue'
               PROVE  account'[addSessQueue'[i]] # NoAccount /\ addSessQueue'[i] \notin Live'
    OBVIOUS
  <2>1. addSessQueue'[i] # s
    BY <1>2, <1>8 DEF PassInv
  <2> QED
    BY <1>1, <1>5, <1>8, <2>1 DEF NoDanglingSession, TypeOK
<1>10. PassInv'
  BY <1>1, <1>8 DEF PassInv
<1> QED
  BY <1>1, <1>4, <1>7, <1>9, <1>10 DEF NoDanglingSession

(* A network thread hands over a session at a fresh address.                   *)
LEMMA AddKeepsPointers ==
    ASSUME TypeOK, NoDanglingSession, PassInv,
           NEW s \in Sessions, NEW a \in Accounts, AddSession(s, a)
    PROVE  NoDanglingSession' /\ PassInv'
<1>1. /\ account[s] = NoAccount
      /\ account' = [account EXCEPT ![s] = a]
      /\ addSessQueue' = Append(addSessQueue, s)
      /\ UNCHANGED <<m_sessions, m_QueuedPlayer, pc, todo>>
  BY DEF AddSession, queueVars
<1>2. \A b \in Accounts : m_sessions[b] # NoSession => m_sessions[b] # s
  BY <1>1, NoAccountAssumption DEF NoDanglingSession
<1>3. \A b \in Accounts : m_sessions'[b] # NoSession => account'[m_sessions'[b]] = b
  BY <1>1, <1>2 DEF NoDanglingSession, TypeOK
<1>4. s \notin Live'
  <2>1. account'[s] = a
    BY <1>1 DEF TypeOK
  <2>2. m_sessions[a] # s
    BY <1>2, NoSessionAssumption
  <2> QED
    BY <1>1, <2>1, <2>2 DEF Live
<1>5. \A x \in Sessions : x # s => account'[x] = account[x] /\ (x \in Live' <=> x \in Live)
  <2> TAKE x \in Sessions
  <2> HAVE x # s
  <2>1. account'[x] = account[x]
    BY <1>1 DEF TypeOK
  <2> QED
    BY <1>1, <2>1 DEF Live
<1>6. \A i \in DOMAIN m_QueuedPlayer : m_QueuedPlayer[i] # s /\ m_QueuedPlayer[i] \in Sessions
  BY <1>1 DEF NoDanglingSession, Live, TypeOK
<1>7. \A i \in DOMAIN addSessQueue : addSessQueue[i] # s /\ addSessQueue[i] \in Sessions
  BY <1>1 DEF NoDanglingSession, TypeOK
<1>8. /\ DOMAIN addSessQueue' = 1..(Len(addSessQueue) + 1)
      /\ DOMAIN addSessQueue = 1..Len(addSessQueue)
      /\ Len(addSessQueue) \in Nat
      /\ addSessQueue'[Len(addSessQueue) + 1] = s
      /\ \A i \in DOMAIN addSessQueue : addSessQueue'[i] = addSessQueue[i]
  BY <1>1 DEF TypeOK
<1>9. \A i \in DOMAIN addSessQueue' :
          account'[addSessQueue'[i]] # NoAccount /\ addSessQueue'[i] \notin Live'
  <2> TAKE i \in DOMAIN addSessQueue'
  <2>1. CASE i = Len(addSessQueue) + 1
    BY <1>1, <1>4, <1>8, <2>1, NoAccountAssumption DEF TypeOK
  <2>2. CASE i \in DOMAIN addSessQueue
    BY <1>5, <1>7, <1>8, <2>2 DEF NoDanglingSession
  <2> QED
    BY <1>8, <2>1, <2>2
<1>10. \A i, j \in DOMAIN addSessQueue' : addSessQueue'[i] = addSessQueue'[j] => i = j
  <2> HIDE DEF PassInv
  <2>1. \A i, j \in DOMAIN addSessQueue : addSessQueue[i] = addSessQueue[j] => i = j
    BY DEF PassInv
  <2> QED
    BY <1>7, <1>8, <2>1
<1>11. PassInv'
  BY <1>1, <1>10 DEF PassInv, InMap
<1> QED
  BY <1>1, <1>3, <1>5, <1>6, <1>9, <1>11 DEF NoDanglingSession

(* No step leaves a dangling pointer.                                          *)
LEMMA NextKeepsPointers ==
    ASSUME TypeOK, NoDanglingSession, PassInv, [Next]_vars
    PROVE  NoDanglingSession' /\ PassInv'
<1>1. ASSUME UNCHANGED core
      PROVE  NoDanglingSession'
  BY <1>1 DEF core, NoDanglingSession, Live
<1>2. ASSUME UNCHANGED core, UNCHANGED pc, todo' \subseteq todo
      PROVE  PassInv'
  BY <1>2 DEF core, PassInv, InMap
<1>3. CASE \E s \in Sessions, a \in Accounts : AddSession(s, a)
  BY <1>3, AddKeepsPointers
<1>4. CASE \E s \in Sessions : SocketLost(s)
  BY <1>1, <1>2, <1>4 DEF SocketLost, core, queueVars
<1>5. CASE BeginUpdateSessions
  BY <1>1, <1>5 DEF BeginUpdateSessions, core, PassInv, sessVars, queueVars
<1>6. CASE RefuseSession
  BY <1>6, RefuseKeepsPointers
<1>7. CASE AcceptSession
  BY <1>7, AcceptKeepsPointers
<1>8. CASE EndAdd
  BY <1>1, <1>8 DEF EndAdd, core, PassInv, InMap, sessVars, queueVars
<1>9. CASE \E a \in Accounts : KickPlayer(a)
  BY <1>1, <1>2, <1>9 DEF KickPlayer, core, queueVars
<1>10. CASE EndUpdateSessions
  BY <1>1, <1>10 DEF EndUpdateSessions, core, PassInv, InMap, sessVars, queueVars
<1>11. CASE KickAll
  <2>1. m_QueuedPlayer' = <<>> /\ UNCHANGED <<account, m_sessions, addSessQueue>> /\ pc' = "kicked"
    BY <1>11 DEF KickAll
  <2>2. DOMAIN m_QueuedPlayer' = {}
    BY <2>1
  <2> QED
    BY <2>1, <2>2 DEF NoDanglingSession, Live, PassInv
<1>12. CASE AdvanceTime
  BY <1>1, <1>2, <1>12 DEF AdvanceTime, core, sessVars, queueVars
<1>13. ASSUME NEW a \in Accounts, UpdateSession(a)
       PROVE  NoDanglingSession' /\ PassInv'
  <2>1. CASE InitializeSessionCallback(a)
    BY <1>1, <1>2, <2>1 DEF InitializeSessionCallback, core, sessVars
  <2>2. CASE HandlePlayerLoginOpcode(a)
    BY <1>1, <1>2, <2>2 DEF HandlePlayerLoginOpcode, core, queueVars
  <2>3. CASE HandlePlayerLogin(a)
    BY <1>1, <1>2, <2>3 DEF HandlePlayerLogin, core, queueVars
  <2>4. CASE LogoutPlayer(a)
    BY <1>1, <1>2, <2>4 DEF LogoutPlayer, core, queueVars
  <2>5. CASE KeepSession(a)
    BY <1>1, <1>2, <2>5 DEF KeepSession, core, sessVars, queueVars
  <2>6. CASE DropSession(a)
    BY <2>6, DropKeepsPointers
  <2> QED
    BY <1>13, <2>1, <2>2, <2>3, <2>4, <2>5, <2>6 DEF UpdateSession
<1>14. CASE UNCHANGED vars
  BY <1>1, <1>2, <1>14 DEF core, vars
<1> QED
  BY <1>3, <1>4, <1>5, <1>6, <1>7, <1>8, <1>9, <1>10, <1>11, <1>12, <1>13, <1>14 DEF Next
-----------------------------------------------------------------------------
(* NoIdleSlot for a queue of length l and n sessions.                          *)
Filled(l, n) == l > 0 => Limit > 0 /\ n - l >= Limit

(* RemoveQueuedPlayer while the slots are filled: a waiting session leaves     *)
(* without admitting anybody; an active one lets the first in exactly when the *)
(* slots were filled to the limit.                                             *)
LEMMA RemoveLemma ==
    ASSUME NEW q \in Seq(Sessions), NEW n \in Nat, NEW s \in Sessions, Distinct(q),
           Filled(Len(q), n)
    PROVE  /\ Listed(q, s) => Len(q) > 0 /\ Len(QueueLeft(q, n, s)) = Len(q) - 1
           /\ ~Listed(q, s) /\ Len(q) > 0 /\ n - Len(q) = Limit
                 => Len(QueueLeft(q, n, s)) = Len(q) - 1
           /\ ~Listed(q, s) /\ (Len(q) = 0 \/ n - Len(q) > Limit)
                 => Len(QueueLeft(q, n, s)) = Len(q)
<1> DEFINE l == Len(q)
           e == Erase(q, s)
<1>1. l \in Nat /\ e \in Seq(Sessions) /\ Len(e) = (IF Listed(q, s) THEN l - 1 ELSE l)
  BY EraseLemma
<1>2. e # <<>> <=> Len(e) > 0
  <2> HIDE DEF e
  <2> QED
    BY <1>1
<1>3. Len(QueueLeft(q, n, s)) = Len(e) - (IF AcceptsFirst(q, n, s) THEN 1 ELSE 0)
  BY QueueLeftLemma
<1>4. AcceptsFirst(q, n, s) <=> (Limit = 0 \/ ActiveWithout(q, n, s) < Limit) /\ Len(e) > 0
  BY <1>2 DEF AcceptsFirst
<1>5. Listed(q, s) => l > 0
  BY DEF Listed
<1>6. ActiveWithout(q, n, s) = IF ~Listed(q, s) /\ n - l > 0 THEN n - l - 1 ELSE n - l
  BY DEF ActiveWithout
<1> HIDE DEF l, e
<1>7. CASE Listed(q, s)
  BY <1>1, <1>3, <1>4, <1>5, <1>6, <1>7, NumbersAssumption DEF Filled, l
<1>8. CASE ~Listed(q, s)
  BY <1>1, <1>3, <1>4, <1>6, <1>8, NumbersAssumption DEF Filled, l
<1> QED
  BY <1>7, <1>8

(* AddSession_ keeps the slots filled.                                         *)
LEMMA AcceptKeepsSlots ==
    ASSUME TypeOK, NoDanglingSession, PassInv, NoIdleSlot, AcceptSession
    PROVE  NoIdleSlot'
<1> DEFINE s == Head(addSessQueue)
           a == account[s]
           old == m_sessions[a]
           n == SessionCount
           isOld == old # NoSession
           found == isOld /\ Listed(m_QueuedPlayer, old)
           q == IF isOld THEN QueueLeft(m_QueuedPlayer, n, old) ELSE m_QueuedPlayer
           size == IF isOld THEN n ELSE n + 1
           waits == Full(IF found THEN size ELSE size - 1) /\ ~MayPass(a)
           l == Len(m_QueuedPlayer)
<1>1. s \in Sessions /\ a \in Accounts /\ old \in Sessions \cup {NoSession}
  BY DEF AcceptSession, TypeOK, NoDanglingSession
<1>2. n \in Nat /\ IsFiniteSet(InMap)
  BY CountLemma
<1>3. m_QueuedPlayer \in Seq(Sessions) /\ Distinct(m_QueuedPlayer) /\ l \in Nat
  BY DEF Distinct, NoDanglingSession, TypeOK
<1>4. Filled(l, n)
  BY <1>3 DEF NoIdleSlot, Filled
<1>5. /\ m_sessions' = [m_sessions EXCEPT ![a] = s]
      /\ m_QueuedPlayer' = (IF waits THEN Append(q, s) ELSE q)
  BY DEF AcceptSession
<1>6. q \in Seq(Sessions) /\ Len(q) \in Nat
  BY <1>1, <1>2, <1>3, QueueLeftLemma
<1>7. SessionCount' = size
  <2>1. InMap' = InMap \cup {a} /\ (isOld <=> a \in InMap)
    BY <1>1, <1>5, NoSessionAssumption DEF InMap, TypeOK
  <2>2. Cardinality(InMap \cup {a}) = IF a \in InMap THEN n ELSE n + 1
    BY <1>2, FS_AddElement DEF SessionCount
  <2> QED
    BY <2>1, <2>2 DEF SessionCount
<1>8. isOld =>
        /\ Listed(m_QueuedPlayer, old) => l > 0 /\ Len(q) = l - 1
        /\ ~Listed(m_QueuedPlayer, old) /\ l > 0 /\ n - l = Limit => Len(q) = l - 1
        /\ ~Listed(m_QueuedPlayer, old) /\ (l = 0 \/ n - l > Limit) => Len(q) = l
  BY <1>1, <1>2, <1>3, <1>4, RemoveLemma
<1>9. ~isOld => Len(q) = l
  OBVIOUS
<1>10. waits => Limit > 0 /\ (IF found THEN size ELSE size - 1) >= Limit
  BY DEF Full
<1>11. Len(m_QueuedPlayer') = IF waits THEN Len(q) + 1 ELSE Len(q)
  BY <1>1, <1>5, <1>6
<1>12. m_QueuedPlayer' # <<>> => Len(m_QueuedPlayer') > 0
  <2>1. m_QueuedPlayer' \in Seq(Sessions)
    BY <1>1, <1>5, <1>6
  <2> QED
    BY <2>1
<1> HIDE DEF q, n, l, waits, old, s, a
<1>13. Filled(Len(m_QueuedPlayer'), size)
  <2>1. CASE ~isOld
    BY <1>2, <1>3, <1>4, <1>9, <1>10, <1>11, <2>1, NumbersAssumption DEF Filled
  <2>2. CASE isOld /\ found
    BY <1>2, <1>3, <1>4, <1>8, <1>10, <1>11, <2>2, NumbersAssumption DEF Filled
  <2>3. CASE isOld /\ ~found
    BY <1>2, <1>3, <1>4, <1>8, <1>10, <1>11, <2>3, NumbersAssumption DEF Filled
  <2> QED
    BY <2>1, <2>2, <2>3
<1> QED
  BY <1>7, <1>12, <1>13 DEF NoIdleSlot, Filled

(* The two calls of RemoveQueuedPlayer for a session that leaves let in at     *)
(* most one, and keep the slots filled.                                        *)
LEMMA DropKeepsSlots ==
    ASSUME TypeOK, NoDanglingSession, PassInv, NoIdleSlot, NEW a \in Accounts, DropSession(a)
    PROVE  NoIdleSlot'
<1> DEFINE s == m_sessions[a]
           n == SessionCount
           q1 == QueueLeft(m_QueuedPlayer, n, s)
           q2 == QueueLeft(q1, n, s)
           l == Len(m_QueuedPlayer)
<1>1. s \in Sessions /\ a \in InMap
  BY DEF DropSession, Updating, PassInv, InMap, TypeOK
<1>2. n \in Nat /\ IsFiniteSet(InMap)
  BY CountLemma
<1>3. m_QueuedPlayer \in Seq(Sessions) /\ Distinct(m_QueuedPlayer) /\ l \in Nat
  BY DEF TypeOK, NoDanglingSession, Distinct
<1>4. Filled(l, n)
  BY <1>3 DEF NoIdleSlot, Filled
<1>5. q1 \in Seq(Sessions) /\ Distinct(q1) /\ ~Listed(q1, s) /\ Len(q1) \in Nat
  <2>1. q1 \in Seq(Sessions) /\ Distinct(q1) /\ ~Listed(q1, s)
    BY <1>1, <1>2, <1>3, QueueLeftLemma
  <2> HIDE DEF q1
  <2> QED
    BY <2>1
<1>6. /\ Listed(m_QueuedPlayer, s) => l > 0 /\ Len(q1) = l - 1
      /\ ~Listed(m_QueuedPlayer, s) /\ l > 0 /\ n - l = Limit => Len(q1) = l - 1
      /\ ~Listed(m_QueuedPlayer, s) /\ (l = 0 \/ n - l > Limit) => Len(q1) = l
  BY <1>1, <1>2, <1>3, <1>4, RemoveLemma
<1>7. m_QueuedPlayer' = q2 /\ m_sessions' = [m_sessions EXCEPT ![a] = NoSession]
  BY DEF DropSession
<1>8. SessionCount' = n - 1
  <2>1. InMap' = InMap \ {a}
    BY <1>7 DEF InMap, TypeOK
  <2>2. Cardinality(InMap \ {a}) = n - 1
    BY <1>1, <1>2, FS_RemoveElement DEF SessionCount
  <2> QED
    BY <2>1, <2>2 DEF SessionCount
<1> HIDE DEF s, n, q1, l
<1>9. Filled(Len(q1), n) /\ (Len(q1) > 0 => n - Len(q1) > Limit)
  BY <1>2, <1>3, <1>4, <1>5, <1>6, NumbersAssumption DEF Filled
<1>10. q2 \in Seq(Sessions) /\ Len(q2) = Len(q1)
  <2>1. Len(q1) = 0 \/ n - Len(q1) > Limit
    BY <1>5, <1>9
  <2> QED
    BY <1>1, <1>2, <1>5, <1>9, <2>1, RemoveLemma, QueueLeftLemma
<1> HIDE DEF q2
<1>11. q2 # <<>> => Len(q2) > 0
  BY <1>10
<1> QED
  BY <1>2, <1>5, <1>7, <1>8, <1>9, <1>10, <1>11, NumbersAssumption DEF NoIdleSlot, Filled

(* No step leaves somebody waiting beside an idle slot.                        *)
LEMMA NextKeepsSlots ==
    ASSUME TypeOK, NoDanglingSession, PassInv, NoIdleSlot, [Next]_vars
    PROVE  NoIdleSlot'
<1>1. ASSUME UNCHANGED <<m_sessions, m_QueuedPlayer>>
      PROVE  NoIdleSlot'
  BY <1>1 DEF NoIdleSlot, SessionCount, InMap
<1>2. CASE \E s \in Sessions : (\E a \in Accounts : AddSession(s, a)) \/ SocketLost(s)
  BY <1>1, <1>2 DEF AddSession, SocketLost, queueVars
<1>3. CASE BeginUpdateSessions \/ EndAdd \/ EndUpdateSessions \/ AdvanceTime \/ RefuseSession
  BY <1>1, <1>3 DEF BeginUpdateSessions, EndAdd, EndUpdateSessions, AdvanceTime, RefuseSession,
                    queueVars
<1>4. CASE AcceptSession
  BY <1>4, AcceptKeepsSlots
<1>5. CASE \E a \in Accounts : KickPlayer(a)
  BY <1>1, <1>5 DEF KickPlayer, queueVars
<1>6. CASE KickAll
  BY <1>6 DEF KickAll, NoIdleSlot
<1>7. ASSUME NEW a \in Accounts, UpdateSession(a)
      PROVE  NoIdleSlot'
  <2>1. CASE DropSession(a)
    BY <2>1, DropKeepsSlots
  <2>2. CASE ~DropSession(a)
    BY <1>1, <1>7, <2>2 DEF UpdateSession, InitializeSessionCallback, HandlePlayerLoginOpcode,
                            HandlePlayerLogin, LogoutPlayer, KeepSession, queueVars
  <2> QED
    BY <2>1, <2>2
<1>8. CASE UNCHANGED vars
  BY <1>1, <1>8 DEF vars
<1> QED
  BY <1>2, <1>3, <1>4, <1>5, <1>6, <1>7, <1>8 DEF Next
-----------------------------------------------------------------------------
Inv == TypeOK /\ NoDanglingSession /\ PassInv /\ NoIdleSlot

(* The conjunction is inductive: NoIdleSlot needs the queue to hold each       *)
(* session once (NoDanglingSession), that needs AddSession to be given fresh   *)
(* addresses, and the deletion of a session that it was in the map (PassInv).  *)
THEOREM Inductive == Spec => []Inv
<1>1. Init => Inv
  <2> SUFFICES ASSUME Init PROVE Inv
    OBVIOUS
  <2>1. TypeOK
    BY NumbersAssumption DEF Init, TypeOK, Never
  <2>2. NoDanglingSession /\ PassInv /\ NoIdleSlot
    BY DEF Init, NoDanglingSession, PassInv, NoIdleSlot
  <2> QED
    BY <2>1, <2>2 DEF Inv
<1>2. Inv /\ [Next]_vars => Inv'
  BY NextType, NextKeepsPointers, NextKeepsSlots DEF Inv
<1> QED
  BY <1>1, <1>2, PTL DEF Spec

(* World's session map and queue keep their types.                             *)
THEOREM TypeCorrect == Spec => []TypeOK
<1>1. Inv => TypeOK
  BY DEF Inv
<1> QED
  BY <1>1, Inductive, PTL

(* No pointer kept in m_sessions, addSessQueue or m_QueuedPlayer dangles.      *)
THEOREM PointersValid == Spec => []NoDanglingSession
<1>1. Inv => NoDanglingSession
  BY DEF Inv
<1> QED
  BY <1>1, Inductive, PTL

(* Nobody waits in the queue while the server has room.                        *)
THEOREM SlotsFilled == Spec => []NoIdleSlot
<1>1. Inv => NoIdleSlot
  BY DEF Inv
<1> QED
  BY <1>1, Inductive, PTL
-----------------------------------------------------------------------------
(* What RemoveQueuedPlayer does while the slots are filled: a waiting session  *)
(* leaves; an active one leaves and the first comes in; or nothing happens.    *)
Leaves(q, n, s) ==
    /\ Listed(q, s) /\ QueueLeft(q, n, s) = Erase(q, s)
    /\ Accepted(q, n, s) = {} /\ TellFrom(q, n, s) = Position(q, s)
LetsIn(q, n, s) ==
    /\ ~Listed(q, s) /\ q # <<>> /\ Limit > 0 /\ n - Len(q) = Limit
    /\ QueueLeft(q, n, s) = Tail(q) /\ Accepted(q, n, s) = {Head(q)} /\ TellFrom(q, n, s) = 1
Ignores(q, n, s) ==
    /\ ~Listed(q, s) /\ (q = <<>> \/ n - Len(q) > Limit)
    /\ QueueLeft(q, n, s) = q /\ Accepted(q, n, s) = {} /\ TellFrom(q, n, s) = Len(q) + 1

(* One of the three happens at every call.                                     *)
LEMMA RemoveCases ==
    ASSUME NEW q \in Seq(Sessions), NEW n \in Nat, NEW s \in Sessions, Distinct(q),
           Filled(Len(q), n)
    PROVE  Leaves(q, n, s) \/ LetsIn(q, n, s) \/ Ignores(q, n, s)
<1> DEFINE l == Len(q)
           e == Erase(q, s)
<1>1. l \in Nat /\ e \in Seq(Sessions) /\ (q # <<>> <=> l > 0) /\ (Listed(q, s) => l > 0)
  BY EraseLemma DEF Listed
<1>2. Filled(l, n) /\ Limit \in Nat
  BY NumbersAssumption
<1>3. CASE Listed(q, s)
  <2>1. ActiveWithout(q, n, s) = n - l
    BY <1>3 DEF ActiveWithout
  <2>2. ~AcceptsFirst(q, n, s)
    BY <1>1, <1>2, <1>3, <2>1 DEF AcceptsFirst, Filled
  <2> QED
    BY <1>3, <2>2 DEF Leaves, QueueLeft, Accepted, TellFrom
<1>4. CASE ~Listed(q, s) /\ l > 0 /\ n - l = Limit
  <2>1. e = q
    BY <1>4 DEF Erase
  <2>2. ActiveWithout(q, n, s) < Limit
    BY <1>1, <1>2, <1>4 DEF ActiveWithout, Filled
  <2>3. AcceptsFirst(q, n, s)
    BY <1>1, <1>4, <2>1, <2>2 DEF AcceptsFirst
  <2>4. QueueLeft(q, n, s) = Tail(q) /\ Accepted(q, n, s) = {Head(q)} /\ TellFrom(q, n, s) = 1
    BY <2>1, <2>3 DEF QueueLeft, Accepted, TellFrom, TakeFirst
  <2> QED
    BY <1>1, <1>2, <1>4, <2>4 DEF LetsIn, Filled
<1>5. CASE ~Listed(q, s) /\ (l = 0 \/ n - l > Limit)
  <2>1. e = q
    BY <1>5 DEF Erase
  <2>2. ~AcceptsFirst(q, n, s)
    <3>1. CASE l = 0
      BY <1>1, <2>1, <3>1 DEF AcceptsFirst
    <3>2. CASE l > 0
      <4>1. n - l > Limit /\ Limit > 0
        BY <1>2, <1>5, <3>2 DEF Filled
      <4>2. ActiveWithout(q, n, s) = n - l - 1
        BY <1>1, <1>2, <1>5, <4>1 DEF ActiveWithout
      <4> QED
        BY <1>1, <1>2, <4>1, <4>2 DEF AcceptsFirst
    <3> QED
      BY <1>1, <3>1, <3>2
  <2>3. QueueLeft(q, n, s) = q /\ Accepted(q, n, s) = {} /\ TellFrom(q, n, s) = Len(q) + 1
    BY <1>5, <2>1, <2>2 DEF QueueLeft, Accepted, TellFrom
  <2> QED
    BY <1>1, <1>5, <2>3 DEF Ignores
<1> QED
  BY <1>1, <1>2, <1>3, <1>4, <1>5 DEF Filled

(* The second call of RemoveQueuedPlayer for the same session does nothing.    *)
LEMMA SecondCall ==
    ASSUME NEW q \in Seq(Sessions), NEW n \in Nat, NEW s \in Sessions, Distinct(q),
           Filled(Len(q), n)
    PROVE  Ignores(QueueLeft(q, n, s), n, s)
<1>1. PICK r : r = QueueLeft(q, n, s)
  OBVIOUS
<1>2. r \in Seq(Sessions) /\ Distinct(r) /\ ~Listed(r, s)
  BY <1>1, QueueLeftLemma
<1>3. Len(r) \in Nat /\ Len(q) \in Nat /\ Limit \in Nat /\ (r = <<>> <=> Len(r) = 0)
  BY <1>2, NumbersAssumption
<1>4. Len(r) > 0 => n - Len(r) > Limit /\ Limit > 0
  <2>1. /\ Listed(q, s) => Len(q) > 0 /\ Len(r) = Len(q) - 1
        /\ ~Listed(q, s) /\ Len(q) > 0 /\ n - Len(q) = Limit => Len(r) = Len(q) - 1
        /\ ~Listed(q, s) /\ (Len(q) = 0 \/ n - Len(q) > Limit) => Len(r) = Len(q)
    BY <1>1, RemoveLemma
  <2> QED
    BY <1>3, <2>1 DEF Filled
<1>5. Filled(Len(r), n)
  BY <1>3, <1>4 DEF Filled
<1>6. ~LetsIn(r, n, s)
  BY <1>3, <1>4 DEF LetsIn
<1>7. Leaves(r, n, s) \/ LetsIn(r, n, s) \/ Ignores(r, n, s)
  BY <1>2, <1>5, RemoveCases
<1> QED
  BY <1>1, <1>2, <1>6, <1>7 DEF Leaves

(* Who is in the queue after RemoveQueuedPlayer: all but the removed session   *)
(* and the one let in, which was the first.                                    *)
LEMMA WhoStays ==
    ASSUME NEW q \in Seq(Sessions), NEW n \in Nat, NEW s \in Sessions, Distinct(q),
           Filled(Len(q), n)
    PROVE  /\ \A x : Listed(q, x) => x = s \/ x \in Accepted(q, n, s) \/ Listed(QueueLeft(q, n, s), x)
           /\ \A x \in Accepted(q, n, s) : Listed(q, x) /\ ~Listed(QueueLeft(q, n, s), x) /\ x # s
           /\ \A j \in DOMAIN q : q[j] \in Accepted(q, n, s) => j = 1
<1>1. CASE Leaves(q, n, s)
  <2> DEFINE p == Position(q, s)
  <2>1. p \in DOMAIN q /\ q[p] = s
    BY <1>1 DEF Leaves, Listed, Position
  <2> HIDE DEF p
  <2>2. QueueLeft(q, n, s) = [i \in 1..(Len(q) - 1) |-> IF i < p THEN q[i] ELSE q[i + 1]]
    BY <1>1 DEF Leaves, Erase, p
  <2>3. PICK r : r = QueueLeft(q, n, s)
    OBVIOUS
  <2>4. /\ DOMAIN r = 1..(Len(q) - 1) /\ DOMAIN q = 1..Len(q) /\ Len(q) \in Nat
        /\ \A i \in 1..(Len(q) - 1) : r[i] = IF i < p THEN q[i] ELSE q[i + 1]
    BY <2>2, <2>3
  <2>5. ASSUME NEW x, Listed(q, x), x # s PROVE Listed(r, x)
    <3>1. PICK i \in DOMAIN q : q[i] = x
      BY <2>5 DEF Listed
    <3>2. CASE i < p
      <4>1. i \in 1..(Len(q) - 1) /\ r[i] = x
        BY <2>1, <2>4, <3>1, <3>2
      <4> QED
        BY <2>4, <4>1 DEF Listed
    <3>3. CASE i > p
      <4>1. PICK k \in Int : k = i - 1
        BY <2>4
      <4>2. k \in 1..(Len(q) - 1) /\ ~(k < p) /\ k + 1 = i
        BY <2>1, <2>4, <3>3, <4>1
      <4>3. r[k] = x
        BY <2>4, <3>1, <4>2
      <4> QED
        BY <2>4, <4>2, <4>3 DEF Listed
    <3> QED
      BY <2>1, <2>4, <2>5, <3>1, <3>2, <3>3
  <2> QED
    BY <1>1, <2>3, <2>5 DEF Leaves
<1>2. CASE LetsIn(q, n, s)
  <2>1. PICK r : r = Tail(q)
    OBVIOUS
  <2>2. /\ Len(q) \in Nat /\ Len(q) > 0 /\ DOMAIN q = 1..Len(q) /\ Head(q) = q[1]
        /\ DOMAIN r = 1..(Len(q) - 1) /\ \A i \in 1..(Len(q) - 1) : r[i] = q[i + 1]
    BY <1>2, <2>1 DEF LetsIn
  <2>3. 1 \in DOMAIN q /\ Listed(q, Head(q))
    BY <2>2 DEF Listed
  <2>4. \A j \in DOMAIN q : q[j] = Head(q) => j = 1
    BY <2>2, <2>3 DEF Distinct
  <2>5. ~Listed(r, Head(q))
    BY <2>2, <2>4 DEF Listed
  <2>6. ASSUME NEW x, Listed(q, x), x # Head(q) PROVE Listed(r, x)
    <3>1. PICK i \in DOMAIN q : q[i] = x
      BY <2>6 DEF Listed
    <3>2. PICK k \in Int : k = i - 1
      BY <2>2
    <3>3. k \in 1..(Len(q) - 1) /\ k + 1 = i
      BY <2>2, <2>6, <3>1, <3>2
    <3> QED
      BY <2>2, <3>1, <3>3 DEF Listed
  <2>7. QueueLeft(q, n, s) = r /\ Accepted(q, n, s) = {Head(q)} /\ Head(q) # s
    BY <1>2, <2>1, <2>3 DEF LetsIn
  <2> QED
    BY <2>3, <2>4, <2>5, <2>6, <2>7
<1>3. CASE Ignores(q, n, s)
  BY <1>3 DEF Ignores
<1> QED
  BY <1>1, <1>2, <1>3, RemoveCases

(* Whoever waits knows his position.                                           *)
Knows(t, q) == \A i \in DOMAIN q : t[q[i]] = i

(* RemoveQueuedPlayer tells everybody whose position has changed.              *)
LEMMA ToldAfter ==
    ASSUME NEW q \in Seq(Sessions), NEW n \in Nat, NEW s \in Sessions, Distinct(q),
           Filled(Len(q), n), NEW t \in [Sessions -> Nat], Knows(t, q)
    PROVE  Knows(Tell(t, QueueLeft(q, n, s), TellFrom(q, n, s)), QueueLeft(q, n, s))
<1>1. PICK r, k : r = QueueLeft(q, n, s) /\ k = TellFrom(q, n, s)
  OBVIOUS
<1>2. r \in Seq(Sessions) /\ Distinct(r) /\ DOMAIN r = 1..Len(r) /\ Len(r) \in Nat
  BY <1>1, QueueLeftLemma
<1>3. k \in Int /\ \A i \in DOMAIN r : i < k => i \in DOMAIN q /\ r[i] = q[i]
  <2>1. CASE Leaves(q, n, s)
    <3> DEFINE p == Position(q, s)
    <3>1. p \in DOMAIN q
      BY <2>1 DEF Leaves, Listed, Position
    <3> HIDE DEF p
    <3>2. k = p /\ r = [i \in 1..(Len(q) - 1) |-> IF i < p THEN q[i] ELSE q[i + 1]]
      BY <1>1, <2>1 DEF Leaves, Erase, p
    <3> QED
      BY <3>1, <3>2
  <2>2. CASE LetsIn(q, n, s)
    BY <1>1, <1>2, <2>2 DEF LetsIn
  <2>3. CASE Ignores(q, n, s)
    BY <1>1, <2>3 DEF Ignores
  <2> QED
    BY <2>1, <2>2, <2>3, RemoveCases
<1>4. ASSUME NEW i \in DOMAIN r PROVE Tell(t, r, k)[r[i]] = i
  <2>1. r[i] \in Sessions /\ i \in Int
    BY <1>2
  <2>2. Position(r, r[i]) = i
    BY <1>2 DEF Position, Distinct
  <2>3. CASE i >= k
    BY <2>1, <2>2, <2>3 DEF Tell
  <2>4. CASE i < k
    <3>1. t[r[i]] = i
      BY <1>3, <2>4 DEF Knows
    <3>2. ~ \E j \in DOMAIN r : j >= k /\ r[j] = r[i]
      BY <1>2, <1>3, <2>1, <2>4 DEF Distinct
    <3> QED
      BY <2>1, <3>1, <3>2 DEF Tell
  <2> QED
    BY <1>3, <2>1, <2>3, <2>4
<1> QED
  BY <1>1, <1>4 DEF Knows

(* Telling nobody changes nothing.                                             *)
LEMMA TellNobody ==
    ASSUME NEW t \in [Sessions -> Nat], NEW q \in Seq(Sessions)
    PROVE  Tell(t, q, Len(q) + 1) = t
<1>1. \A i \in DOMAIN q : ~(i >= Len(q) + 1)
  OBVIOUS
<1> QED
  BY <1>1 DEF Tell

(* The removal of the sessions in gone, at most one, leaves the queue q, lets  *)
(* in the sessions of first and makes the positions told those of t.           *)
Removed(gone, q, first, t) ==
    \/ gone = {} /\ q = m_QueuedPlayer /\ first = {} /\ t = told
    \/ \E x \in Live : /\ gone = {x} /\ q = QueueLeft(m_QueuedPlayer, SessionCount, x)
                      /\ first = Accepted(m_QueuedPlayer, SessionCount, x)
                      /\ t = Tell(told, q, TellFrom(m_QueuedPlayer, SessionCount, x))

(* After the removal the queue, the positions told and those let in are sound. *)
LEMMA RemovedFacts ==
    ASSUME Inv, Knows(told, m_QueuedPlayer), NEW gone, NEW q, NEW first, NEW t, Removed(gone, q, first, t)
    PROVE  /\ q \in Seq(Sessions) /\ Distinct(q) /\ gone \subseteq Live /\ t \in [Sessions -> Nat]
           /\ Knows(t, q) /\ first \subseteq Live \ gone
           /\ \A i \in DOMAIN q : Listed(m_QueuedPlayer, q[i]) /\ q[i] \notin gone /\ q[i] \notin first
           /\ \A x : Listed(m_QueuedPlayer, x) => x \in gone \/ x \in first \/ Listed(q, x)
           /\ \A j \in DOMAIN m_QueuedPlayer : m_QueuedPlayer[j] \in first => j = 1
<1>1. PICK p \in Seq(Sessions), n \in Nat, u \in [Sessions -> Nat] :
         p = m_QueuedPlayer /\ n = SessionCount /\ u = told
  BY CountLemma DEF Inv, TypeOK
<1>2. Distinct(p) /\ Filled(Len(p), n) /\ Knows(u, p) /\ \A i \in DOMAIN p : p[i] \in Live
  BY <1>1 DEF Inv, NoDanglingSession, Distinct, NoIdleSlot, Filled
<1>3. CASE gone = {} /\ q = p /\ first = {} /\ t = u
  BY <1>1, <1>2, <1>3 DEF Listed
<1>4. CASE \E x \in Live : /\ gone = {x} /\ q = QueueLeft(p, n, x)
                          /\ first = Accepted(p, n, x) /\ t = Tell(u, q, TellFrom(p, n, x))
  <2>1. PICK x \in Live : /\ gone = {x} /\ q = QueueLeft(p, n, x)
                         /\ first = Accepted(p, n, x) /\ t = Tell(u, q, TellFrom(p, n, x))
    BY <1>4
  <2>2. x \in Sessions
    BY DEF Live
  <2>3. /\ q \in Seq(Sessions) /\ Distinct(q) /\ ~Listed(q, x)
        /\ \A i \in DOMAIN q : Listed(p, q[i])
    BY <1>2, <2>1, <2>2, QueueLeftLemma
  <2>4. /\ \A y : Listed(p, y) => y = x \/ y \in first \/ Listed(q, y)
        /\ \A y \in first : Listed(p, y) /\ ~Listed(q, y) /\ y # x
        /\ \A j \in DOMAIN p : p[j] \in first => j = 1
    BY <1>2, <2>1, <2>2, WhoStays
  <2>5. Knows(t, q)
    BY <1>2, <2>1, <2>2, ToldAfter
  <2>6. t \in [Sessions -> Nat]
    <3>1. TellFrom(p, n, x) \in Int
      BY DEF TellFrom, Listed, Position
    <3> QED
      BY <2>1, <2>3, <3>1, TellType
  <2>7. first \subseteq Live \ gone
    BY <1>2, <2>1, <2>4 DEF Listed
  <2>8. \A i \in DOMAIN q : Listed(p, q[i]) /\ q[i] \notin gone /\ q[i] \notin first
    BY <2>1, <2>3, <2>4 DEF Listed
  <2> QED
    BY <1>1, <2>1, <2>3, <2>4, <2>5, <2>6, <2>7, <2>8
<1> QED
  BY <1>1, <1>3, <1>4 DEF Removed

(* What UpdateSessions does with a session that leaves.                        *)
LEMMA DropEffect ==
    ASSUME Inv, NEW a \in Accounts, DropSession(a)
    PROVE  \E s \in Sessions :
             /\ s = m_sessions[a] /\ s \in Live /\ s \notin open
             /\ m_QueuedPlayer' = QueueLeft(m_QueuedPlayer, SessionCount, s)
             /\ admitted' = (admitted \cup Accepted(m_QueuedPlayer, SessionCount, s)) \ {s}
             /\ initPending' = (initPending \cup Accepted(m_QueuedPlayer, SessionCount, s)) \ {s}
             /\ told' = Freed(Tell(told, m_QueuedPlayer', TellFrom(m_QueuedPlayer, SessionCount, s)), {s}, 0)
             /\ m_inQueue' = [m_inQueue EXCEPT ![s] = FALSE]
             /\ bypass' = bypass \ {s} /\ open' = open
             /\ Live' = Live \ {s}
<1>1. PICK s \in Sessions, n \in Nat, q \in Seq(Sessions) :
         s = m_sessions[a] /\ n = SessionCount /\ q = m_QueuedPlayer
  <2>1. m_sessions[a] \in Sessions
    BY DEF DropSession, Updating, Inv, PassInv, InMap, TypeOK
  <2>2. SessionCount \in Nat /\ m_QueuedPlayer \in Seq(Sessions)
    BY CountLemma DEF Inv, TypeOK
  <2> QED
    BY <2>1, <2>2
<1>2. Distinct(q) /\ Filled(Len(q), n)
  BY <1>1 DEF Inv, NoDanglingSession, Distinct, NoIdleSlot, Filled
<1>3. PICK q1 \in Seq(Sessions) : q1 = QueueLeft(q, n, s)
  BY <1>2, QueueLeftLemma
<1>4. /\ QueueLeft(q1, n, s) = q1 /\ Accepted(q1, n, s) = {} /\ TellFrom(q1, n, s) = Len(q1) + 1
  BY <1>2, <1>3, SecondCall DEF Ignores
<1>5. PICK t \in [Sessions -> Nat] : t = Tell(told, q1, TellFrom(q, n, s))
  <2>1. TellFrom(q, n, s) \in Int
    BY <1>1 DEF TellFrom, Listed, Position
  <2>2. told \in [Sessions -> Nat]
    BY DEF Inv, TypeOK
  <2>3. Tell(told, q1, TellFrom(q, n, s)) \in [Sessions -> Nat]
    BY <2>1, <2>2, TellType
  <2> QED
    BY <2>3
<1>6. /\ m_QueuedPlayer' = QueueLeft(q1, n, s)
      /\ told' = Freed(Tell(t, QueueLeft(q1, n, s), TellFrom(q1, n, s)), {s}, 0)
      /\ admitted' = (admitted \cup (Accepted(q, n, s) \cup Accepted(q1, n, s))) \ {s}
      /\ initPending' = (initPending \cup (Accepted(q, n, s) \cup Accepted(q1, n, s))) \ {s}
      /\ m_inQueue' = [m_inQueue EXCEPT ![s] = FALSE]
      /\ bypass' = bypass \ {s} /\ open' = open /\ s \notin open
  BY <1>1, <1>3, <1>5 DEF DropSession
<1>7. Tell(t, q1, Len(q1) + 1) = t
  BY TellNobody
<1>8. s \in Live /\ Live' = Live \ {s}
  <2>1. account[s] = a /\ a \in Accounts
    BY <1>1, NoSessionAssumption DEF Inv, NoDanglingSession
  <2>2. /\ account' = [account EXCEPT ![s] = NoAccount]
        /\ m_sessions' = [m_sessions EXCEPT ![a] = NoSession]
    BY <1>1 DEF DropSession
  <2>3. /\ account \in [Sessions -> Accounts \cup {NoAccount}]
        /\ m_sessions \in [Accounts -> Sessions \cup {NoSession}]
    BY DEF Inv, TypeOK
  <2>4. s \in Live
    BY <1>1, <2>1, NoAccountAssumption DEF Live
  <2>5. s \notin Live'
    BY <2>2, <2>3 DEF Live
  <2>6. ASSUME NEW x \in Sessions, x # s PROVE x \in Live' <=> x \in Live
    <3>1. account'[x] = account[x]
      BY <2>2, <2>3, <2>6
    <3>2. CASE account[x] = NoAccount
      BY <3>1, <3>2 DEF Live
    <3>3. CASE account[x] = a
      BY <1>1, <2>2, <2>3, <2>6, <3>1, <3>3, NoSessionAssumption DEF Live
    <3>4. CASE account[x] \in Accounts /\ account[x] # a
      BY <2>2, <2>3, <3>1, <3>4 DEF Live
    <3> QED
      BY <2>3, <3>2, <3>3, <3>4
  <2> QED
    BY <2>4, <2>5, <2>6 DEF Live
<1>9. /\ m_QueuedPlayer' = q1
      /\ told' = Freed(t, {s}, 0)
      /\ admitted' = (admitted \cup Accepted(q, n, s)) \ {s}
      /\ initPending' = (initPending \cup Accepted(q, n, s)) \ {s}
  BY <1>4, <1>6, <1>7
<1>10. m_QueuedPlayer' = QueueLeft(m_QueuedPlayer, SessionCount, s)
  BY <1>1, <1>3, <1>9
<1>11. /\ admitted' = (admitted \cup Accepted(m_QueuedPlayer, SessionCount, s)) \ {s}
       /\ initPending' = (initPending \cup Accepted(m_QueuedPlayer, SessionCount, s)) \ {s}
  BY <1>1, <1>9
<1>12. told' = Freed(Tell(told, m_QueuedPlayer', TellFrom(m_QueuedPlayer, SessionCount, s)), {s}, 0)
  BY <1>1, <1>5, <1>9
<1>13. s = m_sessions[a] /\ s \in Live /\ s \notin open
  BY <1>1, <1>6, <1>8
<1>14. /\ m_inQueue' = [m_inQueue EXCEPT ![s] = FALSE]
       /\ bypass' = bypass \ {s} /\ open' = open /\ Live' = Live \ {s}
  BY <1>6, <1>8
<1> HIDE DEF Live
<1> QED
  BY <1>10, <1>11, <1>12, <1>13, <1>14, Zenon

(* What AddSession_ does: s takes the place of the old session, if any, and    *)
(* waits, passes the full server or finds room.                                *)
Joins(s, waits, gone, q, first, t) ==
    /\ Removed(gone, q, first, t)
    /\ s \notin Live /\ Live' = (Live \ gone) \cup {s} /\ open' = open \ gone
    /\ admitted' = ((admitted \cup first) \ gone) \cup (IF waits THEN {} ELSE {s})
    /\ initPending' = ((initPending \cup first) \ gone) \cup (IF waits THEN {} ELSE {s})
    /\ m_inQueue' = [Freed(m_inQueue, gone, FALSE) EXCEPT ![s] = waits]
    /\ m_QueuedPlayer' = (IF waits THEN Append(q, s) ELSE q)
    /\ told' = (IF waits THEN [Freed(t, gone, 0) EXCEPT ![s] = Len(q) + 1] ELSE Freed(t, gone, 0))
    /\ bypass \ gone \subseteq bypass'
    /\ waits \/ s \in bypass' \/ (Limit > 0 => SessionCount' <= Limit)

(* Every AcceptSession is such a joining.                                      *)
LEMMA AcceptEffect ==
    ASSUME Inv, AcceptSession
    PROVE  \E s \in Sessions, waits \in BOOLEAN : \E gone, q, first, t : Joins(s, waits, gone, q, first, t)
<1> DEFINE s == Head(addSessQueue)
           a == account[s]
           old == m_sessions[a]
           gone == {old} \ {NoSession}
           n == SessionCount
           isOld == old # NoSession
           found == isOld /\ Listed(m_QueuedPlayer, old)
           q == IF isOld THEN QueueLeft(m_QueuedPlayer, n, old) ELSE m_QueuedPlayer
           first == IF isOld THEN Accepted(m_QueuedPlayer, n, old) ELSE {}
           from == IF isOld THEN TellFrom(m_QueuedPlayer, n, old) ELSE Len(m_QueuedPlayer) + 1
           size == IF isOld THEN n ELSE n + 1
           full == Full(IF found THEN size ELSE size - 1)
           waits == full /\ ~MayPass(a)
           t == Tell(told, q, from)
<1>1. s \in Sessions /\ a \in Accounts /\ old \in Sessions \cup {NoSession}
  BY DEF AcceptSession, TypeOK, NoDanglingSession, Inv
<1>2. n \in Nat /\ IsFiniteSet(InMap)
  BY CountLemma DEF Inv
<1>3. m_QueuedPlayer \in Seq(Sessions) /\ told \in [Sessions -> Nat]
  BY DEF Inv, TypeOK
<1>4. /\ m_sessions' = [m_sessions EXCEPT ![a] = s]
      /\ account' = Freed(account, gone, NoAccount)
      /\ open' = open \ gone
      /\ bypass' = (bypass \ gone) \cup (IF full /\ ~waits THEN {s} ELSE {})
      /\ admitted' = ((admitted \cup first) \ gone) \cup (IF waits THEN {} ELSE {s})
      /\ initPending' = ((initPending \cup first) \ gone) \cup (IF waits THEN {} ELSE {s})
      /\ m_inQueue' = [Freed(m_inQueue, gone, FALSE) EXCEPT ![s] = waits]
      /\ m_QueuedPlayer' = (IF waits THEN Append(q, s) ELSE q)
      /\ told' = (IF waits THEN [Freed(t, gone, 0) EXCEPT ![s] = Len(q) + 1] ELSE Freed(t, gone, 0))
      /\ addSessQueue # <<>>
  BY DEF AcceptSession
<1>5. SessionCount' = size
  <2>1. InMap' = InMap \cup {a} /\ (isOld <=> a \in InMap)
    BY <1>1, <1>4, NoSessionAssumption DEF InMap, TypeOK, Inv
  <2>2. Cardinality(InMap \cup {a}) = IF a \in InMap THEN n ELSE n + 1
    BY <1>2, FS_AddElement DEF SessionCount
  <2> QED
    BY <2>1, <2>2 DEF SessionCount
<1>6. s \notin Live
  BY <1>4 DEF NoDanglingSession, TypeOK, Inv
<1>7. isOld => old \in Live /\ account[old] = a
  <2> SUFFICES ASSUME isOld PROVE old \in Live /\ account[old] = a
    OBVIOUS
  <2> HIDE DEF a
  <2>1. account[m_sessions[a]] = a /\ m_sessions[a] \in Sessions
    BY <1>1 DEF NoDanglingSession, Inv
  <2> QED
    BY <1>1, <2>1, NoAccountAssumption DEF Live
<1>8. Removed(gone, q, first, t)
  <2>1. CASE isOld
    BY <1>7, <2>1 DEF Removed
  <2>2. CASE ~isOld
    <3>1. t = told
      BY <1>3, <2>2, TellNobody
    <3> QED
      BY <2>2, <3>1 DEF Removed
  <2> QED
    BY <2>1, <2>2
<1>9. waits \in BOOLEAN /\ full \in BOOLEAN
  BY DEF Full
<1>10. waits \/ s \in bypass' \/ (Limit > 0 => SessionCount' <= Limit)
  <2>1. CASE full
    BY <1>4, <2>1
  <2>2. CASE ~full
    BY <1>2, <1>5, <2>2, NumbersAssumption DEF Full
  <2> QED
    BY <2>1, <2>2
<1> HIDE DEF s, q, first, from, t, full, waits, n
<1>11. Live' = (Live \ gone) \cup {s}
  <2>1. /\ account \in [Sessions -> Accounts \cup {NoAccount}]
        /\ m_sessions \in [Accounts -> Sessions \cup {NoSession}]
    BY DEF Inv, TypeOK
  <2>2. s \notin gone
    BY <1>6, <1>7
  <2>3. s \in Live'
    BY <1>1, <1>4, <2>1, <2>2, NoAccountAssumption DEF Live, Freed
  <2>4. \A x \in gone : x \notin Live'
    BY <1>1, <1>4, <2>1 DEF Live, Freed
  <2>5. ASSUME NEW x \in Sessions, x # s, x \notin gone PROVE x \in Live' <=> x \in Live
    <3>1. account'[x] = account[x]
      BY <1>4, <2>5 DEF Freed
    <3>2. CASE account[x] = NoAccount
      BY <3>1, <3>2 DEF Live
    <3>3. CASE account[x] = a
      BY <1>1, <1>4, <2>1, <2>5, <3>1, <3>3, NoSessionAssumption DEF Live
    <3>4. CASE account[x] \in Accounts /\ account[x] # a
      BY <1>1, <1>4, <2>1, <3>1, <3>4 DEF Live
    <3> QED
      BY <2>1, <3>2, <3>3, <3>4
  <2> QED
    BY <1>1, <2>3, <2>4, <2>5 DEF Live
<1>12. bypass \ gone \subseteq bypass'
  BY <1>4
<1> HIDE DEF gone
<1> QED
  <2>1. Joins(s, waits, gone, q, first, t)
    BY <1>4, <1>6, <1>8, <1>10, <1>11, <1>12 DEF Joins
  <2> QED
    BY <1>1, <1>9, <2>1
-----------------------------------------------------------------------------
(* A connected session marked as queued is in the queue or being initialised.  *)
Marked(s) == m_inQueue[s] => Listed(m_QueuedPlayer, s) \/ s \in initPending

(* PositionTold in two parts, which the steps disturb separately.              *)
LEMMA PositionParts == PositionTold <=> Knows(told, m_QueuedPlayer) /\ \A s \in Live \cap open : Marked(s)
  BY DEF PositionTold, Knows, Marked

(* AddSession_ keeps admitted sessions out of the queue, and the others        *)
(* informed.                                                                   *)
LEMMA AcceptKeepsWaiting ==
    ASSUME Inv, AdmittedInv, PositionTold, AcceptSession
    PROVE  AdmittedInv' /\ PositionTold'
<1>0. PICK s \in Sessions, waits \in BOOLEAN : \E gone, q, first, t : Joins(s, waits, gone, q, first, t)
  BY AcceptEffect
<1>1. PICK gone, q, first, t : Joins(s, waits, gone, q, first, t)
  BY <1>0
<1>2. /\ Removed(gone, q, first, t)
      /\ s \notin Live /\ Live' = (Live \ gone) \cup {s} /\ open' = open \ gone
      /\ admitted' = ((admitted \cup first) \ gone) \cup (IF waits THEN {} ELSE {s})
      /\ initPending' = ((initPending \cup first) \ gone) \cup (IF waits THEN {} ELSE {s})
      /\ m_inQueue' = [Freed(m_inQueue, gone, FALSE) EXCEPT ![s] = waits]
      /\ m_QueuedPlayer' = (IF waits THEN Append(q, s) ELSE q)
      /\ told' = (IF waits THEN [Freed(t, gone, 0) EXCEPT ![s] = Len(q) + 1] ELSE Freed(t, gone, 0))
  BY <1>1 DEF Joins
<1>3. Knows(told, m_QueuedPlayer) /\ \A x \in Live \cap open : Marked(x)
  BY PositionParts
<1>4. /\ q \in Seq(Sessions) /\ Distinct(q) /\ gone \subseteq Live /\ t \in [Sessions -> Nat]
      /\ Knows(t, q) /\ first \subseteq Live \ gone
      /\ \A i \in DOMAIN q : Listed(m_QueuedPlayer, q[i]) /\ q[i] \notin gone /\ q[i] \notin first
      /\ \A x : Listed(m_QueuedPlayer, x) => x \in gone \/ x \in first \/ Listed(q, x)
  BY <1>2, <1>3, RemovedFacts
<1>5. /\ initPending \subseteq admitted /\ admitted \subseteq Live
      /\ \A x : Listed(m_QueuedPlayer, x) => x \in Live /\ x \notin admitted
  BY DEF AdmittedInv, Inv, NoDanglingSession, Listed
<1>6. \A i \in DOMAIN q : q[i] \in Sessions /\ q[i] # s /\ q[i] \notin admitted'
  BY <1>2, <1>4, <1>5
<1>7. DOMAIN q = 1..Len(q) /\ Len(q) \in Nat
  BY <1>4
<1>8. Freed(t, gone, 0) \in [Sessions -> Nat] /\ \A i \in DOMAIN q : Freed(t, gone, 0)[q[i]] = i
  BY <1>4, <1>6, <1>7 DEF Freed, Knows
<1>9. /\ \A i \in DOMAIN m_QueuedPlayer' : m_QueuedPlayer'[i] \notin admitted'
      /\ \A i \in DOMAIN m_QueuedPlayer' : told'[m_QueuedPlayer'[i]] = i
      /\ \A x : Listed(q, x) => Listed(m_QueuedPlayer', x)
      /\ waits => Listed(m_QueuedPlayer', s)
  <2>1. CASE ~waits
    BY <1>2, <1>6, <1>8, <2>1
  <2>2. CASE waits
    <3>1. PICK r : r = Append(q, s)
      OBVIOUS
    <3>2. /\ DOMAIN r = 1..(Len(q) + 1) /\ r[Len(q) + 1] = s
          /\ \A i \in DOMAIN q : i \in DOMAIN r /\ r[i] = q[i]
      BY <1>4, <1>7, <3>1
    <3>3. m_QueuedPlayer' = r /\ s \notin admitted'
      BY <1>2, <1>4, <1>5, <2>2, <3>1
    <3>4. told'[s] = Len(q) + 1 /\ \A i \in DOMAIN q : told'[q[i]] = i
      BY <1>2, <1>6, <1>8, <2>2
    <3>5. \A i \in DOMAIN r : i \in DOMAIN q \/ i = Len(q) + 1
      BY <1>7, <3>2
    <3>6. Len(q) + 1 \in DOMAIN r
      BY <1>7, <3>2
    <3> QED
      BY <1>6, <3>2, <3>3, <3>4, <3>5, <3>6 DEF Listed
  <2> QED
    BY <2>1, <2>2
<1>10. AdmittedInv'
  <2>1. initPending' \subseteq admitted' /\ admitted' \subseteq Live'
    BY <1>2, <1>4, <1>5
  <2> QED
    BY <1>9, <2>1 DEF AdmittedInv
<1>11. ASSUME NEW x \in Live' \cap open', m_inQueue'[x]
       PROVE  Listed(m_QueuedPlayer', x) \/ x \in initPending'
  <2>1. x \in Sessions /\ m_inQueue \in [Sessions -> BOOLEAN]
    BY DEF Inv, TypeOK, Live
  <2>2. CASE x = s
    <3>1. CASE waits
      BY <1>9, <2>2, <3>1
    <3>2. CASE ~waits
      BY <1>2, <2>2, <3>2
    <3> QED
      BY <3>1, <3>2
  <2>3. CASE x # s
    <3>1. x \in Live /\ x \in open /\ x \notin gone
      BY <1>2, <2>3
    <3>2. m_inQueue'[x] = m_inQueue[x]
      BY <1>2, <2>1, <2>3, <3>1 DEF Freed
    <3>3. Listed(m_QueuedPlayer, x) \/ x \in initPending
      BY <1>3, <1>11, <3>1, <3>2 DEF Marked
    <3> QED
      BY <1>2, <1>4, <1>9, <3>1, <3>3
  <2> QED
    BY <2>2, <2>3
<1>12. PositionTold'
  BY <1>9, <1>11 DEF PositionTold
<1> QED
  BY <1>10, <1>12

(* So does the removal of a session that leaves.                               *)
LEMMA DropKeepsWaiting ==
    ASSUME Inv, AdmittedInv, PositionTold, NEW a \in Accounts, DropSession(a)
    PROVE  AdmittedInv' /\ PositionTold'
<1>1. PICK s \in Sessions :
             /\ s \in Live /\ s \notin open
             /\ m_QueuedPlayer' = QueueLeft(m_QueuedPlayer, SessionCount, s)
             /\ admitted' = (admitted \cup Accepted(m_QueuedPlayer, SessionCount, s)) \ {s}
             /\ initPending' = (initPending \cup Accepted(m_QueuedPlayer, SessionCount, s)) \ {s}
             /\ told' = Freed(Tell(told, m_QueuedPlayer', TellFrom(m_QueuedPlayer, SessionCount, s)), {s}, 0)
             /\ m_inQueue' = [m_inQueue EXCEPT ![s] = FALSE]
             /\ open' = open /\ Live' = Live \ {s}
  BY DropEffect
<1>2. PICK q, first, t : /\ q = m_QueuedPlayer' /\ first = Accepted(m_QueuedPlayer, SessionCount, s)
                         /\ t = Tell(told, q, TellFrom(m_QueuedPlayer, SessionCount, s))
  OBVIOUS
<1>3. Removed({s}, q, first, t)
  BY <1>1, <1>2 DEF Removed
<1>4. Knows(told, m_QueuedPlayer) /\ \A x \in Live \cap open : Marked(x)
  BY PositionParts
<1>5. /\ q \in Seq(Sessions) /\ t \in [Sessions -> Nat]
      /\ Knows(t, q) /\ first \subseteq Live \ {s}
      /\ \A i \in DOMAIN q : Listed(m_QueuedPlayer, q[i]) /\ q[i] \notin {s} /\ q[i] \notin first
      /\ \A x : Listed(m_QueuedPlayer, x) => x \in {s} \/ x \in first \/ Listed(q, x)
  BY <1>3, <1>4, RemovedFacts
<1>6. /\ initPending \subseteq admitted /\ admitted \subseteq Live
      /\ \A x : Listed(m_QueuedPlayer, x) => x \in Live /\ x \notin admitted
  BY DEF AdmittedInv, Inv, NoDanglingSession, Listed
<1>7. /\ admitted' = (admitted \cup first) \ {s} /\ initPending' = (initPending \cup first) \ {s}
      /\ told' = Freed(t, {s}, 0)
  BY <1>1, <1>2
<1>8. \A i \in DOMAIN q : q[i] \in Sessions /\ q[i] \notin admitted' /\ told'[q[i]] = i
  BY <1>5, <1>6, <1>7 DEF Freed, Knows
<1>9. AdmittedInv'
  BY <1>1, <1>2, <1>5, <1>6, <1>7, <1>8 DEF AdmittedInv
<1>10. ASSUME NEW x \in Live' \cap open', m_inQueue'[x]
       PROVE  Listed(m_QueuedPlayer', x) \/ x \in initPending'
  <2>1. x \in Live /\ x \in open /\ x # s /\ x \in Sessions
    BY <1>1 DEF Live
  <2>2. m_inQueue'[x] = m_inQueue[x]
    BY <1>1, <2>1 DEF Inv, TypeOK
  <2>3. Listed(m_QueuedPlayer, x) \/ x \in initPending
    BY <1>4, <1>10, <2>1, <2>2 DEF Marked
  <2> QED
    BY <1>2, <1>5, <1>7, <2>1, <2>3
<1>11. PositionTold'
  BY <1>2, <1>8, <1>10 DEF PositionTold
<1> QED
  BY <1>9, <1>11

(* Steps that leave queue and map alone: they may take away sockets, or give   *)
(* one to a session that is not in the map yet.                                *)
LEMMA StillWaiting ==
    ASSUME AdmittedInv, PositionTold, UNCHANGED <<m_QueuedPlayer, m_inQueue, initPending, told, admitted>>,
           Live' = Live, Live' \cap open' \subseteq open
    PROVE  AdmittedInv' /\ PositionTold'
  BY DEF AdmittedInv, PositionTold

(* Every step keeps who waits and who was admitted apart.                      *)
LEMMA NextKeepsWaiting ==
    ASSUME Inv, Inv', AdmittedInv, PositionTold, [Next]_vars
    PROVE  AdmittedInv' /\ PositionTold'
<1>1. ASSUME UNCHANGED <<account, m_sessions>>
      PROVE  Live' = Live
  BY <1>1 DEF Live
<1>2. ASSUME NEW s \in Sessions, NEW a \in Accounts, AddSession(s, a)
      PROVE  AdmittedInv' /\ PositionTold'
  <2>1. /\ account[s] = NoAccount /\ account' = [account EXCEPT ![s] = a] /\ UNCHANGED m_sessions
        /\ open' = open \cup {s} /\ UNCHANGED queueVars
        /\ addSessQueue' = Append(addSessQueue, s)
    BY <1>2 DEF AddSession
  <2>2. s \notin Live /\ s \notin Live'
    <3>1. s \notin Live
      BY <2>1 DEF Live
    <3>2. Len(addSessQueue) + 1 \in DOMAIN addSessQueue' /\ addSessQueue'[Len(addSessQueue) + 1] = s
      BY <2>1 DEF Inv, TypeOK
    <3>3. s \notin Live'
      BY <3>2 DEF Inv, NoDanglingSession
    <3> QED
      BY <3>1, <3>3
  <2>3. \A x \in Sessions : x # s => (x \in Live' <=> x \in Live)
    BY <2>1 DEF Live, Inv, TypeOK
  <2>4. Live' = Live
    BY <2>2, <2>3 DEF Live
  <2> QED
    BY <2>1, <2>2, <2>4, StillWaiting DEF queueVars
<1>3. CASE \E s \in Sessions : SocketLost(s)
  BY <1>1, <1>3, StillWaiting DEF SocketLost, queueVars
<1>4. CASE BeginUpdateSessions \/ EndAdd \/ EndUpdateSessions \/ AdvanceTime
  BY <1>1, <1>4, StillWaiting
     DEF BeginUpdateSessions, EndAdd, EndUpdateSessions, AdvanceTime, sessVars, queueVars
<1>5. CASE RefuseSession
  <2>1. PICK s \in Sessions : s = Head(addSessQueue)
    BY <1>5 DEF RefuseSession, Inv, TypeOK
  <2>2. /\ account' = [account EXCEPT ![s] = NoAccount] /\ UNCHANGED m_sessions
        /\ open' = open \ {s} /\ UNCHANGED queueVars
    BY <1>5, <2>1 DEF RefuseSession
  <2>3. s \notin Live /\ s \notin Live'
    BY <1>5, <2>1, <2>2 DEF RefuseSession, Inv, NoDanglingSession, TypeOK, Live
  <2>4. \A x \in Sessions : x # s => (x \in Live' <=> x \in Live)
    BY <2>2 DEF Live, Inv, TypeOK
  <2>5. Live' = Live
    BY <2>3, <2>4 DEF Live
  <2> QED
    BY <2>2, <2>5, StillWaiting DEF queueVars
<1>6. CASE AcceptSession
  BY <1>6, AcceptKeepsWaiting
<1>7. CASE \E a \in Accounts : KickPlayer(a)
  BY <1>1, <1>7, StillWaiting DEF KickPlayer, queueVars
<1>8. CASE KickAll
  <2>1. /\ m_QueuedPlayer' = <<>> /\ open' = open \ {m_sessions[a] : a \in InMap}
        /\ UNCHANGED <<account, m_sessions, m_inQueue, initPending, told, admitted>>
    BY <1>8 DEF KickAll
  <2>2. Live' = Live /\ DOMAIN m_QueuedPlayer' = {}
    BY <1>1, <2>1
  <2>3. Live' \cap open' = {}
    <3> SUFFICES ASSUME NEW x \in Live PROVE x \notin open'
      BY <2>2
    <3>1. account[x] \in Accounts /\ m_sessions[account[x]] = x /\ x \in Sessions
      BY DEF Live, Inv, TypeOK
    <3>2. account[x] \in InMap
      BY <3>1, NoSessionAssumption DEF InMap
    <3> QED
      BY <2>1, <3>1, <3>2
  <2> QED
    BY <2>1, <2>2, <2>3 DEF AdmittedInv, PositionTold
<1>9. ASSUME NEW a \in Accounts, UpdateSession(a)
      PROVE  AdmittedInv' /\ PositionTold'
  <2>1. CASE InitializeSessionCallback(a)
    <3>1. PICK s \in Sessions : s = m_sessions[a]
      BY <2>1 DEF InitializeSessionCallback, Inv, TypeOK
    <3>2. /\ s \in initPending /\ initPending' = initPending \ {s}
          /\ m_inQueue' = [m_inQueue EXCEPT ![s] = FALSE] /\ told' = [told EXCEPT ![s] = 0]
          /\ UNCHANGED <<account, m_sessions, open, m_QueuedPlayer, admitted>>
      BY <2>1, <3>1 DEF InitializeSessionCallback, sessVars
    <3>3. Live' = Live
      BY <1>1, <3>2
    <3>4. \A i \in DOMAIN m_QueuedPlayer : m_QueuedPlayer[i] # s /\ m_QueuedPlayer[i] \in Sessions
      BY <3>2 DEF AdmittedInv, Inv, TypeOK
    <3>5. AdmittedInv'
      BY <3>2, <3>3 DEF AdmittedInv
    <3>6. \A i \in DOMAIN m_QueuedPlayer : told'[m_QueuedPlayer[i]] = i
      BY <3>2, <3>4 DEF PositionTold, Inv, TypeOK
    <3>7. ASSUME NEW x \in Live \cap open, m_inQueue'[x]
          PROVE  Listed(m_QueuedPlayer, x) \/ x \in initPending'
      <4>1. x # s /\ m_inQueue[x] /\ x \in Sessions
        BY <3>2, <3>7 DEF Inv, TypeOK, Live
      <4> QED
        BY <3>2, <4>1 DEF PositionTold
    <3> QED
      BY <3>2, <3>3, <3>5, <3>6, <3>7 DEF PositionTold
  <2>2. CASE HandlePlayerLoginOpcode(a) \/ LogoutPlayer(a) \/ KeepSession(a)
    BY <1>1, <2>2, StillWaiting DEF HandlePlayerLoginOpcode, LogoutPlayer, KeepSession, sessVars, queueVars
  <2>3. CASE HandlePlayerLogin(a)
    BY <1>1, <2>3, StillWaiting DEF HandlePlayerLogin, queueVars
  <2>4. CASE DropSession(a)
    BY <2>4, DropKeepsWaiting
  <2> QED
    BY <1>9, <2>1, <2>2, <2>3, <2>4 DEF UpdateSession
<1>10. CASE UNCHANGED vars
  BY <1>1, <1>10, StillWaiting DEF vars
<1> QED
  BY <1>2, <1>3, <1>4, <1>5, <1>6, <1>7, <1>8, <1>9, <1>10 DEF Next

(* Admitted sessions stay out of the queue and waiting ones informed.          *)
THEOREM Waiting == Spec => [](AdmittedInv /\ PositionTold)
<1>1. Init => AdmittedInv /\ PositionTold
  BY DEF Init, AdmittedInv, PositionTold, Live
<1>2. Inv /\ Inv' /\ AdmittedInv /\ PositionTold /\ [Next]_vars => AdmittedInv' /\ PositionTold'
  BY NextKeepsWaiting
<1> QED
  BY <1>1, <1>2, Inductive, PTL DEF Spec

(* The position a waiting client was told last is its position, through every  *)
(* removal from and admission out of the queue, and a connected session marked *)
(* as queued is in the queue or about to be initialised.                       *)
THEOREM PositionsTold == Spec => []PositionTold
  BY Waiting, PTL

(* One step admits at most the first of the queue.                             *)
LEMMA OnlyFirstAdmitted ==
    ASSUME Inv, AdmittedInv, PositionTold, [Next]_vars,
           NEW j \in DOMAIN m_QueuedPlayer, m_QueuedPlayer[j] \in admitted'
    PROVE  j = 1
<1>1. Knows(told, m_QueuedPlayer)
  BY PositionParts
<1>2. m_QueuedPlayer[j] \notin admitted /\ m_QueuedPlayer[j] \in Live
  BY DEF AdmittedInv, Inv, NoDanglingSession
<1>3. CASE AcceptSession
  <2>1. PICK s \in Sessions, waits \in BOOLEAN : \E gone, q, first, t : Joins(s, waits, gone, q, first, t)
    BY <1>3, AcceptEffect
  <2>2. PICK gone, q, first, t : Joins(s, waits, gone, q, first, t)
    BY <2>1
  <2>3. Removed(gone, q, first, t)
    BY <2>2 DEF Joins
  <2>4. m_QueuedPlayer[j] \in first
    BY <1>2, <2>2 DEF Joins
  <2> QED
    BY <1>1, <2>3, <2>4, RemovedFacts
<1>4. ASSUME NEW a \in Accounts, DropSession(a) PROVE j = 1
  <2>1. PICK s \in Sessions :
          /\ s \in Live /\ m_QueuedPlayer' = QueueLeft(m_QueuedPlayer, SessionCount, s)
          /\ admitted' = (admitted \cup Accepted(m_QueuedPlayer, SessionCount, s)) \ {s}
    BY <1>4, DropEffect
  <2>2. PICK q, first, t : /\ q = m_QueuedPlayer' /\ first = Accepted(m_QueuedPlayer, SessionCount, s)
                           /\ t = Tell(told, q, TellFrom(m_QueuedPlayer, SessionCount, s))
    OBVIOUS
  <2>3. Removed({s}, q, first, t)
    BY <2>1, <2>2 DEF Removed
  <2>4. m_QueuedPlayer[j] \in first
    BY <1>2, <2>1, <2>2
  <2> QED
    BY <1>1, <2>3, <2>4, RemovedFacts
<1>5. CASE UNCHANGED admitted
  BY <1>2, <1>5
<1>6. CASE \E s \in Sessions : (\E a \in Accounts : AddSession(s, a)) \/ SocketLost(s)
  BY <1>5, <1>6 DEF AddSession, SocketLost, queueVars
<1>7. CASE BeginUpdateSessions \/ EndAdd \/ EndUpdateSessions \/ AdvanceTime \/ RefuseSession \/ KickAll
  BY <1>5, <1>7 DEF BeginUpdateSessions, EndAdd, EndUpdateSessions, AdvanceTime, RefuseSession, KickAll,
                    queueVars
<1>8. ASSUME NEW a \in Accounts, KickPlayer(a) \/ UpdateSession(a), ~DropSession(a) PROVE j = 1
  BY <1>5, <1>8 DEF KickPlayer, UpdateSession, InitializeSessionCallback, HandlePlayerLoginOpcode,
                    HandlePlayerLogin, LogoutPlayer, KeepSession, queueVars
<1>9. CASE UNCHANGED vars
  BY <1>5, <1>9 DEF vars
<1> QED
  BY <1>3, <1>4, <1>6, <1>7, <1>8, <1>9 DEF Next

(* A session that is initialised from the queue was not overtaken: it was the  *)
(* first of the queue, in every step of every behaviour.                       *)
THEOREM NobodyOvertakes == Spec => NoOvertaking
<1>1. Inv /\ AdmittedInv /\ PositionTold /\ [Next]_vars =>
        \A i, j \in DOMAIN m_QueuedPlayer :
          i < j /\ m_QueuedPlayer[j] \in admitted' => ~Listed(m_QueuedPlayer', m_QueuedPlayer[i])
  <2> SUFFICES ASSUME Inv, AdmittedInv, PositionTold, [Next]_vars,
                      NEW i \in DOMAIN m_QueuedPlayer, NEW j \in DOMAIN m_QueuedPlayer,
                      i < j, m_QueuedPlayer[j] \in admitted'
               PROVE  FALSE
    OBVIOUS
  <2>1. j = 1
    BY OnlyFirstAdmitted
  <2>2. i \in 1..Len(m_QueuedPlayer)
    BY DEF Inv, TypeOK
  <2> QED
    BY <2>1, <2>2
<1> QED
  BY <1>1, Inductive, Waiting, PTL DEF Spec, NoOvertaking
-----------------------------------------------------------------------------
(* There are as many live sessions as accounts in the map, now and after a     *)
(* step.                                                                       *)
LEMMA LiveCount ==
    ASSUME Inv
    PROVE  IsFiniteSet(Live) /\ Cardinality(Live) = SessionCount
<1> DEFINE f == [a \in InMap |-> m_sessions[a]]
<1>1. \A a \in InMap : a \in Accounts /\ m_sessions[a] \in Live /\ account[m_sessions[a]] = a
  BY NoAccountAssumption DEF InMap, Live, Inv, TypeOK, NoDanglingSession
<1>2. \A s \in Live : account[s] \in InMap /\ m_sessions[account[s]] = s
  BY NoSessionAssumption DEF InMap, Live, Inv, TypeOK
<1>3. f \in Bijection(InMap, Live)
  BY <1>1, <1>2 DEF Bijection, Injection, Surjection, IsInjective
<1>4. ExistsBijection(InMap, Live)
  BY <1>3 DEF ExistsBijection
<1> QED
  BY <1>4, CountLemma, FS_Bijection DEF SessionCount, Inv

(* The same of the state after a step.                                         *)
LEMMA LiveCountAfter ==
    ASSUME Inv'
    PROVE  IsFiniteSet(Live') /\ Cardinality(Live') = SessionCount' /\ SessionCount' \in Nat
<1> DEFINE f == [a \in InMap' |-> m_sessions'[a]]
<1>1. \A a \in InMap' : a \in Accounts /\ m_sessions'[a] \in Live' /\ account'[m_sessions'[a]] = a
  BY NoAccountAssumption DEF InMap, Live, Inv, TypeOK, NoDanglingSession
<1>2. \A s \in Live' : account'[s] \in InMap' /\ m_sessions'[account'[s]] = s
  BY NoSessionAssumption DEF InMap, Live, Inv, TypeOK
<1>3. f \in Bijection(InMap', Live')
  BY <1>1, <1>2 DEF Bijection, Injection, Surjection, IsInjective
<1>4. ExistsBijection(InMap', Live')
  BY <1>3 DEF ExistsBijection
<1>5. IsFiniteSet(InMap')
  <2>1. InMap' \subseteq Accounts
    BY DEF InMap
  <2> QED
    BY <2>1, AccountsAssumption, FS_Subset
<1> QED
  BY <1>4, <1>5, FS_Bijection, FS_CardinalityType DEF SessionCount

(* The sessions in a queue.                                                    *)
Members(q) == {q[i] : i \in 1..Len(q)}

(* A queue that holds each session once has as many sessions as places.        *)
LEMMA MembersCount ==
    ASSUME NEW q \in Seq(Sessions), Distinct(q)
    PROVE  IsFiniteSet(Members(q)) /\ Cardinality(Members(q)) = Len(q)
<1>1. Len(q) \in Nat /\ DOMAIN q = 1..Len(q)
  OBVIOUS
<1> DEFINE f == [i \in 1..Len(q) |-> q[i]]
<1>2. f \in Bijection(1..Len(q), Members(q))
  BY <1>1 DEF Bijection, Injection, Surjection, IsInjective, Members, Distinct
<1>3. ExistsBijection(1..Len(q), Members(q))
  BY <1>2 DEF ExistsBijection
<1> QED
  BY <1>1, <1>3, FS_NatBijection, FS_CountingElements

(* The live sessions outside the queue are those that count against the limit. *)
LEMMA OutsideCount ==
    ASSUME Inv
    PROVE  /\ IsFiniteSet(Live \ Members(m_QueuedPlayer))
           /\ Cardinality(Live \ Members(m_QueuedPlayer)) = SessionCount - Len(m_QueuedPlayer)
<1>1. IsFiniteSet(Live) /\ Cardinality(Live) = SessionCount /\ SessionCount \in Nat
  BY LiveCount, CountLemma DEF Inv
<1>2. PICK q \in Seq(Sessions) : q = m_QueuedPlayer
  BY DEF Inv, TypeOK
<1>3. Distinct(q) /\ Members(q) \subseteq Live
  BY <1>2 DEF Inv, NoDanglingSession, Distinct, Members
<1>4. IsFiniteSet(Members(q)) /\ Cardinality(Members(q)) = Len(q)
  BY <1>3, MembersCount
<1>5. /\ IsFiniteSet(Live \ Members(q))
      /\ Cardinality(Live \ Members(q)) = Cardinality(Live) - Cardinality(Live \cap Members(q))
  BY <1>1, FS_Difference
<1>6. Live \cap Members(q) = Members(q)
  BY <1>3
<1> QED
  BY <1>1, <1>2, <1>4, <1>5, <1>6

(* Those admitted without passing a full server stay within the limit when the *)
(* sessions in gone are removed: whoever is let in takes the place of a        *)
(* session that was outside the queue.                                         *)
LEMMA LimitAfterRemoval ==
    ASSUME Inv, AdmittedInv, LimitRespected, Limit > 0,
           NEW gone, NEW q, NEW first, NEW t, Removed(gone, q, first, t),
           NEW A, A \subseteq ((admitted \cup first) \ gone) \ bypass
    PROVE  IsFiniteSet(A) /\ Cardinality(A) <= Limit
<1>1. Limit \in Nat /\ IsFiniteSet(Live) /\ admitted \subseteq Live
  BY NumbersAssumption, LiveCount DEF AdmittedInv
<1>2. CASE first = {}
  <2>1. A \subseteq (Live \cap admitted) \ bypass
    BY <1>1, <1>2
  <2>2. IsFiniteSet((Live \cap admitted) \ bypass)
    BY <1>1, FS_Subset
  <2>3. Cardinality((Live \cap admitted) \ bypass) <= Limit
    BY DEF LimitRespected
  <2>4. IsFiniteSet(A) /\ Cardinality(A) <= Cardinality((Live \cap admitted) \ bypass)
    BY <2>1, <2>2, FS_Subset
  <2> QED
    BY <1>1, <2>2, <2>3, <2>4, FS_CardinalityType
<1>3. CASE first # {}
  <2>1. PICK p \in Seq(Sessions), n \in Nat : p = m_QueuedPlayer /\ n = SessionCount
    BY CountLemma DEF Inv, TypeOK
  <2>2. PICK x \in Live : gone = {x} /\ first = Accepted(p, n, x)
    BY <1>3, <2>1 DEF Removed
  <2>3. Distinct(p) /\ Filled(Len(p), n) /\ x \in Sessions
    BY <2>1 DEF Inv, NoDanglingSession, Distinct, NoIdleSlot, Filled, Live
  <2>4. LetsIn(p, n, x)
    BY <1>3, <2>2, <2>3, RemoveCases DEF Leaves, Ignores
  <2> DEFINE O == Live \ Members(p)
  <2>5. IsFiniteSet(O) /\ Cardinality(O) = Limit
    BY <2>1, <2>4, OutsideCount DEF LetsIn
  <2>6. x \in O
    BY <2>4 DEF LetsIn, Listed, Members
  <2>7. admitted \subseteq O
    BY <1>1, <2>1 DEF AdmittedInv, Members
  <2>8. first = {Head(p)}
    BY <2>2, <2>4 DEF LetsIn
  <2> HIDE DEF O
  <2>9. IsFiniteSet(O \ {x}) /\ Cardinality(O \ {x}) = Limit - 1
    BY <2>5, <2>6, FS_RemoveElement
  <2>10. /\ IsFiniteSet((O \ {x}) \cup {Head(p)})
         /\ Cardinality((O \ {x}) \cup {Head(p)}) \in {Limit - 1, Limit}
    <3>1. PICK R, h : R = O \ {x} /\ h = Head(p)
      OBVIOUS
    <3>2. IsFiniteSet(R) /\ Cardinality(R) = Limit - 1
      BY <2>9, <3>1
    <3>3. IsFiniteSet(R \cup {h}) /\ Cardinality(R \cup {h}) = IF h \in R THEN Cardinality(R) ELSE Cardinality(R) + 1
      BY <3>2, FS_AddElement
    <3>4. Cardinality(R \cup {h}) = Limit - 1 \/ Cardinality(R \cup {h}) = Limit
      BY <1>1, <3>2, <3>3
    <3> QED
      BY <3>1, <3>3, <3>4
  <2>11. A \subseteq (O \ {x}) \cup {Head(p)}
    BY <2>2, <2>7, <2>8
  <2>12. IsFiniteSet(A) /\ Cardinality(A) <= Cardinality((O \ {x}) \cup {Head(p)})
    BY <2>10, <2>11, FS_Subset
  <2>13. Cardinality(A) \in Nat
    BY <2>12, FS_CardinalityType
  <2> QED
    BY <1>1, <2>10, <2>12, <2>13
<1> QED
  BY <1>2, <1>3

(* No step lets in one too many.                                               *)
LEMMA NextKeepsLimit ==
    ASSUME Inv, Inv', AdmittedInv, AdmittedInv', LimitRespected, [Next]_vars
    PROVE  LimitRespected'
<1> SUFFICES ASSUME Limit > 0 PROVE Cardinality((Live' \cap admitted') \ bypass') <= Limit
  BY DEF LimitRespected
<1> DEFINE A == (Live' \cap admitted') \ bypass'
<1>1. CASE AcceptSession
  <2>1. PICK s \in Sessions, waits \in BOOLEAN : \E gone, q, first, t : Joins(s, waits, gone, q, first, t)
    BY <1>1, AcceptEffect
  <2>2. PICK gone, q, first, t : Joins(s, waits, gone, q, first, t)
    BY <2>1
  <2>3. CASE waits \/ s \in bypass'
    <3>1. A \subseteq ((admitted \cup first) \ gone) \ bypass
      BY <2>2, <2>3 DEF Joins
    <3>2. Removed(gone, q, first, t)
      BY <2>2 DEF Joins
    <3> QED
      BY <3>1, <3>2, LimitAfterRemoval
  <2>4. CASE SessionCount' <= Limit
    <3>1. IsFiniteSet(Live') /\ Cardinality(Live') = SessionCount' /\ SessionCount' \in Nat
      BY LiveCountAfter
    <3>2. A \subseteq Live'
      OBVIOUS
    <3>3. IsFiniteSet(A) /\ Cardinality(A) <= Cardinality(Live')
      BY <3>1, <3>2, FS_Subset
    <3>4. Cardinality(A) \in Nat
      BY <3>3, FS_CardinalityType
    <3> QED
      BY <2>4, <3>1, <3>3, <3>4, NumbersAssumption
  <2> QED
    BY <2>2, <2>3, <2>4 DEF Joins
<1>2. ASSUME NEW a \in Accounts, DropSession(a) PROVE Cardinality(A) <= Limit
  <2>1. PICK s \in Sessions :
          /\ s \in Live /\ m_QueuedPlayer' = QueueLeft(m_QueuedPlayer, SessionCount, s)
          /\ admitted' = (admitted \cup Accepted(m_QueuedPlayer, SessionCount, s)) \ {s}
          /\ bypass' = bypass \ {s}
    BY <1>2, DropEffect
  <2>2. PICK q, first, t : /\ q = m_QueuedPlayer' /\ first = Accepted(m_QueuedPlayer, SessionCount, s)
                           /\ t = Tell(told, q, TellFrom(m_QueuedPlayer, SessionCount, s))
    OBVIOUS
  <2>3. Removed({s}, q, first, t)
    BY <2>1, <2>2 DEF Removed
  <2>4. A \subseteq ((admitted \cup first) \ {s}) \ bypass
    BY <2>1, <2>2
  <2> QED
    BY <2>3, <2>4, LimitAfterRemoval
<1>3. CASE UNCHANGED <<admitted, bypass>>
  <2>1. A \subseteq ((admitted \cup {}) \ {}) \ bypass
    BY <1>3
  <2>2. Removed({}, m_QueuedPlayer, {}, told)
    BY DEF Removed
  <2> QED
    BY <2>1, <2>2, LimitAfterRemoval
<1>4. CASE \E s \in Sessions : (\E a \in Accounts : AddSession(s, a)) \/ SocketLost(s)
  BY <1>3, <1>4 DEF AddSession, SocketLost, queueVars
<1>5. CASE BeginUpdateSessions \/ EndAdd \/ EndUpdateSessions \/ AdvanceTime \/ RefuseSession \/ KickAll
  BY <1>3, <1>5 DEF BeginUpdateSessions, EndAdd, EndUpdateSessions, AdvanceTime, RefuseSession, KickAll,
                    queueVars
<1>6. ASSUME NEW a \in Accounts, KickPlayer(a) \/ UpdateSession(a), ~DropSession(a)
      PROVE  Cardinality(A) <= Limit
  BY <1>3, <1>6 DEF KickPlayer, UpdateSession, InitializeSessionCallback, HandlePlayerLoginOpcode,
                    HandlePlayerLogin, LogoutPlayer, KeepSession, queueVars
<1>7. CASE UNCHANGED vars
  BY <1>3, <1>7 DEF vars
<1> QED
  BY <1>1, <1>2, <1>4, <1>5, <1>6, <1>7 DEF Next

(* The double call of RemoveQueuedPlayer never lets in one too many: the       *)
(* sessions admitted without permission or tolerance never exceed the limit,   *)
(* for any number of accounts and any limit.                                   *)
THEOREM LimitKept == Spec => []LimitRespected
<1>1. Init => LimitRespected
  <2> SUFFICES ASSUME Init PROVE Limit > 0 => Cardinality((Live \cap admitted) \ bypass) <= Limit
    BY DEF LimitRespected
  <2>1. (Live \cap admitted) \ bypass = {}
    BY DEF Init
  <2> QED
    BY <2>1, FS_EmptySet, NumbersAssumption
<1>2. Inv /\ Inv' /\ AdmittedInv /\ AdmittedInv' /\ LimitRespected /\ [Next]_vars => LimitRespected'
  BY NextKeepsLimit
<1> QED
  BY <1>1, <1>2, Inductive, Waiting, PTL DEF Spec
=============================================================================
