-------------------------- MODULE TransactionsProofs --------------------------
(* Proofs about Transactions, for any workers, transactions and lengths.       *)
EXTENDS Transactions, TLAPS

Inv == TypeOK /\ PlaceInv /\ SessionInv

(* The initial state satisfies the invariant.                                  *)
LEMMA InitInv == Init => Inv
  <1> SUFFICES ASSUME Init PROVE Inv
    OBVIOUS
  <1>1. TypeOK
    <2>1. tasks \in Seq(Tasks) /\ losses \in 0..MaxLosses
      BY MaxLossesAssumption DEF Init
    <2>2. QED
      BY <2>1 DEF Init, TypeOK
  <1>2. PlaceInv
    BY NoneAssumption DEF Init, PlaceInv
  <1>3. SessionInv
    BY DEF Init, SessionInv
  <1>4. QED
    BY <1>1, <1>2, <1>3 DEF Inv

(* Every step keeps the types.                                                 *)
LEMMA TypeStep == Inv /\ [Next]_vars => TypeOK'
  <1> SUFFICES ASSUME Inv, [Next]_vars PROVE TypeOK'
    OBVIOUS
  <1> USE LengthAssumption, NoneAssumption DEF Inv
  <1>1. CASE Close
    BY <1>1 DEF Close, TypeOK, worker, server
  <1>2. ASSUME NEW t \in Tasks, CommitTransaction(t) PROVE TypeOK'
    BY <1>2 DEF CommitTransaction, TypeOK, worker, server
  <1>3. ASSUME NEW c \in Connections, TakeTask(c) PROVE TypeOK'
    BY <1>3 DEF TypeOK, PlaceInv, Statements, TakeTask, StartAttempt, server
  <1>4. ASSUME NEW c \in Connections, Execute(c) PROVE TypeOK'
    <2>1. /\ pc' \in [Connections -> {"idle", "begin", "run", "rollback", "commit", "return", "lock"}]
          /\ index' \in [Connections -> Nat]
      BY <1>4 DEF Execute, Advance, TypeOK
    <2>2. \A d \in Connections : pc'[d] = "run" => <<trans'[d], index'[d]>> \in Statements
      BY <1>4, <2>1 DEF Execute, Advance, Querying, TypeOK, PlaceInv, Statements
    <2>3. /\ session' \in [Connections -> {"auto", "open", "lost", "null"}]
          /\ work' \in [Connections -> SUBSET Statements]
      BY <1>4 DEF Execute, ServerExecutes, Statement, TypeOK
    <2>4. applied' \in [Statements -> Nat]
      BY <1>4 DEF Execute, ServerExecutes, AppliedAfter, Commit, Statement, TypeOK
    <2>5. QED
      BY <1>4, <2>1, <2>2, <2>3, <2>4 DEF TypeOK, Execute, pool
  <1>5. ASSUME NEW c \in Connections, FailStatement(c) PROVE TypeOK'
    <2>1. error' \in [Connections -> {"none", "deadlock", "other"}]
      BY <1>5 DEF FailStatement, TypeOK
    <2>2. /\ work' \in [Connections -> SUBSET Statements]
          /\ session' \in [Connections -> {"auto", "open", "lost", "null"}]
      BY <1>5 DEF FailStatement, TypeOK
    <2>3. QED
      BY <1>5, <2>1, <2>2 DEF TypeOK, FailStatement, pool
  <1>6. ASSUME NEW c \in Connections, BrokenStatement(c) PROVE TypeOK'
    BY <1>6 DEF TypeOK, PlaceInv, Statements, BrokenStatement, Terminate, Querying, Live, worker
  <1>7. ASSUME NEW c \in Connections, Reconnect(c) PROVE TypeOK'
    BY <1>7 DEF TypeOK, PlaceInv, Statements, Reconnect, worker, pool
  <1>8. ASSUME NEW c \in Connections, ReconnectFails(c) PROVE TypeOK'
    BY <1>8 DEF TypeOK, PlaceInv, Statements, ReconnectFails, Terminate, worker
  <1>9. ASSUME NEW c \in Connections, ReconnectRefused(c) PROVE TypeOK'
    BY <1>9 DEF TypeOK, PlaceInv, Statements, ReconnectRefused, worker, pool
  <1>10. ASSUME NEW c \in Connections, ExecuteWithoutHandle(c) PROVE TypeOK'
    <2>1. CASE pc[c] = "run"
      <3>1. error' \in [Connections -> {"none", "deadlock", "other"}]
        BY <1>10, <2>1 DEF ExecuteWithoutHandle, TypeOK
      <3>2. QED
        BY <1>10, <2>1, <3>1 DEF TypeOK, ExecuteWithoutHandle, pool, server
    <2>2. CASE pc[c] # "run"
      <3>1. pc' \in [Connections -> {"idle", "begin", "run", "rollback", "commit", "return", "lock"}]
        BY <1>10, <2>2 DEF TypeOK, ExecuteWithoutHandle, Advance
      <3>2. index' \in [Connections -> Nat] /\ trans' = trans
        <4>1. index' = [index EXCEPT ![c] = IF pc[c] \in {"begin", "run"} THEN @ + 1 ELSE @]
          BY <1>10, <2>2 DEF ExecuteWithoutHandle, Advance
        <4>2. QED
          BY <1>10, <4>1 DEF TypeOK, ExecuteWithoutHandle
      <3>3. ASSUME NEW d \in Connections, pc'[d] = "run"
            PROVE  <<trans'[d], index'[d]>> \in Statements
        <4>1. CASE d # c
          BY <1>10, <2>2, <3>2, <3>3, <4>1 DEF TypeOK, ExecuteWithoutHandle, Advance
        <4>2. CASE d = c
          <5>1. pc[c] = "begin" /\ index'[c] = index[c] + 1
            BY <1>10, <2>2, <3>3, <4>2 DEF TypeOK, ExecuteWithoutHandle, Querying, Advance
          <5>2. index[c] = 0 /\ Length[trans[c]] > 0 /\ trans[c] \in Tasks
            BY <5>1 DEF TypeOK, PlaceInv
          <5>3. 1 \in 1..Length[trans[c]]
            BY <5>2
          <5>4. QED
            BY <3>2, <4>2, <5>1, <5>2, <5>3 DEF Statements
        <4>3. QED
          BY <4>1, <4>2
      <3>4. QED
        BY <1>10, <2>2, <3>1, <3>2, <3>3 DEF TypeOK, ExecuteWithoutHandle, pool, server
    <2>3. QED
      BY <2>1, <2>2
  <1>11. ASSUME NEW c \in Connections, Succeed(c) PROVE TypeOK'
    BY <1>11 DEF TypeOK, PlaceInv, Statements, Succeed, Returned, Finish, pool, server
  <1>12. ASSUME NEW c \in Connections, Fail(c) PROVE TypeOK'
    BY <1>12 DEF TypeOK, PlaceInv, Statements, Fail, Returned, Finish, pool, server
  <1>13. ASSUME NEW c \in Connections, WaitForLock(c) PROVE TypeOK'
    BY <1>13 DEF TypeOK, PlaceInv, Statements, WaitForLock, Returned, pool, server
  <1>14. ASSUME NEW c \in Connections, Lock(c) PROVE TypeOK'
    BY <1>14 DEF TypeOK, PlaceInv, Statements, Lock, StartAttempt, pool, server
  <1>15. ASSUME NEW c \in Connections, Retry(c) PROVE TypeOK'
    BY <1>15 DEF TypeOK, PlaceInv, Statements, Retry, Returned, StartAttempt, pool, server
  <1>16. ASSUME NEW c \in Connections, GiveUp(c) PROVE TypeOK'
    BY <1>16 DEF TypeOK, PlaceInv, Statements, GiveUp, Returned, Finish, pool, server
  <1>17. ASSUME NEW c \in Connections, LoseConnection(c) PROVE TypeOK'
    <2>1. AppliedAfter(c) \in [Statements -> Nat]
      BY <1>17 DEF AppliedAfter, Commit, Statement, TypeOK
    <2>2. applied' \in [Statements -> Nat] /\ losses' \in 0..MaxLosses
      BY <1>17, <2>1, MaxLossesAssumption DEF LoseConnection, TypeOK
    <2>3. QED
      BY <1>17, <2>2 DEF TypeOK, LoseConnection, worker, pool
  <1>18. CASE UNCHANGED vars
    BY <1>18 DEF TypeOK, vars, worker, pool, server
  <1>19. QED
    BY <1>1, <1>2, <1>3, <1>4, <1>5, <1>6, <1>7, <1>8, <1>9, <1>10, <1>11, <1>12, <1>13, <1>14, <1>15, <1>16, <1>17, <1>18
    DEF Next, WorkerStep

(* A transaction stays in one place.                                           *)
LEMMA PlaceStep == Inv /\ [Next]_vars => PlaceInv'
  <1> SUFFICES ASSUME Inv, [Next]_vars PROVE PlaceInv'
    OBVIOUS
  <1> USE LengthAssumption, NoneAssumption DEF Inv
  <1>1. CASE Close
    BY <1>1 DEF Close, TypeOK, PlaceInv, SessionInv, worker, server
  <1>2. ASSUME NEW t \in Tasks, CommitTransaction(t) PROVE PlaceInv'
    BY <1>2 DEF CommitTransaction, Held, TypeOK, PlaceInv, SessionInv, worker, server
  <1>3. ASSUME NEW c \in Connections, TakeTask(c) PROVE PlaceInv'
    <2>1. /\ Head(tasks) = tasks[1] /\ 1 \in DOMAIN tasks /\ tasks[1] \in Tasks
          /\ \A i \in DOMAIN tasks' : /\ tasks'[i] = tasks[i + 1] /\ i + 1 \in DOMAIN tasks
                                      /\ i \in Nat \ {0}
      BY <1>3 DEF TakeTask, TypeOK
    <2>2. trans' = [trans EXCEPT ![c] = tasks[1]] /\ answer' = answer
      BY <1>3, <2>1 DEF TakeTask
    <2>3. \A i, j \in DOMAIN tasks' : tasks'[i] = tasks'[j] => i = j
      BY <2>1 DEF PlaceInv
    <2>4. \A i \in DOMAIN tasks' : /\ answer'[tasks'[i]] = "none"
                                   /\ \A d \in Connections : trans'[d] # tasks'[i]
      BY <2>1, <2>2 DEF PlaceInv, TypeOK
    <2>5. \A d, e \in Connections : trans'[d] = trans'[e] /\ trans'[d] # None => d = e
      BY <2>1, <2>2 DEF PlaceInv, TypeOK
    <2>6. \A d \in Connections :
             /\ trans'[d] # None => answer'[trans'[d]] = "none"
             /\ pc'[d] = "idle" <=> trans'[d] = None
             /\ pc'[d] = "begin" => index'[d] = 0 /\ Length[trans'[d]] > 0
      BY <1>3, <2>1, <2>2 DEF PlaceInv, TypeOK, TakeTask, StartAttempt
    <2>7. QED
      BY <2>3, <2>4, <2>5, <2>6 DEF PlaceInv
  <1>4. ASSUME NEW c \in Connections, Execute(c) PROVE PlaceInv'
    BY <1>4
    DEF TypeOK, PlaceInv, SessionInv, Execute, ServerExecutes, AppliedAfter, Commit, Statement,
        Querying, Live, Advance, pool
  <1>5. ASSUME NEW c \in Connections, FailStatement(c) PROVE PlaceInv'
    BY <1>5 DEF TypeOK, PlaceInv, SessionInv, FailStatement, Querying, Live, pool
  <1>6. ASSUME NEW c \in Connections, BrokenStatement(c) PROVE PlaceInv'
    BY <1>6 DEF TypeOK, PlaceInv, SessionInv, BrokenStatement, Terminate, Querying, Live, worker
  <1>7. ASSUME NEW c \in Connections, Reconnect(c) PROVE PlaceInv'
    BY <1>7 DEF TypeOK, PlaceInv, SessionInv, Reconnect, worker, pool
  <1>8. ASSUME NEW c \in Connections, ReconnectFails(c) PROVE PlaceInv'
    BY <1>8 DEF TypeOK, PlaceInv, SessionInv, ReconnectFails, Terminate, worker
  <1>9. ASSUME NEW c \in Connections, ReconnectRefused(c) PROVE PlaceInv'
    BY <1>9 DEF TypeOK, PlaceInv, SessionInv, ReconnectRefused, worker, pool
  <1>10. ASSUME NEW c \in Connections, ExecuteWithoutHandle(c) PROVE PlaceInv'
    BY <1>10 DEF TypeOK, PlaceInv, SessionInv, ExecuteWithoutHandle, Querying, Advance, pool, server
  <1>11. ASSUME NEW c \in Connections, Succeed(c) PROVE PlaceInv'
    BY <1>11 DEF TypeOK, PlaceInv, SessionInv, Succeed, Returned, Finish, pool, server
  <1>12. ASSUME NEW c \in Connections, Fail(c) PROVE PlaceInv'
    BY <1>12 DEF TypeOK, PlaceInv, SessionInv, Fail, Returned, Finish, pool, server
  <1>13. ASSUME NEW c \in Connections, WaitForLock(c) PROVE PlaceInv'
    BY <1>13 DEF TypeOK, PlaceInv, SessionInv, WaitForLock, Returned, pool, server
  <1>14. ASSUME NEW c \in Connections, Lock(c) PROVE PlaceInv'
    BY <1>14 DEF TypeOK, PlaceInv, SessionInv, Lock, StartAttempt, pool, server
  <1>15. ASSUME NEW c \in Connections, Retry(c) PROVE PlaceInv'
    BY <1>15 DEF TypeOK, PlaceInv, SessionInv, Retry, Returned, StartAttempt, pool, server
  <1>16. ASSUME NEW c \in Connections, GiveUp(c) PROVE PlaceInv'
    BY <1>16 DEF TypeOK, PlaceInv, SessionInv, GiveUp, Returned, Finish, pool, server
  <1>17. ASSUME NEW c \in Connections, LoseConnection(c) PROVE PlaceInv'
    BY <1>17
    DEF TypeOK, PlaceInv, SessionInv, LoseConnection, AppliedAfter, Commit, Statement,
        Querying, Live, worker, pool
  <1>18. CASE UNCHANGED vars
    BY <1>18 DEF PlaceInv, SessionInv, vars, worker, pool, server
  <1>19. QED
    BY <1>1, <1>2, <1>3, <1>4, <1>5, <1>6, <1>7, <1>8, <1>9, <1>10, <1>11, <1>12, <1>13, <1>14, <1>15, <1>16, <1>17, <1>18
    DEF Next, WorkerStep

(* Sessions keep to the transaction in progress.                               *)
LEMMA SessionStep == Inv /\ [Next]_vars => SessionInv'
  <1> SUFFICES ASSUME Inv, [Next]_vars PROVE SessionInv'
    OBVIOUS
  <1> USE LengthAssumption, NoneAssumption DEF Inv
  <1>1. CASE Close
    BY <1>1 DEF Close, TypeOK, PlaceInv, SessionInv, worker, server
  <1>2. ASSUME NEW t \in Tasks, CommitTransaction(t) PROVE SessionInv'
    BY <1>2 DEF CommitTransaction, Held, TypeOK, PlaceInv, SessionInv, worker, server
  <1>3. ASSUME NEW c \in Connections, TakeTask(c) PROVE SessionInv'
    BY <1>3 DEF TypeOK, PlaceInv, SessionInv, TakeTask, StartAttempt, server
  <1>4. ASSUME NEW c \in Connections, Execute(c) PROVE SessionInv'
    BY <1>4
    DEF TypeOK, PlaceInv, SessionInv, Execute, ServerExecutes, AppliedAfter, Commit, Statement,
        Querying, Live, Advance, pool
  <1>5. ASSUME NEW c \in Connections, FailStatement(c) PROVE SessionInv'
    BY <1>5 DEF TypeOK, PlaceInv, SessionInv, FailStatement, Querying, Live, pool
  <1>6. ASSUME NEW c \in Connections, BrokenStatement(c) PROVE SessionInv'
    BY <1>6 DEF TypeOK, PlaceInv, SessionInv, BrokenStatement, Terminate, Querying, Live, worker
  <1>7. ASSUME NEW c \in Connections, Reconnect(c) PROVE SessionInv'
    BY <1>7 DEF TypeOK, PlaceInv, SessionInv, Reconnect, worker, pool
  <1>8. ASSUME NEW c \in Connections, ReconnectFails(c) PROVE SessionInv'
    BY <1>8 DEF TypeOK, PlaceInv, SessionInv, ReconnectFails, Terminate, worker
  <1>9. ASSUME NEW c \in Connections, ReconnectRefused(c) PROVE SessionInv'
    BY <1>9 DEF TypeOK, PlaceInv, SessionInv, ReconnectRefused, worker, pool
  <1>10. ASSUME NEW c \in Connections, ExecuteWithoutHandle(c) PROVE SessionInv'
    <2>1. session' = session /\ work' = work /\ trans' = trans /\ session[c] = "null"
      BY <1>10 DEF ExecuteWithoutHandle, server
    <2>2. \A d \in Connections \ {c} : pc'[d] = pc[d]
      BY <1>10 DEF ExecuteWithoutHandle, Advance, TypeOK
    <2>3. QED
      BY <2>1, <2>2 DEF SessionInv
  <1>11. ASSUME NEW c \in Connections, Succeed(c) PROVE SessionInv'
    BY <1>11 DEF TypeOK, PlaceInv, SessionInv, Succeed, Returned, Finish, pool, server
  <1>12. ASSUME NEW c \in Connections, Fail(c) PROVE SessionInv'
    BY <1>12 DEF TypeOK, PlaceInv, SessionInv, Fail, Returned, Finish, pool, server
  <1>13. ASSUME NEW c \in Connections, WaitForLock(c) PROVE SessionInv'
    BY <1>13 DEF TypeOK, PlaceInv, SessionInv, WaitForLock, Returned, pool, server
  <1>14. ASSUME NEW c \in Connections, Lock(c) PROVE SessionInv'
    BY <1>14 DEF TypeOK, PlaceInv, SessionInv, Lock, StartAttempt, pool, server
  <1>15. ASSUME NEW c \in Connections, Retry(c) PROVE SessionInv'
    BY <1>15 DEF TypeOK, PlaceInv, SessionInv, Retry, Returned, StartAttempt, pool, server
  <1>16. ASSUME NEW c \in Connections, GiveUp(c) PROVE SessionInv'
    BY <1>16 DEF TypeOK, PlaceInv, SessionInv, GiveUp, Returned, Finish, pool, server
  <1>17. ASSUME NEW c \in Connections, LoseConnection(c) PROVE SessionInv'
    BY <1>17
    DEF TypeOK, PlaceInv, SessionInv, LoseConnection, AppliedAfter, Commit, Statement,
        Querying, Live, worker, pool
  <1>18. CASE UNCHANGED vars
    BY <1>18 DEF PlaceInv, SessionInv, vars, worker, pool, server
  <1>19. QED
    BY <1>1, <1>2, <1>3, <1>4, <1>5, <1>6, <1>7, <1>8, <1>9, <1>10, <1>11, <1>12, <1>13, <1>14, <1>15, <1>16, <1>17, <1>18
    DEF Next, WorkerStep

(* The invariant is inductive.                                                 *)
LEMMA NextInv == Inv /\ [Next]_vars => Inv'
  BY TypeStep, PlaceStep, SessionStep DEF Inv

(* The invariant holds in every state.                                         *)
THEOREM Inductive == Spec => []Inv
  BY InitInv, NextInv, PTL DEF Spec

(* The state of the workers and of the server keeps its types.                 *)
THEOREM TypeCorrect == Spec => []TypeOK
  <1>1. Inv => TypeOK
    BY DEF Inv
  <1>2. QED
    BY Inductive, <1>1, PTL

(* Nothing takes effect after the answer, with every fault.                    *)
LEMMA EffectStep ==
    Inv /\ [Next]_vars =>
        \A t \in Tasks : answer[t] # "none" => \A s \in StatementsOf(t) : applied'[s] = applied[s]
  <1> SUFFICES ASSUME Inv, [Next]_vars, NEW t \in Tasks, answer[t] # "none",
                      NEW s \in StatementsOf(t)
               PROVE  applied'[s] = applied[s]
    OBVIOUS
  <1>1. s \in Statements /\ s[1] = t
    BY DEF StatementsOf, Statements
  <1>2. ASSUME NEW c \in Connections, Querying(c), Live(c) PROVE AppliedAfter(c)[s] = applied[s]
    <2>1. trans[c] # None /\ trans[c] # t
      BY <1>2 DEF Inv, PlaceInv, Querying
    <2>2. s \notin work[c] /\ s # Statement(c)
      BY <1>1, <2>1 DEF Inv, SessionInv, Statement
    <2>3. QED
      BY <1>1, <2>2 DEF AppliedAfter, Commit, Inv, TypeOK
  <1>3. ASSUME NEW c \in Connections, Execute(c) PROVE applied'[s] = applied[s]
    BY <1>2, <1>3 DEF Execute, ServerExecutes
  <1>4. ASSUME NEW c \in Connections, LoseConnection(c) PROVE applied'[s] = applied[s]
    BY <1>2, <1>4 DEF LoseConnection
  <1>5. ASSUME NEW c \in Connections, WorkerStep(c), ~Execute(c) PROVE applied' = applied
    BY <1>5
    DEF WorkerStep, TakeTask, FailStatement, BrokenStatement, Reconnect, ReconnectFails,
        ReconnectRefused, ExecuteWithoutHandle, Succeed, Fail, WaitForLock, Lock, Retry, GiveUp,
        Finish, server
  <1>6. CASE Close \/ (\E u \in Tasks : CommitTransaction(u)) \/ UNCHANGED vars
    BY <1>6 DEF Close, CommitTransaction, vars, server
  <1>7. QED
    BY <1>3, <1>4, <1>5, <1>6 DEF Next

(* FinalEffect: through every fault, what a transaction does to the database   *)
(* is done when TransactionTask::Execute returns.                              *)
THEOREM EffectsFinal == Spec => FinalEffect
  <1>1. Inv /\ [Next]_vars =>
           [\A t \in Tasks : answer[t] # "none" =>
               \A s \in StatementsOf(t) : applied'[s] = applied[s]]_vars
    BY EffectStep
  <1>2. QED
    BY Inductive, <1>1, PTL DEF Spec, FinalEffect
-----------------------------------------------------------------------------
(* No connection has been lost inside a transaction or was refused.            *)
CalmInv == ~disturbed /\ Inv /\ AttemptInv /\ EffectInv /\ AnswerInv

(* The initial state satisfies it.                                             *)
LEMMA InitCalm == Init => CalmInv
  <1> SUFFICES ASSUME Init PROVE CalmInv
    OBVIOUS
  <1>1. AttemptInv /\ AnswerInv
    BY DEF Init, AttemptInv, AnswerInv
  <1>2. EffectInv
    BY DEF Init, EffectInv, Done, Committed, StatementsOf, Statements
  <1>3. QED
    BY <1>1, <1>2, InitInv DEF CalmInv, Init

(* The attempt in progress keeps its work in its transaction.                  *)
LEMMA AttemptStep == CalmInv /\ [Next]_vars /\ ~disturbed' => AttemptInv'
  <1> SUFFICES ASSUME CalmInv, [Next]_vars, ~disturbed' PROVE AttemptInv'
    OBVIOUS
  <1> USE LengthAssumption, NoneAssumption DEF CalmInv, Inv
  <1>1. CASE Close
    BY <1>1 DEF Close, AttemptInv, worker, server
  <1>2. ASSUME NEW t \in Tasks, CommitTransaction(t) PROVE AttemptInv'
    BY <1>2 DEF CommitTransaction, AttemptInv, worker, server
  <1>3. ASSUME NEW c \in Connections, TakeTask(c) PROVE AttemptInv'
    BY <1>3
    DEF TypeOK, PlaceInv, SessionInv, AttemptInv, StatementsOf, TakeTask,
        StartAttempt, server
  <1>4. ASSUME NEW c \in Connections, Execute(c) PROVE AttemptInv'
    <2>1. /\ ~aborted /\ trans' = trans /\ error' = error /\ aborted' = aborted
          /\ trans[c] \in Tasks /\ session[c] \in {"auto", "open"}
          /\ \A d \in Connections \ {c} : /\ pc'[d] = pc[d] /\ index'[d] = index[d]
                                          /\ session'[d] = session[d] /\ work'[d] = work[d]
      BY <1>4 DEF Execute, ServerExecutes, Advance, Querying, Live, TypeOK, PlaceInv, pool
    <2>2. CASE pc[c] = "begin"
      <3>1. /\ pc'[c] = "run" /\ index'[c] = 1 /\ session'[c] = "open" /\ work'[c] = {}
        BY <1>4, <2>2 DEF Execute, ServerExecutes, Advance, TypeOK, PlaceInv
      <3>2. work'[c] = {trans'[c]} \X (1..(index'[c] - 1))
        BY <3>1
      <3>3. QED
        BY <2>1, <2>2, <3>1, <3>2 DEF AttemptInv, StatementsOf
    <2>3. CASE pc[c] = "run"
      <3>0. /\ session[c] = "open" /\ session'[c] = "open" /\ index'[c] = index[c] + 1
            /\ pc'[c] = IF index[c] < Length[trans[c]] THEN "run" ELSE "commit"
        BY <1>4, <2>3 DEF Execute, ServerExecutes, Advance, TypeOK, AttemptInv
      <3>1. work'[c] = work[c] \cup {<<trans[c], index[c]>>}
        BY <1>4, <2>3, <3>0 DEF Execute, ServerExecutes, Statement, TypeOK
      <3>2. index[c] \in 1..Length[trans[c]] /\ Length[trans[c]] \in Nat
        <4>1. PICK t \in Tasks : <<trans[c], index[c]>> \in {t} \X (1..Length[t])
          BY <2>3 DEF TypeOK, Statements
        <4>2. QED
          BY <2>1, <4>1
      <3>3. work[c] = {trans[c]} \X (1..(index[c] - 1))
        BY <2>1, <2>3 DEF AttemptInv
      <3>4. work'[c] = {trans[c]} \X (1..index[c])
        BY <3>1, <3>2, <3>3
      <3>5. index'[c] - 1 = index[c]
        BY <3>0, <3>2
      <3>6. pc'[c] = "commit" => index[c] = Length[trans[c]]
        BY <3>0, <3>2
      <3>7. QED
        BY <2>1, <2>3, <3>0, <3>4, <3>5, <3>6 DEF AttemptInv, StatementsOf
    <2>4. CASE pc[c] \in {"rollback", "commit"}
      <3>1. pc'[c] = "return" /\ session'[c] = "auto"
        BY <1>4, <2>4 DEF Execute, ServerExecutes, Advance, TypeOK
      <3>2. QED
        BY <2>1, <2>4, <3>1 DEF AttemptInv, StatementsOf
    <2>5. QED
      BY <1>4, <2>2, <2>3, <2>4 DEF Execute, Querying
  <1>5. ASSUME NEW c \in Connections, FailStatement(c) PROVE AttemptInv'
    BY <1>5
    DEF TypeOK, PlaceInv, SessionInv, AttemptInv, StatementsOf, FailStatement,
        Querying, Live, pool
  <1>6. ASSUME NEW c \in Connections, BrokenStatement(c) PROVE AttemptInv'
    BY <1>6
    DEF TypeOK, PlaceInv, SessionInv, AttemptInv, StatementsOf, BrokenStatement,
        Terminate, Querying, Live, worker
  <1>7. ASSUME NEW c \in Connections, Reconnect(c) PROVE AttemptInv'
    BY <1>7
    DEF TypeOK, PlaceInv, SessionInv, AttemptInv, StatementsOf, Reconnect, worker,
        pool
  <1>8. ASSUME NEW c \in Connections, ReconnectFails(c) PROVE AttemptInv'
    BY <1>8
    DEF TypeOK, PlaceInv, SessionInv, AttemptInv, StatementsOf, ReconnectFails,
        Terminate, worker
  <1>9. ASSUME NEW c \in Connections, Succeed(c) PROVE AttemptInv'
    BY <1>9
    DEF TypeOK, PlaceInv, SessionInv, AttemptInv, StatementsOf, Succeed, Returned,
        Finish, pool, server
  <1>10. ASSUME NEW c \in Connections, Fail(c) PROVE AttemptInv'
    BY <1>10
    DEF TypeOK, PlaceInv, SessionInv, AttemptInv, StatementsOf, Fail, Returned,
        Finish, pool, server
  <1>11. ASSUME NEW c \in Connections, WaitForLock(c) PROVE AttemptInv'
    BY <1>11
    DEF TypeOK, PlaceInv, SessionInv, AttemptInv, StatementsOf, WaitForLock,
        Returned, pool, server
  <1>12. ASSUME NEW c \in Connections, Lock(c) PROVE AttemptInv'
    BY <1>12
    DEF TypeOK, PlaceInv, SessionInv, AttemptInv, StatementsOf, Lock, StartAttempt,
        pool, server
  <1>13. ASSUME NEW c \in Connections, Retry(c) PROVE AttemptInv'
    BY <1>13
    DEF TypeOK, PlaceInv, SessionInv, AttemptInv, StatementsOf, Retry, Returned,
        StartAttempt, pool, server
  <1>14. ASSUME NEW c \in Connections, GiveUp(c) PROVE AttemptInv'
    BY <1>14
    DEF TypeOK, PlaceInv, SessionInv, AttemptInv, StatementsOf, GiveUp, Returned,
        Finish, pool, server
  <1>15. ASSUME NEW c \in Connections, LoseConnection(c) PROVE AttemptInv'
    <2>1. pc[c] = "begin"
      BY <1>15, Zenon DEF LoseConnection
    <2>2. QED
      BY <1>15, <2>1
      DEF TypeOK, AttemptInv, StatementsOf, LoseConnection, worker, pool
  <1>16. ASSUME NEW c \in Connections, ReconnectRefused(c) \/ ExecuteWithoutHandle(c) PROVE AttemptInv'
    BY <1>16 DEF AttemptInv, ReconnectRefused, ExecuteWithoutHandle
  <1>17. CASE UNCHANGED vars
    BY <1>17 DEF AttemptInv, vars, worker, pool, server
  <1>18. QED
    BY <1>1, <1>2, <1>3, <1>4, <1>5, <1>6, <1>7, <1>8, <1>9, <1>10, <1>11, <1>12, <1>13, <1>14, <1>15, <1>16, <1>17
    DEF Next, WorkerStep

(* The three kinds of steps: nothing is decided, the statements of one         *)
(* transaction take effect, one transaction is answered.                       *)
Quiet == answer' = answer /\ applied' = applied /\ \A t \in Tasks : Done(t)' <=> Done(t)
Applies(t) ==
    /\ answer' = answer /\ answer[t] = "none" /\ ~Done(t) /\ Done(t)' /\ Length[t] > 0
    /\ \A u \in Tasks \ {t} : Done(u)' <=> Done(u)
    /\ \A s \in Statements : applied'[s] = applied[s] + (IF s[1] = t THEN 1 ELSE 0)
Answers(t) ==
    /\ answer[t] = "none" /\ answer' = [answer EXCEPT ![t] = IF Done(t) THEN "true" ELSE "false"]
    /\ Done(t) => Length[t] > 0
    /\ applied' = applied /\ \A u \in Tasks : Done(u)' <=> Done(u)

(* Every step is of one of the three kinds.                                    *)
LEMMA StepKinds == CalmInv /\ [Next]_vars /\ ~disturbed' => Quiet \/ \E t \in Tasks : Applies(t) \/ Answers(t)
  <1> SUFFICES ASSUME CalmInv, [Next]_vars, ~disturbed' PROVE Quiet \/ \E t \in Tasks : Applies(t) \/ Answers(t)
    OBVIOUS
  <1> USE NoneAssumption DEF CalmInv, Inv
  <1>1. CASE Close \/ (\E u \in Tasks : CommitTransaction(u)) \/ UNCHANGED vars
    BY <1>1 DEF Close, CommitTransaction, Quiet, Done, Committed, vars, worker, pool, server
  <1>2. ASSUME NEW c \in Connections, WaitForLock(c) PROVE Quiet
    BY <1>2
    DEF TypeOK, PlaceInv, SessionInv, AttemptInv, Quiet, Done, Committed,
        WaitForLock, Returned, pool, server
  <1>3. ASSUME NEW c \in Connections, Reconnect(c) PROVE Quiet
    BY <1>3
    DEF TypeOK, PlaceInv, SessionInv, AttemptInv, Quiet, Done, Committed, Reconnect,
        worker, pool
  <1>4. ASSUME NEW c \in Connections, FailStatement(c) PROVE Quiet
    <2>1. /\ answer' = answer /\ applied' = applied /\ trans' = trans
          /\ pc[c] = "run" /\ pc' = [pc EXCEPT ![c] = "rollback"]
          /\ \A d \in Connections \ {c} : error'[d] = error[d]
      BY <1>4 DEF FailStatement, TypeOK
    <2>2. QED
      BY <2>1 DEF TypeOK, Quiet, Done, Committed
  <1>5. ASSUME NEW c \in Connections, BrokenStatement(c) PROVE Quiet
    BY <1>5
    DEF TypeOK, PlaceInv, SessionInv, AttemptInv, Quiet, Done, Committed,
        BrokenStatement, Terminate, Querying, Live, worker
  <1>6. ASSUME NEW c \in Connections, ReconnectFails(c) PROVE Quiet
    BY <1>6
    DEF TypeOK, PlaceInv, SessionInv, AttemptInv, Quiet, Done, Committed,
        ReconnectFails, Terminate, worker
  <1>7. ASSUME NEW c \in Connections, LoseConnection(c) PROVE Quiet
    <2>1. pc[c] = "begin"
      BY <1>7, Zenon DEF LoseConnection
    <2>2. work[c] = {}
      BY <2>1 DEF SessionInv
    <2>3. applied' = applied
      BY <1>7, <2>1, <2>2 DEF LoseConnection, AppliedAfter, Commit, TypeOK
    <2>4. QED
      BY <1>7, <2>3 DEF LoseConnection, Quiet, Done, Committed, worker
  <1>8. ASSUME NEW c \in Connections, TakeTask(c) PROVE Quiet
    BY <1>8
    DEF TypeOK, PlaceInv, SessionInv, AttemptInv, Quiet, Done, Committed, TakeTask,
        StartAttempt, server
  <1>9. ASSUME NEW c \in Connections, Lock(c) PROVE Quiet
    BY <1>9
    DEF TypeOK, PlaceInv, SessionInv, AttemptInv, Quiet, Done, Committed, Lock,
        StartAttempt, pool, server
  <1>10. ASSUME NEW c \in Connections, Retry(c) PROVE Quiet
    BY <1>10
    DEF TypeOK, PlaceInv, SessionInv, AttemptInv, Quiet, Done, Committed, Retry,
        Returned, StartAttempt, pool, server
  <1>11. ASSUME NEW c \in Connections, Execute(c), pc[c] # "commit" PROVE Quiet
    BY <1>11
    DEF TypeOK, PlaceInv, SessionInv, AttemptInv, Quiet, Done, Committed, Execute,
        ServerExecutes, AppliedAfter, Commit, Statement, Querying, Live, Advance, pool
  <1>12. ASSUME NEW c \in Connections, Execute(c), pc[c] = "commit" PROVE Applies(trans[c])
    BY <1>12
    DEF TypeOK, PlaceInv, AttemptInv, StatementsOf, Statements, Applies, Done, Committed,
        Execute, ServerExecutes, AppliedAfter, Commit, Statement, Querying, Live, Advance, pool
  <1>13. ASSUME NEW c \in Connections, Succeed(c) \/ Fail(c) \/ GiveUp(c) PROVE Answers(trans[c])
    <2>1. /\ pc[c] = "return" /\ trans[c] \in Tasks /\ answer[trans[c]] = "none"
          /\ applied' = applied /\ error' = error
          /\ trans' = [trans EXCEPT ![c] = None] /\ pc' = [pc EXCEPT ![c] = "idle"]
      BY <1>13 DEF Succeed, Fail, GiveUp, Returned, Finish, TypeOK, PlaceInv, server
    <2>2. Done(trans[c]) <=> error[c] = "none"
      BY <2>1 DEF Done, Committed, PlaceInv
    <2>3. answer' = [answer EXCEPT ![trans[c]] = IF Done(trans[c]) THEN "true" ELSE "false"]
      BY <1>13, <2>2 DEF Succeed, Fail, GiveUp, Finish
    <2>4. ASSUME NEW u \in Tasks, u # trans[c] PROVE Done(u)' <=> Done(u)
      BY <2>1, <2>3, <2>4 DEF Done, Committed, TypeOK
    <2>5. ASSUME NEW u \in Tasks, u = trans[c] PROVE Done(u)' <=> Done(u)
      <3>1. ~Committed(u)'
        BY <2>1, <2>5 DEF Committed, PlaceInv, TypeOK
      <3>2. answer'[u] = "true" <=> Done(u)
        BY <2>1, <2>3, <2>5 DEF TypeOK
      <3>3. QED
        BY <3>1, <3>2 DEF Done
    <2>6. Done(trans[c]) => Length[trans[c]] > 0
      BY <2>1, <2>2 DEF AttemptInv
    <2>7. QED
      BY <2>1, <2>3, <2>4, <2>5, <2>6 DEF Answers
  <1>14. ASSUME NEW c \in Connections PROVE pc[c] # "idle" => trans[c] \in Tasks
    BY DEF TypeOK, PlaceInv
  <1>15. ASSUME NEW c \in Connections, ReconnectRefused(c) \/ ExecuteWithoutHandle(c) PROVE FALSE
    BY <1>15 DEF AttemptInv, ReconnectRefused, ExecuteWithoutHandle
  <1>16. QED
    BY <1>1, <1>2, <1>3, <1>4, <1>5, <1>6, <1>7, <1>8, <1>9, <1>10, <1>11, <1>12, <1>13, <1>14, <1>15
    DEF Next, WorkerStep, Execute, Querying, Succeed, Fail, GiveUp, Returned

(* The history variable is never reset.                                        *)
LEMMA DisturbedStays == Inv /\ [Next]_vars => (disturbed => disturbed')
  <1> SUFFICES ASSUME Inv, [Next]_vars PROVE disturbed => disturbed'
    OBVIOUS
  <1>1. ASSUME NEW c \in Connections, LoseConnection(c) \/ ReconnectRefused(c)
        PROVE  disturbed => disturbed'
    BY <1>1 DEF LoseConnection, ReconnectRefused
  <1>2. ASSUME NEW c \in Connections, WorkerStep(c), ~ReconnectRefused(c) PROVE disturbed' = disturbed
    BY <1>2
    DEF WorkerStep, TakeTask, Execute, FailStatement, BrokenStatement, Reconnect, ReconnectFails,
        ExecuteWithoutHandle, Succeed, Fail, WaitForLock, Lock, Retry, GiveUp, Finish, server
  <1>3. CASE Close \/ (\E u \in Tasks : CommitTransaction(u)) \/ UNCHANGED vars
    BY <1>3 DEF Close, CommitTransaction, vars, server
  <1>4. QED
    BY <1>1, <1>2, <1>3 DEF Next

(* Statements have taken effect once when their transaction is done.           *)
LEMMA NextCalm == CalmInv /\ [Next]_vars /\ ~disturbed' => CalmInv'
  <1> SUFFICES ASSUME CalmInv, [Next]_vars, ~disturbed' PROVE CalmInv'
    OBVIOUS
  <1>1. Inv' /\ AttemptInv'
    BY NextInv, AttemptStep DEF CalmInv
  <1>2. Quiet \/ \E t \in Tasks : Applies(t) \/ Answers(t)
    BY StepKinds
  <1>3. EffectInv'
    <2> SUFFICES ASSUME NEW u \in Tasks, NEW s \in StatementsOf(u)
                 PROVE  applied'[s] = IF Done(u)' THEN 1 ELSE 0
      BY DEF EffectInv
    <2>1. applied[s] = IF Done(u) THEN 1 ELSE 0
      BY DEF CalmInv, EffectInv
    <2>2. s \in Statements /\ s[1] = u
      BY DEF StatementsOf, Statements
    <2>3. CASE Quiet
      BY <2>1, <2>3 DEF Quiet
    <2>4. ASSUME NEW t \in Tasks, Applies(t) PROVE applied'[s] = IF Done(u)' THEN 1 ELSE 0
      BY <2>1, <2>2, <2>4 DEF Applies
    <2>5. ASSUME NEW t \in Tasks, Answers(t) PROVE applied'[s] = IF Done(u)' THEN 1 ELSE 0
      BY <2>1, <2>5 DEF Answers
    <2>6. QED
      BY <1>2, <2>3, <2>4, <2>5
  <1>4. AnswerInv'
    BY <1>2 DEF Quiet, Applies, Answers, CalmInv, AnswerInv, Inv, TypeOK
  <1>5. QED
    BY <1>1, <1>3, <1>4 DEF CalmInv

(* Nothing undoes the disturbance: what holds in the calm holds until then.    *)
UndisturbedInv == Inv /\ (~disturbed => CalmInv)

(* Every reachable state satisfies the invariant until the pool is             *)
(* disturbed.                                                                  *)
LEMMA UndisturbedInductive == Spec => []UndisturbedInv
  <1>1. Init => UndisturbedInv
    BY InitCalm, InitInv DEF UndisturbedInv
  <1>2. UndisturbedInv /\ [Next]_vars => UndisturbedInv'
    <2> SUFFICES ASSUME UndisturbedInv, [Next]_vars PROVE UndisturbedInv'
      OBVIOUS
    <2>1. ~disturbed' => ~disturbed
      BY DisturbedStays DEF UndisturbedInv
    <2>2. QED
      BY <2>1, NextInv, NextCalm DEF UndisturbedInv
  <1>3. QED
    BY <1>1, <1>2, PTL DEF Spec

(* Until a connection is lost inside a transaction or refused, the answers are *)
(* true: a transaction answered true has taken effect, once, one answered      *)
(* false has not, through deadlocks, retries and reconnections.                *)
THEOREM AnswersTrue == Spec => []AllOrNothingUndisturbed
  <1>1. UndisturbedInv => AllOrNothingUndisturbed
    <2> SUFFICES ASSUME CalmInv, NEW t \in Tasks, NEW s \in StatementsOf(t)
                 PROVE  /\ answer[t] = "true" => applied[s] = 1
                        /\ answer[t] = "false" => applied[s] = 0
      BY DEF UndisturbedInv, AllOrNothingUndisturbed, AllOrNothing
    <2>1. answer[t] = "false" => ~Done(t)
      BY DEF CalmInv, Inv, PlaceInv, Done, Committed, TypeOK
    <2>2. QED
      BY <2>1 DEF CalmInv, EffectInv, Done
  <1>2. QED
    BY UndisturbedInductive, <1>1, PTL

(* What Effect is in terms of Done.                                            *)
LEMMA EffectValue ==
    CalmInv => Effect = [t \in Tasks |-> IF Done(t) THEN "all" ELSE "nothing"]
  <1> SUFFICES ASSUME CalmInv, NEW t \in Tasks
               PROVE  Effect[t] = IF Done(t) THEN "all" ELSE "nothing"
    BY DEF Effect
  <1>1. \A s \in StatementsOf(t) : applied[s] = IF Done(t) THEN 1 ELSE 0
    BY DEF CalmInv, EffectInv
  <1>2. Done(t) => Length[t] > 0
    BY DEF CalmInv, AnswerInv, AttemptInv, Done, Committed
  <1>3. Length[t] > 0 => <<t, 1>> \in StatementsOf(t)
    BY LengthAssumption DEF StatementsOf
  <1>4. QED
    BY <1>1, <1>2, <1>3 DEF Effect

(* Until then the pool implements atomic transactions.                         *)
THEOREM ImplementsAtomic == Spec => RefinesAtomic
  <1>1. Init => Atomic!Init
    <2> SUFFICES ASSUME Init PROVE Atomic!Init
      OBVIOUS
    <2>1. \A t \in Tasks : ~Done(t)
      BY DEF Init, Done, Committed
    <2>2. Effect = [t \in Tasks |-> "nothing"]
      BY <2>1, InitCalm, EffectValue
    <2>3. QED
      BY <2>2 DEF Init, Atomic!Init
  <1>2. UndisturbedInv /\ UndisturbedInv' /\ [Next]_vars => [Atomic!Next]_<<Effect, answer, disturbed>>
    <2> SUFFICES ASSUME UndisturbedInv, UndisturbedInv', [Next]_vars, ~disturbed'
                 PROVE  [Atomic!Next]_<<Effect, answer, disturbed>>
      BY DEF Atomic!Next, Atomic!Disturbed, UndisturbedInv, Inv, TypeOK
    <2>0. CalmInv /\ CalmInv' /\ disturbed' = disturbed
      BY DisturbedStays DEF UndisturbedInv, Inv, TypeOK
    <2>1. /\ Effect = [t \in Tasks |-> IF Done(t) THEN "all" ELSE "nothing"]
          /\ Effect' = [t \in Tasks |-> IF Done(t)' THEN "all" ELSE "nothing"]
      <3>1. (CalmInv => Effect = [t \in Tasks |-> IF Done(t) THEN "all" ELSE "nothing"])'
        BY EffectValue, PTL
      <3>2. QED
        BY <2>0, EffectValue, <3>1
    <2>2. CASE Quiet
      BY <2>0, <2>1, <2>2 DEF Quiet
    <2>3. ASSUME NEW t \in Tasks, Applies(t) PROVE Atomic!Apply(t)
      BY <2>0, <2>1, <2>3 DEF Applies, Atomic!Apply, CalmInv
    <2>4. ASSUME NEW t \in Tasks, Answers(t) PROVE Atomic!Answer(t)
      <3>1. Effect' = Effect
        BY <2>1, <2>4 DEF Answers
      <3>2. QED
        BY <2>0, <2>1, <2>4, <3>1 DEF Answers, Atomic!Answer, CalmInv
    <2>5. QED
      BY <2>0, StepKinds, <2>2, <2>3, <2>4 DEF Atomic!Next
  <1>3. QED
    BY UndisturbedInductive, <1>1, <1>2, PTL DEF Spec, RefinesAtomic, Atomic!Spec
=============================================================================
