----------------------------- MODULE Transactions -----------------------------
(* The asynchronous transactions of a DatabaseWorkerPool: the tasks posted to  *)
(* its io_context, the workers with a connection each, the execution of a      *)
(* transaction, the retry after a deadlock, and the reconnection inside        *)
(* MySQLConnection::Execute.  The MySQL server is the environment: a session   *)
(* of its own for every connection, autocommit until START TRANSACTION.        *)
EXTENDS Integers, Sequences

CONSTANTS
    Connections,     \* the asynchronous connections, each with its worker
    Tasks,           \* the transactions
    Length,          \* Length[t]: the number of queries of transaction t
    None,            \* no transaction, no connection
    MaxLosses,       \* bound: how many connections are lost
    Refusals         \* whether MySQL may answer a reconnection with an error
                     \* _HandleMySQLErrno does not know

ASSUME LengthAssumption == Length \in [Tasks -> Nat]
ASSUME NoneAssumption == None \notin Connections \cup Tasks
ASSUME MaxLossesAssumption == MaxLosses \in Nat
ASSUME RefusalsAssumption == Refusals \in BOOLEAN

VARIABLES
    tasks,           \* what was posted to _ioContext
    stopped,         \* _ioContext was stopped
    aborted,         \* ABORT()
    pc, trans, index,\* where the worker is, its transaction, its query
    retrying,        \* it is in the loop of TransactionTask::Execute
    error,           \* the errorCode of the attempt
    _deadlockLock,   \* the connection that holds the mutex
    session,         \* of the server: "auto", "open" (a transaction), "lost" or
                     \* "null" (m_Mysql is a null pointer)
    work,            \* of the server: statements not yet committed
    applied,         \* of the server: how often a statement took effect
    answer,          \* what TransactionTask::Execute returned
    losses,          \* history: how many connections were lost
    disturbed        \* history: one was lost inside a transaction, or could not be
                     \* opened again

worker == <<pc, trans, index, retrying, error, _deadlockLock, answer>>
pool == <<tasks, stopped, aborted>>
server == <<session, work, applied, losses, disturbed>>
vars == <<worker, pool, server>>

Statements == UNION {{t} \X (1..Length[t]) : t \in Tasks}

TypeOK ==
    /\ tasks \in Seq(Tasks) /\ stopped \in BOOLEAN /\ aborted \in BOOLEAN
    /\ pc \in [Connections -> {"idle", "begin", "run", "rollback", "commit", "return", "lock"}]
    /\ trans \in [Connections -> Tasks \cup {None}]
    /\ index \in [Connections -> Nat]
    /\ \A c \in Connections : pc[c] = "run" => <<trans[c], index[c]>> \in Statements
    /\ retrying \in [Connections -> BOOLEAN]
    /\ error \in [Connections -> {"none", "deadlock", "other"}]
    /\ _deadlockLock \in Connections \cup {None}
    /\ session \in [Connections -> {"auto", "open", "lost", "null"}]
    /\ work \in [Connections -> SUBSET Statements]
    /\ applied \in [Statements -> Nat]
    /\ answer \in [Tasks -> {"none", "true", "false"}]
    /\ losses \in 0..MaxLosses /\ disturbed \in BOOLEAN

Init ==
    /\ tasks = <<>> /\ stopped = FALSE /\ aborted = FALSE
    /\ pc = [c \in Connections |-> "idle"]
    /\ trans = [c \in Connections |-> None]
    /\ index = [c \in Connections |-> 0]
    /\ retrying = [c \in Connections |-> FALSE]
    /\ error = [c \in Connections |-> "none"]
    /\ _deadlockLock = None
    /\ session = [c \in Connections |-> "auto"]
    /\ work = [c \in Connections |-> {}]
    /\ applied = [s \in Statements |-> 0]
    /\ answer = [t \in Tasks |-> "none"]
    /\ losses = 0 /\ disturbed = FALSE
-----------------------------------------------------------------------------
Held(t) == (\E i \in DOMAIN tasks : tasks[i] = t) \/ \E c \in Connections : trans[c] = t

(* CommitTransaction, AsyncCommitTransaction: a transaction is posted, once.   *)
CommitTransaction(t) ==
    /\ ~stopped /\ ~aborted
    /\ answer[t] = "none" /\ ~Held(t)
    /\ tasks' = Append(tasks, t)
    /\ UNCHANGED <<worker, server, stopped, aborted>>

(* Close: the io_context is stopped, tasks that no worker has begun are        *)
(* destroyed with it.                                                          *)
Close ==
    /\ ~stopped /\ ~aborted
    /\ stopped' = TRUE
    /\ tasks' = <<>>
    /\ UNCHANGED <<worker, server, aborted>>

(* ExecuteTransaction begins: an empty transaction is refused.                 *)
StartAttempt(c, t) ==
    /\ index' = [index EXCEPT ![c] = 0]
    /\ pc' = [pc EXCEPT ![c] = IF Length[t] = 0 THEN "return" ELSE "begin"]
    /\ error' = [error EXCEPT ![c] = IF Length[t] = 0 THEN "other" ELSE "none"]

(* A worker takes a task.                                                      *)
TakeTask(c) ==
    /\ ~stopped /\ ~aborted
    /\ pc[c] = "idle" /\ tasks # <<>>
    /\ tasks' = Tail(tasks)
    /\ trans' = [trans EXCEPT ![c] = Head(tasks)]
    /\ StartAttempt(c, Head(tasks))
    /\ UNCHANGED <<retrying, _deadlockLock, answer, stopped, aborted, server>>
-----------------------------------------------------------------------------
(* The server executes the query a worker is at.  A statement outside a        *)
(* transaction takes effect at once; START TRANSACTION and COMMIT commit what  *)
(* the session has done.                                                       *)
Commit(c) == [s \in Statements |-> applied[s] + (IF s \in work[c] THEN 1 ELSE 0)]
Statement(c) == <<trans[c], index[c]>>

AppliedAfter(c) ==
    CASE pc[c] \in {"begin", "commit"} -> Commit(c)
      [] pc[c] = "run" /\ session[c] = "auto" -> [applied EXCEPT ![Statement(c)] = @ + 1]
      [] OTHER -> applied

ServerExecutes(c) ==
    /\ applied' = AppliedAfter(c)
    /\ work' = [work EXCEPT ![c] = IF pc[c] = "run" /\ session[c] = "open"
                                   THEN @ \cup {Statement(c)} ELSE {}]
    /\ session' = [session EXCEPT ![c] = CASE pc[c] = "begin" -> "open"
                                           [] pc[c] = "run" -> @
                                           [] OTHER -> "auto"]

Querying(c) == ~aborted /\ pc[c] \in {"begin", "run", "rollback", "commit"}
Live(c) == session[c] \in {"auto", "open"}

(* What ExecuteTransaction does after a query whose result it ignores or that  *)
(* has succeeded.                                                              *)
Advance(c) ==
    /\ pc' = [pc EXCEPT ![c] = CASE @ = "begin" -> "run"
                                 [] @ = "run" -> IF index[c] < Length[trans[c]]
                                                 THEN "run" ELSE "commit"
                                 [] OTHER -> "return"]
    /\ index' = [index EXCEPT ![c] = IF pc[c] \in {"begin", "run"} THEN @ + 1 ELSE @]

(* Execute returns true.                                                       *)
Execute(c) ==
    /\ Querying(c) /\ Live(c)
    /\ ServerExecutes(c)
    /\ Advance(c)
    /\ UNCHANGED <<trans, retrying, error, _deadlockLock, answer, pool, losses, disturbed>>

(* Execute of a query of the transaction returns false: a deadlock, whose      *)
(* victim the server rolls back, or an error of the statement.  Variant: the   *)
(* transaction is not rolled back.                                             *)
FailStatementKeeping(c) ==
    /\ Querying(c) /\ Live(c) /\ pc[c] = "run"
    /\ \/ error' = [error EXCEPT ![c] = "deadlock"]
          /\ work' = [work EXCEPT ![c] = {}] /\ session' = [session EXCEPT ![c] = "auto"]
       \/ error' = [error EXCEPT ![c] = "other"] /\ UNCHANGED <<work, session>>
    /\ pc' = [pc EXCEPT ![c] = "return"]
    /\ UNCHANGED <<trans, index, retrying, _deadlockLock, answer, pool, applied, losses, disturbed>>

FailStatement(c) ==
    /\ Querying(c) /\ Live(c) /\ pc[c] = "run"
    /\ \/ error' = [error EXCEPT ![c] = "deadlock"]
          /\ work' = [work EXCEPT ![c] = {}] /\ session' = [session EXCEPT ![c] = "auto"]
       \/ error' = [error EXCEPT ![c] = "other"] /\ UNCHANGED <<work, session>>
    /\ pc' = [pc EXCEPT ![c] = "rollback"]
    /\ UNCHANGED <<trans, index, retrying, _deadlockLock, answer, pool, applied, losses, disturbed>>

(* A statement the database cannot understand (ER_PARSE_ERROR,                 *)
(* ER_BAD_FIELD_ERROR, ER_NO_SUCH_TABLE) ends the server.                      *)
Terminate == aborted' = TRUE /\ work' = [c \in Connections |-> {}]

BrokenStatement(c) ==
    /\ Querying(c) /\ Live(c) /\ pc[c] = "run"
    /\ Terminate
    /\ UNCHANGED <<worker, tasks, stopped, session, applied, losses, disturbed>>

(* The connection is lost before or after the server has executed the query;   *)
(* the server rolls back what was not committed.                               *)
LoseConnection(c) ==
    /\ Querying(c) /\ Live(c)
    /\ losses < MaxLosses
    /\ losses' = losses + 1
    /\ disturbed' = (disturbed \/ pc[c] # "begin")
    /\ applied' \in {applied, AppliedAfter(c)}
    /\ work' = [work EXCEPT ![c] = {}]
    /\ session' = [session EXCEPT ![c] = "lost"]
    /\ UNCHANGED <<worker, pool>>

(* _HandleMySQLErrno: the connection is opened again, perhaps not at the first *)
(* attempt, and Execute sends the query again, in a session with autocommit.   *)
Reconnect(c) ==
    /\ ~aborted /\ session[c] = "lost"
    /\ session' = [session EXCEPT ![c] = "auto"]
    /\ UNCHANGED <<worker, pool, work, applied, losses, disturbed>>

(* Open has failed five times, or the statements cannot be prepared again.     *)
ReconnectFails(c) ==
    /\ ~aborted /\ session[c] = "lost"
    /\ Terminate
    /\ UNCHANGED <<worker, tasks, stopped, session, applied, losses, disturbed>>

(* Open fails with an error _HandleMySQLErrno does not know: it returns false  *)
(* and m_Mysql stays null.                                                     *)
ReconnectRefused(c) ==
    /\ Refusals
    /\ ~aborted /\ session[c] = "lost"
    /\ session' = [session EXCEPT ![c] = "null"]
    /\ disturbed' = TRUE
    /\ UNCHANGED <<worker, pool, work, applied, losses>>

(* Execute returns false without a connection.  Only the result of a query of  *)
(* the transaction is looked at, and mysql_errno of a null pointer is not an   *)
(* error of this connection: it may be 0.                                      *)
ExecuteWithoutHandle(c) ==
    /\ Querying(c) /\ session[c] = "null"
    /\ IF pc[c] = "run"
       THEN /\ \E e \in {"none", "other"} : error' = [error EXCEPT ![c] = e]
            /\ pc' = [pc EXCEPT ![c] = "rollback"]
            /\ UNCHANGED index
       ELSE Advance(c) /\ UNCHANGED error
    /\ UNCHANGED <<trans, retrying, _deadlockLock, answer, pool, server>>
-----------------------------------------------------------------------------
(* TransactionTask::Execute after an attempt.                                  *)
Returned(c) == ~aborted /\ pc[c] = "return"

Finish(c, result) ==
    /\ answer' = [answer EXCEPT ![trans[c]] = result]
    /\ trans' = [trans EXCEPT ![c] = None]
    /\ pc' = [pc EXCEPT ![c] = "idle"]
    /\ retrying' = [retrying EXCEPT ![c] = FALSE]
    /\ _deadlockLock' = IF retrying[c] THEN None ELSE _deadlockLock
    /\ UNCHANGED <<index, error, pool, server>>

Succeed(c) == Returned(c) /\ error[c] = "none" /\ Finish(c, "true")

(* An error other than a deadlock ends it.                                     *)
Fail(c) == Returned(c) /\ error[c] = "other" /\ ~retrying[c] /\ Finish(c, "false")

(* A deadlock: the worker waits for the mutex ...                              *)
WaitForLock(c) ==
    /\ Returned(c) /\ error[c] = "deadlock" /\ ~retrying[c]
    /\ pc' = [pc EXCEPT ![c] = "lock"]
    /\ UNCHANGED <<trans, index, retrying, error, _deadlockLock, answer, pool, server>>

(* ... and tries again at least once ...                                       *)
Lock(c) ==
    /\ ~aborted /\ pc[c] = "lock" /\ _deadlockLock = None
    /\ _deadlockLock' = c
    /\ retrying' = [retrying EXCEPT ![c] = TRUE]
    /\ StartAttempt(c, trans[c])
    /\ UNCHANGED <<trans, answer, pool, server>>

(* ... and, whatever the error, until DEADLOCK_MAX_RETRY_TIME_MS have passed.  *)
(* Variants: a failed retry is taken for a success; the mutex is kept.         *)
Retry(c) ==
    /\ Returned(c) /\ error[c] # "none" /\ retrying[c]
    /\ StartAttempt(c, trans[c])
    /\ UNCHANGED <<trans, retrying, _deadlockLock, answer, pool, server>>

GiveUpLocked(c) ==
    /\ Returned(c) /\ error[c] # "none" /\ retrying[c]
    /\ answer' = [answer EXCEPT ![trans[c]] = "false"]
    /\ trans' = [trans EXCEPT ![c] = None]
    /\ pc' = [pc EXCEPT ![c] = "idle"]
    /\ retrying' = [retrying EXCEPT ![c] = FALSE]
    /\ UNCHANGED <<index, error, _deadlockLock, pool, server>>
GiveUp(c) == Returned(c) /\ error[c] # "none" /\ retrying[c] /\ Finish(c, "false")
-----------------------------------------------------------------------------
WorkerStep(c) ==
    \/ TakeTask(c) \/ Execute(c) \/ FailStatement(c) \/ BrokenStatement(c)
    \/ Reconnect(c) \/ ReconnectFails(c) \/ ReconnectRefused(c) \/ ExecuteWithoutHandle(c) \/ Succeed(c) \/ Fail(c)
    \/ WaitForLock(c) \/ Lock(c) \/ Retry(c) \/ GiveUp(c)

Next ==
    \/ Close
    \/ \E t \in Tasks : CommitTransaction(t)
    \/ \E c \in Connections : WorkerStep(c) \/ LoseConnection(c)

(* Workers run, the server answers, and the time for retries passes.           *)
Spec ==
    /\ Init /\ [][Next]_vars
    /\ \A c \in Connections : WF_vars(WorkerStep(c)) /\ SF_vars(GiveUp(c))
-----------------------------------------------------------------------------
StatementsOf(t) == {t} \X (1..Length[t])

(* DatabaseWorkerPool.h:166, "Begins an automanaged transaction pointer that   *)
(* will automatically rollback if not commited. (Autocommit=0)": a transaction *)
(* has taken effect with all its statements, once, when it was answered true,  *)
(* and with none when it was answered false.                                   *)
AllOrNothing ==
    \A t \in Tasks : \A s \in StatementsOf(t) :
        /\ answer[t] = "true" => applied[s] = 1
        /\ answer[t] = "false" => applied[s] = 0

(* The same, unless a connection is lost inside a transaction or cannot be     *)
(* opened again: through deadlocks, retries, failed statements and losses      *)
(* between transactions, the answers of TransactionTask::Execute are true.     *)
AllOrNothingUndisturbed == ~disturbed => AllOrNothing

(* Nothing a transaction did takes effect after its answer: whatever was lost, *)
(* retried or rolled back on the way, no part of it is left in a session for   *)
(* the next transaction of that connection to commit.                          *)
FinalEffect ==
    [][\A t \in Tasks : answer[t] # "none" =>
          \A s \in StatementsOf(t) : applied'[s] = applied[s]]_vars

(* A transaction that was posted is answered, through deadlocks, losses and    *)
(* the mutex, unless the pool is closed or the server terminates.              *)
Settles == \A t \in Tasks : Held(t) ~> answer[t] # "none" \/ stopped \/ aborted

(* What makes FinalEffect provable.  A transaction is in one place: posted,    *)
(* with a worker, or answered.                                                 *)
PlaceInv ==
    /\ \A i, j \in DOMAIN tasks : tasks[i] = tasks[j] => i = j
    /\ \A i \in DOMAIN tasks : answer[tasks[i]] = "none" /\ \A c \in Connections : trans[c] # tasks[i]
    /\ \A c, d \in Connections : trans[c] = trans[d] /\ trans[c] # None => c = d
    /\ \A c \in Connections :
          /\ trans[c] # None => answer[trans[c]] = "none"
          /\ pc[c] = "idle" <=> trans[c] = None
          /\ pc[c] = "begin" => index[c] = 0 /\ Length[trans[c]] > 0

(* What a session has not committed is of the transaction in progress, and     *)
(* every way out of an attempt leaves the session without a transaction.       *)
SessionInv ==
    \A c \in Connections :
        /\ session[c] = "open" => pc[c] \in {"run", "rollback", "commit"}
        /\ session[c] # "open" => work[c] = {}
        /\ \A s \in work[c] : s[1] = trans[c]

(* Undisturbed, the statements run inside a transaction, and an attempt that   *)
(* has committed is about to be answered.                                      *)
Committed(t) == \E c \in Connections : trans[c] = t /\ pc[c] = "return" /\ error[c] = "none"
Done(t) == answer[t] = "true" \/ Committed(t)

AttemptInv ==
    \A c \in Connections :
        /\ session[c] # "null"
        /\ session[c] = "lost" => pc[c] = "begin"
        /\ pc[c] \in {"begin", "run", "commit", "rollback"} => Length[trans[c]] > 0
        /\ pc[c] \in {"begin", "run", "commit"} => error[c] = "none"
        /\ pc[c] \in {"rollback", "lock"} => error[c] # "none"
        /\ pc[c] \in {"run", "commit"} => session[c] = "open"
        /\ ~aborted /\ pc[c] = "run" => work[c] = {trans[c]} \X (1..(index[c] - 1))
        /\ ~aborted /\ pc[c] = "commit" => work[c] = StatementsOf(trans[c])
        /\ pc[c] = "return" /\ error[c] = "none" => Length[trans[c]] > 0

EffectInv ==
    \A t \in Tasks : \A s \in StatementsOf(t) :
        applied[s] = IF Done(t) THEN 1 ELSE 0

AnswerInv == \A t \in Tasks : answer[t] = "true" => Length[t] > 0

(* Transactions are atomic and their answers true until the pool is disturbed: *)
(* the effect of a transaction is nothing until all its statements have taken  *)
(* effect once.                                                                *)
Effect ==
    [t \in Tasks |->
        IF Length[t] > 0 /\ \A s \in StatementsOf(t) : applied[s] = 1 THEN "all"
        ELSE IF \A s \in StatementsOf(t) : applied[s] = 0 THEN "nothing" ELSE "part"]
Atomic == INSTANCE AtomicTransactions WITH Transactions <- Tasks, effect <- Effect
RefinesAtomic == Atomic!Spec
=============================================================================
