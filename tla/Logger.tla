-------------------------------- MODULE Logger --------------------------------
(***************************************************************************)
(* The logger (Logger.cpp): every thread may forward to a queue, one       *)
(* thread writes what is in it to the file, and ~App terminates that       *)
(* thread.                                                                 *)
(*                                                                         *)
(* Every critical section of mutex_ is one step.  The log thread waits     *)
(* without a predicate: it hears a notification only when it sleeps        *)
(* already, and from its last test of the queue to its sleep it is deaf.   *)
(***************************************************************************)
EXTENDS Naturals, Sequences, FiniteSets

CONSTANTS Writers,   \* the threads that log
          MaxLogs    \* bound: how often each of them does

ASSUME BoundAssumption == MaxLogs \in Nat

VARIABLES
    at,               \* where the log thread is
    terminator,       \* where terminate() is
    shouldTerminate,  \* Logger::shouldTerminate_
    logQueue,         \* Logger::logQueue_
    file,             \* what has been written to logFile_
    logged,           \* how often each thread has logged
    pushed,           \* ghost: all that has been pushed
    late,             \* ghost: what was pushed while the log thread was deaf
    owed,             \* ghost: how much was pushed before terminate()
    deaf              \* ghost: it was deaf when terminate() notified it

logVars == <<at, terminator, shouldTerminate, logQueue, file, logged, pushed, late, owed, deaf>>
terminating == <<terminator, shouldTerminate, owed, deaf>>
logs == <<logged, pushed, late>>

Log == [writer : Writers, nr : 1 .. MaxLogs]
Farewell == [writer |-> "log thread", nr |-> 1]
Deaf == at \in {"test", "wait"}

LogInit == /\ at = "test" /\ terminator = "idle" /\ shouldTerminate = FALSE
           /\ logQueue = <<>> /\ file = <<>>
           /\ logged = [w \in Writers |-> 0] /\ pushed = <<>> /\ late = {} /\ owed = 0 /\ deaf = FALSE

(* cv_.notify_one() *)
Notified == IF at = "asleep" THEN "drain" ELSE at

(* logQueue_.push(info) *)
Push(log) == /\ logQueue' = Append(logQueue, log)
             /\ pushed' = Append(pushed, log)
             /\ late' = IF Deaf THEN late \cup {Len(pushed) + 1} ELSE late

PushBy(w) == /\ logged[w] < MaxLogs
             /\ logged' = [logged EXCEPT ![w] = @ + 1]
             /\ Push([writer |-> w, nr |-> logged[w] + 1])

(* Logger::forward, of which info, warn, error and debug make a few calls.  *)
Forward(w) == PushBy(w) /\ at' = Notified /\ UNCHANGED <<file, terminating>>
-----------------------------------------------------------------------------
(* The log thread *)

(* while (!shouldTerminate_); a debug build forwards once more at the end.  *)
TestTerminate ==
    /\ at = "test"
    /\ IF shouldTerminate
       THEN at' = "ended" /\ Push(Farewell)
       ELSE at' = "wait" /\ UNCHANGED <<logQueue, pushed, late>>
    /\ UNCHANGED <<file, logged, terminating>>

(* cv_.wait(lock), which may end by itself *)
Wait == /\ at = "wait" /\ at' = "asleep"
        /\ UNCHANGED <<logQueue, file, logs, terminating>>

LogWakeup == /\ at = "asleep" /\ at' = "drain"
             /\ UNCHANGED <<logQueue, file, logs, terminating>>

(* Fault: a thread that is to terminate leaves what is in the queue. *)
TestQueue_Hurries ==
    /\ at = "drain"
    /\ at' = IF logQueue # <<>> /\ ~ shouldTerminate THEN "write" ELSE "test"
    /\ UNCHANGED <<logQueue, file, logs, terminating>>

(* while (logQueue_.size() > 0), without the mutex *)
TestQueue ==
    /\ at = "drain"
    /\ at' = IF logQueue # <<>> THEN "write" ELSE "test"
    /\ UNCHANGED <<logQueue, file, logs, terminating>>

(* info.logger->logFile_ << info.data *)
Write == /\ at = "write" /\ at' = "pop"
         /\ file' = Append(file, Head(logQueue))
         /\ UNCHANGED <<logQueue, logs, terminating>>

(* Fault: the queue is emptied. *)
Pop_All == /\ at = "pop" /\ at' = "drain"
           /\ logQueue' = <<>>
           /\ UNCHANGED <<file, logs, terminating>>

(* Fault: the thread goes back to sleep after one message. *)
Pop_Once == /\ at = "pop" /\ at' = "test"
            /\ logQueue' = Tail(logQueue)
            /\ UNCHANGED <<file, logs, terminating>>

Pop == /\ at = "pop" /\ at' = "drain"
       /\ logQueue' = Tail(logQueue)
       /\ UNCHANGED <<file, logs, terminating>>
-----------------------------------------------------------------------------
(* Logger::terminate *)

SetTerminate ==
    /\ terminator = "idle" /\ terminator' = "notify"
    /\ shouldTerminate' = TRUE /\ owed' = Len(pushed)
    /\ UNCHANGED <<at, logQueue, file, logs, deaf>>

(* Fault: the log thread is not notified. *)
NotifyTerminate_Silent ==
    /\ terminator = "notify" /\ terminator' = "join"
    /\ UNCHANGED <<at, shouldTerminate, logQueue, file, logs, owed, deaf>>

NotifyTerminate ==
    /\ terminator = "notify" /\ terminator' = "join"
    /\ at' = Notified
    /\ deaf' = (at = "wait")
    /\ UNCHANGED <<shouldTerminate, logQueue, file, logs, owed>>

Join == /\ terminator = "join" /\ at = "ended" /\ terminator' = "returned"
        /\ shouldTerminate' = FALSE
        /\ UNCHANGED <<at, logQueue, file, logs, owed, deaf>>
-----------------------------------------------------------------------------
LogThread == TestTerminate \/ Wait \/ TestQueue \/ Write \/ Pop
Terminate == NotifyTerminate \/ Join

LogNext == \/ \E w \in Writers : Forward(w)
           \/ LogThread \/ LogWakeup
           \/ SetTerminate \/ Terminate

(* The log thread runs, and so does terminate() once it is called; nobody   *)
(* has to log, and the log thread need not wake up by itself.               *)
LogSpec == LogInit /\ [][LogNext]_logVars /\ WF_logVars(LogThread) /\ WF_logVars(Terminate)
-----------------------------------------------------------------------------
(* Every variable has its type. *)
LogTypeOK ==
    /\ at \in {"test", "wait", "asleep", "drain", "write", "pop", "ended"}
    /\ terminator \in {"idle", "notify", "join", "returned"}
    /\ shouldTerminate \in BOOLEAN /\ (shouldTerminate <=> terminator \in {"notify", "join"})
    /\ logQueue \in Seq(Log \cup {Farewell}) /\ file \in Seq(Log \cup {Farewell})
    /\ logged \in [Writers -> 0 .. MaxLogs] /\ pushed \in Seq(Log \cup {Farewell})
    /\ late \subseteq Nat /\ owed \in 0 .. Len(pushed)
    /\ deaf \in BOOLEAN

(* The file has what was logged, in the order in which it was, without a    *)
(* gap and nothing twice, and the queue has what is missing, although the   *)
(* log thread tests and reads the queue outside the mutex.                  *)
InOrder ==
    pushed = file \o (IF at = "pop" THEN Tail(logQueue) ELSE logQueue)

(* Whatever was logged before terminate() is in the file when it returns,   *)
(* unless it was pushed between the log thread's last test of the queue     *)
(* and its sleep.                                                           *)
FlushedAtExit ==
    terminator = "returned" => \A n \in 1 .. owed : n <= Len(file) \/ n \in late

(* What is logged is written, unless it was pushed in that window or the    *)
(* log thread ends.                                                         *)
Logged ==
    \A n \in 1 .. MaxLogs * Cardinality(Writers) :
        Len(pushed) >= n ~> (Len(file) >= n \/ n \in late \/ at = "ended")

(* terminate() returns, unless it notified the log thread between that      *)
(* thread's test of shouldTerminate_ and its sleep.                         *)
TerminateReturns == (terminator = "notify") ~> (terminator = "returned" \/ deaf)
=============================================================================
