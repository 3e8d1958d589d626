------------------------------ MODULE RunTask ------------------------------
(***************************************************************************)
(* The RUNTASK command plug-in (ngamsPlugIns/ngamsCmd_RUNTASK.py): a job   *)
(* manager POSTs local tasks; each POST is acknowledged and handed to a    *)
(* new SCHEDULE_THRD that (re)starts the single queue-scan thread when it  *)
(* is missing or dead and puts the task on queTasks.  The scan thread      *)
(* takes tasks one by one into the global g_mrLocalTask, skips cancelled   *)
(* ones, tells the job manager the task is dequeued, executes it and       *)
(* posts the result.  A GET with action=cancel records the task in         *)
(* cancelDict and stops it if it is g_mrLocalTask.                         *)
(*                                                                         *)
(* Each step below is one statement of a thread at which the interpreter  *)
(* may switch threads.  The tasks' execute() and stop() are not in this   *)
(* repository: an execution runs until it ends or is stopped.             *)
(***************************************************************************)
EXTENDS Naturals, Sequences, FiniteSets

CONSTANTS
    Tasks,      \* task ids the job manager submits, each once
    ScanIds,    \* thread objects the scheduler threads may create (bound)
    ScanFailures, \* an HTTP call of the scan thread may raise an exception
                \* other than URLError, which ends the thread
    None        \* Python None

VARIABLES
    sched,      \* step of the SCHEDULE_THRD of each task
    created,    \* the scan thread a task's scheduler created, or None
    queScanThread, \* the global reference to the scan thread, or None
    scan,       \* step of each scan thread object
    queTasks,   \* the queue
    g,          \* g_mrLocalTask
    runs,       \* task whose execute() each scan thread is in, or None
    cancelDict, \* tasks cancelled
    stopped,    \* tasks whose running execute() was stopped
    dequeued,   \* tasks the job manager was told are dequeued
    results     \* tasks whose result was posted to the job manager

vars == <<sched, created, queScanThread, scan, queTasks, g, runs, cancelDict,
          stopped, dequeued, results>>

SchedSteps == {"none", "rejected", "check", "assign", "daemon", "start", "put",
               "done", "lost"}
ScanSteps  == {"new", "get", "check", "notify", "exec", "send", "dead"}

\* isAlive(): started and not returned.
Alive(s) == scan[s] \notin {"new", "dead"}

Init ==
    /\ sched = [t \in Tasks |-> "none"]
    /\ created = [t \in Tasks |-> None]
    /\ queScanThread = None
    /\ scan = [s \in ScanIds |-> "new"]
    /\ queTasks = <<>>
    /\ g = None
    /\ runs = [s \in ScanIds |-> None]
    /\ cancelDict = {}
    /\ stopped = {}
    /\ dequeued = {}
    /\ results = {}

-----------------------------------------------------------------------------
(* handleCmd                                                               *)

\* POST: the task is unpickled, acknowledged with error code 0, and a
\* SCHEDULE_THRD is started for it.
Submit(t) ==
    /\ sched[t] = "none"
    /\ sched' = [sched EXCEPT ![t] = "check"]
    /\ UNCHANGED <<created, queScanThread, scan, queTasks, g, runs,
                   cancelDict, stopped, dequeued, results>>

\* GET action=cancel&task_id=t: `cancelDict[taskId] = 1`, then stop() on
\* g_mrLocalTask when it is that task; stop() ends a running execute().
Cancel(t) ==
    /\ t \notin cancelDict
    /\ cancelDict' = cancelDict \cup {t}
    /\ stopped' = IF g = t /\ \E s \in ScanIds : runs[s] = t
                  THEN stopped \cup {t} ELSE stopped
    /\ UNCHANGED <<sched, created, queScanThread, scan, queTasks, g, runs,
                   dequeued, results>>

\* POST: _getPostContent reads the body once, and a short read hands
\* pickle.loads a truncated pickle, which raises; a body that unpickles to
\* nothing is answered with error code -2.  No SCHEDULE_THRD is started.
Reject(t) ==
    /\ sched[t] = "none"
    /\ sched' = [sched EXCEPT ![t] = "rejected"]
    /\ UNCHANGED <<created, queScanThread, scan, queTasks, g, runs,
                   cancelDict, stopped, dequeued, results>>

-----------------------------------------------------------------------------
(* _scheduleQScanThread, one SCHEDULE_THRD per task                        *)

\* `if (queScanThread == None or (not queScanThread.isAlive()))`
SchedCheck(t) ==
    /\ sched[t] = "check"
    /\ sched' = [sched EXCEPT ![t] =
                   IF queScanThread = None \/ ~Alive(queScanThread)
                   THEN "assign" ELSE "put"]
    /\ UNCHANGED <<created, queScanThread, scan, queTasks, g, runs,
                   cancelDict, stopped, dequeued, results>>

\* A client is built and `queScanThread = threading.Thread(...)`: a new
\* thread object, not started yet.
SchedAssign(t) ==
    /\ sched[t] = "assign"
    /\ \E s \in ScanIds :
         /\ scan[s] = "new" /\ s # queScanThread
         /\ \A u \in Tasks : created[u] # s
         /\ created' = [created EXCEPT ![t] = s]
         /\ queScanThread' = s
    /\ sched' = [sched EXCEPT ![t] = "daemon"]
    /\ UNCHANGED <<scan, queTasks, g, runs, cancelDict, stopped, dequeued,
                   results>>

\* `queScanThread.setDaemon(1)` on the global, which another scheduler may
\* have rebound to its own object and started meanwhile: setDaemon of a
\* started thread raises RuntimeError, which ends this SCHEDULE_THRD
\* before its task is put on the queue.
SchedDaemon(t) ==
    /\ sched[t] = "daemon"
    /\ sched' = [sched EXCEPT ![t] =
                   IF scan[queScanThread] = "new" THEN "start" ELSE "lost"]
    /\ UNCHANGED <<created, queScanThread, scan, queTasks, g, runs,
                   cancelDict, stopped, dequeued, results>>

\* `queScanThread.start()` on the global likewise: a thread object is
\* started once; a second start() raises RuntimeError.
SchedStart(t) ==
    /\ sched[t] = "start"
    /\ IF scan[queScanThread] = "new"
       THEN /\ scan' = [scan EXCEPT ![queScanThread] = "get"]
            /\ sched' = [sched EXCEPT ![t] = "put"]
       ELSE /\ sched' = [sched EXCEPT ![t] = "lost"]
            /\ UNCHANGED scan
    /\ UNCHANGED <<created, queScanThread, queTasks, g, runs, cancelDict,
                   stopped, dequeued, results>>

\* `queTasks.put(mrLocalTask)`
SchedPut(t) ==
    /\ sched[t] = "put"
    /\ queTasks' = Append(queTasks, t)
    /\ sched' = [sched EXCEPT ![t] = "done"]
    /\ UNCHANGED <<created, queScanThread, scan, g, runs, cancelDict,
                   stopped, dequeued, results>>

-----------------------------------------------------------------------------
(* _queScanThread, per scan thread object                                  *)

\* `g_mrLocalTask = queTasks.get()` (blocks while the queue is empty).
Get(s) ==
    /\ scan[s] = "get" /\ queTasks # <<>>
    /\ g' = Head(queTasks)
    /\ queTasks' = Tail(queTasks)
    /\ scan' = [scan EXCEPT ![s] = "check"]
    /\ UNCHANGED <<sched, created, queScanThread, runs, cancelDict, stopped,
                   dequeued, results>>

\* `if (cancelDict.has_key(g_mrLocalTask._taskId)): continue`
Check(s) ==
    /\ scan[s] = "check"
    /\ scan' = [scan EXCEPT ![s] = IF g \in cancelDict THEN "get" ELSE "notify"]
    /\ UNCHANGED <<sched, created, queScanThread, queTasks, g, runs,
                   cancelDict, stopped, dequeued, results>>

\* The dequeue event for g_mrLocalTask is sent (a URLError is logged;
\* any other exception ends the thread).
Notify(s) ==
    /\ scan[s] = "notify"
    /\ \/ /\ dequeued' = dequeued \cup {g}
          /\ scan' = [scan EXCEPT ![s] = "exec"]
       \/ /\ ScanFailures
          /\ scan' = [scan EXCEPT ![s] = "dead"]
          /\ UNCHANGED dequeued
    /\ UNCHANGED <<sched, created, queScanThread, queTasks, g, runs,
                   cancelDict, stopped, results>>

\* `localTaskResult = g_mrLocalTask.execute()` begins.
ExecStart(s) ==
    /\ scan[s] = "exec" /\ runs[s] = None
    /\ runs' = [runs EXCEPT ![s] = g]
    /\ UNCHANGED <<sched, created, queScanThread, scan, queTasks, g,
                   cancelDict, stopped, dequeued, results>>

\* execute() returns (or raises, or was stopped): the result carries the
\* task's own id; a file result is archived locally (errors are recorded
\* in the result).
ExecEnd(s) ==
    /\ scan[s] = "exec" /\ runs[s] # None
    /\ scan' = [scan EXCEPT ![s] = "send"]
    /\ UNCHANGED <<sched, created, queScanThread, queTasks, g, runs,
                   cancelDict, stopped, dequeued, results>>

\* The pickled result is posted to the job manager (a URLError is
\* logged; any other exception ends the thread); the loop goes back to
\* the queue.
Send(s) ==
    /\ scan[s] = "send"
    /\ runs' = [runs EXCEPT ![s] = None]
    /\ \/ /\ results' = results \cup {runs[s]}
          /\ scan' = [scan EXCEPT ![s] = "get"]
       \/ /\ ScanFailures
          /\ scan' = [scan EXCEPT ![s] = "dead"]
          /\ UNCHANGED results
    /\ UNCHANGED <<sched, created, queScanThread, queTasks, g, cancelDict,
                   stopped, dequeued>>

\* Every task was submitted, queued and handled, or the threads block.
Idle ==
    /\ \A t \in Tasks : sched[t] \in {"rejected", "done", "lost"}
    /\ queTasks = <<>>
    /\ \A s \in ScanIds : scan[s] \in {"new", "get", "dead"}
    /\ UNCHANGED vars

Next ==
    \/ \E t \in Tasks :
          Submit(t) \/ Reject(t) \/ Cancel(t) \/ SchedCheck(t) \/ SchedAssign(t)
          \/ SchedDaemon(t) \/ SchedStart(t) \/ SchedPut(t)
    \/ \E s \in ScanIds :
          Get(s) \/ Check(s) \/ Notify(s) \/ ExecStart(s) \/ ExecEnd(s)
          \/ Send(s)
    \/ Idle

Spec == Init /\ [][Next]_vars

-----------------------------------------------------------------------------
(* Properties                                                              *)

\* Module docstring: the task queue serialises local tasks for
\* mutually-exclusive GPU access: at most one task's execute() runs at a
\* time, however the SCHEDULE_THRDs of concurrent POSTs interleave.
ExclusiveExecution ==
    Cardinality({s \in ScanIds : runs[s] # None}) <= 1

=============================================================================
