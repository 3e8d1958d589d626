----------------------------- MODULE MWAStaging -----------------------------
(***************************************************************************)
(* The staging registry of the MWA job library                             *)
(* (contributed/mwa/job/ngamsJobMWALib.py).  Correlator tasks call         *)
(* stageFile to have files pushed to a host; stage_dic, guarded by         *)
(* stage_sem, maps <<file id, host>> to the tasks waiting for that file    *)
(* there, so that only the first task sends a staging request and the      *)
(* others wait on it.  The web server later calls fileIngested,            *)
(* fileFailToDeliver or reportHostDown for a file, and a task that timed   *)
(* out calls fileIngestTimeout.                                            *)
(*                                                                         *)
(* The archive server that receives the ASYNCLISTRETRIEVE request is the   *)
(* environment: `inflight` counts the requests it accepted for a key and   *)
(* has not answered.  The callers (CorrTask, the web server) are not in    *)
(* this repository: any task may call any function at any time.            *)
(***************************************************************************)
EXTENDS Naturals, Sequences, SequencesExt, FiniteSets

CONSTANTS
    Corrs,            \* correlator tasks
    Files,            \* file ids
    Hosts,            \* hosts files are staged to
    MaxCalls,         \* stageFile calls per task (bound)
    RequestFailures,  \* the staging request may fail (error code returned)
    DeliveryFailures  \* the archive server may fail to deliver a file

Keys == Files \X Hosts

VARIABLES
    stage_dic,  \* [Keys -> Seq(Corrs)]; <<>> stands for an absent key
    call,       \* [Corrs -> [pc, created, calls]]: the task's stageFile call
    inflight,   \* [Keys -> Nat]: accepted requests not yet answered
    told        \* [Corrs \X Keys -> Nat]: callbacks a task received

vars == <<stage_dic, call, inflight, told>>

Init ==
    /\ stage_dic = [k \in Keys |-> <<>>]
    /\ call = [c \in Corrs |-> [pc |-> "idle", created |-> {}, calls |-> 0]]
    /\ inflight = [k \in Keys |-> 0]
    /\ told = [ck \in Corrs \X Keys |-> 0]

\* The registrations a list holds for a task.
Registrations(c, k) ==
    Cardinality({i \in DOMAIN stage_dic[k] : stage_dic[k][i] = c})

\* `for corr in corrList: corr.<callback>(...)` over a popped list.
TellAll(k) ==
    told' = [ck \in Corrs \X Keys |->
               IF ck[2] = k THEN told[ck] + Registrations(ck[1], k) ELSE told[ck]]

-----------------------------------------------------------------------------
(* stageFile(fileIds, corrTask, toHost, frmHost)                           *)

\* Under stage_sem: a key already present gets the task appended (the file
\* is "staged by others"); a new key gets [corrTask] and its file goes on
\* deliverFileIds.  With nothing to deliver the call returns 0.
StageRegister(c, F, h) ==
    /\ call[c].pc = "idle" /\ call[c].calls < MaxCalls
    /\ F # {}
    /\ LET K       == F \X {h}
           created == {k \in K : stage_dic[k] = <<>>}
       IN  /\ stage_dic' = [k \in Keys |->
                              IF k \in K THEN Append(stage_dic[k], c) ELSE stage_dic[k]]
           /\ call' = [call EXCEPT ![c] = [pc |-> IF created = {} THEN "idle" ELSE "send",
                                           created |-> created,
                                           calls |-> @.calls + 1]]
    /\ UNCHANGED <<inflight, told>>

\* The pickled AsyncListRetrieveRequest for deliverFileIds is posted, with
\* up to max_retry attempts on a busy server or a read timeout.  Either the
\* server accepts it (error code 0), or the call returns an error code
\* (the server's, ERROR_ST_SERVER, ERROR_ST_NONRESP, a host or LTA down,
\* ERROR_ST_GENERIC).  stage_dic is not touched on any path.
StageSend(c) ==
    /\ call[c].pc = "send"
    /\ \/ inflight' = [k \in Keys |->
                         IF k \in call[c].created THEN inflight[k] + 1 ELSE inflight[k]]
       \/ RequestFailures /\ UNCHANGED inflight
    /\ call' = [call EXCEPT ![c].pc = "idle", ![c].created = {}]
    /\ UNCHANGED <<stage_dic, told>>

-----------------------------------------------------------------------------
(* Callbacks from the web server and from the tasks                        *)

\* The archive server delivers the file and the web server calls
\* fileIngested: under stage_sem the key is popped (a missing key is only
\* logged); every task on the popped list is told.
FileIngested(k) ==
    /\ inflight[k] > 0
    /\ inflight' = [inflight EXCEPT ![k] = @ - 1]
    /\ stage_dic' = [stage_dic EXCEPT ![k] = <<>>]
    /\ TellAll(k)
    /\ UNCHANGED call

\* The archive server fails to deliver and the web server calls
\* fileFailToDeliver: its first statement calls urlparse(toUrl).hostname(),
\* a string attribute, and raises TypeError; stage_dic is not touched.
FileFailToDeliver(k) ==
    /\ DeliveryFailures
    /\ inflight[k] > 0
    /\ inflight' = [inflight EXCEPT ![k] = @ - 1]
    /\ UNCHANGED <<stage_dic, call, told>>

\* reportHostDown: under stage_sem the key is popped and every task on it
\* is told (a missing key is only logged).
ReportHostDown(k) ==
    /\ stage_dic[k] # <<>>
    /\ stage_dic' = [stage_dic EXCEPT ![k] = <<>>]
    /\ TellAll(k)
    /\ UNCHANGED <<call, inflight>>

\* Mutant: the key is popped as soon as the task finds itself on it.
MutFileIngestTimeout(c, k) ==
    /\ Contains(stage_dic[k], c)
    /\ stage_dic' = [stage_dic EXCEPT ![k] = <<>>]
    /\ UNCHANGED <<call, inflight, told>>

\* fileIngestTimeout: under stage_sem the task removes the first occurrence
\* of itself from the key's list, and pops the key when the list is empty.
FileIngestTimeout(c, k) ==
    /\ Contains(stage_dic[k], c)
    /\ stage_dic' = [stage_dic EXCEPT ![k] = RemoveFirst(@, c)]
    /\ UNCHANGED <<call, inflight, told>>

Next ==
    \/ \E c \in Corrs, F \in SUBSET Files, h \in Hosts : StageRegister(c, F, h)
    \/ \E c \in Corrs : StageSend(c)
    \/ \E k \in Keys : FileIngested(k) \/ FileFailToDeliver(k) \/ ReportHostDown(k)
    \/ \E c \in Corrs, k \in Keys : FileIngestTimeout(c, k)

\* A task's thread runs its call to the end; the archive server answers
\* every request it accepted.  Nothing forces a task to time out.
Fairness ==
    /\ \A c \in Corrs : WF_vars(StageSend(c))
    /\ \A k \in Keys : WF_vars(FileIngested(k) \/ FileFailToDeliver(k))

Spec == Init /\ [][Next]_vars /\ Fairness

-----------------------------------------------------------------------------
(* Properties                                                              *)

Registry == INSTANCE StagingRegistry
              WITH waiting <- [ck \in Corrs \X Keys |-> Registrations(ck[1], ck[2])],
                   told <- told

\* stage_dic, under every interleaving of stageFile calls and callbacks,
\* behaves as the registry the tasks rely on: stageFile registers the task
\* once per file, an outcome answers all tasks of a key at once, and a
\* timeout withdraws one registration of the timed-out task only.
RegistryRefinement == Registry!Spec

\* A task waiting in stage_dic for a file on a host is eventually answered
\* (by fileIngested or reportHostDown), without relying on its own
\* timeout: the archive server answers every request it accepted.
WaitersAnswered ==
    \A c \in Corrs, k \in Keys :
        Contains(stage_dic[k], c) ~> ~Contains(stage_dic[k], c)

=============================================================================
