------------------------------- MODULE MITMove -------------------------------
(***************************************************************************)
(* The MWA_MIT_MOVE command (ngamsPlugIns/contributed/mwa/                 *)
(* ngamsCmd_MWA_MIT_MOVE.py) moves a file of this host to a target NGAS    *)
(* server: it checks the request, compares the file's CRC with the one of  *)
(* the DB, archives a copy on the target with QARCHIVE (the CRC attached   *)
(* as a header, at most three trials) and then discards the local file.   *)
(* Each trial is an httpPostUrl of ngamsHttpUtils: _connect with its       *)
(* retries on ECONNRESET, the request, and the reply read in full.         *)
(*                                                                         *)
(* The target is the environment.  It archives what it received as a new   *)
(* version, or answers with an error; when the request carries the CRC     *)
(* header it refuses data whose CRC differs.  Between the hosts the bytes  *)
(* may be altered (TransitCorruption), the connection may fail while the  *)
(* request is sent, and the reply may be lost after the target acted.     *)
(***************************************************************************)
EXTENDS Naturals, Sequences

CONSTANTS
    ConnectRetries,     \* _connect_retries (5 in the code; bound)
    TransitCorruption   \* the bytes may be altered on their way (BOOLEAN)

\* `for i in range(3)`: the number of trials.
Trials == 3

\* What handleCmd's preliminary checks look at.
Requests == [exists : BOOLEAN, params : BOOLEAN, visFile : BOOLEAN,
             debug : BOOLEAN, crcOk : BOOLEAN]

\* What the client is sent: the HTTP codes of the early returns, the
\* exception of the MWA check, the debug answer, a failed move, a failed
\* removal and MOVE_SUCCESS; "none" while the command runs.
Answers == {"none", "501", "502", "ValueError", "DEBUG ONLY", "504", "505",
            "Remove error", "MOVEALLOK"}

VARIABLES
    req,        \* the request
    pc,         \* "check", "connect", "post", "discard" or "done"
    trial,      \* trials finished
    ntry,       \* ECONNRESETs of the current _connect
    hdrs,       \* the headers the next trial sends: "checksum" or "reply"
    archived,   \* the versions the target archived, in order
    src,        \* the local file: "kept" or "discarded"
    answer      \* what the client was sent

vars == <<req, pc, trial, ntry, hdrs, archived, src, answer>>

TypeOK ==
    /\ req \in Requests
    /\ pc \in {"check", "connect", "post", "discard", "done"}
    /\ trial \in 0 .. Trials /\ ntry \in 0 .. ConnectRetries
    /\ hdrs \in {"checksum", "reply"}
    /\ archived \in Seq({"intact", "corrupt"}) /\ Len(archived) <= Trials
    /\ src \in {"kept", "discarded"}
    /\ answer \in Answers

Init ==
    /\ req \in Requests
    /\ pc = "check"
    /\ trial = 0 /\ ntry = 0
    /\ hdrs = "checksum"
    /\ archived = <<>>
    /\ src = "kept"
    /\ answer = "none"

-----------------------------------------------------------------------------
(* handleCmd up to the trials                                              *)

\* The early returns in their order.  The MWA check formats its message
\* with a lone '%', which raises ValueError instead of answering 503.
Preliminary(r) ==
    CASE ~r.exists  -> "501"
      [] ~r.params  -> "502"
      [] ~r.visFile -> "ValueError"
      [] r.debug    -> "DEBUG ONLY"
      [] ~r.crcOk   -> "504"
      [] OTHER      -> "none"

Check ==
    /\ pc = "check"
    /\ answer' = Preliminary(req)
    /\ pc' = IF Preliminary(req) = "none" THEN "connect" ELSE "done"
    /\ UNCHANGED <<req, trial, ntry, hdrs, archived, src>>

\* The end of a trial that did not deliver: the next trial, or after the
\* last one the 505 answer.
Retry ==
    /\ trial' = trial + 1
    /\ ntry' = 0
    /\ pc' = IF trial + 1 < Trials THEN "connect" ELSE "done"
    /\ answer' = IF trial + 1 < Trials THEN answer ELSE "505"

-----------------------------------------------------------------------------
(* One trial: httpPostUrl                                                  *)

\* _connect: the connection is accepted, or reset by a full backlog (tried
\* again up to _connect_retries times), or fails otherwise; an exception
\* ends the trial with hdrs as they were.
Connect ==
    /\ pc = "connect"
    /\ \/ /\ pc' = "post"
          /\ UNCHANGED <<trial, ntry, answer>>
       \/ /\ ntry + 1 < ConnectRetries
          /\ ntry' = ntry + 1
          /\ UNCHANGED <<pc, trial, answer>>
       \/ /\ ntry + 1 = ConnectRetries
          /\ Retry
       \/ Retry
    /\ UNCHANGED <<req, hdrs, archived, src>>

\* Whether the copy the target reads may differ from the file: altered in
\* transit, or cut short because the reply headers sent as request headers
\* carry the reply's content-length, which httplib sends in place of the
\* file's size (a reply without a body has none).
Altered ==
    IF TransitCorruption \/ hdrs = "reply" THEN BOOLEAN ELSE {FALSE}

\* _http_response's conn.request: the request is sent whole; or the target
\* closes the connection while the body is written (EPIPE, EPROTOTYPE),
\* which is tolerated and the target's response read all the same; or
\* another socket error closes the connection and raises.
Sent == {"whole", "closed", "error"}

\* httpPost's reading of the response: the status line, the headers and
\* content-length bytes of body arrive, or the connection drops first and
\* httplib's error or 'error reading data' is raised.
ReplyRead == {"full", "cut"}

\* The target's verdict on what it received: one that closed the
\* connection early has answered with an error; with the CRC header it
\* refuses altered data; otherwise it archives the copy or fails for its
\* own reasons.
Verdicts(corrupt, sent) ==
    CASE sent = "closed"                  -> {"error"}
      [] hdrs = "checksum" /\ corrupt     -> {"refuse"}
      [] OTHER                            -> {"archive", "error"}

\* What the target holds after its verdict on a copy: a new version.
Stored(verdict, corrupt) ==
    IF verdict = "archive"
    THEN Append(archived, IF corrupt THEN "corrupt" ELSE "intact")
    ELSE archived

\* One httpPostUrl and what handleCmd makes of it.  An exception leaves
\* hdrs as they were and ends the trial.  A reply read in full is an HTTP
\* status and an NG/AMS status (an empty body counts as SUCCESS); success
\* ends the trials.  Otherwise the loop continues, and `reply, msg, hdrs,
\* data = httpPostUrl(...)` has replaced the request headers, CRC
\* included, by the reply's headers for the next trial.
Post ==
    /\ pc = "post"
    /\ \E sent \in Sent :
       \/ /\ sent = "error"
          /\ Retry
          /\ UNCHANGED <<hdrs, archived>>
       \/ /\ sent # "error"
          /\ \E corrupt \in Altered :
             \E verdict \in Verdicts(corrupt, sent), read \in ReplyRead :
                /\ archived' = Stored(verdict, corrupt)
                /\ IF read = "full" /\ verdict = "archive"
                   THEN /\ pc' = "discard"
                        /\ UNCHANGED <<trial, ntry, answer, hdrs>>
                   ELSE /\ Retry
                        /\ hdrs' = IF read = "full" THEN "reply" ELSE hdrs
    /\ UNCHANGED <<req, src>>

-----------------------------------------------------------------------------

\* ngamsDiscardCmd._discardFile removes the local copy, or raises and the
\* client is told of the removal error.
Discard ==
    /\ pc = "discard"
    /\ \/ src' = "discarded" /\ answer' = "MOVEALLOK"
       \/ answer' = "Remove error" /\ UNCHANGED src
    /\ pc' = "done"
    /\ UNCHANGED <<req, trial, ntry, hdrs, archived>>

Next == Check \/ Connect \/ Post \/ Discard

Spec == Init /\ [][Next]_vars

-----------------------------------------------------------------------------

\* The move never loses the file: once the local copy is discarded, the
\* target holds an intact version.  This is what attaching the CRC to the
\* archive request is for (step 3 of the module's docstring).
IntactCopySurvives ==
    src = "discarded" => \E i \in DOMAIN archived : archived[i] = "intact"

=============================================================================
