------------------------------ MODULE PArchive ------------------------------
(***************************************************************************)
(* The PARCHIVE command plug-in (ngamsPlugIns/ngamsCmd_PARCHIVE.py): a     *)
(* proxy that relays the file of an archive request to the NGAS server of  *)
(* its `nexturl` parameter.  handleCmd checks the request and opens the    *)
(* source (the request's own socket, or the http:// URI it names);        *)
(* saveFromHttpToHttp announces a Content-Length to the next hop, copies  *)
(* the source block by block until the announced size is relayed or no    *)
(* byte arrived for 30 s, checks the size and the CRC and waits for the   *)
(* next hop's reply.  A refused connection to the next hop is reported to  *)
(* the request's `reporturl` and to the job manager.  The MWA job library  *)
(* builds chains of these proxies through the cluster gateways            *)
(* (getPushURL).                                                           *)
(*                                                                         *)
(* Bytes are counted, not kept: the relayed bytes are always a prefix of  *)
(* the file, so their CRC is the file's CRC exactly when all FileSize     *)
(* bytes were relayed.  Time is counted in failed reads: each sleeps 50   *)
(* ms, and Timeout of them make the 30 s without reception.               *)
(***************************************************************************)
EXTENDS Naturals

CONSTANTS
    FileSize,   \* bytes of the file
    BlockSize,  \* the server's block size
    Huge,       \* int(1e11), announced when the size is not known
    Timeout     \* failed reads that fit in 30 s without reception (bound)

ASSUME Huge > FileSize /\ BlockSize > 0 /\ Timeout > 0

\* The four ways a request reaches saveFromHttpToHttp: an archive push (size
\* in the request), a GET pull of a non-http URI, and an http:// pull whose
\* source sends a Content-Length header or does not.
Kinds == {"push", "pull", "http_cl", "http"}

\* A request with the server configuration and what its peers do: `avail`
\* is the number of bytes the source delivers; after them it closes, or
\* it stays open and sends nothing more (`closes` FALSE), as the client of
\* a GET pull does while it waits for its reply on the same socket.
Requests == [kind : Kinds, uri : BOOLEAN, nexturl : BOOLEAN,
             reporturl : BOOLEAN, checksum : BOOLEAN,
             jobMan : BOOLEAN, doCRC : BOOLEAN,
             srcUp : BOOLEAN, nextUp : BOOLEAN, avail : 0 .. FileSize,
             closes : BOOLEAN]

\* The next hop's answer as processHttpReply sees it: HTTP status, the
\* NG/AMS status document (empty, SUCCESS or FAILURE) and whether headers
\* arrived at all.
Replies == [code : {"ok", "err"}, body : {"empty", "SUCCESS", "FAILURE"},
            hdrs : BOOLEAN]

Parties == {"reporturl", "jobman"}

VARIABLES
    req,        \* the request being handled
    pc,         \* "handle", "relay", "reply", "done" or "failed"
    remSize,    \* bytes still expected
    announced,  \* the Content-Length sent to the next hop
    sizeKnown,  \* saveFromHttpToHttp's sizeKnown
    tot,        \* bytes read from the source and sent to the next hop
    idle,       \* failed reads since the last reception
    reports     \* parties told that the next hop refused the connection

vars == <<req, pc, remSize, announced, sizeKnown, tot, idle, reports>>

TypeOK ==
    /\ req \in Requests
    /\ pc \in {"handle", "relay", "reply", "done", "failed"}
    /\ remSize \in 0 .. Huge /\ announced \in 0 .. Huge
    /\ sizeKnown \in BOOLEAN
    /\ tot \in 0 .. FileSize /\ idle \in 0 .. Timeout
    /\ reports \subseteq Parties

\* The size announced to the next hop: "something huge" for a GET pull and
\* for an http pull without Content-Length; sizeKnown only for a push.
RemSize(r) ==
    CASE r.kind \in {"pull", "http"} -> Huge
      [] r.kind = "http_cl"          -> FileSize
      [] r.kind = "push"             -> FileSize

Init ==
    /\ req \in Requests
    /\ pc = "handle"
    /\ remSize = 0 /\ announced = 0 /\ sizeKnown = FALSE
    /\ tot = 0 /\ idle = 0
    /\ reports = {}

-----------------------------------------------------------------------------
(* handleCmd and the start of saveFromHttpToHttp                          *)

\* An empty URI or a missing nexturl raises; so does urlopen of an http://
\* source that cannot be reached.
Reject ==
    /\ pc = "handle"
    /\ \/ ~req.uri
       \/ ~req.nexturl
       \/ req.kind \in {"http_cl", "http"} /\ ~req.srcUp
    /\ pc' = "failed"
    /\ UNCHANGED <<req, remSize, announced, sizeKnown, tot, idle, reports>>

\* The host-down report to the job manager calls urllib2.quote, and urllib2
\* is not imported by the module: the NameError is caught and logged, and
\* the job manager is never told.
HostDownSent == FALSE

\* buildHttpClient connects to the next hop and the connection is refused:
\* the error is reported to the reporturl (whose urlopen may itself fail)
\* and, with a job manager configured, to the job manager; then re-raised.
Refused ==
    /\ pc = "handle"
    /\ req.uri /\ req.nexturl /\ (req.kind \in {"push", "pull"} \/ req.srcUp)
    /\ ~req.nextUp
    /\ \E delivered \in BOOLEAN :
          reports' = {p \in Parties :
                        \/ p = "reporturl" /\ req.reporturl /\ delivered
                        \/ p = "jobman" /\ req.jobMan /\ HostDownSent}
    /\ pc' = "failed"
    /\ UNCHANGED <<req, remSize, announced, sizeKnown, tot, idle>>

\* The headers, with Content-Length RemSize, are sent to the next hop.
Connect ==
    /\ pc = "handle"
    /\ req.uri /\ req.nexturl /\ (req.kind \in {"push", "pull"} \/ req.srcUp)
    /\ req.nextUp
    /\ remSize' = RemSize(req)
    /\ announced' = RemSize(req)
    /\ sizeKnown' = (req.kind = "push")
    /\ pc' = "relay"
    /\ UNCHANGED <<req, tot, idle, reports>>

-----------------------------------------------------------------------------
(* The relay loop: while remSize > 0 and less than 30 s since reception    *)

MutLooping == remSize > 0 \/ idle < Timeout

\* The loop condition.
Looping == remSize > 0 /\ idle < Timeout

\* rdSize shrinks to remSize and never grows back.
RdSize == IF remSize < BlockSize THEN remSize ELSE BlockSize

\* rfile.read(rdSize) returns rdSize bytes, or what is left before the
\* source closes; the block is sent on and lastRecepTime refreshed.
ReadBlock ==
    /\ pc = "relay" /\ Looping
    /\ tot < req.avail
    /\ LET n == IF req.avail - tot < RdSize THEN req.avail - tot ELSE RdSize
       IN  /\ tot' = tot + n
           /\ remSize' = remSize - n
    /\ idle' = 0
    /\ UNCHANGED <<req, pc, announced, sizeKnown, reports>>

\* sendall of a block raises: the next hop dropped the connection.
SendFails ==
    /\ pc = "relay" /\ Looping
    /\ tot < req.avail
    /\ pc' = "failed"
    /\ UNCHANGED <<req, remSize, announced, sizeKnown, tot, idle, reports>>

MutReadNothing ==
    /\ pc = "relay" /\ Looping
    /\ tot = req.avail /\ req.closes
    /\ idle' = 0
    /\ UNCHANGED <<req, pc, remSize, announced, sizeKnown, tot, reports>>

\* The source has closed: the read returns "", the loop sleeps 50 ms.
\* rfile.read has no timeout (neither the request socket nor the urlopen
\* of an http:// source sets one): on a source that stays open and silent
\* it blocks, no step of the handler is enabled, and the 30 s check of
\* the loop condition is never reached again.
ReadNothing ==
    /\ pc = "relay" /\ Looping
    /\ tot = req.avail /\ req.closes
    /\ idle' = idle + 1
    /\ UNCHANGED <<req, pc, remSize, announced, sizeKnown, tot, reports>>

\* The proxy's CRC of the relayed bytes differs from the request's
\* checksum header (checked only with proxy CRC configured).
CrcMismatch == req.doCRC /\ req.checksum /\ tot # FileSize

\* After the loop: a push that received less than its size raises
\* NGAMS_ER_ARCH_RECV, a CRC mismatch raises, otherwise the reply is read.
EndLoop ==
    /\ pc = "relay" /\ ~Looping
    /\ pc' = IF (sizeKnown /\ remSize > 0) \/ CrcMismatch THEN "failed" ELSE "reply"
    /\ UNCHANGED <<req, remSize, announced, sizeKnown, tot, idle, reports>>

\* The next hop reads the Content-Length it was announced; one that got
\* fewer bytes does not answer with HTTP success.
NextHopReplies ==
    IF tot = announced THEN Replies ELSE {r \in Replies : r.code = "err"}

MutProcessHttpReply(r) == r.hdrs /\ r.body # "FAILURE"

\* processHttpReply returns without raising: headers arrived, the HTTP
\* status is success and the status document is not FAILURE (an empty
\* one counts as success).
ProcessHttpReply(r) == r.hdrs /\ r.code = "ok" /\ r.body # "FAILURE"

Reply ==
    /\ pc = "reply"
    /\ \E r \in NextHopReplies : pc' = IF ProcessHttpReply(r) THEN "done" ELSE "failed"
    /\ UNCHANGED <<req, remSize, announced, sizeKnown, tot, idle, reports>>

Next ==
    \/ Reject \/ Refused \/ Connect
    \/ ReadBlock \/ SendFails \/ ReadNothing \/ EndLoop
    \/ Reply

\* One request-handler thread runs the command; a step that can proceed
\* eventually does (a blocked read is not enabled).
Spec == Init /\ [][Next]_vars /\ WF_vars(Next)

-----------------------------------------------------------------------------
(* Properties                                                              *)

\* handleCmd reports success only when the next hop holds the whole file:
\* the source delivered all of it, all of it was relayed and the next hop
\* was announced exactly that size.  A short source must be caught by the
\* size check, the CRC check or the next hop's reply.
SuccessImpliesComplete ==
    pc = "done" => req.avail = FileSize /\ tot = FileSize /\ announced = FileSize

\* Every request whose source closes is answered: after the source closes
\* the reads return nothing and the relay loop ends by the 30 s reception
\* check, even when the announced size (1e11 for a GET pull or an http
\* pull without Content-Length) can never be reached.  A source that stays
\* open blocks the read instead, which no check of the loop bounds.
AnsweredWhenSourceCloses == req.closes => <>(pc \in {"done", "failed"})

=============================================================================
