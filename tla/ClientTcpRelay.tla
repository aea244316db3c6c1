---------------------------- MODULE ClientTcpRelay ----------------------------
(* One SOCKS CONNECT connection of the client (uk-client relay/tcp.rs, and   *)
(* the buffering of local data while the flow opens, relay/context.rs        *)
(* PendingOpenLocalData).  Application bytes are numbered, so what each side *)
(* received can be compared with what the other side sent.                   *)
EXTENDS Integers, Sequences

CONSTANTS
    MaxUp,              \* chunks the local application may send
    MaxDown,            \* data frames the server may send
    max_pending_open,   \* chunks buffered while opening
    PullLimit           \* frames the flow's queue holds

ASSUME PendingAssumption == max_pending_open \in Nat

VARIABLES
    state,          \* ClientConnectionState
    step,           \* the handler's step
    app,            \* the application's unread chunks, then its end: [next, eof]
    pending,        \* chunks read while opening
    sent,           \* chunks sent to the server, in order
    closeSent,      \* "none", "normal" or "error" TCP_CLOSE sent for the flow
    frames,         \* the flow's queue of frames from the server
    srv,            \* what the server still sends: [next, done]
    written,        \* data frames written to the local socket
    fin,            \* the local socket's write half was shut down
    up, down,       \* local_to_remote_open, remote_to_local_open
    shutdown, truncated,
    outcome         \* "running", "ok" or "err"

tcpVars == <<state, step, app, pending, sent, closeSent, frames, srv, written, fin, up, down,
             shutdown, truncated, outcome>>
appVars == <<app, pending, sent>>
netVars == <<frames, srv>>

TcpInit ==
    /\ state = "NegotiatingSocks" /\ step = "negotiate"
    /\ app = [next |-> 1, eof |-> FALSE] /\ pending = <<>> /\ sent = <<>>
    /\ closeSent = "none" /\ frames = <<>> /\ srv = [next |-> 1, done |-> FALSE]
    /\ written = <<>> /\ fin = FALSE /\ up = TRUE /\ down = TRUE
    /\ shutdown = FALSE /\ truncated = FALSE /\ outcome = "running"

ValidTransitions ==
    {<<"NegotiatingSocks", "Opening">>, <<"NegotiatingSocks", "Relaying">>,
     <<"NegotiatingSocks", "Closed">>, <<"Opening", "Relaying">>, <<"Opening", "Closing">>,
     <<"Opening", "Closed">>, <<"Relaying", "Closing">>, <<"Relaying", "Closed">>,
     <<"Closing", "Closed">>}

(* The handler returns; the route is removed and the sockets are dropped. *)
Return(s, r) == state' = s /\ step' = "returned" /\ outcome' = r

(* relay_tcp's result: an error makes the handler send an error close. *)
RelayError ==
    /\ Return("Closing", "err")
    /\ closeSent' = "error"

----------------------------------------------------------------------------
(* The local application writes at its own pace, then closes. *)
AppSends ==
    /\ ~app.eof /\ app.next <= MaxUp
    /\ app' = [app EXCEPT !.next = @ + 1]
    /\ UNCHANGED <<state, step, pending, sent, closeSent, netVars, written, fin, up, down,
                   shutdown, truncated, outcome>>

AppCloses ==
    /\ ~app.eof
    /\ app' = [app EXCEPT !.eof = TRUE]
    /\ UNCHANGED <<state, step, pending, sent, closeSent, netVars, written, fin, up, down,
                   shutdown, truncated, outcome>>

(* The server is not trusted to stop: data may follow its close. *)
ServerSends ==
    /\ step \in {"reply", "flush", "loop", "write", "drain", "deliver"}
    /\ Len(frames) < PullLimit
    /\ \/ /\ srv.next <= MaxDown
          /\ frames' = Append(frames, [kind |-> "data", n |-> srv.next])
          /\ srv' = [srv EXCEPT !.next = @ + 1]
       \/ \E f \in {"close", "closeError", "status"} :
             /\ ~srv.done
             /\ frames' = Append(frames, [kind |-> f, n |-> 0]) /\ srv' = [srv EXCEPT !.done = TRUE]
    /\ UNCHANGED <<state, step, appVars, closeSent, written, fin, up, down, shutdown, truncated, outcome>>

BeginStop ==
    /\ ~shutdown /\ shutdown' = TRUE
    /\ UNCHANGED <<state, step, appVars, closeSent, netVars, written, fin, up, down,
                   truncated, outcome>>

ReadCount == Len(pending) + Len(sent)
Unread == ReadCount + 1 < app.next

----------------------------------------------------------------------------
(* The SOCKS negotiation, up to the answer to its request. *)
Negotiate ==
    /\ step = "negotiate"
    /\ \/ step' = "open" /\ state' = "Opening" /\ UNCHANGED outcome
       \/ shutdown /\ Return("Closed", "ok")
       \/ Return(state, "err")      \* a malformed request or the handshake timeout
    /\ UNCHANGED <<appVars, closeSent, netVars, written, fin, up, down, shutdown, truncated>>

(* While the open is pending, local data is buffered up to the limit; beyond *)
(* it, or when the application closes or shutdown comes, it is cancelled.    *)
BufferLocal ==
    /\ step = "open" /\ Unread
    /\ IF Len(pending) < max_pending_open
       THEN /\ pending' = Append(pending, ReadCount + 1)
            /\ UNCHANGED <<step, state, outcome, closeSent>>
       ELSE /\ Return("Closed", "ok") /\ closeSent' = "error" /\ UNCHANGED pending
    /\ UNCHANGED <<app, sent, netVars, written, fin, up, down, shutdown, truncated>>

CancelOpen ==
    /\ step = "open"
    /\ (app.eof /\ ~Unread) \/ shutdown
    /\ Return("Closed", "ok") /\ closeSent' = "error"
    /\ UNCHANGED <<appVars, netVars, written, fin, up, down, shutdown, truncated>>

OpenAnswered ==
    /\ step = "open"
    /\ \/ step' = "reply" /\ UNCHANGED <<state, outcome>>
       \/ Return("Closed", "ok")        \* rejected: the SOCKS reply says why
       \/ Return("Closing", "err")      \* then Closed, see Finish
    /\ UNCHANGED <<appVars, closeSent, netVars, written, fin, up, down, shutdown, truncated>>

Reply ==
    /\ step = "reply"
    /\ \/ step' = "flush" /\ state' = "Relaying" /\ UNCHANGED <<outcome, closeSent>>
       \/ Return("Closing", "err") /\ closeSent' = "error"
    /\ UNCHANGED <<appVars, netVars, written, fin, up, down, shutdown, truncated>>

(* flush_pending_local_data, before anything else is read. *)
flush_pending_local_data ==
    /\ step = "flush"
    /\ IF pending = <<>>
       THEN step' = "loop" /\ UNCHANGED <<pending, sent>>
       ELSE /\ sent' = Append(sent, Head(pending)) /\ pending' = Tail(pending)
            /\ UNCHANGED step
    /\ UNCHANGED <<state, app, closeSent, netVars, written, fin, up, down, shutdown, truncated,
                   outcome>>

----------------------------------------------------------------------------
(* relay_tcp's select loop: each branch is one action. *)
ReadLocal ==
    /\ step = "loop" /\ up
    /\ \/ /\ Unread
          /\ sent' = Append(sent, ReadCount + 1)
          /\ UNCHANGED <<closeSent, up>>
       \/ /\ ~Unread /\ app.eof
          /\ closeSent' = "normal" /\ up' = FALSE
          /\ UNCHANGED sent
    /\ UNCHANGED <<state, step, app, pending, netVars, written, fin, down, shutdown, truncated, outcome>>

(* A carrier write fails, or the local socket reports an error. *)
RelayFails ==
    /\ step \in {"flush", "loop", "write", "drain", "deliver"}
    /\ RelayError
    /\ UNCHANGED <<appVars, netVars, written, fin, up, down, shutdown, truncated>>

(* A frame of the flow: data is written to the local socket, a close shuts   *)
(* the local write half and, unless it is a normal one, the upload too.      *)
Receive ==
    /\ step = "loop" /\ (up \/ down) /\ frames # <<>>
    /\ frames' = Tail(frames)
    /\ LET f == Head(frames) IN
          \/ /\ f.kind = "data" /\ down
             /\ step' = "write" /\ written' = Append(written, f.n)
             /\ UNCHANGED <<state, outcome, closeSent, fin, up, down>>
          \/ /\ f.kind = "data" /\ ~down
             /\ RelayError /\ UNCHANGED <<written, fin, up, down>>
          \/ /\ f.kind # "data"
             /\ fin' = TRUE /\ down' = FALSE
             /\ up' = (up /\ f.kind = "close" /\ down)
             /\ UNCHANGED <<step, state, outcome, closeSent, written>>
    /\ UNCHANGED <<appVars, srv, shutdown, truncated>>

(* write_all_or_shutdown: the payload is written in full; if shutdown has    *)
(* come meanwhile the local write half is closed and the relay is over.      *)
WriteEnds ==
    /\ step = "write"
    /\ step' = "loop"
    /\ IF shutdown THEN fin' = TRUE /\ up' = FALSE /\ down' = FALSE ELSE UNCHANGED <<fin, up, down>>
    /\ UNCHANGED <<state, appVars, closeSent, netVars, written, shutdown, truncated, outcome>>

(* The session closed or removed the route: the queue ends. *)
QueueEnds ==
    /\ step = "loop" /\ (up \/ down) /\ frames = <<>>
    /\ fin' = TRUE /\ up' = FALSE /\ down' = FALSE
    /\ UNCHANGED <<state, step, appVars, closeSent, netVars, written, shutdown, truncated, outcome>>

SeeShutdown ==
    /\ step = "loop" /\ (up \/ down) /\ shutdown
    /\ step' = IF up THEN "drain" ELSE "deliver"
    /\ UNCHANGED <<state, appVars, closeSent, netVars, written, fin, up, down, shutdown, truncated,
                   outcome>>

drain_uploadMutant ==
    /\ step = "drain"
    /\ \/ /\ Unread
          /\ sent' = Append(sent, ReadCount + 1)
          /\ UNCHANGED <<step, closeSent, up>>
       \/ /\ closeSent' = "normal" /\ up' = FALSE /\ step' = "deliver"
          /\ UNCHANGED sent
    /\ UNCHANGED <<state, app, pending, netVars, written, fin, down, shutdown, outcome, truncated>>

drain_uploadMutant2 ==
    /\ step = "drain"
    /\ \/ /\ Unread
          /\ sent' = Append(sent, ReadCount + 1)
          /\ UNCHANGED <<step, closeSent, up>>
       \/ /\ ~Unread /\ app.eof
          /\ closeSent' = "normal" /\ up' = FALSE /\ step' = "deliver"
          /\ UNCHANGED sent
    /\ UNCHANGED <<state, app, pending, netVars, written, fin, down, shutdown, outcome, truncated>>

(* drain_upload_before_shutdown: until the application's end, or the budget  *)
(* passes and the truncation is counted; then TCP_CLOSE.                     *)
drain_upload_before_shutdown ==
    /\ step = "drain"
    /\ \/ /\ Unread
          /\ sent' = Append(sent, ReadCount + 1)
          /\ UNCHANGED <<step, closeSent, up, truncated>>
       \/ /\ ~Unread /\ app.eof
          /\ closeSent' = "normal" /\ up' = FALSE /\ step' = "deliver"
          /\ UNCHANGED <<sent, truncated>>
       \/ /\ closeSent' = "normal" /\ up' = FALSE /\ step' = "deliver"
          /\ truncated' = TRUE
          /\ UNCHANGED sent
    /\ UNCHANGED <<state, app, pending, netVars, written, fin, down, shutdown, outcome>>

DataQueued == IF frames = <<>> THEN FALSE ELSE Head(frames).kind = "data"

(* flush_buffered_frames_before_shutdown: what is queued now is written, up  *)
(* to the first frame that is not data; then the local write half is closed. *)
(* A write half that the server's close has already shut refuses the data.   *)
flush_buffered_frames_before_shutdown ==
    /\ step = "deliver"
    /\ frames' = IF frames = <<>> THEN frames ELSE Tail(frames)
    /\ \/ /\ DataQueued /\ ~fin
          /\ written' = Append(written, Head(frames).n)
          /\ UNCHANGED <<state, step, outcome, closeSent, fin, down>>
       \/ /\ DataQueued /\ fin
          /\ RelayError /\ UNCHANGED <<written, fin, down>>
       \/ /\ ~DataQueued
          /\ fin' = TRUE /\ down' = FALSE /\ step' = "loop"
          /\ UNCHANGED <<state, outcome, closeSent, written>>
    /\ UNCHANGED <<appVars, srv, up, shutdown, truncated>>

RelayDone ==
    /\ step = "loop" /\ ~up /\ ~down
    /\ Return("Closed", "ok")
    /\ UNCHANGED <<appVars, closeSent, netVars, written, fin, up, down, shutdown, truncated>>

Finish ==
    /\ step = "returned" /\ state = "Closing"
    /\ state' = "Closed"
    /\ UNCHANGED <<step, appVars, closeSent, netVars, written, fin, up, down, shutdown, truncated, outcome>>

RelayTask ==
    \/ flush_pending_local_data \/ ReadLocal \/ Receive \/ WriteEnds \/ SeeShutdown
    \/ drain_upload_before_shutdown \/ flush_buffered_frames_before_shutdown \/ RelayDone

TcpNext ==
    \/ AppSends \/ AppCloses \/ ServerSends \/ BeginStop
    \/ Negotiate \/ BufferLocal \/ CancelOpen \/ OpenAnswered \/ Reply
    \/ RelayTask \/ RelayFails \/ QueueEnds \/ Finish

----------------------------------------------------------------------------
(* Well-formed states; the local data buffered during the open stays in bounds. *)
TcpTypeOK ==
    /\ state \in {"NegotiatingSocks", "Opening", "Relaying", "Closing", "Closed"}
    /\ outcome \in {"running", "ok", "err"} /\ closeSent \in {"none", "normal", "error"}
    /\ up \in BOOLEAN /\ down \in BOOLEAN /\ fin \in BOOLEAN
    /\ Len(pending) <= max_pending_open

(* The server receives the application's bytes in order, without a gap or a  *)
(* repetition, although some were read while the flow was opening and some   *)
(* during the drain: sent is always a prefix of what the application wrote.  *)
UploadInOrder == sent \o pending = [i \in 1..ReadCount |-> i] /\ ReadCount < app.next

(* A normal TCP_CLOSE tells the server that the upload is complete: it goes  *)
(* out only when everything the application wrote before its end has been    *)
(* sent, or the truncation has been counted.                                 *)
NormalCloseIsComplete ==
    (closeSent = "normal" /\ ~truncated) => (app.eof /\ ReadCount + 1 = app.next)

(* The local application receives the server's bytes in order and without a  *)
(* gap, and after the end of the stream nothing more.                        *)
DownloadInOrder == written = [i \in 1..Len(written) |-> i]

(* A relayed connection carries bytes intact both ways: the server receives  *)
(* a prefix of what the application wrote although part was read while the   *)
(* flow opened, a normal close follows all of it or the truncation was       *)
(* counted, and the application receives the server's bytes in order         *)
(* (relay_tcp, drain_upload_before_shutdown).                                *)
BytesIntact == TcpTypeOK /\ UploadInOrder /\ NormalCloseIsComplete /\ DownloadInOrder

(* No data is written behind the FIN: relay_tcp treats data after the        *)
(* remote's close as an error.                                               *)
NothingAfterFin == fin => written' = written

(* Every state change is one is_valid_connection_transition allows, which    *)
(* transition asserts in debug builds.                                       *)
TransitionsValid == state' # state => <<state, state'>> \in ValidTransitions

(* A relay told to stop ends, whatever the application and the server do.    *)
RelayStops == (shutdown /\ state = "Relaying") ~> (step = "returned")

(* When the application and the server have both ended their streams, the    *)
(* relay ends too.                                                           *)
BothEndsFinish == (step = "loop" /\ app.eof /\ srv.done) ~> (step = "returned")

TcpFairness == WF_tcpVars(RelayTask)

TcpSpec == TcpInit /\ [][TcpNext]_tcpVars /\ TcpFairness
=============================================================================
