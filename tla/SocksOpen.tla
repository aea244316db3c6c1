----------------------------- MODULE SocksOpen ------------------------------
(***************************************************************************)
(* One SOCKS5 connection from the greeting to its reply                    *)
(* (uk-client/src/socks5.rs, relay/tcp.rs), and the open request that its  *)
(* target becomes at the server.  The application sends a script, stops at *)
(* any read of it, and then closes its sending side ("eof"), keeps silent  *)
(* ("stall") or resets ("gone": reads and writes both fail).               *)
(***************************************************************************)
EXTENDS Target

CONSTANTS
    Scripts,         \* [version, methods, head_version, command, reserved, atyp, host, port]
    Packets          \* SOCKS UDP packets: [header, atyp, host, port]

VARIABLES
    app,             \* the script with where it stops and how
    phase,           \* what the connection task does next
    sent,            \* verdicts written to the application
    request,         \* the target asked for, once parsed
    wire,            \* the open payload in flight
    attempt,         \* tries of open_flow
    served,          \* targets the server decoded
    silent,          \* why the connection ended without a verdict
    stopping         \* the listener shuts down

socksVars == <<app, phase, sent, request, wire, attempt, served, silent, stopping>>

VERSION == 5
METHOD_NO_AUTH == 0
CMD_CONNECT == 1
CMD_UDP_ASSOCIATE == 3
ATYP_IPV4 == 1
ATYP_DOMAIN == 3
ATYP_IPV6 == 4
MAX_ATTEMPTS == 2    \* for attempt in 0..2

NoRequest == [command |-> 0]
NoWire == [protocol |-> "none"]
ReadPoints == 0..6
Unanswered == [answer |-> [kind |-> "none", code |-> "none"], target |-> <<>>]

SocksInit ==
    /\ app \in [script : Scripts, cut : ReadPoints, end : {"eof", "stall", "gone"}]
    /\ phase = "version"
    /\ sent = <<>> /\ request = NoRequest /\ wire = NoWire
    /\ attempt = 1 /\ served = <<>> /\ silent = "" /\ stopping = FALSE

Available(point) == app.cut >= point
Selection(method) == [kind |-> "method", code |-> method]
Reply(code) == [kind |-> "reply", code |-> code]

Stay == UNCHANGED <<app, request, wire, attempt, served, stopping>>
CloseSilently(why) == phase' = "closed" /\ silent' = why /\ UNCHANGED sent /\ Stay
(* A reply is written, and the task goes on to next; the write fails when the *)
(* application is gone.                                                      *)
Write(verdict, next) ==
    \/ phase' = next /\ sent' = Append(sent, verdict) /\ UNCHANGED silent /\ Stay
    \/ app.end = "gone" /\ CloseSilently("gone")
CloseWith(verdict) == Write(verdict, "closed")

(* A read the application never satisfies: end of input, a reset, or the   *)
(* handshake timeout.                                                      *)
ReadFails(point, onEof) ==
    /\ ~Available(point)
    /\ \/ app.end = "eof" /\ onEof
       \/ app.end = "gone" /\ CloseSilently("gone")
       \/ app.end = "stall" /\ CloseSilently("timeout")

Advance(next) == phase' = next /\ UNCHANGED <<sent, silent>> /\ Stay

(* read_greeting: version, then the method count, then the methods *)
ReadVersion ==
    /\ phase = "version"
    /\ \/ ReadFails(1, CloseSilently("no_greeting"))
       \/ /\ Available(1)
          /\ IF app.script.version = VERSION THEN Advance("methods")
             ELSE CloseSilently("not_socks5")

ReadMethods ==
    /\ phase = "methods"
    /\ \/ ReadFails(2, CloseWith(Selection("NoAcceptable")))
       \/ /\ Available(2)
          /\ IF METHOD_NO_AUTH \in app.script.methods
             THEN Write(Selection("NoAuth"), "head")
             ELSE CloseWith(Selection("NoAcceptable"))

(* read_request_head *)
read_request_headMutant ==
    /\ phase = "head"
    /\ \/ ReadFails(3, CloseWith(Reply("GeneralFailure")))
       \/ /\ Available(3)
          /\ IF app.script.head_version # VERSION \/ app.script.reserved # 0
             THEN CloseSilently("bad_head")
             ELSE IF app.script.command \notin {CMD_CONNECT, CMD_UDP_ASSOCIATE}
             THEN CloseWith(Reply("CommandNotSupported"))
             ELSE Advance("endpoint")
read_request_head ==
    /\ phase = "head"
    /\ \/ ReadFails(3, CloseWith(Reply("GeneralFailure")))
       \/ /\ Available(3)
          /\ IF app.script.head_version # VERSION \/ app.script.reserved # 0
             THEN CloseWith(Reply("GeneralFailure"))
             ELSE IF app.script.command \notin {CMD_CONNECT, CMD_UDP_ASSOCIATE}
             THEN CloseWith(Reply("CommandNotSupported"))
             ELSE Advance("endpoint")

(* socks5.rs validate_domain: length and control characters only. *)
validate_udp_associate_endpoint(host) ==
    host.type = ADDR_DOMAIN =>
        HostLen(host) \in 1..MAX_DOMAIN_LEN /\ "control" \notin Shapes(host)

(* read_endpoint and the validation that read_request adds *)
read_endpoint ==
    /\ phase = "endpoint"
    /\ \/ /\ app.script.atyp \notin {ATYP_IPV4, ATYP_DOMAIN, ATYP_IPV6}
          /\ CloseWith(Reply("AddressTypeNotSupported"))
       \/ /\ app.script.atyp \in {ATYP_IPV4, ATYP_DOMAIN, ATYP_IPV6}
          /\ \E point \in {4, 5} :
                /\ point = 5 => Available(4)
                /\ ReadFails(point, CloseWith(Reply("GeneralFailure")))
       \/ /\ app.script.atyp \in {ATYP_IPV4, ATYP_DOMAIN, ATYP_IPV6} /\ Available(5)
          /\ LET target == [host |-> app.script.host, port |-> app.script.port]
             IN  IF \/ "not_utf8" \in Shapes(target.host)
                    \/ app.script.command = CMD_CONNECT /\ ~Encodable(target)
                    \/ /\ app.script.command = CMD_UDP_ASSOCIATE
                       /\ ~validate_udp_associate_endpoint(target.host)
                 THEN CloseWith(Reply("GeneralFailure"))
                 ELSE /\ request' = [command |-> app.script.command, target |-> target]
                      /\ phase' = IF app.script.command = CMD_CONNECT THEN "open" ELSE "associate"
                      /\ UNCHANGED <<app, sent, wire, attempt, served, silent, stopping>>

(* relay_udp_association up to its reply: the server offers UDP or not,    *)
(* the session could not be had, or the socket could not be bound.         *)
relay_udp_association ==
    /\ phase = "associate"
    /\ \/ stopping /\ CloseSilently("shutdown")
       \/ CloseWith(Reply("CommandNotSupported"))
       \/ CloseWith(Reply("GeneralFailure"))
       \/ CloseSilently("bind")
       \/ Write(Reply("Succeeded"), "associated")

(* handle_local_udp_datagram: decode_udp_datagram drops what is not whole, *)
(* fragmented or no target; the rest asks the server for its target.       *)
decode_udp_datagram(packet) ==
    /\ packet.header = <<0, 0, 0>>
    /\ packet.atyp \in {ATYP_IPV4, ATYP_DOMAIN, ATYP_IPV6}
    /\ Encodable([host |-> packet.host, port |-> packet.port])

handle_local_udp_datagram ==
    /\ phase = "associated"
    /\ \E packet \in Packets :
          /\ decode_udp_datagram(packet)
          /\ request' = [command |-> CMD_UDP_ASSOCIATE,
                         target |-> [host |-> packet.host, port |-> packet.port]]
    /\ phase' = "open"
    /\ UNCHANGED <<app, sent, wire, attempt, served, silent, stopping>>

Protocol == IF request.command = CMD_CONNECT THEN "tcp" ELSE "udp"

(* A failed open ends a CONNECT with a reply; it costs an association only   *)
(* the datagram.                                                            *)
Refuse(reply) ==
    IF request.command = CMD_CONNECT THEN CloseWith(Reply(reply))
    ELSE /\ phase' = "associated" /\ wire' = NoWire /\ attempt' = 1 /\ served' = <<>>
         /\ UNCHANGED <<app, sent, request, silent, stopping>>

(* ClientSessionManager::open_flow: an admission, then TCP_OPEN or UDP_OPEN. *)
send_open ==
    /\ phase = "open"
    /\ \/ /\ stopping /\ CloseSilently("shutdown")
       \/ Refuse("GeneralFailure")                    \* capacity exhausted, or no session
       \/ /\ wire' = [protocol |-> Protocol, payload |-> encode_open(Protocol, request.target)]
          /\ phase' = "wait"
          /\ UNCHANGED <<app, sent, request, attempt, served, silent, stopping>>

(* map_error_payload and decode_open_response *)
map_error(code) ==
    CASE code \in {"InvalidTarget", "TargetUnavailable", "TargetTimeout"} -> "HostUnreachable"
      [] code = "PolicyDenied" -> "NotAllowed"
      [] OTHER -> "GeneralFailure"

open_reply(answer) ==
    CASE answer.kind = "data" -> "Succeeded"
      [] answer.kind = "close" /\ answer.code = "Normal" -> "ConnectionRefused"
      [] answer.kind = "close" -> "GeneralFailure"
      [] OTHER -> map_error(answer.code)

(* The server's first frame for the flow: a decode error, a rejection      *)
(* before the target is used, or the outcome of dialing it.                *)
ServerAnswers ==
    LET decoded == decode_open(wire.protocol, wire.payload)
    IN  IF decoded.ok
        THEN {[kind |-> "data", code |-> "Accepted"], [kind |-> "close", code |-> "Error"]}
             \cup [kind : {"error"}, code : {"PolicyDenied", "ResourceLimit",
                                             "TargetUnavailable", "TargetTimeout", "Protocol"}]
        ELSE {[kind |-> "error", code |-> decoded.error]}

ServerReceives ==
    /\ phase = "wait" /\ Len(served) < attempt
    /\ \E answer \in ServerAnswers :
          /\ LET decoded == decode_open(wire.protocol, wire.payload)
             IN  served' = Append(served, [answer |-> answer,
                                           target |-> IF decoded.ok THEN <<decoded.target>> ELSE <<>>])
          /\ phase' = "answer"
    /\ UNCHANGED <<app, sent, request, wire, attempt, silent, stopping>>

ReceiveAnswer ==
    /\ phase = "answer"
    /\ LET reply == open_reply(served[Len(served)].answer)
       IN  IF reply # "Succeeded" THEN Refuse(reply)
           ELSE IF request.command = CMD_CONNECT THEN Write(Reply("Succeeded"), "relay")
           ELSE Advance("relay")

(* The session dies before its answer is read: open_flow tries once more,  *)
(* then gives up.                                                          *)
LoseSession ==
    /\ phase \in {"wait", "answer"}
    /\ IF attempt < MAX_ATTEMPTS
       THEN /\ attempt' = attempt + 1 /\ phase' = "open"
            /\ served' = IF phase = "wait" THEN Append(served, Unanswered) ELSE served
            /\ UNCHANGED <<app, sent, request, wire, silent, stopping>>
       ELSE Refuse("GeneralFailure")

(* wait_for_open_frame: the open timeout, too much early data, an          *)
(* application that closes, a listener that stops.                         *)
AbandonOpen ==
    /\ phase \in {"wait", "answer"}
    /\ \/ Refuse("GeneralFailure")
       \/ ~Available(6) /\ app.end \in {"eof", "gone"} /\ CloseSilently("gone")
       \/ stopping /\ CloseSilently("shutdown")

(* The control connection closed or the listener stopped: the association ends. *)
EndAssociation ==
    /\ phase = "associated"
    /\ stopping \/ (~Available(6) /\ app.end \in {"eof", "gone"})
    /\ CloseSilently("gone")

begin_shutdown ==
    /\ ~stopping /\ phase # "closed" /\ stopping' = TRUE
    /\ IF phase \in {"version", "methods", "head", "endpoint"}
       THEN phase' = "closed" /\ silent' = "shutdown"
       ELSE UNCHANGED <<phase, silent>>
    /\ UNCHANGED <<app, sent, request, wire, attempt, served>>

SocksNext ==
    \/ ReadVersion \/ ReadMethods \/ read_request_head \/ read_endpoint
    \/ relay_udp_association \/ handle_local_udp_datagram
    \/ send_open \/ ServerReceives \/ ReceiveAnswer \/ LoseSession \/ AbandonOpen
    \/ EndAssociation
    \/ begin_shutdown

-----------------------------------------------------------------------------
Phases == {"version", "methods", "head", "endpoint", "open", "wait", "answer",
           "associate", "associated", "relay", "closed"}

(* Well-formed states; an application gets at most two answers.             *)
SocksTypeOK ==
    /\ phase \in Phases /\ attempt \in 1..MAX_ATTEMPTS /\ stopping \in BOOLEAN
    /\ Len(sent) <= 2 /\ Len(served) <= MAX_ATTEMPTS

Final(verdict) == verdict = Selection("NoAcceptable") \/ verdict.kind = "reply"

(* A connection that ends without a relay gave its application exactly one  *)
(* final verdict, unless the application itself went away or timed out, was *)
(* not speaking SOCKS5, the listener stopped, or the UDP socket could not   *)
(* be bound: every early return of socks5.rs and of handle_socks_connection *)
(* answers once.                                                            *)
OneVerdict ==
    LET verdicts == {i \in DOMAIN sent : Final(sent[i])}
    IN  /\ \A i, j \in verdicts : i = j
        /\ phase = "closed" /\ silent = "" => verdicts # {}
        /\ phase = "closed" => silent \in {"", "gone", "timeout", "no_greeting", "not_socks5",
                                           "shutdown", "bind"}

(* What the server decodes is what the application asked for: the client    *)
(* checks a target with the encoder that writes it, so the server never     *)
(* rejects a TCP_OPEN or UDP_OPEN as malformed or as too short.             *)
TargetDelivered ==
    \A i \in DOMAIN served :
        served[i].answer.kind # "none" => served[i].target = <<request.target>>

(* Success is told to a CONNECT only when the answer of its latest attempt  *)
(* accepted its target.                                                     *)
SuccessMeansAccepted ==
    \A i \in DOMAIN sent :
        sent[i] = Reply("Succeeded") /\ request.command = CMD_CONNECT =>
            /\ Len(served) = attempt
            /\ served[attempt].answer.kind = "data"
            /\ served[attempt].target = <<request.target>>

(* Every open payload fits the smallest frame size a session may negotiate  *)
(* (MIN_TCP_RELAY_FRAME_SIZE), the longest domain included.                 *)
OpenFits == wire # NoWire => PayloadLen(wire.payload) <= MIN_TCP_RELAY_FRAME_SIZE

(* HostUnreachable makes an application retry the same address, so it is    *)
(* only ever the outcome of a dial, never of a malformed request.           *)
UnreachableWasDialed ==
    \A i \in DOMAIN sent :
        sent[i] = Reply("HostUnreachable") =>
            served # <<>> /\ served[Len(served)].answer.code \in {"TargetUnavailable", "TargetTimeout"}
=============================================================================
