--------------------------- MODULE ServerSession ----------------------------
(***************************************************************************)
(* One authenticated session of the server relay (relay/session.rs,        *)
(* relay/tcp.rs, relay/udp.rs, relay/tasks.rs, relay/context.rs).          *)
(*                                                                         *)
(* The session loop owns the flow table and handles one event at a time:   *)
(* a frame from the client, an event posted by one of the tasks it         *)
(* spawned, or a deadline.  A handler may await carrier writes; everything *)
(* it does between two awaits is one step, and what it still has to do     *)
(* after an await is the list `loop.prog'.  Dial tasks, target readers,    *)
(* target writers and half-close timers run beside the loop.  They share   *)
(* with it the abort and close flags of a flow, the command queue of a     *)
(* flow, the bounded event queue, the carrier write lock and the session   *)
(* shutdown flag.                                                          *)
(*                                                                         *)
(* An incarnation is what one FlowToken names: an open attempt, or the     *)
(* flow established from it.  The table maps a flow id to the token of its *)
(* present incarnation.                                                    *)
(***************************************************************************)
EXTENDS Integers, Sequences, FiniteSets

CONSTANTS Flow,         \* client-initiated flow ids
          Protocols,    \* relay protocols in use: a subset of {"tcp", "udp"}
          MaxOpens,     \* bound: open attempts admitted in one behaviour
          MaxStreams, MaxUdpFlows,
          QueueCap,     \* target_write_queue_capacity
          EventCap,     \* session_event_queue_capacity
          Configured,   \* the optional timeouts that are set
          Environment,  \* what may happen from outside: "stalled", "broken"
                        \* (carrier), "stop" (server shutdown), "end" (idle
                        \* timeout, peer close), "control" (frames that
                        \* belong to no flow)
          Observed,     \* flow ids whose frames to the client are observed
          Misbehaving   \* TRUE: the client may ignore the protocol

ASSUME FlowAssumption == Flow \subseteq Nat \ {0} /\ IsFiniteSet(Flow)
ASSUME BoundAssumption ==
    /\ MaxOpens \in Nat /\ MaxStreams \in Nat /\ MaxUdpFlows \in Nat
    /\ QueueCap \in Nat \ {0} /\ EventCap \in Nat \ {0}
ASSUME ModeAssumption ==
    /\ Protocols \subseteq {"tcp", "udp"}
    /\ Configured \subseteq {"connect", "halfClose", "carrierWrite", "taskShutdown"}
    /\ Environment \subseteq {"stalled", "broken", "stop", "end", "control"}
    /\ Misbehaving \in BOOLEAN
    /\ Observed \subseteq Flow /\ (Misbehaving \/ Observed = Flow)

VARIABLES
    state,     \* ServerSessionState
    table,     \* FlowTable: flow id -> token of its slot, or NoToken
    inc,       \* what a token names: slot, cancel handle, flow control, queue
    task,      \* the spawned tasks of each incarnation and where they are
    nextToken, \* FlowTokenAllocator::next
    events,    \* the session's event queue
    loop,      \* where the session loop is
    shutdown,  \* SessionShutdown::closed
    stopping,  \* the server-wide shutdown watch
    carrier,   \* what the peer does with our bytes: ok, stalled, broken
    lock,      \* holder of CarrierWriter::inner while its write is blocked
    wire,      \* what the peer has seen of each observed flow id
    peer,      \* how far a conforming client has got on each flow id
    settings   \* client_settings_received

vars == <<state, table, inc, task, nextToken, events, loop, shutdown, stopping,
          carrier, lock, wire, peer, settings>>

flowVars == <<table, inc, task, nextToken>>
outVars  == <<shutdown, lock, wire>>

-----------------------------------------------------------------------------
(* Constants of the model. *)

(* An attempt takes one token and, when it succeeds, one more for the flow *)
(* made from it, so MaxOpens attempts never run out of tokens: the guards  *)
(* `nextToken \in Token' do not bind.                                      *)
Token == 1 .. (2 * MaxOpens)
NoToken == 0
NoFlow == 0

Opening == {"openTcp", "openUdp"}
Established == {"tcp", "udp"}
Timer == {"t2cTimer", "c2tTimer"}
TaskKind == {"open", "reader", "writer"} \cup Timer

(* Where a task is.  "off": not spawned, finished or aborted.  A dial task *)
(* holds its result from the cancellation check to the send of its event.  *)
OpenResult == {"ok", "denied", "failed"}
Pc == {"off", "dial", "read", "data", "eof", "recv", "write", "status", "close",
       "sleep", "notify"} \cup OpenResult

Command == {"data", "close"}
Incarnation ==
    [kind : {"unused"} \cup Opening \cup Established,
     flow : Flow \cup {NoFlow},
     from : Token \cup {NoToken},  \* the open attempt a flow was made from
     aborted : BOOLEAN,            \* TargetFlowControl::aborted; of an
                                   \* opening, OpenFlowCancel::cancelled
     closed : BOOLEAN,             \* TargetFlowControl::closed
     t2c : BOOLEAN, c2t : BOOLEAN, \* target_to_client_open, client_to_target_open
     writing : BOOLEAN,            \* target_write_open
     sender : BOOLEAN,             \* TargetFlow::commands is Some
     queue : Seq(Command),         \* commands not yet received by the writer
     timer : {"none"} \cup Timer]  \* TargetFlow::half_close_timer

Unused == [kind |-> "unused", flow |-> NoFlow, from |-> NoToken, aborted |-> FALSE,
           closed |-> FALSE, t2c |-> FALSE, c2t |-> FALSE, writing |-> FALSE,
           sender |-> FALSE, queue |-> <<>>, timer |-> "none"]

Event == [type : {"opened", "readClosed", "writeClosed"} \cup Timer,
          token : Token, result : OpenResult \cup {"none"}]

(* What a handler still has to do.  "write" stops the session when it      *)
(* fails, "tell" ignores the failure; a write that carries a token is      *)
(* discarded once that flow is aborted.                                    *)
Instr == [op : {"write", "tell", "remove", "establish", "stop"},
          frame : {"ack", "data", "status", "close", "none"},
          flow : Flow \cup {NoFlow}, token : Token \cup {NoToken}]

Do(op, f, t) == [op |-> op, frame |-> "none", flow |-> f, token |-> t]
Write(frame, f) == [op |-> "write", frame |-> frame, flow |-> f, token |-> NoToken]
Tell(frame, f) == [op |-> "tell", frame |-> frame, flow |-> f, token |-> NoToken]
Stop == Do("stop", NoFlow, NoToken)
Remove(f) == Do("remove", f, NoToken)

Free == <<NoToken, "free">>
Loop == <<NoToken, "loop">>
Reader(t) == <<t, "reader">>
Writer(t) == <<t, "writer">>

(* "early", "late": data before the acknowledgement, after the close.      *)
(* "foreign": a task wrote on a flow id that another incarnation holds.    *)
WireState == {"idle", "acked", "closed", "early", "late", "foreign"}

-----------------------------------------------------------------------------
(* Slots. *)

HasSlot(f) == table[f] # NoToken
Slot(f) == inc[table[f]]
SlotKind(f) == IF HasSlot(f) THEN Slot(f).kind ELSE "none"
Occupied == {f \in Flow : HasSlot(f)}
UdpSlots == {f \in Occupied : Slot(f).kind \in {"openUdp", "udp"}}
OpenAttempts == {t \in Token : inc[t].kind \in Opening}

(* TargetFlow::is_removable *)
Removable(i) == ~i.t2c /\ ~i.c2t /\ ~i.writing

(* The writer task owns the receiving half of the command queue while it   *)
(* runs relay_client_to_target.                                            *)
Receiving(t) == task[t]["writer"] \in {"recv", "write"}

(* close_client_to_target_queue *)
CloseQueue(i, receiving) ==
    LET sent == i.sender /\ receiving /\ Len(i.queue) < QueueCap
    IN  [i EXCEPT !.closed = TRUE,
                  !.queue = IF sent THEN Append(@, "close") ELSE @,
                  !.sender = sent]

(* TargetFlow::close_client_to_target *)
CloseClientToTarget(i, receiving) ==
    IF i.c2t THEN CloseQueue([i EXCEPT !.c2t = FALSE], receiving) ELSE i

(* Mutant of Abort: control.abort() is forgotten. *)
AbortMutant(i, receiving) ==
    CloseQueue([i EXCEPT !.t2c = FALSE, !.c2t = FALSE, !.writing = FALSE,
                         !.timer = "none"], receiving)

(* TargetFlow::abort, TargetFlowControl::abort *)
Abort(i, receiving) ==
    CloseQueue([i EXCEPT !.t2c = FALSE, !.c2t = FALSE, !.writing = FALSE,
                         !.aborted = TRUE, !.timer = "none"], receiving)
AbortControl(i) == [i EXCEPT !.aborted = TRUE, !.closed = TRUE]

(* What becomes of an incarnation when its slot is dropped:                *)
(* remove_flow_slot cancels an opening, Drop for TargetFlow aborts a flow  *)
(* that is still open in some direction, Drop for UdpTargetFlow aborts.    *)
Dropped(i) ==
    CASE i.kind \in Opening -> [i EXCEPT !.aborted = TRUE]
      [] i.kind = "udp" -> AbortControl(i)
      [] OTHER -> LET open == i.t2c \/ i.c2t
                  IN  [i EXCEPT !.t2c = FALSE, !.c2t = FALSE, !.writing = FALSE,
                                !.sender = FALSE, !.timer = "none",
                                !.aborted = @ \/ open, !.closed = @ \/ open]

(* cancel_half_close_timer: SessionTaskHandle::abort on the armed timer.   *)
CancelTimer(tasks, i) == IF i.timer = "none" THEN tasks ELSE [tasks EXCEPT ![i.timer] = "off"]

(* set_half_close_timer on a spawned timer: an armed one is aborted.       *)
ArmTimer(tasks, i, timer) == [CancelTimer(tasks, i) EXCEPT ![timer] = "sleep"]

(* remove_flow_slot *)
RemoveSlot(f) ==
    IF HasSlot(f)
    THEN /\ table' = [table EXCEPT ![f] = NoToken]
         /\ inc' = [inc EXCEPT ![table[f]] = Dropped(@)]
         /\ task' = [task EXCEPT ![table[f]] = CancelTimer(@, Slot(f))]
    ELSE UNCHANGED <<table, inc, task>>

(* Replace the slot's incarnation by i and its tasks by tasks, and remove  *)
(* the slot when `gone'.                                                   *)
UpdateSlot(f, i, tasks, gone) ==
    /\ inc' = [inc EXCEPT ![table[f]] = IF gone THEN Dropped(i) ELSE i]
    /\ task' = [task EXCEPT ![table[f]] = IF gone THEN CancelTimer(tasks, i) ELSE tasks]
    /\ table' = IF gone THEN [table EXCEPT ![f] = NoToken] ELSE table
    /\ UNCHANGED nextToken

-----------------------------------------------------------------------------
(* Carrier writes.  The lock is taken and the write completes in one step  *)
(* while the peer reads; a peer that stops reading blocks the writer with  *)
(* the lock held.  A frame's place on the wire is fixed when the lock is   *)
(* taken.                                                                  *)

SeenState(st, frame, f, by) ==
    CASE st \in {"early", "late", "foreign"} -> st
      [] by # NoToken /\ table[f] \notin {by, NoToken} -> "foreign"
      [] frame = "ack" -> "acked"
      [] frame = "close" -> "closed"
      [] frame = "data" /\ st = "idle" -> "early"
      [] frame = "data" /\ st = "closed" -> "late"
      [] OTHER -> st

Seen(frame, f, by) ==
    IF f \notin Observed THEN wire
    ELSE [wire EXCEPT ![f] = SeenState(@, frame, f, by)]

(* write_frame_locked, outcome Ok: the shutdown flag is tested with the    *)
(* lock held, the write itself is not raced against it.                    *)
WriteOk(who, frame, f) ==
    /\ \/ /\ lock = Free /\ ~shutdown /\ carrier = "ok"
          /\ wire' = Seen(frame, f, who[1])
       \/ /\ lock = who /\ carrier = "ok"
          /\ wire' = wire
    /\ lock' = Free
    /\ UNCHANGED shutdown

(* The peer has stopped reading: the writer keeps the lock. *)
WriteBlocks(who, frame, f) ==
    /\ lock = Free /\ ~shutdown /\ carrier = "stalled"
    /\ lock' = who
    /\ wire' = Seen(frame, f, who[1])
    /\ UNCHANGED shutdown

(* Outcome Err: shutdown seen while waiting for the lock or after taking   *)
(* it, a broken carrier, or the write deadline, which closes the session   *)
(* before the lock is released.                                            *)
WriteDeadline(who) == lock = who /\ "carrierWrite" \in Configured
(* Mutant of WriteErr: the deadline does not release the lock. *)
WriteErrMutant(who) ==
    /\ \/ lock # who /\ shutdown /\ UNCHANGED <<lock, shutdown>>
       \/ lock \in {Free, who} /\ carrier = "broken" /\ lock' = Free /\ UNCHANGED shutdown
       \/ WriteDeadline(who) /\ shutdown' = TRUE /\ UNCHANGED lock
    /\ UNCHANGED wire

WriteErr(who) ==
    /\ \/ lock # who /\ shutdown /\ UNCHANGED <<lock, shutdown>>
       \/ lock \in {Free, who} /\ carrier = "broken" /\ lock' = Free /\ UNCHANGED shutdown
       \/ WriteDeadline(who) /\ lock' = Free /\ shutdown' = TRUE
    /\ UNCHANGED wire

(* write_flow_frame_locked discards the frame of an aborted flow, and of a *)
(* session that is closing.                                                *)
WriteDiscarded(who, t) ==
    /\ t # NoToken /\ lock # who
    /\ shutdown \/ inc[t].aborted
    /\ UNCHANGED outVars

(* A flow frame is written only while its flow is not aborted. *)
FlowWriteAllowed(who, t) == (t # NoToken /\ lock # who) => ~inc[t].aborted

-----------------------------------------------------------------------------
(* The session loop.  relay_session: a handler runs until its first await; *)
(* when nothing is left to do, a draining session with no flows stops.     *)

AtSelect == [pc |-> "select", prog |-> <<>>]
AtStop == [pc |-> "stop", prog |-> <<>>]
Selecting == loop.pc = "select"

(* Mutant of Then: only the shutdown event looks for an empty table. *)
ThenMutant(prog) ==
    loop' = IF prog # <<>> THEN [pc |-> "run", prog |-> prog]
            ELSE IF state = "Relaying" /\ state' = "Draining" /\ \A f \in Flow : table'[f] = NoToken
                 THEN AtStop ELSE AtSelect

Then(prog) ==
    loop' = IF prog # <<>> THEN [pc |-> "run", prog |-> prog]
            ELSE IF state' = "Draining" /\ \A f \in Flow : table'[f] = NoToken
                 THEN AtStop ELSE AtSelect

(* The answers a handler gives on a flow id. *)
Refuse(f) == <<Write("status", f), Write("close", f)>>
(* Mutant of Reject: the slot is not removed. *)
RejectMutant(f) == Refuse(f)

Reject(f) == <<Write("status", f), Write("close", f), Remove(f)>>

(* Everything a handler of a client frame leaves alone. *)
Handling ==
    /\ Selecting
    /\ UNCHANGED <<state, events, stopping, carrier, outVars>>

(* next_session_event reads a frame as long as the carrier lives.  A       *)
(* conforming client opens a flow id once, sends data after the            *)
(* acknowledgement, and sends nothing after its close or error frame.      *)
ClientMay(allowed) == carrier # "broken" /\ (Misbehaving \/ allowed)
ClientOn(f, proto, next) ==
    /\ ClientMay(peer[f] = proto)
    /\ peer' = IF Misbehaving THEN peer ELSE [peer EXCEPT ![f] = next]

-----------------------------------------------------------------------------
(* TCP_OPEN and UDP_OPEN.                                                  *)

OpeningKind(proto) == IF proto = "tcp" THEN "openTcp" ELSE "openUdp"

NewOpening(f, proto) == [Unused EXCEPT !.kind = OpeningKind(proto), !.flow = f]

(* A session that is not draining, with a free slot for the flow id:       *)
(* check_open_slot, check_udp_open_slot.                                   *)
Admits(f, proto) ==
    /\ state # "Draining"
    /\ ~HasSlot(f)
    /\ Cardinality(Occupied) < MaxStreams
    /\ proto = "udp" => Cardinality(UdpSlots) < MaxUdpFlows

(* The slot of an admitted open and its dial task. *)
AdmitOpen(f, proto) ==
    /\ table' = [table EXCEPT ![f] = nextToken]
    /\ inc' = [inc EXCEPT ![nextToken] = NewOpening(f, proto)]
    /\ task' = [task EXCEPT ![nextToken]["open"] = "dial"]
    /\ nextToken' = nextToken + 1

(* handle_session_frame (drain), handle_tcp_open_frame,                    *)
(* handle_udp_open_frame.  Validation, the policy snapshot and the server- *)
(* wide flow budget may refuse any open.  The wire observer starts anew    *)
(* with an admitted open.                                                  *)
OpenFrame(f, proto) ==
    /\ Selecting /\ proto \in Protocols
    /\ ClientOn(f, "unused", proto)
    /\ UNCHANGED <<state, events, stopping, carrier, shutdown, lock, settings>>
    /\ \/ /\ (state = "Draining" \/ ~HasSlot(f))
          /\ UNCHANGED <<flowVars, wire>>
          /\ Then(Refuse(f))
       \/ /\ state # "Draining" /\ HasSlot(f)
          /\ UNCHANGED <<flowVars, wire>>
          /\ Then(Reject(f))
       \/ /\ Admits(f, proto)
          /\ Cardinality(OpenAttempts) < MaxOpens /\ nextToken \in Token
          /\ AdmitOpen(f, proto)
          /\ wire' = [wire EXCEPT ![f] = "idle"]
          /\ Then(<<>>)

-----------------------------------------------------------------------------
(* TCP_DATA and UDP_DATA.                                                  *)

(* Mutant of CanEnqueue: the closed flag is not tested. *)
CanEnqueueMutant(f) ==
    /\ Slot(f).sender /\ Receiving(table[f])
    /\ Len(Slot(f).queue) < QueueCap

(* TargetFlow::enqueue_data succeeds. *)
CanEnqueue(f) ==
    /\ ~Slot(f).closed /\ Slot(f).sender /\ Receiving(table[f])
    /\ Len(Slot(f).queue) < QueueCap

(* forward_tcp_data_frame.  The byte budget may refuse any payload that    *)
(* gets as far as the reservation; a full queue is refused alike.          *)
ForwardTcpData(f) ==
    LET i == Slot(f)
        t == table[f]
        unwritable == [i EXCEPT !.c2t = FALSE, !.closed = TRUE]
    IN  \/ /\ CanEnqueue(f)
           /\ UpdateSlot(f, [i EXCEPT !.queue = Append(@, "data")], task[t], FALSE)
           /\ Then(<<>>)
        \/ /\ i.closed \/ ~i.sender \/ ~Receiving(t)
           /\ UpdateSlot(f, unwritable, task[t], Removable(unwritable))
           /\ Then(<<>>)
        \/ /\ ~i.closed
           /\ UpdateSlot(f, Abort(CloseQueue(i, Receiving(t)), Receiving(t)),
                         CancelTimer(task[t], i), FALSE)
           /\ Then(Reject(f))

(* handle_tcp_data_frame with its tcp_data_disposition *)
TcpDataFrame(f) ==
    /\ Handling /\ UNCHANGED settings
    /\ ClientOn(f, "tcp", "tcp")
    /\ Misbehaving \/ wire[f] # "idle"
    /\ \/ SlotKind(f) = "none" /\ UNCHANGED flowVars /\ Then(<<Write("status", f)>>)
       \/ SlotKind(f) \in {"openTcp", "openUdp", "udp"}
          /\ UNCHANGED flowVars /\ Then(Reject(f))
       \/ SlotKind(f) = "tcp" /\ ForwardTcpData(f)

(* handle_udp_data_frame: the target socket takes the payload, is full     *)
(* (the payload is dropped) or fails.                                      *)
UdpDataFrame(f) ==
    /\ Handling /\ UNCHANGED <<settings, flowVars>>
    /\ ClientOn(f, "udp", "udp")
    /\ Misbehaving \/ wire[f] # "idle"
    /\ \/ SlotKind(f) = "none" /\ Then(<<Write("status", f)>>)
       \/ SlotKind(f) \in {"openTcp", "openUdp", "tcp", "udp"} /\ Then(Reject(f))
       \/ SlotKind(f) = "udp" /\ Then(<<>>)

-----------------------------------------------------------------------------
(* TCP_CLOSE, UDP_CLOSE and flow status frames.                            *)

(* Mutant of StartsDrain: tested after close_client_to_target. *)
StartsDrainMutant(i) ==
    CloseClientToTarget(i, TRUE).c2t /\ i.t2c /\ "halfClose" \in Configured

(* should_start_half_close_drain: this close is what half-closes the flow. *)
StartsDrain(i) == i.c2t /\ i.t2c /\ "halfClose" \in Configured

(* TCP_CLOSE(NORMAL) on an established flow. *)
FinishUpload(f) ==
    LET i == Slot(f)
        t == table[f]
        done == CloseClientToTarget(i, Receiving(t))
    IN  IF i.t2c
        THEN IF StartsDrain(i)
             THEN UpdateSlot(f, [done EXCEPT !.timer = "c2tTimer"],
                             ArmTimer(task[t], i, "c2tTimer"), FALSE)
             ELSE UpdateSlot(f, done, task[t], FALSE)
        ELSE UpdateSlot(f, [done EXCEPT !.timer = "none"], CancelTimer(task[t], i),
                        Removable(done))

(* The slot is aborted and removed without an await. *)
AbortSlot(f) ==
    LET i == Slot(f)
        t == table[f]
    IN  UpdateSlot(f, IF i.kind = "tcp" THEN Abort(i, Receiving(t)) ELSE i,
                   CancelTimer(task[t], i), TRUE)

(* handle_tcp_close_frame *)
TcpCloseFrame(f) ==
    /\ Handling /\ UNCHANGED settings
    /\ ClientOn(f, "tcp", "closed")
    /\ \/ SlotKind(f) = "none" /\ UNCHANGED flowVars /\ Then(<<>>)
       \/ SlotKind(f) = "tcp" /\ FinishUpload(f) /\ Then(<<>>)
       \/ SlotKind(f) \in {"openTcp", "tcp"} /\ AbortSlot(f) /\ Then(<<>>)
       \/ SlotKind(f) \in {"openUdp", "udp"} /\ UNCHANGED flowVars /\ Then(Reject(f))

(* handle_udp_close_frame *)
UdpCloseFrame(f) ==
    /\ Handling /\ UNCHANGED settings
    /\ ClientOn(f, "udp", "closed")
    /\ \/ SlotKind(f) = "none" /\ UNCHANGED flowVars /\ Then(<<>>)
       \/ SlotKind(f) \in {"openUdp", "udp"} /\ AbortSlot(f) /\ Then(<<>>)
       \/ SlotKind(f) \in {"openTcp", "tcp"} /\ UNCHANGED flowVars /\ Then(Reject(f))

(* handle_client_flow_status_frame, abort_client_flow *)
StatusFrame(f) ==
    /\ Handling /\ UNCHANGED settings
    /\ \E proto \in Protocols : ClientOn(f, proto, "closed")
    /\ \/ SlotKind(f) = "none" /\ UNCHANGED flowVars /\ Then(<<>>)
       \/ HasSlot(f) /\ AbortSlot(f) /\ Then(<<>>)

-----------------------------------------------------------------------------
(* Connection-scoped and malformed frames.                                 *)

(* handle_session_frame: SETTINGS *)
SettingsFrame ==
    /\ Handling /\ UNCHANGED <<flowVars, peer>>
    /\ ClientMay(~settings /\ Occupied = {})
    /\ \/ /\ ~settings /\ Occupied = {}
          /\ settings' = TRUE
          /\ Then(<<>>)
       \/ /\ settings \/ Occupied # {}
          /\ UNCHANGED settings
          /\ Then(<<Write("status", NoFlow), Stop>>)

(* handle_session_frame: PING, write_pong.  A PONG changes nothing. *)
PingFrame ==
    /\ Handling /\ UNCHANGED <<flowVars, peer, settings>>
    /\ ClientMay(TRUE)
    /\ Then(<<Write("status", NoFlow)>>)

(* reject_unexpected_session_frame, a zero flow id, an undecodable close,  *)
(* status, settings or control frame: an error on the frame's id, then     *)
(* stop.  report_frame_io_error ignores the outcome of its write.          *)
MalformedFrame ==
    /\ Handling /\ UNCHANGED <<flowVars, peer, settings>>
    /\ ClientMay(FALSE)
    /\ \E f \in Flow \cup {NoFlow} :
          \/ Then(<<Write("status", f), Stop>>)
          \/ f = NoFlow /\ Then(<<Tell("status", f), Stop>>)

(* reject_invalid_client_relay_flow_id: an id reserved for the server is   *)
(* answered and the session goes on.                                       *)
ReservedIdFrame ==
    /\ Handling /\ UNCHANGED <<flowVars, peer, settings>>
    /\ ClientMay(FALSE)
    /\ Then(Refuse(NoFlow))

-----------------------------------------------------------------------------
(* Flow events.  Each handler ignores an event whose token is not the      *)
(* token of the slot that now holds the flow id.                           *)

NewFlow(o) ==
    LET tcp == inc[o].kind = "openTcp"
    IN  [Unused EXCEPT !.kind = IF tcp THEN "tcp" ELSE "udp",
                       !.flow = inc[o].flow, !.from = o,
                       !.t2c = tcp, !.c2t = tcp, !.writing = tcp, !.sender = tcp]

(* Mutant of Current: any slot on the flow id will do. *)
CurrentMutant(t) == table[inc[t].flow] # NoToken

(* cancel.token == token, target.token == token *)
Current(t) == table[inc[t].flow] = t

(* handle_tcp_open_completed, handle_udp_open_completed.  An accepted      *)
(* target gets its token and its control before the acknowledgement is     *)
(* written, its slot and its tasks after.                                  *)
OpenCompleted(t, result) ==
    LET f == inc[t].flow
    IN  IF ~Current(t) THEN UNCHANGED flowVars /\ Then(<<>>)
        ELSE IF result = "ok"
        THEN /\ nextToken \in Token
             /\ inc' = [inc EXCEPT ![nextToken] = NewFlow(t)]
             /\ nextToken' = nextToken + 1
             /\ UNCHANGED <<table, task>>
             /\ Then(<<[Write("ack", f) EXCEPT !.token = nextToken],
                       Do("establish", f, nextToken)>>)
        ELSE UNCHANGED flowVars /\ Then(Reject(f))

(* handle_target_read_closed, handle_udp_read_closed *)
ReadClosed(t) ==
    LET f == inc[t].flow
        i == inc[t]
        eof == [i EXCEPT !.t2c = FALSE]
    IN  /\ IF ~Current(t) THEN UNCHANGED flowVars
           ELSE IF i.kind = "udp" THEN UpdateSlot(f, i, task[t], TRUE)
           ELSE IF i.aborted
           THEN UpdateSlot(f, Abort(i, Receiving(t)), CancelTimer(task[t], i), TRUE)
           ELSE IF i.c2t /\ "halfClose" \in Configured
           THEN UpdateSlot(f, [eof EXCEPT !.timer = "t2cTimer"],
                           ArmTimer(task[t], i, "t2cTimer"), FALSE)
           ELSE UpdateSlot(f, eof, task[t], Removable(eof))
        /\ Then(<<>>)

(* handle_target_write_closed *)
WriteClosed(t) ==
    LET f == inc[t].flow
        i == [inc[t] EXCEPT !.c2t = FALSE, !.writing = FALSE, !.closed = TRUE]
        gone == i.aborted \/ Removable(i)
    IN  /\ IF ~Current(t) THEN UNCHANGED flowVars
           ELSE UpdateSlot(f, IF i.aborted THEN Abort(i, Receiving(t)) ELSE i,
                           IF gone THEN CancelTimer(task[t], i) ELSE task[t], gone)
        /\ Then(<<>>)

(* expire_half_close_drain, handle_half_close_drain_expired *)
DrainExpired(t, timer) ==
    LET f == inc[t].flow
        i == inc[t]
        halfClosed == IF timer = "t2cTimer" THEN ~i.t2c /\ i.c2t ELSE ~i.c2t /\ i.t2c
        close == IF timer = "t2cTimer" THEN Tell("close", f) ELSE Write("close", f)
    IN  IF Current(t) /\ halfClosed
        THEN /\ UpdateSlot(f, Abort(i, Receiving(t)), CancelTimer(task[t], i), FALSE)
             /\ Then(<<close, Remove(f)>>)
        ELSE UNCHANGED flowVars /\ Then(<<>>)

(* handle_flow_event on the head of the event queue *)
FlowEvent ==
    /\ Selecting /\ events # <<>>
    /\ events' = Tail(events)
    /\ UNCHANGED <<state, stopping, carrier, outVars, peer, settings>>
    /\ LET e == Head(events)
       IN  CASE e.type = "opened" -> OpenCompleted(e.token, e.result)
             [] e.type = "readClosed" -> ReadClosed(e.token)
             [] e.type = "writeClosed" -> WriteClosed(e.token)
             [] OTHER -> DrainExpired(e.token, e.type)

(* close_idle_udp_flows: any UDP flow may have been idle long enough.      *)
(* Several flows expiring in one tick is one such event after another.     *)
UdpIdle(f) ==
    /\ Handling /\ UNCHANGED <<flowVars, peer, settings>>
    /\ SlotKind(f) = "udp"
    /\ Then(<<Write("close", f), Remove(f)>>)

-----------------------------------------------------------------------------
(* Shutdown, deadlines and the end of the session.                         *)

(* SessionEvent::Shutdown: transition to Draining, stop when no flow is    *)
(* left.  The watch branch is off while draining.                          *)
ShutdownEvent ==
    /\ Selecting /\ stopping /\ state = "Relaying"
    /\ state' = "Draining"
    /\ UNCHANGED <<flowVars, events, stopping, carrier, outVars, peer, settings>>
    /\ Then(<<>>)

(* DrainTimeout: the deadline is set when draining starts. *)
DrainTimeout ==
    /\ Selecting /\ state = "Draining" /\ "taskShutdown" \in Configured
    /\ loop' = AtStop
    /\ UNCHANGED <<state, flowVars, events, stopping, carrier, outVars, peer, settings>>

(* IdleTimeout, PeerClosed *)
SessionEnds ==
    /\ Selecting /\ "end" \in Environment
    /\ loop' = AtStop
    /\ UNCHANGED <<state, flowVars, events, stopping, carrier, outVars, peer, settings>>

(* Mutant of CarrierFailed: the loop does not watch the shutdown flag. *)
CarrierFailedMutant ==
    /\ Selecting /\ carrier = "broken"
    /\ loop' = AtStop
    /\ UNCHANGED <<state, flowVars, events, stopping, carrier, outVars, peer, settings>>

(* CarrierFailed, and the read error of a broken carrier. *)
CarrierFailed ==
    /\ Selecting /\ (shutdown \/ carrier = "broken")
    /\ loop' = AtStop
    /\ UNCHANGED <<state, flowVars, events, stopping, carrier, outVars, peer, settings>>

(* One step of a handler that has awaited.  A failed write makes the       *)
(* handler return its error, which stops the session.                      *)
Run(op) == loop.pc = "run" /\ loop.prog # <<>> /\ Head(loop.prog).op \in op
Rest == Tail(loop.prog)

RunWrite ==
    /\ Run({"write", "tell"})
    /\ UNCHANGED <<state, flowVars, events, stopping, carrier, peer, settings>>
    /\ LET w == Head(loop.prog)
       IN  \/ /\ FlowWriteAllowed(Loop, w.token)
              /\ WriteOk(Loop, w.frame, w.flow)
              /\ Then(Rest)
           \/ WriteDiscarded(Loop, w.token) /\ Then(Rest)
           \/ /\ FlowWriteAllowed(Loop, w.token)
              /\ WriteBlocks(Loop, w.frame, w.flow)
              /\ UNCHANGED loop
           \/ /\ WriteErr(Loop)
              /\ IF w.op = "tell" THEN Then(Rest) ELSE loop' = AtStop

RunRemove ==
    /\ Run({"remove"})
    /\ RemoveSlot(Head(loop.prog).flow)
    /\ UNCHANGED <<state, nextToken, events, stopping, carrier, outVars, peer, settings>>
    /\ Then(Rest)

(* The established flow replaces the opening in the table and its reader   *)
(* and writer are spawned.                                                 *)
RunEstablish ==
    /\ Run({"establish"})
    /\ LET e == Head(loop.prog).token
       IN  /\ table' = [table EXCEPT ![inc[e].flow] = e]
           /\ task' = [task EXCEPT ![e]["reader"] = "read",
                                   ![e]["writer"] = IF inc[e].kind = "tcp" THEN "recv" ELSE "off"]
    /\ UNCHANGED <<state, inc, nextToken, events, stopping, carrier, outVars, peer, settings>>
    /\ Then(Rest)

RunStop ==
    /\ Run({"stop"})
    /\ loop' = AtStop
    /\ UNCHANGED <<state, flowVars, events, stopping, carrier, outVars, peer, settings>>

(* close_session up to its first await, with close_target_flows: an open   *)
(* TCP flow has its upload finished, not aborted.                          *)
ClosedOut(t) ==
    LET i == inc[t]
    IN  IF i.kind = "tcp"
        THEN Dropped(CloseClientToTarget([i EXCEPT !.t2c = FALSE], Receiving(t)))
        ELSE Dropped(i)

CloseSession ==
    /\ loop.pc = "stop"
    /\ state' = "Closing"
    /\ shutdown' = TRUE
    /\ table' = [f \in Flow |-> NoToken]
    /\ inc' = [t \in Token |-> IF \E f \in Flow : table[f] = t THEN ClosedOut(t) ELSE inc[t]]
    /\ task' = [t \in Token |-> IF \E f \in Flow : table[f] = t
                                THEN CancelTimer(task[t], inc[t]) ELSE task[t]]
    /\ loop' = [pc |-> "join", prog |-> <<>>]
    /\ UNCHANGED <<nextToken, events, stopping, carrier, lock, wire, peer, settings>>

(* drain_session_tasks: join every task, or abort them at the deadline.    *)
AllOff == \A t \in Token : \A k \in TaskKind : task[t][k] = "off"

(* Mutant of JoinTasks: the tasks are not awaited. *)
JoinTasksMutant ==
    /\ loop.pc = "join"
    /\ loop' = [pc |-> "carrier", prog |-> <<>>]
    /\ UNCHANGED <<state, flowVars, events, stopping, carrier, outVars, peer, settings>>

JoinTasks ==
    /\ loop.pc = "join" /\ AllOff
    /\ loop' = [pc |-> "carrier", prog |-> <<>>]
    /\ UNCHANGED <<state, flowVars, events, stopping, carrier, outVars, peer, settings>>

AbortTasks ==
    /\ loop.pc = "join" /\ ~AllOff /\ "taskShutdown" \in Configured
    /\ task' = [t \in Token |-> [k \in TaskKind |-> "off"]]
    /\ lock' = Free
    /\ UNCHANGED <<state, table, inc, nextToken, events, loop, shutdown, stopping, carrier,
                   wire, peer, settings>>

(* Mutant of ShutdownCarrier: the close waits for the peer. *)
ShutdownCarrierMutant ==
    /\ loop.pc = "carrier" /\ lock = Free
    /\ carrier # "stalled"
    /\ state' = "Closed"
    /\ loop' = [pc |-> "exit", prog |-> <<>>]
    /\ UNCHANGED <<flowVars, events, stopping, carrier, outVars, peer, settings>>

(* shutdown_carrier_writer: bounded by the write deadline. *)
ShutdownCarrier ==
    /\ loop.pc = "carrier" /\ lock = Free
    /\ carrier # "stalled" \/ "carrierWrite" \in Configured
    /\ state' = "Closed"
    /\ loop' = [pc |-> "exit", prog |-> <<>>]
    /\ UNCHANGED <<flowVars, events, stopping, carrier, outVars, peer, settings>>

-----------------------------------------------------------------------------
(* The spawned tasks.                                                      *)

At(t, k, pc) == task[t][k] = pc
Goto(t, k, pc) == task' = [task EXCEPT ![t][k] = pc]

(* Everything a task step leaves alone. *)
InTask == UNCHANGED <<state, table, nextToken, loop, stopping, carrier, peer, settings>>

(* Mutant of Notify: an unbounded event channel. *)
NotifyMutant(t, k, event) ==
    /\ InTask /\ UNCHANGED <<inc, outVars>>
    /\ events' = Append(events, event)
    /\ Goto(t, k, "off")

(* send_flow_event_or_shutdown *)
Notify(t, k, event) ==
    /\ InTask /\ UNCHANGED <<inc, outVars>>
    /\ \/ Len(events) < EventCap /\ events' = Append(events, event)
       \/ shutdown /\ UNCHANGED events
    /\ Goto(t, k, "off")

Posted(type, t, result) == [type |-> type, token |-> t, result |-> result]

(* The error arm of a reader or writer task, entered with the shutdown     *)
(* flag the step leaves: abort the flow, then report.                      *)
Fail(t, k) ==
    IF shutdown' THEN Goto(t, k, "notify") /\ UNCHANGED inc
    ELSE Goto(t, k, "status") /\ inc' = [inc EXCEPT ![t] = AbortControl(@)]

(* spawn_target_open, spawn_udp_open: the dial ends with a result, the     *)
(* cancellation is tested, and the result is sent.                         *)
DialDone(t) ==
    /\ At(t, "open", "dial") /\ ~inc[t].aborted
    /\ \E r \in OpenResult : Goto(t, "open", r)
    /\ InTask /\ UNCHANGED <<inc, events, outVars>>

(* wait_for_open_task returns None *)
DialCancelled(t) ==
    /\ At(t, "open", "dial") /\ (shutdown \/ inc[t].aborted)
    /\ Goto(t, "open", "off")
    /\ InTask /\ UNCHANGED <<inc, events, outVars>>

DialReport(t) ==
    /\ task[t]["open"] \in OpenResult
    /\ Notify(t, "open", Posted("opened", t, task[t]["open"]))

(* relay_target_to_client, relay_udp_target_to_client.  The flags are      *)
(* tested before the frame is written: a data frame is tested again under  *)
(* the lock, the close frame of an end of stream is not.                   *)
ReaderStops(t) ==
    /\ At(t, "reader", "read") /\ (shutdown \/ inc[t].aborted)
    /\ Goto(t, "reader", "notify")
    /\ InTask /\ UNCHANGED <<inc, events, outVars>>

ReaderData(t) ==
    /\ InTask /\ UNCHANGED <<inc, events>>
    /\ \/ /\ At(t, "reader", "read") /\ ~inc[t].aborted
          /\ WriteOk(Reader(t), "data", inc[t].flow) /\ UNCHANGED task
       \/ /\ At(t, "reader", "read") /\ ~inc[t].aborted
          /\ WriteBlocks(Reader(t), "data", inc[t].flow) /\ Goto(t, "reader", "data")
       \/ /\ At(t, "reader", "data")
          /\ WriteOk(Reader(t), "data", inc[t].flow) /\ Goto(t, "reader", "read")

ReaderDataFails(t) ==
    /\ At(t, "reader", "data") \/ (At(t, "reader", "read") /\ ~inc[t].aborted)
    /\ WriteErr(Reader(t))
    /\ Fail(t, "reader")
    /\ InTask /\ UNCHANGED events

ReaderEof(t) ==
    /\ At(t, "reader", "read") /\ inc[t].kind = "tcp"
    /\ ~shutdown /\ ~inc[t].aborted
    /\ Goto(t, "reader", "eof")
    /\ InTask /\ UNCHANGED <<inc, events, outVars>>

ReaderEofClose(t) ==
    /\ At(t, "reader", "eof")
    /\ InTask /\ UNCHANGED events
    /\ \/ WriteOk(Reader(t), "close", inc[t].flow) /\ Goto(t, "reader", "notify") /\ UNCHANGED inc
       \/ WriteBlocks(Reader(t), "close", inc[t].flow) /\ UNCHANGED <<task, inc>>
       \/ WriteErr(Reader(t)) /\ Fail(t, "reader")

(* The target read fails. *)
ReaderError(t) ==
    /\ At(t, "reader", "read")
    /\ UNCHANGED outVars /\ Fail(t, "reader")
    /\ InTask /\ UNCHANGED events

(* The error arm of a reader or writer: ERROR and TCP_CLOSE / UDP_CLOSE on *)
(* the flow id, both best-effort.                                          *)
ReportFailure(t, k) ==
    /\ InTask /\ UNCHANGED <<inc, events>>
    /\ \E frame \in {"status", "close"} :
          /\ At(t, k, frame)
          /\ \/ /\ WriteOk(<<t, k>>, frame, inc[t].flow) \/ WriteErr(<<t, k>>)
                /\ Goto(t, k, IF frame = "status" THEN "close" ELSE "notify")
             \/ WriteBlocks(<<t, k>>, frame, inc[t].flow) /\ UNCHANGED task

ReaderReport(t) ==
    At(t, "reader", "notify") /\ Notify(t, "reader", Posted("readClosed", t, "none"))

(* relay_client_to_target, write_target_command.  The command receiver is  *)
(* dropped with the commands still in it when the writer leaves.           *)
WriterStops(t) ==
    /\ task[t]["writer"] \in {"recv", "write"} /\ inc[t].aborted
    /\ inc' = [inc EXCEPT ![t].queue = <<>>]
    /\ Goto(t, "writer", "notify")
    /\ InTask /\ UNCHANGED <<events, outVars>>

WriterTakes(t) ==
    /\ At(t, "writer", "recv") /\ ~inc[t].aborted
    /\ inc[t].queue # <<>> /\ Head(inc[t].queue) = "data"
    /\ inc' = [inc EXCEPT ![t].queue = Tail(@)]
    /\ Goto(t, "writer", "write")
    /\ InTask /\ UNCHANGED <<events, outVars>>

WriterWrote(t) ==
    /\ At(t, "writer", "write")
    /\ Goto(t, "writer", "recv")
    /\ InTask /\ UNCHANGED <<inc, events, outVars>>

(* The upload has ended: TargetCommand::Close, all senders dropped, or the *)
(* session shutting down with nothing left to receive.                     *)
UploadEnded(t) ==
    \/ inc[t].queue # <<>> /\ Head(inc[t].queue) = "close"
    \/ inc[t].queue = <<>> /\ (~inc[t].sender \/ shutdown)

WriterFinishes(t) ==
    /\ At(t, "writer", "recv") /\ ~inc[t].aborted /\ UploadEnded(t)
    /\ inc' = [inc EXCEPT ![t].queue = <<>>,
                          ![t].closed = @ \/ inc[t].queue # <<>>]
    /\ Goto(t, "writer", "notify")
    /\ InTask /\ UNCHANGED <<events, outVars>>

(* The target write fails or times out, or the FIN of a finished upload    *)
(* does.                                                                   *)
WriterError(t) ==
    /\ \/ At(t, "writer", "write")
       \/ At(t, "writer", "recv") /\ ~inc[t].aborted /\ UploadEnded(t)
    /\ Goto(t, "writer", IF shutdown THEN "notify" ELSE "status")
    /\ inc' = [inc EXCEPT ![t] = [IF shutdown THEN @ ELSE AbortControl(@) EXCEPT !.queue = <<>>]]
    /\ InTask /\ UNCHANGED <<events, outVars>>

WriterReport(t) ==
    At(t, "writer", "notify") /\ Notify(t, "writer", Posted("writeClosed", t, "none"))

(* spawn_half_close_timer *)
TimerFires(t, k) ==
    /\ At(t, k, "sleep")
    /\ Goto(t, k, IF shutdown THEN "off" ELSE "notify")
    /\ InTask /\ UNCHANGED <<inc, events, outVars>>

TimerReport(t, k) == At(t, k, "notify") /\ Notify(t, k, Posted(k, t, "none"))

-----------------------------------------------------------------------------
(* The environment: the server asks its sessions to stop; the peer stops   *)
(* and resumes reading, or goes away.                                      *)

RequestStop ==
    /\ ~stopping /\ "stop" \in Environment
    /\ stopping' = TRUE
    /\ UNCHANGED <<state, flowVars, events, loop, carrier, outVars, peer, settings>>

CarrierChanges ==
    /\ carrier # "broken"
    /\ carrier' \in ({"ok"} \cup ({"stalled", "broken"} \cap Environment)) \ {carrier}
    /\ UNCHANGED <<state, flowVars, events, loop, stopping, outVars, peer, settings>>

(* relay_session has returned. *)
Terminated == state = "Closed" /\ UNCHANGED vars

-----------------------------------------------------------------------------
Init ==
    /\ state = "Relaying"
    /\ table = [f \in Flow |-> NoToken]
    /\ inc = [t \in Token |-> Unused]
    /\ task = [t \in Token |-> [k \in TaskKind |-> "off"]]
    /\ nextToken = 1
    /\ events = <<>>
    /\ loop = AtSelect
    /\ shutdown = FALSE
    /\ stopping = FALSE
    /\ carrier = "ok"
    /\ lock = Free
    /\ wire = [f \in Flow |-> "idle"]
    /\ peer = [f \in Flow |-> "unused"]
    /\ settings = FALSE

FlowFrame(f) ==
    \/ \E proto \in Protocols : OpenFrame(f, proto)
    \/ TcpDataFrame(f) \/ TcpCloseFrame(f)
    \/ UdpDataFrame(f) \/ UdpCloseFrame(f)
    \/ StatusFrame(f)

ConnectionFrame ==
    /\ "control" \in Environment
    /\ SettingsFrame \/ PingFrame \/ MalformedFrame \/ ReservedIdFrame

LoopStep == RunWrite \/ RunRemove \/ RunEstablish \/ RunStop
Teardown == CloseSession \/ JoinTasks \/ AbortTasks \/ ShutdownCarrier

OpenTask(t) == DialDone(t) \/ DialCancelled(t) \/ DialReport(t)
ReaderTask(t) ==
    \/ ReaderStops(t) \/ ReaderData(t) \/ ReaderDataFails(t) \/ ReaderEof(t)
    \/ ReaderEofClose(t) \/ ReaderError(t) \/ ReportFailure(t, "reader") \/ ReaderReport(t)
WriterTask(t) ==
    \/ WriterStops(t) \/ WriterTakes(t) \/ WriterWrote(t) \/ WriterFinishes(t)
    \/ WriterError(t) \/ ReportFailure(t, "writer") \/ WriterReport(t)
TimerTask(t) == \E k \in Timer : TimerFires(t, k) \/ TimerReport(t, k)

Next ==
    \/ \E f \in Flow : FlowFrame(f) \/ UdpIdle(f)
    \/ ConnectionFrame \/ FlowEvent
    \/ ShutdownEvent \/ DrainTimeout \/ SessionEnds \/ CarrierFailed
    \/ LoopStep \/ Teardown
    \/ \E t \in Token : OpenTask(t) \/ ReaderTask(t) \/ WriterTask(t) \/ TimerTask(t)
    \/ RequestStop \/ CarrierChanges \/ Terminated

Spec == Init /\ [][Next]_vars

(* What tokio's scheduling and the configured deadlines guarantee: a task  *)
(* that can run is run, and the loop, whose select! picks among ready      *)
(* branches at random and whose carrier lock serves waiters in FIFO order, *)
(* does not pass over for ever what is possible again and again.  What     *)
(* only the peer or the target can do carries no fairness.                 *)
OpenProgress(t) ==
    \/ DialCancelled(t) \/ DialReport(t)
    \/ "connect" \in Configured /\ DialDone(t)
ReaderProgress(t) ==
    \/ ReaderStops(t) \/ ReaderEofClose(t) \/ ReportFailure(t, "reader") \/ ReaderReport(t)
    \/ At(t, "reader", "data") /\ (ReaderData(t) \/ ReaderDataFails(t))
WriterProgress(t) ==
    \/ WriterStops(t) \/ WriterTakes(t) \/ WriterFinishes(t)
    \/ ReportFailure(t, "writer") \/ WriterReport(t)
    \/ "carrierWrite" \in Configured /\ (WriterWrote(t) \/ WriterError(t))

Fairness ==
    /\ \A t \in Token :
          /\ WF_vars(OpenProgress(t)) /\ WF_vars(ReaderProgress(t))
          /\ WF_vars(WriterProgress(t)) /\ WF_vars(TimerTask(t))
    /\ WF_vars(Teardown)
    /\ SF_vars(LoopStep) /\ SF_vars(FlowEvent)
    /\ SF_vars(ShutdownEvent) /\ SF_vars(DrainTimeout) /\ SF_vars(CarrierFailed)

FairSpec == Spec /\ Fairness

-----------------------------------------------------------------------------
(* Properties.                                                             *)

(* Every variable stays in its domain: no handler leaves the slot, queue,  *)
(* task or event representations of relay/context.rs.                      *)
TypeOK ==
    /\ state \in {"Relaying", "Draining", "Closing", "Closed"}
    /\ table \in [Flow -> Token \cup {NoToken}]
    /\ inc \in [Token -> Incarnation]
    /\ task \in [Token -> [TaskKind -> Pc]]
    /\ nextToken \in 1 .. (2 * MaxOpens + 1)
    /\ events \in Seq(Event) /\ Len(events) <= EventCap
    /\ loop \in [pc : {"select", "run", "stop", "join", "carrier", "exit"}, prog : Seq(Instr)]
    /\ shutdown \in BOOLEAN /\ stopping \in BOOLEAN
    /\ carrier \in {"ok", "stalled", "broken"}
    /\ lock \in {Free, Loop} \cup (Token \X {"reader", "writer"})
    /\ wire \in [Flow -> WireState]
    /\ peer \in [Flow -> {"unused", "tcp", "udp", "closed"}]
    /\ settings \in BOOLEAN

(* A stream is only ever wired in for the open attempt that asked for it:  *)
(* an established slot comes from the latest attempt on its flow id, even  *)
(* when a dial finishes after its id was closed and opened again           *)
(* (handle_tcp_open_completed, handle_udp_open_completed).                 *)
AttemptMatches ==
    \A f \in Occupied : \A o \in OpenAttempts :
        (inc[o].flow = f /\ Slot(f).kind \in Established) => o <= Slot(f).from

(* What will still bring an incarnation to the loop's attention. *)
Pending(t, type) == \E n \in 1 .. Len(events) : events[n].token = t /\ events[n].type = type
Running(t, k) == task[t][k] # "off"

(* No slot is leaked: while the loop waits for events, whatever an         *)
(* occupied slot still waits for (its dial, the end of its reader, of its  *)
(* writer, of its half-close drain) is a running task or a queued event,   *)
(* and a slot that waits for nothing has been removed.                     *)
SlotBacked ==
    (Selecting /\ ~shutdown) =>
        \A f \in Occupied :
            LET i == Slot(f)
                t == table[f]
            IN  /\ i.kind \in Opening => Running(t, "open") \/ Pending(t, "opened")
                /\ i.t2c \/ i.kind = "udp" => Running(t, "reader") \/ Pending(t, "readClosed")
                /\ i.writing => Running(t, "writer") \/ Pending(t, "writeClosed")
                /\ (i.t2c # i.c2t /\ ~i.aborted /\ "halfClose" \in Configured) =>
                      \E k \in Timer : Running(t, k) \/ Pending(t, k)
                /\ i.kind = "tcp" => ~Removable(i)

(* Upload bytes are never queued behind the end of the upload, where the   *)
(* writer would drop them: enqueue_data refuses what comes after           *)
(* close_client_to_target_queue.                                           *)
QueueOrder ==
    \A t \in Token : \A m, n \in DOMAIN inc[t].queue :
        (m < n /\ inc[t].queue[m] = "close") => inc[t].queue[n] = "close"

(* The carrier lock is held by the loop in the middle of a write or by a   *)
(* task that is writing, so some step or deadline releases it; nobody      *)
(* holds it across the end of a task.                                      *)
LockHolderWrites ==
    /\ lock = Loop => Run({"write", "tell"})
    /\ \A t \in Token : \A k \in {"reader", "writer"} :
          lock = <<t, k>> => task[t][k] \in {"data", "eof", "status", "close"}

(* After close_session has joined the tasks nothing of the session is      *)
(* left: no task, no slot, no writer on the carrier.                       *)
TeardownComplete ==
    loop.pc \in {"carrier", "exit"} => AllOff /\ Occupied = {} /\ lock = Free

(* What the wire shows a conforming client: the acknowledgement comes      *)
(* before any data of the flow, and no data follows the server's close.    *)
WireOrder == \A f \in Flow : wire[f] \notin {"early", "late"}

(* A task of a finished incarnation does not write on a flow id that       *)
(* another incarnation holds: relay/context.rs says of its token that "a   *)
(* reader task that finishes after the id has been closed and re-opened    *)
(* cannot act on the new flow".                                            *)
StaleTaskSilent == \A f \in Flow : wire[f] # "foreign"

(* A draining session only waits for flows it still has: the loop never    *)
(* goes back to sleep in Draining with an empty table, whichever handler   *)
(* removed the last slot, and no open refills the table meanwhile.         *)
DrainWaitsForFlows == (Selecting /\ state = "Draining") => Occupied # {}

(* Once the server is stopping, the session closes, whatever the client,   *)
(* the targets and the carrier do (drain deadline, task deadline, write    *)
(* deadline).                                                              *)
StopCompletes == stopping ~> (state = "Closed")

(* A carrier that has failed does not keep its session: once a writer has  *)
(* given up on it, the session closes.                                     *)
CarrierFailureCloses == shutdown ~> (state = "Closed")

(* An open is answered or cancelled: no slot stays in the opening state.   *)
OpenResolves == \A f \in Flow : (SlotKind(f) \in Opening) ~> (SlotKind(f) \notin Opening)

(* A half-closed TCP flow does not stay in the table: the half-close timer *)
(* (or the end of the other direction) retires it.                         *)
HasSlotOf(t) == \E f \in Flow : table[f] = t
HalfCloseEnds == \A t \in Token : (HasSlotOf(t) /\ inc[t].t2c # inc[t].c2t) ~> ~HasSlotOf(t)
====
