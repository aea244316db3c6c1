----------------------- MODULE ServerSessionHandlers ------------------------
(***************************************************************************)
(* Why the handlers of the session loop preserve the invariant of          *)
(* ServerSession: those that put nothing in the table, and the admission   *)
(* of an open.                                                             *)
(***************************************************************************)
EXTENDS ServerSessionTasks

(* Steps of the session loop.                                              *)

(* What a handler does to the flows: slots evolve or are removed, timers   *)
(* are armed or aborted.                                                   *)
FlowMove ==
    /\ nextToken' = nextToken
    /\ table' \in [Flow -> Token \cup {NoToken}]
    /\ \A f \in Flow : table'[f] \in {table[f], NoToken}
    /\ inc' \in [Token -> Incarnation]
    /\ \A t \in Token : Evolves(inc[t], inc'[t])
    /\ task' \in [Token -> [TaskKind -> Pc]]
    /\ \A t \in Token : TimerMove(task[t], task'[t])
    /\ \A t \in Token : inc[t].kind = "unused" => task'[t] = task[t]

(* At most the head of the event queue is taken. *)
EventMove == events' = events \/ (events # <<>> /\ events' = Tail(events))

(* No event is made up. *)
LEMMA EventsKept ==
    ASSUME TypeOK, EventMove
    PROVE  /\ events' \in Seq(Event) /\ Len(events') <= EventCap
           /\ \A n \in 1 .. Len(events') : \E m \in 1 .. Len(events) : events'[n] = events[m]
<1>1. CASE events' = events
  BY <1>1 DEF TypeOK
<1>2. CASE events # <<>> /\ events' = Tail(events)
  <2>1. /\ events' \in Seq(Event) /\ Len(events') = Len(events) - 1 /\ Len(events) \in Nat
        /\ Len(events) > 0
        /\ \A n \in 1 .. Len(events') : events'[n] = events[n + 1]
    BY <1>2, HeadTailProperties, EmptySeq DEF TypeOK
  <2>2. \A n \in 1 .. Len(events') : n + 1 \in 1 .. Len(events)
    BY <2>1
  <2> QED BY <2>1, <2>2, BoundAssumption DEF TypeOK
<1> QED BY <1>1, <1>2 DEF EventMove

(* A queued event is of an incarnation that exists. *)
LEMMA EventNames ==
    ASSUME IInv, NEW n \in 1 .. Len(events)
    PROVE  /\ events[n] \in Event /\ events[n].token \in Token
           /\ inc[events[n].token].kind # "unused" /\ inc[events[n].token].flow \in Flow
           /\ events[n].type = "opened" => inc[events[n].token].kind \in Opening
<1>1. events[n] \in Event
  BY DEF IInv, TypeOK
<1> QED BY <1>1 DEF IInv, IdentityInv, Event

(* Such a step keeps the names in order. *)
LEMMA FlowMovePreserves ==
    ASSUME IInv, FlowMove, EventMove
    PROVE  IdentityInv' /\ LatestInv' /\ QueueInv'
<1>1. \A u \in Token : /\ inc'[u].kind = inc[u].kind /\ inc'[u].flow = inc[u].flow
                       /\ inc'[u].from = inc[u].from
  BY DEF FlowMove, Evolves
<1>2. \A f \in Flow : table'[f] # NoToken => table'[f] = table[f] /\ table[f] \in Token
  BY DEF IInv, TypeOK, FlowMove
<1>3. IdentityInv'
  <2>1. \A u \in Token : inc'[u].kind # "unused" => inc'[u].flow \in Flow /\ u < nextToken'
    BY <1>1 DEF IInv, IdentityInv, FlowMove
  <2>2. \A f \in Flow : table'[f] # NoToken =>
          inc'[table'[f]].kind # "unused" /\ inc'[table'[f]].flow = f
    BY <1>1, <1>2 DEF IInv, IdentityInv
  <2>3. \A u \in Token, k \in TaskKind : task'[u][k] # "off" => inc'[u].kind # "unused"
    BY <1>1 DEF IInv, IdentityInv, FlowMove
  <2>4. ASSUME NEW n \in 1 .. Len(events')
        PROVE  /\ inc'[events'[n].token].kind # "unused"
               /\ events'[n].type = "opened" => inc'[events'[n].token].kind \in Opening
    <3>1. TypeOK
      BY DEF IInv
    <3>2. PICK m \in 1 .. Len(events) : events'[n] = events[m]
      BY <3>1, EventsKept
    <3> QED BY <1>1, <3>2, EventNames
  <2>5. \A u \in Token : task'[u]["open"] # "off" => inc'[u].kind \in Opening
    BY <1>1 DEF IInv, IdentityInv, FlowMove, TimerMove, TaskKind, Timer
  <2> QED BY <2>1, <2>2, <2>3, <2>4, <2>5 DEF IdentityInv
<1>4. LatestInv'
  <2>1. \A f \in Flow : table'[f] # NoToken => AttemptOf(f)' = AttemptOf(f)
    BY <1>1, <1>2 DEF AttemptOf
  <2> QED BY <1>1, <1>2, <2>1 DEF IInv, LatestInv
<1>5. QueueInv'
  BY DEF IInv, QueueInv, FlowMove, Evolves
<1> QED BY <1>3, <1>4, <1>5

(* What the loop does next: a program of a handler, the stop, or a wait. *)
LoopMove ==
    /\ loop' = AtStop \/ \E prog \in Seq(Instr) : ProgOk(prog)' /\ Then(prog)
    /\ lock' # Loop /\ lock' \in {Free, lock}
    /\ \A t \in Token, k \in {"reader", "writer"} : lock = <<t, k>> => task'[t][k] = task[t][k]

(* Such a step keeps the loop, the carrier and the drain in order. *)
LEMMA LoopMovePreserves ==
    ASSUME IInv, LoopMove
    PROVE  /\ ProgInv' /\ LockHolderWrites' /\ EndInv'
           /\ loop' \in [pc : {"select", "run", "stop", "join", "carrier", "exit"},
                         prog : Seq(Instr)]
<1>1. LockHolderWrites'
  <2>1. lock' # Loop
    BY DEF LoopMove
  <2>2. ASSUME NEW t \in Token, NEW k \in {"reader", "writer"}, lock' = <<t, k>>
        PROVE  task'[t][k] \in {"data", "eof", "status", "close"}
    <3>1. lock' # Free
      BY <2>2 DEF Free
    <3> QED BY <2>2, <3>1 DEF IInv, LockHolderWrites, LoopMove
  <2> QED BY <2>1, <2>2 DEF LockHolderWrites
<1>2. ASSUME loop' = AtStop
      PROVE  ProgInv' /\ EndInv' /\ loop' \in [pc : {"stop"}, prog : Seq(Instr)]
  <2>1. loop' = [pc |-> "stop", prog |-> <<>>] /\ <<>> \in Seq(Instr) /\ Len(<<>>) = 0
    BY <1>2, EmptySeq DEF AtStop
  <2>2. ProgInv'
    BY <2>1 DEF ProgInv, ProgOk
  <2>3. EndInv'
    BY <2>1 DEF EndInv, DrainWaitsForFlows, Selecting
  <2> QED BY <2>1, <2>2, <2>3
<1>3. ASSUME NEW prog \in Seq(Instr), ProgOk(prog)', Then(prog)
      PROVE  ProgInv' /\ EndInv' /\ loop' \in [pc : {"run", "stop", "select"}, prog : Seq(Instr)]
  <2>1. CASE prog # <<>>
    <3>1. loop' = [pc |-> "run", prog |-> prog]
      BY <1>3, <2>1 DEF Then
    <3>2. ProgInv'
      BY <1>3, <2>1, <3>1 DEF ProgInv
    <3>3. EndInv'
      BY <3>1 DEF EndInv, DrainWaitsForFlows, Selecting
    <3> QED BY <3>1, <3>2, <3>3
  <2>2. CASE prog = <<>> /\ loop' # AtStop
    <3>1. /\ loop' = [pc |-> "select", prog |-> <<>>]
          /\ ~(state' = "Draining" /\ \A f \in Flow : table'[f] = NoToken)
      BY <1>3, <2>2 DEF Then, AtSelect
    <3>2. ProgInv'
      BY <1>3, <2>2, <3>1 DEF ProgInv
    <3>3. EndInv'
      BY <3>1 DEF EndInv, DrainWaitsForFlows, Selecting, Occupied, HasSlot
    <3> QED BY <2>2, <3>1, <3>2, <3>3
  <2>3. CASE loop' = AtStop
    BY <1>2, <2>3
  <2> QED BY <2>1, <2>2, <2>3
<1> QED BY <1>1, <1>2, <1>3 DEF LoopMove

(* Instructions other than the establishment of a flow. *)
PlainInstr == {i \in Instr : i.op # "establish" /\ (i.op = "remove" => i.flow \in Flow)}

(* The instructions the handlers are made of. *)
LEMMA PlainInstructions ==
    /\ \A frame \in {"ack", "data", "status", "close", "none"}, f \in Flow \cup {NoFlow} :
          Write(frame, f) \in PlainInstr /\ Tell(frame, f) \in PlainInstr
    /\ \A f \in Flow : Remove(f) \in PlainInstr
    /\ Stop \in PlainInstr
BY DEF Write, Tell, Remove, Stop, Do, PlainInstr, Instr

(* A program without an establishment is in order in every state. *)
LEMMA PlainProgram ==
    ASSUME NEW prog \in Seq(PlainInstr)
    PROVE  prog \in Seq(Instr) /\ ProgOk(prog) /\ ProgOk(prog)'
<1>1. \A n \in 1 .. Len(prog) : prog[n] \in PlainInstr
  OBVIOUS
<1>2. prog \in Seq(Instr)
  BY SeqDef, <1>1 DEF PlainInstr
<1>3. \A n \in 1 .. Len(prog) :
         prog[n].op # "establish" /\ (prog[n].op = "remove" => prog[n].flow \in Flow)
  BY <1>1 DEF PlainInstr
<1>4. ProgOk(prog)
  BY <1>3 DEF ProgOk
<1>5. ProgOk(prog)'
  BY <1>3 DEF ProgOk
<1> QED BY <1>2, <1>4, <1>5

(* The answers a handler gives. *)
LEMMA Answers ==
    ASSUME NEW f \in Flow
    PROVE  /\ <<>> \in Seq(PlainInstr) /\ Refuse(f) \in Seq(PlainInstr)
           /\ Reject(f) \in Seq(PlainInstr) /\ <<Write("status", f)>> \in Seq(PlainInstr)
           /\ <<Write("close", f), Remove(f)>> \in Seq(PlainInstr)
           /\ <<Tell("close", f), Remove(f)>> \in Seq(PlainInstr)
<1>1. /\ Write("status", f) \in PlainInstr /\ Write("close", f) \in PlainInstr
      /\ Tell("close", f) \in PlainInstr /\ Remove(f) \in PlainInstr
  BY PlainInstructions
<1> QED BY <1>1 DEF Refuse, Reject

(* The domains of what a handler may change besides the flows. *)
RestTyped ==
    /\ state' \in {"Relaying", "Draining", "Closing", "Closed"}
    /\ UNCHANGED <<stopping, carrier>>
    /\ shutdown' \in BOOLEAN /\ settings' \in BOOLEAN
    /\ wire' \in [Flow -> WireState]
    /\ peer' \in [Flow -> {"unused", "tcp", "udp", "closed"}]

(* The loop holds the carrier only in the middle of a write. *)
LEMMA LoopNotHolding ==
    ASSUME IInv, ~Run({"write", "tell"})
    PROVE  lock # Loop
BY DEF IInv, LockHolderWrites

(* A handler that puts nothing in the table preserves the invariant. *)
LEMMA HandlerPreserves ==
    ASSUME IInv, FlowMove, EventMove, RestTyped, ~Run({"write", "tell"}), UNCHANGED lock,
           loop' = AtStop \/ \E prog \in Seq(PlainInstr) : Then(prog)
    PROVE  IInv'
<1>1. TypeOK /\ lock # Loop
  BY LoopNotHolding DEF IInv
<1>2. loop' = AtStop \/ \E prog \in Seq(Instr) : ProgOk(prog)' /\ Then(prog)
  BY PlainProgram
<1>3. \A t \in Token, k \in {"reader", "writer"} : task'[t][k] = task[t][k]
  BY DEF FlowMove, TimerMove, TaskKind, Timer
<1>4. LoopMove
  BY <1>1, <1>2, <1>3 DEF LoopMove
<1>5. /\ ProgInv' /\ LockHolderWrites' /\ EndInv'
      /\ loop' \in [pc : {"select", "run", "stop", "join", "carrier", "exit"}, prog : Seq(Instr)]
  BY <1>4, LoopMovePreserves
<1>6. IdentityInv' /\ LatestInv' /\ QueueInv'
  BY FlowMovePreserves
<1>7. events' \in Seq(Event) /\ Len(events') <= EventCap
  BY <1>1, EventsKept
<1>8. TypeOK'
  BY <1>1, <1>5, <1>7 DEF TypeOK, RestTyped, FlowMove
<1> QED BY <1>5, <1>6, <1>8 DEF IInv

(* A handler that leaves the flows alone. *)
LEMMA FlowsStay ==
    ASSUME TypeOK, UNCHANGED flowVars
    PROVE  FlowMove
<1>1. \A t \in Token : Evolves(inc[t], inc[t]) /\ TimerMove(task[t], task[t])
  BY EvolvesSame, TimerMoveSame DEF TypeOK
<1> QED BY <1>1 DEF TypeOK, FlowMove, flowVars

(* A change of one incarnation and its timers, with or without the removal *)
(* of the slot.                                                            *)
LEMMA SlotMoves ==
    ASSUME IInv, NEW f \in Flow, table[f] # NoToken, NEW i, NEW tasks,
           Evolves(inc[table[f]], i), TimerMove(task[table[f]], tasks),
           inc' = [inc EXCEPT ![table[f]] = i], task' = [task EXCEPT ![table[f]] = tasks],
           table' = table \/ table' = [table EXCEPT ![f] = NoToken],
           UNCHANGED nextToken
    PROVE  FlowMove
<1>1. /\ TypeOK /\ table[f] \in Token /\ inc[table[f]].kind # "unused"
  BY DEF IInv, TypeOK, IdentityInv
<1>2. \A t \in Token : Evolves(inc[t], inc[t]) /\ TimerMove(task[t], task[t])
  BY <1>1, EvolvesSame, TimerMoveSame DEF TypeOK
<1>3. i \in Incarnation /\ tasks \in [TaskKind -> Pc]
  BY DEF Evolves, TimerMove
<1>4. inc' \in [Token -> Incarnation] /\ \A t \in Token : Evolves(inc[t], inc'[t])
  BY <1>1, <1>2, <1>3 DEF TypeOK
<1>5. /\ task' \in [Token -> [TaskKind -> Pc]]
      /\ \A t \in Token : TimerMove(task[t], task'[t])
      /\ \A t \in Token : inc[t].kind = "unused" => task'[t] = task[t]
  BY <1>1, <1>2, <1>3 DEF TypeOK
<1>6. /\ table' \in [Flow -> Token \cup {NoToken}]
      /\ \A g \in Flow : table'[g] \in {table[g], NoToken}
  BY <1>1 DEF TypeOK
<1> QED BY <1>4, <1>5, <1>6 DEF FlowMove

(* The update of a slot, which removes it when `gone'. *)
LEMMA UpdateMoves ==
    ASSUME IInv, NEW f \in Flow, table[f] # NoToken, NEW i, NEW tasks, NEW gone \in BOOLEAN,
           Evolves(inc[table[f]], i), TimerMove(task[table[f]], tasks),
           UpdateSlot(f, i, tasks, gone)
    PROVE  FlowMove
<1>1. i \in Incarnation /\ tasks \in [TaskKind -> Pc]
  BY DEF Evolves, TimerMove
<1>2. CASE gone
  <2>1. Evolves(inc[table[f]], Dropped(i))
    BY <1>1, EvolvesDropped, EvolvesTransitive
  <2>2. TimerMove(task[table[f]], CancelTimer(tasks, i))
    BY <1>1, TimerMoveCancel, TimerMoveTransitive
  <2>3. /\ inc' = [inc EXCEPT ![table[f]] = Dropped(i)]
        /\ task' = [task EXCEPT ![table[f]] = CancelTimer(tasks, i)]
        /\ table' = [table EXCEPT ![f] = NoToken]
        /\ UNCHANGED nextToken
    BY <1>2 DEF UpdateSlot
  <2> QED BY <2>1, <2>2, <2>3, SlotMoves, Zenon
<1>3. CASE ~gone
  <2>1. /\ inc' = [inc EXCEPT ![table[f]] = i] /\ task' = [task EXCEPT ![table[f]] = tasks]
        /\ table' = table /\ UNCHANGED nextToken
    BY <1>3 DEF UpdateSlot
  <2> QED BY <2>1, SlotMoves, Zenon
<1> QED BY <1>2, <1>3

(* remove_flow_slot *)
LEMMA RemoveMoves ==
    ASSUME IInv, NEW f \in Flow, RemoveSlot(f), UNCHANGED nextToken
    PROVE  FlowMove
<1>1. TypeOK
  BY DEF IInv
<1>2. CASE ~HasSlot(f)
  BY <1>1, <1>2, FlowsStay DEF RemoveSlot, flowVars
<1>3. CASE HasSlot(f)
  <2>1. table[f] # NoToken /\ inc[table[f]] \in Incarnation /\ task[table[f]] \in [TaskKind -> Pc]
    BY <1>1, <1>3 DEF HasSlot, TypeOK
  <2>2. Evolves(inc[table[f]], Dropped(inc[table[f]]))
    BY <2>1, EvolvesDropped
  <2>3. TimerMove(task[table[f]], CancelTimer(task[table[f]], inc[table[f]]))
    BY <2>1, TimerMoveCancel
  <2>4. /\ inc' = [inc EXCEPT ![table[f]] = Dropped(inc[table[f]])]
        /\ task' = [task EXCEPT ![table[f]] = CancelTimer(task[table[f]], inc[table[f]])]
        /\ table' = [table EXCEPT ![f] = NoToken]
    BY <1>3 DEF RemoveSlot, Slot
  <2> QED BY <2>1, <2>2, <2>3, <2>4, SlotMoves, Zenon
<1> QED BY <1>2, <1>3

(* Queueing data on a flow that is not closed keeps the order: no end of   *)
(* upload is queued yet.                                                   *)
LEMMA EvolvesQueued ==
    ASSUME NEW i \in Incarnation, ~i.closed
    PROVE  Evolves(i, [i EXCEPT !.queue = Append(@, "data")])
<1> DEFINE j == [i EXCEPT !.queue = Append(@, "data")]
<1>1. i.queue \in Seq(Command) /\ "data" \in Command
  BY DEF Incarnation, Command
<1>2. /\ Append(i.queue, "data") \in Seq(Command) /\ Len(i.queue) \in Nat
      /\ Len(Append(i.queue, "data")) = Len(i.queue) + 1
      /\ \A m \in 1 .. Len(i.queue) : Append(i.queue, "data")[m] = i.queue[m]
      /\ Append(i.queue, "data")[Len(i.queue) + 1] = "data"
  BY <1>1, AppendProperties
<1>3. /\ j \in Incarnation /\ j.kind = i.kind /\ j.flow = i.flow /\ j.from = i.from
      /\ j.queue = Append(i.queue, "data")
  BY <1>2 DEF Incarnation
<1> HIDE DEF j
<1>4. ASSUME QueueOk(i) PROVE QueueOk(j)
  <2>1. ASSUME NEW m \in 1 .. Len(j.queue) PROVE j.queue[m] # "close"
    <3>1. CASE m = Len(i.queue) + 1
      BY <1>2, <1>3, <3>1
    <3>2. CASE m \in 1 .. Len(i.queue)
      BY <1>2, <1>3, <1>4, <3>2 DEF QueueOk
    <3> QED BY <1>2, <1>3, <3>1, <3>2
  <2> QED BY <2>1 DEF QueueOk
<1> QED BY <1>3, <1>4 DEF Evolves, j

(* What a handler finds behind an occupied flow id. *)
LEMMA SlotTyped ==
    ASSUME IInv, NEW f \in Flow, SlotKind(f) # "none"
    PROVE  /\ table[f] # NoToken /\ table[f] \in Token /\ Slot(f) = inc[table[f]]
           /\ inc[table[f]] \in Incarnation /\ task[table[f]] \in [TaskKind -> Pc]
           /\ Receiving(table[f]) \in BOOLEAN /\ SlotKind(f) = inc[table[f]].kind
           /\ TimerMove(task[table[f]], task[table[f]])
           /\ TimerMove(task[table[f]], CancelTimer(task[table[f]], inc[table[f]]))
           /\ Evolves(inc[table[f]], inc[table[f]])
<1>1. /\ table[f] # NoToken /\ table[f] \in Token /\ Slot(f) = inc[table[f]]
      /\ inc[table[f]] \in Incarnation /\ task[table[f]] \in [TaskKind -> Pc]
      /\ SlotKind(f) = inc[table[f]].kind
  BY DEF IInv, TypeOK, SlotKind, Slot, HasSlot
<1>2. Receiving(table[f]) \in BOOLEAN
  BY DEF Receiving
<1> QED BY <1>1, <1>2, TimerMoveSame, TimerMoveCancel, EvolvesSame

(* forward_tcp_data_frame *)
LEMMA ForwardMoves ==
    ASSUME IInv, NEW f \in Flow, SlotKind(f) = "tcp", ForwardTcpData(f)
    PROVE  FlowMove /\ \E prog \in Seq(PlainInstr) : Then(prog)
<1> DEFINE t == table[f]
           i == inc[t]
           unwritable == [i EXCEPT !.c2t = FALSE, !.closed = TRUE]
           aborted == Abort(CloseQueue(i, Receiving(t)), Receiving(t))
<1>0. /\ t # NoToken /\ Slot(f) = i /\ i \in Incarnation /\ Receiving(t) \in BOOLEAN
      /\ TimerMove(task[t], task[t]) /\ TimerMove(task[t], CancelTimer(task[t], i))
  BY SlotTyped
<1>1. CASE /\ CanEnqueue(f)
           /\ UpdateSlot(f, [i EXCEPT !.queue = Append(@, "data")], task[t], FALSE)
           /\ Then(<<>>)
  <2>1. Evolves(i, [i EXCEPT !.queue = Append(@, "data")])
    BY <1>0, <1>1, EvolvesQueued DEF CanEnqueue
  <2> QED BY <1>0, <1>1, <2>1, UpdateMoves, Answers, Zenon
<1>2. CASE UpdateSlot(f, unwritable, task[t], Removable(unwritable)) /\ Then(<<>>)
  <2>1. unwritable \in Incarnation
    BY <1>0, Zenon DEF Incarnation
  <2>2. Evolves(i, unwritable)
    BY <1>0, <2>1, EvolvesFlags, Zenon DEF Incarnation
  <2>3. Removable(unwritable) \in BOOLEAN
    BY DEF Removable
  <2> HIDE DEF unwritable
  <2> QED BY <1>0, <1>2, <2>2, <2>3, UpdateMoves, Answers, Zenon
<1>3. CASE UpdateSlot(f, aborted, CancelTimer(task[t], i), FALSE) /\ Then(Reject(f))
  <2>1. Evolves(i, CloseQueue(i, Receiving(t))) /\ CloseQueue(i, Receiving(t)) \in Incarnation
    BY <1>0, EvolvesCloseQueue DEF Evolves
  <2>2. Evolves(i, aborted)
    BY <1>0, <2>1, EvolvesAbort, EvolvesTransitive
  <2> HIDE DEF aborted
  <2> QED BY <1>0, <1>3, <2>2, UpdateMoves, Answers, ZenonT(60)
<1> QED BY <1>0, <1>1, <1>2, <1>3, Zenon DEF ForwardTcpData

(* TCP_CLOSE(NORMAL) on an established flow *)
LEMMA FinishMoves ==
    ASSUME IInv, NEW f \in Flow, SlotKind(f) = "tcp", FinishUpload(f)
    PROVE  FlowMove
<1> DEFINE t == table[f]
           i == inc[t]
           done == CloseClientToTarget(i, Receiving(t))
<1>0. /\ t # NoToken /\ Slot(f) = i /\ i \in Incarnation /\ Receiving(t) \in BOOLEAN
      /\ task[t] \in [TaskKind -> Pc]
      /\ TimerMove(task[t], task[t]) /\ TimerMove(task[t], CancelTimer(task[t], i))
  BY SlotTyped
<1>1. Evolves(i, done) /\ done \in Incarnation
  BY <1>0, EvolvesCloseClientToTarget DEF Evolves
<1> HIDE DEF done
<1>2. ASSUME NEW k \in {"none"} \cup Timer PROVE Evolves(i, [done EXCEPT !.timer = k])
  <2>1. [done EXCEPT !.timer = k] \in Incarnation
    BY <1>1 DEF Incarnation
  <2>2. Evolves(done, [done EXCEPT !.timer = k])
    BY <1>1, <2>1, EvolvesFlags, SMTT(30) DEF Incarnation
  <2> QED BY <1>1, <2>2, EvolvesTransitive
<1>3. TimerMove(task[t], ArmTimer(task[t], i, "c2tTimer"))
  BY <1>0, TimerMoveArm DEF Timer
<1>4. CASE UpdateSlot(f, [done EXCEPT !.timer = "c2tTimer"],
                      ArmTimer(task[t], i, "c2tTimer"), FALSE)
  <2>1. Evolves(i, [done EXCEPT !.timer = "c2tTimer"])
    BY <1>2 DEF Timer
  <2> QED BY <1>0, <1>3, <1>4, <2>1, UpdateMoves, Zenon
<1>5. CASE UpdateSlot(f, done, task[t], FALSE)
  BY <1>0, <1>1, <1>5, UpdateMoves, Zenon
<1>6. CASE UpdateSlot(f, [done EXCEPT !.timer = "none"], CancelTimer(task[t], i), Removable(done))
  <2>1. Removable(done) \in BOOLEAN /\ Evolves(i, [done EXCEPT !.timer = "none"])
    BY <1>2 DEF Removable
  <2> QED BY <1>0, <1>6, <2>1, UpdateMoves
<1> QED BY <1>0, <1>4, <1>5, <1>6, ZenonT(60) DEF FinishUpload, done

(* The removal of a slot without an await. *)
LEMMA AbortSlotMoves ==
    ASSUME IInv, NEW f \in Flow, SlotKind(f) # "none", AbortSlot(f)
    PROVE  FlowMove
<1> DEFINE t == table[f]
           j == IF inc[t].kind = "tcp" THEN Abort(inc[t], Receiving(t)) ELSE inc[t]
<1>0. /\ t # NoToken /\ Slot(f) = inc[t] /\ inc[t] \in Incarnation /\ Receiving(t) \in BOOLEAN
      /\ TimerMove(task[t], CancelTimer(task[t], inc[t]))
  BY SlotTyped
<1>1. Evolves(inc[t], j)
  BY <1>0, EvolvesSame, EvolvesAbort
<1>2. UpdateSlot(f, j, CancelTimer(task[t], inc[t]), TRUE)
  BY <1>0, Zenon DEF AbortSlot
<1> HIDE DEF j
<1> QED BY <1>0, <1>1, <1>2, UpdateMoves, ZenonT(60)

(* The handlers of the frames of a flow, except the admission of an open.  *)
LEMMA FramesPreserve ==
    ASSUME IInv, NEW f \in Flow, Handling, UNCHANGED settings,
           peer' \in [Flow -> {"unused", "tcp", "udp", "closed"}],
           FlowMove, \E prog \in Seq(PlainInstr) : Then(prog)
    PROVE  IInv'
<1>1. EventMove /\ RestTyped /\ UNCHANGED lock
  BY DEF Handling, EventMove, RestTyped, outVars, IInv, TypeOK
<1>2. ~Run({"write", "tell"})
  BY DEF Handling, Selecting, Run
<1> QED BY <1>1, <1>2, HandlerPreserves

(* A conforming client's place stays in its domain. *)
LEMMA PeerTyped ==
    ASSUME TypeOK, NEW f \in Flow, NEW proto, NEW next \in {"tcp", "udp", "closed"},
           ClientOn(f, proto, next)
    PROVE  peer' \in [Flow -> {"unused", "tcp", "udp", "closed"}]
BY DEF TypeOK, ClientOn

(* handle_tcp_data_frame *)
LEMMA TcpDataPreserves ==
    ASSUME IInv, NEW f \in Flow, TcpDataFrame(f) PROVE IInv'
<1>1. TypeOK /\ peer' \in [Flow -> {"unused", "tcp", "udp", "closed"}]
  BY PeerTyped DEF IInv, TcpDataFrame
<1>2. FlowMove /\ \E prog \in Seq(PlainInstr) : Then(prog)
  BY <1>1, FlowsStay, Answers, ForwardMoves, Zenon DEF TcpDataFrame
<1> QED BY <1>1, <1>2, FramesPreserve DEF TcpDataFrame

(* handle_udp_data_frame *)
LEMMA UdpDataPreserves ==
    ASSUME IInv, NEW f \in Flow, UdpDataFrame(f) PROVE IInv'
<1>1. TypeOK /\ peer' \in [Flow -> {"unused", "tcp", "udp", "closed"}]
  BY PeerTyped DEF IInv, UdpDataFrame
<1>2. FlowMove /\ \E prog \in Seq(PlainInstr) : Then(prog)
  BY <1>1, FlowsStay, Answers, Zenon DEF UdpDataFrame
<1> QED BY <1>1, <1>2, FramesPreserve DEF UdpDataFrame

(* handle_tcp_close_frame *)
LEMMA TcpClosePreserves ==
    ASSUME IInv, NEW f \in Flow, TcpCloseFrame(f) PROVE IInv'
<1>1. TypeOK /\ peer' \in [Flow -> {"unused", "tcp", "udp", "closed"}]
  BY PeerTyped DEF IInv, TcpCloseFrame
<1>2. FlowMove /\ \E prog \in Seq(PlainInstr) : Then(prog)
  BY <1>1, FlowsStay, Answers, FinishMoves, AbortSlotMoves, Zenon DEF TcpCloseFrame
<1> QED BY <1>1, <1>2, FramesPreserve DEF TcpCloseFrame

(* handle_udp_close_frame *)
LEMMA UdpClosePreserves ==
    ASSUME IInv, NEW f \in Flow, UdpCloseFrame(f) PROVE IInv'
<1>1. TypeOK /\ peer' \in [Flow -> {"unused", "tcp", "udp", "closed"}]
  BY PeerTyped DEF IInv, UdpCloseFrame
<1>2. FlowMove /\ \E prog \in Seq(PlainInstr) : Then(prog)
  BY <1>1, FlowsStay, Answers, AbortSlotMoves, Zenon DEF UdpCloseFrame
<1> QED BY <1>1, <1>2, FramesPreserve DEF UdpCloseFrame

(* handle_client_flow_status_frame *)
LEMMA StatusPreserves ==
    ASSUME IInv, NEW f \in Flow, StatusFrame(f) PROVE IInv'
<1>1. TypeOK /\ peer' \in [Flow -> {"unused", "tcp", "udp", "closed"}]
  BY PeerTyped, SMTT(30) DEF IInv, StatusFrame
<1>2. HasSlot(f) => SlotKind(f) # "none"
  BY SMTT(30) DEF SlotKind, Slot, HasSlot, IInv, TypeOK, Incarnation, Opening, Established
<1>3. FlowMove /\ \E prog \in Seq(PlainInstr) : Then(prog)
  BY <1>1, <1>2, FlowsStay, Answers, AbortSlotMoves, Zenon DEF StatusFrame
<1> QED BY <1>1, <1>3, FramesPreserve DEF StatusFrame

(* close_idle_udp_flows *)
LEMMA UdpIdlePreserves ==
    ASSUME IInv, NEW f \in Flow, UdpIdle(f) PROVE IInv'
<1>1. TypeOK /\ peer' \in [Flow -> {"unused", "tcp", "udp", "closed"}]
  BY DEF IInv, TypeOK, UdpIdle
<1>2. FlowMove /\ \E prog \in Seq(PlainInstr) : Then(prog)
  BY <1>1, FlowsStay, Answers, Zenon DEF UdpIdle
<1> QED BY <1>1, <1>2, FramesPreserve DEF UdpIdle

(* Frames that belong to no flow. *)
LEMMA ConnectionPreserves ==
    ASSUME IInv, ConnectionFrame PROVE IInv'
<1>0. TypeOK
  BY DEF IInv
<1>1. UNCHANGED <<flowVars, peer>> /\ Handling /\ settings' \in BOOLEAN
  BY <1>0, Zenon
     DEF ConnectionFrame, SettingsFrame, PingFrame, MalformedFrame, ReservedIdFrame, TypeOK
<1>2. \E prog \in Seq(PlainInstr) : Then(prog)
  <2>1. \A f \in Flow \cup {NoFlow} :
           /\ Write("status", f) \in PlainInstr /\ Write("close", f) \in PlainInstr
           /\ Tell("status", f) \in PlainInstr /\ Stop \in PlainInstr
    BY PlainInstructions
  <2>2. \A f \in Flow \cup {NoFlow} :
           /\ <<Write("status", f), Stop>> \in Seq(PlainInstr)
           /\ <<Tell("status", f), Stop>> \in Seq(PlainInstr)
           /\ <<Write("status", f)>> \in Seq(PlainInstr)
           /\ Refuse(f) \in Seq(PlainInstr)
           /\ <<>> \in Seq(PlainInstr)
    BY <2>1 DEF Refuse
  <2>3. NoFlow \in Flow \cup {NoFlow}
    OBVIOUS
  <2> QED BY <2>2, <2>3, Zenon DEF ConnectionFrame, SettingsFrame, PingFrame, MalformedFrame,
                            ReservedIdFrame
<1>3. FlowMove
  BY <1>0, <1>1, FlowsStay
<1>4. EventMove /\ RestTyped /\ UNCHANGED lock
  BY <1>0, <1>1 DEF Handling, EventMove, RestTyped, outVars, TypeOK
<1>5. ~Run({"write", "tell"})
  BY <1>1 DEF Handling, Selecting, Run
<1> QED BY <1>2, <1>3, <1>4, <1>5, HandlerPreserves

(* Events and deadlines that touch no flow, and the end of a program.      *)
LEMMA EndingsPreserve ==
    ASSUME IInv, ShutdownEvent \/ DrainTimeout \/ SessionEnds \/ CarrierFailed \/ RunStop
    PROVE  IInv'
<1>0. TypeOK
  BY DEF IInv
<1>1. /\ UNCHANGED <<flowVars, events, stopping, carrier, outVars, peer, settings>>
      /\ state' \in {state, "Draining"}
  BY DEF ShutdownEvent, DrainTimeout, SessionEnds, CarrierFailed, RunStop
<1>2. loop' = AtStop \/ \E prog \in Seq(PlainInstr) : Then(prog)
  <2>1. <<>> \in Seq(PlainInstr)
    BY EmptySeq
  <2> QED BY <2>1, Zenon DEF ShutdownEvent, DrainTimeout, SessionEnds, CarrierFailed, RunStop
<1>3. FlowMove
  BY <1>0, <1>1, FlowsStay
<1>4. EventMove /\ RestTyped /\ UNCHANGED lock
  BY <1>0, <1>1 DEF EventMove, RestTyped, outVars, TypeOK
<1>5. ~Run({"write", "tell"})
  BY DEF ShutdownEvent, DrainTimeout, SessionEnds, CarrierFailed, RunStop, Selecting, Run
<1> QED BY <1>2, <1>3, <1>4, <1>5, HandlerPreserves

(* handle_target_read_closed, handle_udp_read_closed *)
LEMMA ReadClosedMoves ==
    ASSUME IInv, NEW t \in Token, inc[t].flow \in Flow, ReadClosed(t)
    PROVE  FlowMove /\ Then(<<>>)
<1> DEFINE f == inc[t].flow
           i == inc[t]
           eof == [i EXCEPT !.t2c = FALSE]
<1>0. TypeOK /\ i \in Incarnation /\ task[t] \in [TaskKind -> Pc] /\ Receiving(t) \in BOOLEAN
  BY SMTT(30) DEF IInv, TypeOK, Receiving
<1>1. /\ Evolves(i, i) /\ Evolves(i, Abort(i, Receiving(t)))
      /\ TimerMove(task[t], task[t]) /\ TimerMove(task[t], CancelTimer(task[t], i))
      /\ TimerMove(task[t], ArmTimer(task[t], i, "t2cTimer"))
  BY <1>0, EvolvesSame, EvolvesAbort, TimerMoveSame, TimerMoveCancel, TimerMoveArm DEF Timer
<1>2. Evolves(i, eof) /\ Evolves(i, [eof EXCEPT !.timer = "t2cTimer"])
  <2>1. Evolves(i, eof)
    BY <1>0, EvolvesHalfClosed
  <2>2. eof \in Incarnation /\ "t2cTimer" \in Timer
    BY <2>1 DEF Evolves, Timer
  <2> HIDE DEF i, eof
  <2>3. Evolves(eof, [eof EXCEPT !.timer = "t2cTimer"])
    BY <2>2, EvolvesArmed, Zenon
  <2>4. [eof EXCEPT !.timer = "t2cTimer"] \in Incarnation
    BY <2>3 DEF Evolves
  <2> QED BY <1>0, <2>1, <2>2, <2>3, <2>4, EvolvesTransitive, Zenon
<1>3. Removable(eof) \in BOOLEAN
  BY DEF Removable
<1>4. CASE ~Current(t)
  BY <1>0, <1>4, FlowsStay DEF ReadClosed
<1>5. CASE Current(t)
  <2>1. table[f] = t /\ table[f] # NoToken
    BY <1>5 DEF Current, Token, NoToken
  <2>2. \/ UpdateSlot(f, i, task[t], TRUE)
        \/ UpdateSlot(f, Abort(i, Receiving(t)), CancelTimer(task[t], i), TRUE)
        \/ UpdateSlot(f, [eof EXCEPT !.timer = "t2cTimer"], ArmTimer(task[t], i, "t2cTimer"), FALSE)
        \/ UpdateSlot(f, eof, task[t], Removable(eof))
    BY <1>5, Zenon DEF ReadClosed
  <2> HIDE DEF eof
  <2>3. FlowMove
    BY <1>1, <1>2, <1>3, <2>1, <2>2, UpdateMoves, Zenon
  <2> QED BY <2>3 DEF ReadClosed
<1> QED BY <1>4, <1>5 DEF ReadClosed

(* handle_target_write_closed *)
LEMMA WriteClosedMoves ==
    ASSUME IInv, NEW t \in Token, inc[t].flow \in Flow, WriteClosed(t)
    PROVE  FlowMove /\ Then(<<>>)
<1> DEFINE f == inc[t].flow
           i == [inc[t] EXCEPT !.c2t = FALSE, !.writing = FALSE, !.closed = TRUE]
           j == IF i.aborted THEN Abort(i, Receiving(t)) ELSE i
           gone == i.aborted \/ Removable(i)
           tasks == IF gone THEN CancelTimer(task[t], i) ELSE task[t]
<1>0. /\ TypeOK /\ inc[t] \in Incarnation /\ task[t] \in [TaskKind -> Pc]
      /\ Receiving(t) \in BOOLEAN
  BY DEF IInv, TypeOK, Receiving
<1>1. i \in Incarnation
  BY <1>0, ZenonT(60) DEF Incarnation
<1>2. Evolves(inc[t], i)
  <2>1. /\ i.kind = inc[t].kind /\ i.flow = inc[t].flow /\ i.from = inc[t].from
        /\ i.queue = inc[t].queue /\ i.closed
    BY <1>0 DEF Incarnation
  <2> HIDE DEF i
  <2> QED BY <1>0, <1>1, <2>1, EvolvesFlags
<1>3. CASE ~Current(t)
  BY <1>0, <1>3, FlowsStay, SMTT(30) DEF WriteClosed
<1>4. CASE Current(t)
  <2>1. table[f] = t /\ table[f] # NoToken
    BY <1>4 DEF Current, Token, NoToken
  <2>2. UpdateSlot(f, j, tasks, gone) /\ Then(<<>>)
    BY <1>4 DEF WriteClosed
  <2>3. gone \in BOOLEAN
    BY <1>1, SMTT(30) DEF Removable, Incarnation
  <2> HIDE DEF i, gone
  <2>4. Evolves(inc[t], j)
    BY <1>0, <1>1, <1>2, EvolvesAbort, EvolvesTransitive
  <2>5. TimerMove(task[t], tasks)
    BY <1>0, <1>1, TimerMoveSame, TimerMoveCancel, SMTT(30)
  <2> HIDE DEF j, tasks
  <2> QED BY <2>1, <2>2, <2>3, <2>4, <2>5, UpdateMoves, SMTT(30)
<1> QED BY <1>3, <1>4

(* handle_half_close_drain_expired *)
LEMMA DrainExpiredMoves ==
    ASSUME IInv, NEW t \in Token, inc[t].flow \in Flow, NEW timer, DrainExpired(t, timer)
    PROVE  FlowMove /\ \E prog \in Seq(PlainInstr) : Then(prog)
<1> DEFINE f == inc[t].flow
<1>0. /\ TypeOK /\ inc[t] \in Incarnation /\ task[t] \in [TaskKind -> Pc]
      /\ Receiving(t) \in BOOLEAN
  BY DEF IInv, TypeOK, Receiving
<1>1. CASE UNCHANGED flowVars /\ Then(<<>>)
  BY <1>0, <1>1, FlowsStay, Answers, Zenon
<1>2. CASE /\ Current(t)
           /\ UpdateSlot(f, Abort(inc[t], Receiving(t)), CancelTimer(task[t], inc[t]), FALSE)
           /\ Then(<<Write("close", f), Remove(f)>>) \/ Then(<<Tell("close", f), Remove(f)>>)
  <2>0. Current(t)
    BY <1>2, Zenon
  <2>1. table[f] = t /\ table[f] # NoToken
    BY <2>0 DEF Current, Token, NoToken
  <2>2. Evolves(inc[t], Abort(inc[t], Receiving(t)))
    BY <1>0, EvolvesAbort
  <2>3. TimerMove(task[t], CancelTimer(task[t], inc[t]))
    BY <1>0, TimerMoveCancel
  <2>4. FlowMove
    BY <1>2, <2>1, <2>2, <2>3, UpdateMoves, Zenon
  <2> QED BY <1>2, <2>4, Answers, ZenonT(60)
<1>3. \/ UNCHANGED flowVars /\ Then(<<>>)
      \/ /\ Current(t)
         /\ UpdateSlot(f, Abort(inc[t], Receiving(t)), CancelTimer(task[t], inc[t]), FALSE)
         /\ Then(<<Write("close", f), Remove(f)>>) \/ Then(<<Tell("close", f), Remove(f)>>)
  BY Zenon DEF DrainExpired
<1> QED BY <1>1, <1>2, <1>3, ZenonT(60)

(* The next token names nothing yet. *)
LEMMA NextTokenFresh ==
    ASSUME IInv, nextToken \in Token
    PROVE  /\ inc[nextToken].kind = "unused" /\ nextToken # NoToken
           /\ \A k \in TaskKind : task[nextToken][k] = "off"
           /\ \A f \in Flow : table[f] # nextToken
           /\ \A n \in 1 .. Len(events) : events[n].token # nextToken
           /\ \A t \in Token : inc[t].kind # "unused" => t < nextToken /\ t # nextToken
           /\ nextToken + 1 \in 1 .. (2 * MaxOpens + 1)
<1>1. nextToken \in Nat /\ nextToken # NoToken /\ nextToken + 1 \in 1 .. (2 * MaxOpens + 1)
  BY BoundAssumption DEF Token, NoToken
<1>2. inc[nextToken].kind = "unused"
  BY <1>1 DEF IInv, IdentityInv
<1>3. \A f \in Flow : table[f] # nextToken
  BY <1>1, <1>2, SMTT(30) DEF IInv, IdentityInv
<1>4. \A n \in 1 .. Len(events) : events[n].token # nextToken
  BY <1>2 DEF IInv, IdentityInv
<1>5. \A k \in TaskKind : task[nextToken][k] = "off"
  BY <1>2 DEF IInv, IdentityInv
<1>6. \A t \in Token : inc[t].kind # "unused" => t < nextToken /\ t # nextToken
  BY <1>2 DEF IInv, IdentityInv
<1> QED BY <1>1, <1>2, <1>3, <1>4, <1>5, <1>6

(* An empty incarnation has its queue in order. *)
LEMMA FreshTyped ==
    ASSUME NEW f \in Flow
    PROVE  /\ \A proto : LET i == NewOpening(f, proto)
                         IN  /\ i \in Incarnation /\ i.kind \in Opening /\ i.flow = f
                             /\ QueueOk(i)
           /\ \A o \in Token : inc[o].flow = f =>
                 LET i == NewFlow(o)
                 IN  /\ i \in Incarnation /\ i.kind \in Established /\ i.flow = f
                     /\ i.from = o /\ QueueOk(i)
<1>1. <<>> \in Seq(Command) /\ Len(<<>>) = 0
  BY EmptySeq
<1>2. ASSUME NEW i, i.queue = <<>> PROVE QueueOk(i)
  BY <1>1, <1>2 DEF QueueOk
<1>3. Unused \in Incarnation /\ Unused.queue = <<>>
  BY <1>1 DEF Unused, Incarnation
<1>4. ASSUME NEW proto
      PROVE  LET i == NewOpening(f, proto)
             IN  i \in Incarnation /\ i.kind \in Opening /\ i.flow = f /\ QueueOk(i)
  <2> DEFINE i == NewOpening(f, proto)
  <2>1. OpeningKind(proto) \in Opening
    BY DEF OpeningKind, Opening
  <2>2. i \in Incarnation /\ i.kind \in Opening /\ i.flow = f /\ i.queue = <<>>
    BY <1>3, <2>1, Zenon DEF NewOpening, Incarnation
  <2> QED BY <1>2, <2>2
<1>5. ASSUME NEW o \in Token, inc[o].flow = f
      PROVE  LET i == NewFlow(o)
             IN  /\ i \in Incarnation /\ i.kind \in Established /\ i.flow = f
                 /\ i.from = o /\ QueueOk(i)
  <2> DEFINE i == NewFlow(o)
             tcp == inc[o].kind = "openTcp"
             kind == IF tcp THEN "tcp" ELSE "udp"
  <2>1. kind \in Established /\ tcp \in BOOLEAN
    BY DEF Established
  <2>2. i = [Unused EXCEPT !.kind = kind, !.flow = f, !.from = o, !.t2c = tcp, !.c2t = tcp,
                           !.writing = tcp, !.sender = tcp]
    BY <1>5 DEF NewFlow
  <2> HIDE DEF i, tcp, kind
  <2>3. /\ i \in Incarnation /\ i.kind \in Established /\ i.flow = f /\ i.from = o
        /\ i.queue = <<>>
    BY <1>3, <2>1, <2>2, ZenonT(60) DEF Incarnation
  <2> QED BY <1>2, <2>3 DEF i
<1> QED BY <1>4, <1>5

(* The kinds are disjoint. *)
LEMMA KindsDisjoint ==
    \A kind : /\ kind \in Opening => kind # "unused" /\ kind \notin Established
              /\ kind \in Established => kind # "unused" /\ kind \notin Opening
BY DEF Opening, Established

(* The admission of an open. *)
LEMMA AdmitPreserves ==
    ASSUME IInv, NEW f \in Flow, NEW proto, nextToken \in Token, AdmitOpen(f, proto),
           ~HasSlot(f), Selecting,
           UNCHANGED <<state, events, stopping, carrier, shutdown, lock, settings>>,
           wire' = [wire EXCEPT ![f] = "idle"],
           peer' \in [Flow -> {"unused", "tcp", "udp", "closed"}], Then(<<>>)
    PROVE  IInv'
<1> DEFINE n == nextToken
           i == NewOpening(f, proto)
<1>0. /\ TypeOK /\ i \in Incarnation /\ i.kind \in Opening /\ i.kind # "unused"
      /\ i.flow = f /\ QueueOk(i)
  BY FreshTyped, KindsDisjoint DEF IInv
<1>1. /\ inc[n].kind = "unused" /\ n # NoToken
      /\ \A k \in TaskKind : task[n][k] = "off"
      /\ \A g \in Flow : table[g] # n
      /\ \A m \in 1 .. Len(events) : events[m].token # n
      /\ \A t \in Token : inc[t].kind # "unused" => t < n /\ t # n
      /\ n + 1 \in 1 .. (2 * MaxOpens + 1)
  BY NextTokenFresh
<1>2. /\ table' = [table EXCEPT ![f] = n] /\ inc' = [inc EXCEPT ![n] = i]
      /\ task' = [task EXCEPT ![n]["open"] = "dial"] /\ nextToken' = n + 1
  BY DEF AdmitOpen
<1> HIDE DEF i
<1>3. /\ inc' \in [Token -> Incarnation] /\ inc'[n] = i
      /\ \A t \in Token : t # n => inc'[t] = inc[t]
  BY <1>0, <1>2, SMTT(30) DEF TypeOK
<1>4. /\ table' \in [Flow -> Token \cup {NoToken}] /\ table'[f] = n
      /\ \A g \in Flow : g # f => table'[g] = table[g]
      /\ \A g \in Flow : table[g] # NoToken => table[g] \in Token
  BY <1>0, <1>2 DEF TypeOK
<1>5. /\ task' \in [Token -> [TaskKind -> Pc]]
      /\ \A t \in Token, k \in TaskKind : (t # n \/ k # "open") => task'[t][k] = task[t][k]
  BY <1>0, <1>2, Zenon DEF TypeOK, Pc
<1>6. IdentityInv'
  <2>1. ASSUME NEW t \in Token, inc'[t].kind # "unused"
        PROVE  inc'[t].flow \in Flow /\ t < nextToken'
    <3>1. t \in Nat /\ n \in Nat
      BY DEF Token
    <3>2. CASE t = n
      BY <1>0, <1>2, <1>3, <3>1, <3>2, SMTT(30)
    <3>3. CASE t # n
      <4>1. inc[t].flow \in Flow /\ t < n
        BY <1>3, <2>1, <3>3, SMTT(30) DEF IInv, IdentityInv
      <4> QED BY <1>2, <1>3, <3>1, <3>3, <4>1, SMTT(30)
    <3> QED BY <3>2, <3>3
  <2>2. \A g \in Flow : table'[g] # NoToken =>
           inc'[table'[g]].kind # "unused" /\ inc'[table'[g]].flow = g
    <3> SUFFICES ASSUME NEW g \in Flow, table'[g] # NoToken
                 PROVE  inc'[table'[g]].kind # "unused" /\ inc'[table'[g]].flow = g
      OBVIOUS
    <3>1. CASE g = f
      BY <1>0, <1>3, <1>4, <3>1, SMTT(30)
    <3>2. CASE g # f
      <4>1. table'[g] = table[g] /\ table[g] \in Token /\ table[g] # n
        BY <1>1, <1>4, <3>2
      <4>2. inc'[table[g]] = inc[table[g]]
        BY <1>3, <4>1, SMTT(30)
      <4>3. inc[table[g]].kind # "unused" /\ inc[table[g]].flow = g
        BY <4>1 DEF IInv, IdentityInv
      <4> QED BY <4>1, <4>2, <4>3, SMTT(30)
    <3> QED BY <3>1, <3>2
  <2>3. \A t \in Token, k \in TaskKind : task'[t][k] # "off" => inc'[t].kind # "unused"
    <3> SUFFICES ASSUME NEW t \in Token, NEW k \in TaskKind, task'[t][k] # "off"
                 PROVE  inc'[t].kind # "unused"
      OBVIOUS
    <3>1. CASE t = n
      BY <1>0, <1>3, <3>1, SMTT(30)
    <3>2. CASE t # n
      <4>1. task[t][k] # "off" /\ inc'[t] = inc[t]
        BY <1>3, <1>5, <3>2
      <4> QED BY <4>1 DEF IInv, IdentityInv
    <3> QED BY <3>1, <3>2, SMTT(30)
  <2>4. \A t \in Token : task'[t]["open"] # "off" => inc'[t].kind \in Opening
    <3> SUFFICES ASSUME NEW t \in Token, task'[t]["open"] # "off" PROVE inc'[t].kind \in Opening
      BY SMTT(30)
    <3>1. CASE t = n
      BY <1>0, <1>1, <1>3, <3>1, SMTT(30)
    <3>2. CASE t # n
      <4>1. task'[t]["open"] = task[t]["open"] /\ inc'[t] = inc[t]
        BY <1>3, <1>5, <3>2, SMTT(30) DEF TaskKind
      <4> QED BY <4>1 DEF IInv, IdentityInv
    <3> QED BY <3>1, <3>2
  <2>5. ASSUME NEW m \in 1 .. Len(events')
        PROVE  /\ inc'[events'[m].token].kind # "unused"
               /\ events'[m].type = "opened" => inc'[events'[m].token].kind \in Opening
    <3>1. events' = events /\ events[m].token # n
      BY <1>1, SMTT(30)
    <3>2. inc'[events[m].token] = inc[events[m].token]
      BY <1>3, <3>1, EventNames, SMTT(30)
    <3> QED BY <3>1, <3>2, EventNames, SMTT(30)
  <2> QED BY <2>1, <2>2, <2>3, <2>4, <2>5 DEF IdentityInv
<1>7. LatestInv'
  <2>1. ASSUME NEW g \in Flow, NEW o \in Token, table'[g] # NoToken,
               inc'[o].kind \in Opening, inc'[o].flow = g
        PROVE  o <= AttemptOf(g)'
    <3>1. CASE g = f
      <4>1. AttemptOf(g)' = n
        BY <1>0, <1>3, <1>4, <3>1, SMTT(30) DEF AttemptOf
      <4>2. o = n \/ o < n
        BY <1>1, <1>3, <2>1, KindsDisjoint, SMTT(30)
      <4> QED BY <4>1, <4>2, SMTT(30) DEF Token
    <3>2. CASE g # f
      <4>1. o # n /\ table[g] \in Token /\ table[g] # n /\ table[g] # NoToken
        BY <1>0, <1>1, <1>3, <1>4, <2>1, <3>2, SMTT(30)
      <4>2. AttemptOf(g)' = AttemptOf(g)
        BY <1>3, <1>4, <3>2, <4>1, SMTT(30) DEF AttemptOf
      <4> QED BY <1>3, <2>1, <4>1, <4>2, SMTT(30) DEF IInv, LatestInv
    <3> QED BY <3>1, <3>2
  <2> QED BY <2>1 DEF LatestInv
<1>8. QueueInv'
  BY <1>0, <1>3, SMTT(30) DEF IInv, QueueInv
<1>9. LoopMove
  <2>1. <<>> \in Seq(PlainInstr)
    BY EmptySeq
  <2>2. \E prog \in Seq(Instr) : ProgOk(prog)' /\ Then(prog)
    BY <2>1, PlainProgram, Zenon
  <2>3. lock # Loop
    BY LoopNotHolding DEF Selecting, Run
  <2> QED BY <1>5, <2>2, <2>3, Zenon DEF LoopMove, TaskKind
<1>10. /\ ProgInv' /\ LockHolderWrites' /\ EndInv'
       /\ loop' \in [pc : {"select", "run", "stop", "join", "carrier", "exit"}, prog : Seq(Instr)]
  BY <1>9, LoopMovePreserves, SMTT(30)
<1>11. TypeOK'
  <2>1. wire' \in [Flow -> WireState]
    BY <1>0, Zenon DEF TypeOK, WireState
  <2> QED BY <1>0, <1>1, <1>2, <1>3, <1>4, <1>5, <1>10, <2>1, ZenonT(60) DEF TypeOK
<1> QED BY <1>6, <1>7, <1>8, <1>10, <1>11 DEF IInv

(* handle_tcp_open_frame, handle_udp_open_frame *)
LEMMA OpenPreserves ==
    ASSUME IInv, NEW f \in Flow, NEW proto \in Protocols, OpenFrame(f, proto)
    PROVE  IInv'
<1>1. TypeOK /\ proto \in {"tcp", "udp"}
  BY ModeAssumption DEF IInv
<1>2. peer' \in [Flow -> {"unused", "tcp", "udp", "closed"}]
  BY <1>1, PeerTyped, Zenon DEF OpenFrame
<1>3. CASE UNCHANGED <<flowVars, wire>> /\ (Then(Refuse(f)) \/ Then(Reject(f)))
  <2>1. FlowMove
    BY <1>1, <1>3, FlowsStay
  <2>2. Handling /\ UNCHANGED settings
    BY <1>3 DEF OpenFrame, Handling, outVars
  <2> QED BY <1>2, <1>3, <2>1, <2>2, Answers, FramesPreserve
<1>4. CASE /\ Admits(f, proto) /\ nextToken \in Token /\ AdmitOpen(f, proto)
           /\ wire' = [wire EXCEPT ![f] = "idle"] /\ Then(<<>>)
  BY <1>2, <1>4, AdmitPreserves, Zenon DEF OpenFrame, Admits
<1> QED BY <1>3, <1>4 DEF OpenFrame
=============================================================================
