------------------------- MODULE ServerSessionTasks -------------------------
(***************************************************************************)
(* The inductive invariant of ServerSession, and why the steps of the      *)
(* spawned tasks preserve it.                                              *)
(*                                                                         *)
(* The steps of a session fall in two families.  A step of a spawned task  *)
(* moves one task and leaves the table to the loop (TaskMove, here).  A    *)
(* step of the session loop takes slots out of the table or leaves them    *)
(* (FlowMove with LoopMove, in ServerSessionHandlers), except for the few  *)
(* that make an incarnation or put one in the table (there too, and in     *)
(* ServerSessionProofs).  Each family is shown once to preserve the        *)
(* invariant; each action is shown to belong to its family.                *)
(***************************************************************************)
EXTENDS ServerSession, SequenceTheorems, TLAPS

(* Order of a command queue, with what keeps it: once the end of the       *)
(* upload is queued the flow is closed, so nothing is queued behind it.    *)
QueueOk(i) ==
    /\ \A m, n \in 1 .. Len(i.queue) :
          (m < n /\ i.queue[m] = "close") => i.queue[n] = "close"
    /\ \A m \in 1 .. Len(i.queue) : i.queue[m] = "close" => i.closed

(* What any step may do to an incarnation: not change what it names.       *)
Evolves(i, j) ==
    /\ j \in Incarnation
    /\ j.kind = i.kind /\ j.flow = i.flow /\ j.from = i.from
    /\ QueueOk(i) => QueueOk(j)

-----------------------------------------------------------------------------
(* Incarnations.                                                           *)

(* Doing nothing is an evolution. *)
LEMMA EvolvesSame == ASSUME NEW i \in Incarnation PROVE Evolves(i, i)
BY DEF Evolves

(* Evolutions compose. *)
LEMMA EvolvesTransitive ==
    ASSUME NEW i, NEW j, NEW k, Evolves(i, j), Evolves(j, k)
    PROVE  Evolves(i, k)
BY DEF Evolves

(* A change of flags that does not reopen the queue is an evolution.       *)
LEMMA EvolvesFlags ==
    ASSUME NEW i \in Incarnation, NEW j \in Incarnation,
           j.kind = i.kind, j.flow = i.flow, j.from = i.from, j.queue = i.queue,
           i.closed => j.closed
    PROVE  Evolves(i, j)
BY DEF Evolves, QueueOk

(* So is the end of its target-to-client half. *)
LEMMA EvolvesHalfClosed ==
    ASSUME NEW i \in Incarnation
    PROVE  Evolves(i, [i EXCEPT !.t2c = FALSE])
<1> DEFINE j == [i EXCEPT !.t2c = FALSE]
<1>1. j \in Incarnation
  BY Zenon DEF Incarnation
<1>2. /\ j.kind = i.kind /\ j.flow = i.flow /\ j.from = i.from /\ j.queue = i.queue
      /\ j.closed = i.closed
  BY DEF Incarnation
<1> HIDE DEF j
<1>3. Evolves(i, j)
  BY <1>1, <1>2, EvolvesFlags
<1> QED BY <1>3, Zenon DEF j

(* So is arming a half-close timer. *)
LEMMA EvolvesArmed ==
    ASSUME NEW i \in Incarnation, NEW k \in Timer
    PROVE  Evolves(i, [i EXCEPT !.timer = k])
<1> DEFINE j == [i EXCEPT !.timer = k]
<1>1. j \in Incarnation
  BY Zenon DEF Incarnation
<1>2. /\ j.kind = i.kind /\ j.flow = i.flow /\ j.from = i.from /\ j.queue = i.queue
      /\ j.closed = i.closed
  BY DEF Incarnation
<1> HIDE DEF j
<1>3. Evolves(i, j)
  BY <1>1, <1>2, EvolvesFlags
<1> QED BY <1>3, Zenon DEF j

(* So is dropping the queue with its receiver. *)
LEMMA EvolvesEmptied ==
    ASSUME NEW i \in Incarnation, NEW j \in Incarnation,
           j.kind = i.kind, j.flow = i.flow, j.from = i.from, j.queue = <<>>
    PROVE  Evolves(i, j)
BY DEF Evolves, QueueOk

(* close_client_to_target_queue closes the flow and queues at most the     *)
(* Close command.                                                          *)
LEMMA EvolvesCloseQueue ==
    ASSUME NEW i \in Incarnation, NEW r \in BOOLEAN
    PROVE  Evolves(i, CloseQueue(i, r))
<1> DEFINE j == CloseQueue(i, r)
<1>1. i.queue \in Seq(Command) /\ "close" \in Command
  BY DEF Incarnation, Command
<1>2. Append(i.queue, "close") \in Seq(Command)
  BY <1>1, AppendProperties
<1>3. j \in Incarnation /\ j.kind = i.kind /\ j.flow = i.flow /\ j.from = i.from
  BY <1>1, <1>2, ZenonT(60) DEF CloseQueue, Incarnation
<1>4. j.closed /\ (j.queue = i.queue \/ j.queue = Append(i.queue, "close"))
  BY DEF CloseQueue, Incarnation
<1> HIDE DEF j
<1>5. ASSUME QueueOk(i) PROVE QueueOk(j)
  <2>1. CASE j.queue = i.queue
    BY <1>4, <1>5, <2>1 DEF QueueOk
  <2>2. CASE j.queue = Append(i.queue, "close")
    <3>1. /\ Len(j.queue) = Len(i.queue) + 1 /\ Len(i.queue) \in Nat
          /\ \A m \in 1 .. Len(i.queue) : j.queue[m] = i.queue[m]
          /\ j.queue[Len(i.queue) + 1] = "close"
      BY <1>1, <2>2, AppendProperties
    <3>2. ASSUME NEW m \in 1 .. Len(j.queue), NEW n \in 1 .. Len(j.queue),
                 m < n, j.queue[m] = "close"
          PROVE  j.queue[n] = "close"
      <4>1. CASE n = Len(i.queue) + 1
        BY <3>1, <4>1
      <4>2. CASE n # Len(i.queue) + 1
        <5>1. m \in 1 .. Len(i.queue) /\ n \in 1 .. Len(i.queue)
          BY <3>1, <3>2, <4>2
        <5> QED BY <1>5, <3>1, <3>2, <5>1, SMTT(30) DEF QueueOk
      <4> QED BY <4>1, <4>2
    <3> QED BY <1>4, <3>2 DEF QueueOk
  <2> QED BY <1>4, <2>1, <2>2
<1> QED BY <1>3, <1>5 DEF Evolves, j

(* close_client_to_target *)
LEMMA EvolvesCloseClientToTarget ==
    ASSUME NEW i \in Incarnation, NEW r \in BOOLEAN
    PROVE  Evolves(i, CloseClientToTarget(i, r))
<1> DEFINE j == [i EXCEPT !.c2t = FALSE]
<1>1. j \in Incarnation
  BY Zenon DEF Incarnation
<1>2. Evolves(i, j)
  BY <1>1, EvolvesFlags DEF Incarnation
<1>3. Evolves(j, CloseQueue(j, r))
  BY <1>1, EvolvesCloseQueue
<1> QED BY <1>2, <1>3, EvolvesSame, EvolvesTransitive DEF CloseClientToTarget

(* TargetFlow::abort *)
LEMMA EvolvesAbort ==
    ASSUME NEW i \in Incarnation, NEW r \in BOOLEAN
    PROVE  Evolves(i, Abort(i, r))
<1> DEFINE j == [i EXCEPT !.t2c = FALSE, !.c2t = FALSE, !.writing = FALSE,
                          !.aborted = TRUE, !.timer = "none"]
<1>1. j \in Incarnation
  BY Zenon DEF Incarnation
<1>2. Evolves(i, j)
  BY <1>1, EvolvesFlags, Zenon DEF Incarnation
<1>3. Evolves(j, CloseQueue(j, r))
  BY <1>1, EvolvesCloseQueue
<1> QED BY <1>2, <1>3, EvolvesTransitive DEF Abort

(* TargetFlowControl::abort *)
LEMMA EvolvesAbortControl ==
    ASSUME NEW i \in Incarnation
    PROVE  Evolves(i, AbortControl(i))
<1>1. AbortControl(i) \in Incarnation
  BY Zenon DEF AbortControl, Incarnation
<1>2. LET j == AbortControl(i)
      IN  /\ j.kind = i.kind /\ j.flow = i.flow /\ j.from = i.from /\ j.queue = i.queue
          /\ i.closed => j.closed
  BY DEF AbortControl, Incarnation
<1> QED BY <1>1, <1>2, EvolvesFlags

(* Dropping a slot. *)
LEMMA EvolvesDropped ==
    ASSUME NEW i \in Incarnation
    PROVE  Evolves(i, Dropped(i))
<1>1. Dropped(i) \in Incarnation
  BY ZenonT(60) DEF Dropped, AbortControl, Incarnation
<1>2. LET j == Dropped(i)
      IN  /\ j.kind = i.kind /\ j.flow = i.flow /\ j.from = i.from /\ j.queue = i.queue
          /\ i.closed => j.closed
  BY DEF Dropped, AbortControl, Incarnation
<1> QED BY <1>1, <1>2, EvolvesFlags

-----------------------------------------------------------------------------
(* Tasks.                                                                  *)

(* What a step of the loop may do to the tasks of an incarnation: arm or   *)
(* abort its half-close timers.                                            *)
TimerMove(a, b) ==
    /\ b \in [TaskKind -> Pc]
    /\ \A k \in TaskKind : b[k] = a[k] \/ (k \in Timer /\ b[k] \in {"off", "sleep"})

(* Doing nothing moves no timer. *)
LEMMA TimerMoveSame ==
    ASSUME NEW a \in [TaskKind -> Pc] PROVE TimerMove(a, a)
BY DEF TimerMove

(* Timer moves compose. *)
LEMMA TimerMoveTransitive ==
    ASSUME NEW a, NEW b, NEW c, TimerMove(a, b), TimerMove(b, c) PROVE TimerMove(a, c)
BY DEF TimerMove

(* cancel_half_close_timer *)
LEMMA TimerMoveCancel ==
    ASSUME NEW a \in [TaskKind -> Pc], NEW i \in Incarnation
    PROVE  TimerMove(a, CancelTimer(a, i))
BY DEF TimerMove, CancelTimer, Incarnation, Timer, TaskKind, Pc

(* set_half_close_timer *)
LEMMA TimerMoveArm ==
    ASSUME NEW a \in [TaskKind -> Pc], NEW i \in Incarnation, NEW k \in Timer
    PROVE  TimerMove(a, ArmTimer(a, i, k))
<1>1. TimerMove(a, CancelTimer(a, i))
  BY TimerMoveCancel
<1> QED BY <1>1 DEF TimerMove, ArmTimer, Timer, TaskKind, Pc

-----------------------------------------------------------------------------
(* The invariant.                                                          *)

(* What names an incarnation (the table, a task, an event) names one that  *)
(* has been made, on the right flow id; tokens are handed out in order;    *)
(* only open attempts dial.                                                *)
IdentityInv ==
    /\ \A t \in Token : inc[t].kind # "unused" => inc[t].flow \in Flow /\ t < nextToken
    /\ \A f \in Flow : table[f] # NoToken =>
          inc[table[f]].kind # "unused" /\ inc[table[f]].flow = f
    /\ \A t \in Token, k \in TaskKind : task[t][k] # "off" => inc[t].kind # "unused"
    /\ \A n \in 1 .. Len(events) : inc[events[n].token].kind # "unused"
    /\ \A t \in Token : task[t]["open"] # "off" => inc[t].kind \in Opening
    /\ \A n \in 1 .. Len(events) :
          events[n].type = "opened" => inc[events[n].token].kind \in Opening

(* The slot of a flow id belongs to the latest attempt on it. *)
AttemptOf(f) == IF inc[table[f]].kind \in Opening THEN table[f] ELSE inc[table[f]].from
LatestInv ==
    \A f \in Flow, o \in Token :
        (table[f] # NoToken /\ inc[o].kind \in Opening /\ inc[o].flow = f) => o <= AttemptOf(f)

(* A flow waiting for its acknowledgement to be written: its attempt still *)
(* holds the slot, and its tasks are not spawned.                          *)
Ready(e) ==
    /\ e \in Token /\ inc[e].kind \in Established /\ inc[e].flow \in Flow
    /\ table[inc[e].flow] = inc[e].from
    /\ inc[e].from \in Token /\ inc[inc[e].from].kind \in Opening
    /\ \A k \in TaskKind : task[e][k] = "off"

(* What a handler may still have to do: slots are removed on real flow     *)
(* ids, and an establishment comes last, of a flow that is ready for it.   *)
ProgOk(prog) ==
    \A n \in 1 .. Len(prog) :
        /\ prog[n].op = "remove" => prog[n].flow \in Flow
        /\ prog[n].op = "establish" =>
              /\ n = Len(prog) /\ Ready(prog[n].token)
              /\ \A m \in 1 .. Len(prog) : prog[m].op # "remove"
ProgInv == (loop.pc = "run" <=> loop.prog # <<>>) /\ ProgOk(loop.prog)

(* How far the end of the session has got. *)
EndInv ==
    /\ loop.pc \in {"join", "carrier", "exit"} => Occupied = {}
    /\ loop.pc \in {"carrier", "exit"} => AllOff /\ lock = Free
    /\ DrainWaitsForFlows

QueueInv == \A t \in Token : QueueOk(inc[t])

IInv == /\ TypeOK /\ IdentityInv /\ LatestInv /\ ProgInv /\ LockHolderWrites
        /\ EndInv /\ QueueInv

-----------------------------------------------------------------------------
(* Steps of the spawned tasks.                                             *)

Writing == {"data", "eof", "status", "close"}

(* A step of task k of incarnation t, which is running: it moves that task *)
(* alone, posts at most one event of its own incarnation, and holds the    *)
(* carrier afterwards only in the middle of a write.                       *)
TaskMove(t, k) ==
    /\ InTask
    /\ task[t][k] # "off"
    /\ task' \in [Token -> [TaskKind -> Pc]]
    /\ \A u \in Token, j \in TaskKind : (u # t \/ j # k) => task'[u][j] = task[u][j]
    /\ inc' \in [Token -> Incarnation]
    /\ \A u \in Token : Evolves(inc[u], inc'[u])
    /\ \/ events' = events
       \/ /\ Len(events) < EventCap
          /\ \E e \in Event : /\ e.token = t /\ (e.type = "opened" => k = "open")
                              /\ events' = Append(events, e)
    /\ shutdown' \in BOOLEAN /\ wire' \in [Flow -> WireState]
    /\ \/ lock' = Free
       \/ lock' = lock /\ lock # <<t, k>>
       \/ lock' = <<t, k>> /\ k \in {"reader", "writer"} /\ task'[t][k] \in Writing

(* Such a step preserves the invariant. *)
LEMMA TaskMovePreserves ==
    ASSUME IInv, NEW t \in Token, NEW k \in TaskKind, TaskMove(t, k)
    PROVE  IInv'
<1>1. /\ events' \in Seq(Event) /\ Len(events') <= EventCap
      /\ \A n \in 1 .. Len(events') :
            \/ events'[n].token = t /\ (events'[n].type = "opened" => k = "open")
            \/ n \in 1 .. Len(events) /\ events'[n] = events[n]
  <2>1. CASE events' = events
    BY <2>1 DEF IInv, TypeOK
  <2>2. CASE \E e \in Event : /\ e.token = t /\ (e.type = "opened" => k = "open")
                             /\ events' = Append(events, e) /\ Len(events) < EventCap
    <3>1. PICK e \in Event : /\ e.token = t /\ (e.type = "opened" => k = "open")
                            /\ events' = Append(events, e) /\ Len(events) < EventCap
      BY <2>2
    <3>2. /\ events' \in Seq(Event) /\ Len(events') = Len(events) + 1 /\ Len(events) \in Nat
          /\ \A n \in 1 .. Len(events) : events'[n] = events[n]
          /\ events'[Len(events) + 1] = e
      BY <3>1, AppendProperties DEF IInv, TypeOK
    <3> QED BY <3>1, <3>2, BoundAssumption
  <2> QED BY <2>1, <2>2 DEF TaskMove
<1>2. TypeOK'
  BY <1>1 DEF IInv, TypeOK, TaskMove, InTask
<1>3. \A u \in Token : /\ inc'[u].kind = inc[u].kind /\ inc'[u].flow = inc[u].flow
                       /\ inc'[u].from = inc[u].from
  BY DEF TaskMove, Evolves
<1>. /\ table' = table /\ nextToken' = nextToken
     /\ \A f \in Flow : table[f] # NoToken => table[f] \in Token
  BY DEF IInv, TypeOK, TaskMove, InTask
<1>4. IdentityInv'
  <2>1. \A u \in Token : inc'[u].kind # "unused" => inc'[u].flow \in Flow /\ u < nextToken
    BY <1>3 DEF IInv, IdentityInv
  <2>2. \A f \in Flow : table[f] # NoToken =>
          inc'[table[f]].kind # "unused" /\ inc'[table[f]].flow = f
    BY <1>3 DEF IInv, IdentityInv
  <2>3. inc[t].kind # "unused"
    BY DEF IInv, IdentityInv, TaskMove
  <2>4. \A u \in Token, j \in TaskKind : task'[u][j] # "off" => inc'[u].kind # "unused"
    BY <1>3, <2>3 DEF IInv, IdentityInv, TaskMove
  <2>6. task[t]["open"] # "off" => inc[t].kind \in Opening
    BY DEF IInv, IdentityInv
  <2>7. \A u \in Token : task'[u]["open"] # "off" => inc'[u].kind \in Opening
    BY <1>3, <2>6 DEF IInv, IdentityInv, TaskMove, TaskKind
  <2>5. ASSUME NEW n \in 1 .. Len(events')
        PROVE  /\ inc'[events'[n].token].kind # "unused"
               /\ events'[n].type = "opened" => inc'[events'[n].token].kind \in Opening
    <3>1. CASE events'[n].token = t /\ (events'[n].type = "opened" => k = "open")
      BY <1>3, <2>3, <2>6, <3>1 DEF TaskMove
    <3>2. CASE n \in 1 .. Len(events) /\ events'[n] = events[n]
      <4>1. events[n] \in Event
        BY <3>2 DEF IInv, TypeOK
      <4>2. /\ events[n].token \in Token /\ inc[events[n].token].kind # "unused"
            /\ events[n].type = "opened" => inc[events[n].token].kind \in Opening
        BY <3>2, <4>1 DEF IInv, IdentityInv, Event
      <4> QED BY <1>3, <3>2, <4>2
    <3> QED BY <1>1, <3>1, <3>2
  <2> QED BY <2>1, <2>2, <2>4, <2>7, <2>5 DEF IdentityInv
<1>5. LatestInv'
  <2>1. \A f \in Flow : table[f] # NoToken => AttemptOf(f)' = AttemptOf(f)
    BY <1>3 DEF AttemptOf
  <2> QED BY <1>3, <2>1 DEF IInv, LatestInv
<1>6. ProgInv'
  <2>1. ASSUME NEW e, Ready(e) PROVE Ready(e)'
    BY <1>3, <2>1 DEF Ready, TaskMove, InTask
  <2> QED BY <2>1 DEF IInv, ProgInv, ProgOk, TaskMove, InTask
<1>7. LockHolderWrites'
  BY DEF IInv, LockHolderWrites, TaskMove, InTask, Free, Loop, Run, Writing, TaskKind, Timer
<1>8. EndInv'
  BY DEF IInv, EndInv, TaskMove, InTask, AllOff, DrainWaitsForFlows, Selecting, Occupied, HasSlot
<1>9. QueueInv'
  BY DEF IInv, QueueInv, TaskMove, Evolves
<1> QED BY <1>2, <1>4, <1>5, <1>6, <1>7, <1>8, <1>9 DEF IInv

(* Whatever is written, the observer stays in its domain. *)
LEMMA SeenTyped ==
    ASSUME TypeOK, NEW frame, NEW f, NEW by
    PROVE  Seen(frame, f, by) \in [Flow -> WireState]
<1>1. \A st \in WireState : SeenState(st, frame, f, by) \in WireState
  BY DEF SeenState, WireState
<1> QED BY <1>1, ModeAssumption DEF Seen, TypeOK

(* A finished write frees the carrier. *)
LEMMA WriteOkFrees ==
    ASSUME TypeOK, NEW who, NEW frame, NEW f, WriteOk(who, frame, f)
    PROVE  lock' = Free /\ shutdown' = shutdown /\ wire' \in [Flow -> WireState]
BY SeenTyped DEF WriteOk, TypeOK

(* A blocked write keeps it. *)
LEMMA WriteBlocksHolds ==
    ASSUME TypeOK, NEW who, NEW frame, NEW f, WriteBlocks(who, frame, f)
    PROVE  lock' = who /\ shutdown' = shutdown /\ wire' \in [Flow -> WireState]
BY SeenTyped DEF WriteBlocks, TypeOK

(* A failed write leaves the carrier free or to somebody else. *)
LEMMA WriteErrReleases ==
    ASSUME TypeOK, NEW who, WriteErr(who)
    PROVE  /\ lock' = Free \/ (lock' = lock /\ lock # who)
           /\ shutdown' \in BOOLEAN /\ wire' \in [Flow -> WireState]
BY Zenon DEF WriteErr, WriteDeadline, TypeOK

(* A task that is not in the middle of a write does not hold the carrier.  *)
LEMMA NotHolding ==
    ASSUME IInv, NEW t \in Token, NEW k \in TaskKind, task[t][k] \notin Writing
    PROVE  lock # <<t, k>>
BY DEF IInv, TypeOK, LockHolderWrites, Writing, Free, Loop, TaskKind, Timer

(* Moving one task moves no other. *)
LEMMA GotoMoves ==
    ASSUME TypeOK, NEW t \in Token, NEW k \in TaskKind, NEW pc \in Pc, Goto(t, k, pc)
    PROVE  /\ task' \in [Token -> [TaskKind -> Pc]] /\ task'[t][k] = pc
           /\ \A u \in Token, j \in TaskKind : (u # t \/ j # k) => task'[u][j] = task[u][j]
BY DEF Goto, TypeOK

(* A change of one incarnation changes no other. *)
LEMMA IncMoves ==
    ASSUME TypeOK, NEW t \in Token, NEW i, Evolves(inc[t], i), inc' = [inc EXCEPT ![t] = i]
    PROVE  inc' \in [Token -> Incarnation] /\ \A u \in Token : Evolves(inc[u], inc'[u])
<1>1. i \in Incarnation
  BY DEF Evolves
<1>2. \A u \in Token : Evolves(inc[u], inc[u])
  BY EvolvesSame DEF TypeOK
<1> QED BY <1>1, <1>2 DEF TypeOK

(* No change is no change. *)
LEMMA IncStays ==
    ASSUME TypeOK, UNCHANGED inc
    PROVE  inc' \in [Token -> Incarnation] /\ \A u \in Token : Evolves(inc[u], inc'[u])
BY EvolvesSame DEF TypeOK

(* A step that moves one running task and touches neither the carrier nor  *)
(* the event queue.                                                        *)
LEMMA QuietTaskMove ==
    ASSUME IInv, NEW t \in Token, NEW k \in TaskKind, NEW pc \in Pc, NEW i,
           task[t][k] \notin Writing \cup {"off"}, Goto(t, k, pc),
           Evolves(inc[t], i), inc' = [inc EXCEPT ![t] = i],
           InTask, UNCHANGED <<events, outVars>>
    PROVE  TaskMove(t, k)
<1>1. TypeOK
  BY DEF IInv
<1>2. inc' \in [Token -> Incarnation] /\ \A u \in Token : Evolves(inc[u], inc'[u])
  BY <1>1, IncMoves, Zenon
<1>3. /\ task' \in [Token -> [TaskKind -> Pc]]
      /\ \A u \in Token, j \in TaskKind : (u # t \/ j # k) => task'[u][j] = task[u][j]
  BY <1>1, GotoMoves
<1>4. lock # <<t, k>>
  BY NotHolding
<1> QED BY <1>1, <1>2, <1>3, <1>4 DEF TaskMove, TypeOK, outVars

(* A step that changes no incarnation is one of those. *)
LEMMA SameInc ==
    ASSUME TypeOK, NEW t \in Token, UNCHANGED inc
    PROVE  Evolves(inc[t], inc[t]) /\ inc' = [inc EXCEPT ![t] = inc[t]]
BY EvolvesSame DEF TypeOK

(* send_flow_event_or_shutdown *)
LEMMA NotifyMoves ==
    ASSUME IInv, NEW t \in Token, NEW k \in TaskKind, NEW e \in Event, e.token = t,
           e.type = "opened" => k = "open", task[t][k] \notin Writing \cup {"off"}, Notify(t, k, e)
    PROVE  TaskMove(t, k)
<1>1. TypeOK
  BY DEF IInv
<1>2. inc' \in [Token -> Incarnation] /\ \A u \in Token : Evolves(inc[u], inc'[u])
  BY <1>1, IncStays DEF Notify
<1>3. /\ task' \in [Token -> [TaskKind -> Pc]]
      /\ \A u \in Token, j \in TaskKind : (u # t \/ j # k) => task'[u][j] = task[u][j]
  BY <1>1, GotoMoves DEF Notify, Pc
<1>4. lock # <<t, k>>
  BY NotHolding
<1> QED BY <1>1, <1>2, <1>3, <1>4 DEF TaskMove, TypeOK, Notify, outVars

(* Every step of a dial task. *)
LEMMA OpenTaskMoves ==
    ASSUME IInv, NEW t \in Token, OpenTask(t)
    PROVE  TaskMove(t, "open")
<1>0. TypeOK /\ "open" \in TaskKind
  BY DEF IInv, TaskKind
<1>1. CASE DialDone(t)
  <2>1. PICK r \in OpenResult : Goto(t, "open", r)
    BY <1>1 DEF DialDone
  <2>2. r \in Pc /\ task[t]["open"] \notin Writing \cup {"off"}
    BY <1>1, <2>1 DEF DialDone, At, Writing, Pc, OpenResult
  <2> QED BY <1>0, <1>1, <2>1, <2>2, SameInc, QuietTaskMove DEF DialDone
<1>2. CASE DialCancelled(t)
  <2>1. "off" \in Pc /\ task[t]["open"] \notin Writing \cup {"off"}
    BY <1>2 DEF DialCancelled, At, Writing, Pc
  <2> QED BY <1>0, <1>2, <2>1, SameInc, QuietTaskMove DEF DialCancelled
<1>3. CASE DialReport(t)
  <2> DEFINE e == Posted("opened", t, task[t]["open"])
  <2>1. e \in Event /\ e.token = t
    BY <1>3 DEF DialReport, Posted, Event
  <2>2. task[t]["open"] \notin Writing \cup {"off"}
    BY <1>3 DEF DialReport, Writing, OpenResult
  <2> QED BY <1>0, <1>3, <2>1, <2>2, NotifyMoves DEF DialReport
<1> QED BY <1>1, <1>2, <1>3 DEF OpenTask

(* The error arm of a reader: the carrier has been released or is somebody *)
(* else's.                                                                 *)
LEMMA FailMoves ==
    ASSUME IInv, NEW t \in Token, NEW k \in {"reader", "writer"},
           task[t][k] # "off", Fail(t, k), InTask, UNCHANGED events,
           lock' = Free \/ (lock' = lock /\ lock # <<t, k>>),
           shutdown' \in BOOLEAN, wire' \in [Flow -> WireState]
    PROVE  TaskMove(t, k)
<1>1. TypeOK /\ k \in TaskKind /\ {"notify", "status"} \subseteq Pc
  BY DEF IInv, TaskKind, Pc
<1>2. PICK pc \in Pc : Goto(t, k, pc)
  BY <1>1 DEF Fail
<1>3. inc' \in [Token -> Incarnation] /\ \A u \in Token : Evolves(inc[u], inc'[u])
  <2>1. CASE UNCHANGED inc
    BY <1>1, <2>1, IncStays
  <2>2. CASE inc' = [inc EXCEPT ![t] = AbortControl(inc[t])]
    <3>1. Evolves(inc[t], AbortControl(inc[t]))
      BY <1>1, EvolvesAbortControl DEF TypeOK
    <3> QED BY <1>1, <2>2, <3>1, IncMoves, Zenon
  <2> QED BY <2>1, <2>2 DEF Fail
<1>4. /\ task' \in [Token -> [TaskKind -> Pc]]
      /\ \A u \in Token, j \in TaskKind : (u # t \/ j # k) => task'[u][j] = task[u][j]
  BY <1>1, <1>2, GotoMoves, ZenonT(60)
<1> QED BY <1>3, <1>4 DEF TaskMove

(* ERROR and CLOSE on the flow id. *)
LEMMA ReportFailureMoves ==
    ASSUME IInv, NEW t \in Token, NEW k \in {"reader", "writer"}, ReportFailure(t, k)
    PROVE  TaskMove(t, k)
<1>1. TypeOK /\ k \in TaskKind /\ {"notify", "status", "close"} \subseteq Pc
  BY DEF IInv, TaskKind, Pc
<1>2. inc' \in [Token -> Incarnation] /\ \A u \in Token : Evolves(inc[u], inc'[u])
  BY <1>1, IncStays DEF ReportFailure
<1>3. PICK frame \in {"status", "close"} :
        /\ At(t, k, frame)
        /\ \/ /\ WriteOk(<<t, k>>, frame, inc[t].flow) \/ WriteErr(<<t, k>>)
              /\ Goto(t, k, IF frame = "status" THEN "close" ELSE "notify")
           \/ WriteBlocks(<<t, k>>, frame, inc[t].flow) /\ UNCHANGED task
  BY DEF ReportFailure
<1>4. CASE /\ WriteOk(<<t, k>>, frame, inc[t].flow) \/ WriteErr(<<t, k>>)
           /\ Goto(t, k, IF frame = "status" THEN "close" ELSE "notify")
  <2>1. /\ lock' = Free \/ (lock' = lock /\ lock # <<t, k>>)
        /\ shutdown' \in BOOLEAN /\ wire' \in [Flow -> WireState]
    BY <1>1, <1>4, WriteOkFrees, WriteErrReleases DEF TypeOK
  <2>2. /\ task' \in [Token -> [TaskKind -> Pc]]
        /\ \A u \in Token, j \in TaskKind : (u # t \/ j # k) => task'[u][j] = task[u][j]
    BY <1>1, <1>4, GotoMoves
  <2> QED BY <1>2, <1>3, <2>1, <2>2 DEF TaskMove, ReportFailure, At
<1>5. CASE WriteBlocks(<<t, k>>, frame, inc[t].flow) /\ UNCHANGED task
  <2>1. lock' = <<t, k>> /\ shutdown' = shutdown /\ wire' \in [Flow -> WireState]
    BY <1>1, <1>5, WriteBlocksHolds, SMTT(30)
  <2> QED BY <1>1, <1>2, <1>3, <1>5, <2>1 DEF TaskMove, ReportFailure, At, TypeOK, Writing
<1> QED BY <1>3, <1>4, <1>5

(* A step of a reader or writer around a carrier write that changes no     *)
(* incarnation.                                                            *)
LEMMA WriteMoves ==
    ASSUME IInv, NEW t \in Token, NEW k \in {"reader", "writer"}, NEW pc \in Pc,
           task[t][k] # "off", Goto(t, k, pc),
           InTask, UNCHANGED <<inc, events>>,
           NEW frame, NEW f,
           \/ WriteOk(<<t, k>>, frame, f)
           \/ WriteErr(<<t, k>>)
           \/ WriteBlocks(<<t, k>>, frame, f) /\ pc \in Writing
    PROVE  TaskMove(t, k)
<1>1. TypeOK /\ k \in TaskKind
  BY DEF IInv, TaskKind
<1>2. inc' \in [Token -> Incarnation] /\ \A u \in Token : Evolves(inc[u], inc'[u])
  BY <1>1, IncStays
<1>3. /\ task' \in [Token -> [TaskKind -> Pc]] /\ task'[t][k] = pc
      /\ \A u \in Token, j \in TaskKind : (u # t \/ j # k) => task'[u][j] = task[u][j]
  BY <1>1, GotoMoves
<1>4. /\ shutdown' \in BOOLEAN /\ wire' \in [Flow -> WireState]
      /\ \/ lock' = Free
         \/ lock' = lock /\ lock # <<t, k>>
         \/ lock' = <<t, k>> /\ pc \in Writing
  <2>1. CASE WriteOk(<<t, k>>, frame, f)
    BY <1>1, <2>1, WriteOkFrees, SMTT(30) DEF TypeOK
  <2>2. CASE WriteErr(<<t, k>>)
    BY <1>1, <2>2, WriteErrReleases, SMTT(30)
  <2>3. CASE WriteBlocks(<<t, k>>, frame, f) /\ pc \in Writing
    BY <1>1, <2>3, WriteBlocksHolds DEF TypeOK
  <2> QED BY <2>1, <2>2, <2>3
<1> QED BY <1>2, <1>3, <1>4 DEF TaskMove

(* A step that moves no task moves the running one to where it is.         *)
LEMMA SameTask ==
    ASSUME TypeOK, NEW t \in Token, NEW k \in TaskKind, UNCHANGED task
    PROVE  task[t][k] \in Pc /\ Goto(t, k, task[t][k])
BY DEF TypeOK, Goto

(* Every step of a target reader. *)
LEMMA ReaderTaskMoves ==
    ASSUME IInv, NEW t \in Token, ReaderTask(t)
    PROVE  TaskMove(t, "reader")
<1>0. /\ TypeOK /\ "reader" \in TaskKind /\ "reader" \in {"reader", "writer"}
      /\ {"read", "data", "eof", "notify"} \subseteq Pc /\ Reader(t) = <<t, "reader">>
  BY DEF IInv, TaskKind, Pc, Reader
<1>1. CASE ReaderStops(t)
  <2>1. task[t]["reader"] \notin Writing \cup {"off"}
    BY <1>1 DEF ReaderStops, At, Writing
  <2> QED BY <1>0, <1>1, <2>1, SameInc, QuietTaskMove DEF ReaderStops
<1>2. CASE ReaderData(t)
  <2>0. task[t]["reader"] # "off" /\ InTask /\ UNCHANGED <<inc, events>>
    BY <1>2 DEF ReaderData, At
  <2>1. CASE WriteOk(Reader(t), "data", inc[t].flow) /\ UNCHANGED task
    <3>1. PICK pc \in Pc : pc = task[t]["reader"] /\ Goto(t, "reader", pc)
      BY <1>0, <2>1, SameTask
    <3> QED BY <1>0, <2>0, <2>1, <3>1, WriteMoves, Zenon
  <2>2. CASE WriteBlocks(Reader(t), "data", inc[t].flow) /\ Goto(t, "reader", "data")
    <3>1. "data" \in Writing
      BY DEF Writing
    <3> QED BY <1>0, <2>0, <2>2, <3>1, WriteMoves, Zenon
  <2>3. CASE WriteOk(Reader(t), "data", inc[t].flow) /\ Goto(t, "reader", "read")
    BY <1>0, <2>0, <2>3, WriteMoves, Zenon
  <2> QED BY <1>2, <2>1, <2>2, <2>3 DEF ReaderData
<1>3. CASE ReaderDataFails(t)
  <2>1. task[t]["reader"] # "off"
    BY <1>3 DEF ReaderDataFails, At
  <2> QED BY <1>0, <1>3, <2>1, WriteErrReleases, FailMoves DEF ReaderDataFails
<1>4. CASE ReaderEof(t)
  <2>1. task[t]["reader"] \notin Writing \cup {"off"}
    BY <1>4 DEF ReaderEof, At, Writing
  <2> QED BY <1>0, <1>4, <2>1, SameInc, QuietTaskMove DEF ReaderEof
<1>5. CASE ReaderEofClose(t)
  <2>0. task[t]["reader"] # "off" /\ task[t]["reader"] \in Writing /\ InTask /\ UNCHANGED events
    BY <1>5 DEF ReaderEofClose, At, Writing
  <2>1. CASE /\ WriteOk(Reader(t), "close", inc[t].flow)
             /\ Goto(t, "reader", "notify") /\ UNCHANGED inc
    BY <1>0, <2>0, <2>1, WriteMoves, Zenon
  <2>2. CASE WriteBlocks(Reader(t), "close", inc[t].flow) /\ UNCHANGED <<task, inc>>
    <3>1. PICK pc \in Pc : pc = task[t]["reader"] /\ Goto(t, "reader", pc)
      BY <1>0, <2>2, SameTask
    <3>2. UNCHANGED <<inc, events>>
      BY <2>0, <2>2
    <3> QED BY <1>0, <2>0, <2>2, <3>1, <3>2, WriteMoves, Zenon
  <2>3. CASE WriteErr(Reader(t)) /\ Fail(t, "reader")
    BY <1>0, <2>0, <2>3, WriteErrReleases, FailMoves
  <2> QED BY <1>5, <2>1, <2>2, <2>3 DEF ReaderEofClose
<1>6. CASE ReaderError(t)
  <2>1. task[t]["reader"] # "off" /\ lock # <<t, "reader">>
    BY <1>0, <1>6, NotHolding DEF ReaderError, At, Writing
  <2> QED BY <1>0, <1>6, <2>1, FailMoves DEF ReaderError, outVars, TypeOK
<1>7. CASE ReportFailure(t, "reader")
  BY <1>7, ReportFailureMoves
<1>8. CASE ReaderReport(t)
  <2>1. LET e == Posted("readClosed", t, "none")
        IN  e \in Event /\ e.token = t /\ e.type # "opened"
    BY DEF Posted, Event
  <2>2. task[t]["reader"] \notin Writing \cup {"off"}
    BY <1>8 DEF ReaderReport, At, Writing
  <2> QED BY <1>0, <1>8, <2>1, <2>2, NotifyMoves DEF ReaderReport
<1> QED BY <1>1, <1>2, <1>3, <1>4, <1>5, <1>6, <1>7, <1>8 DEF ReaderTask

(* Receiving the next command keeps the order of the rest. *)
LEMMA EvolvesTaken ==
    ASSUME NEW i \in Incarnation, i.queue # <<>>
    PROVE  Evolves(i, [i EXCEPT !.queue = Tail(@)])
<1> DEFINE j == [i EXCEPT !.queue = Tail(@)]
<1>1. i.queue \in Seq(Command)
  BY DEF Incarnation
<1>2. /\ Tail(i.queue) \in Seq(Command) /\ Len(i.queue) \in Nat /\ Len(i.queue) > 0
      /\ Len(Tail(i.queue)) = Len(i.queue) - 1
      /\ \A n \in 1 .. Len(Tail(i.queue)) : Tail(i.queue)[n] = i.queue[n + 1]
  BY <1>1, EmptySeq, HeadTailProperties
<1>3. /\ j \in Incarnation /\ j.kind = i.kind /\ j.flow = i.flow /\ j.from = i.from
      /\ j.queue = Tail(i.queue) /\ j.closed = i.closed
  BY <1>2 DEF Incarnation
<1> HIDE DEF j
<1>4. ASSUME QueueOk(i) PROVE QueueOk(j)
  <2>1. ASSUME NEW m \in 1 .. Len(j.queue)
        PROVE  m + 1 \in 1 .. Len(i.queue) /\ j.queue[m] = i.queue[m + 1]
    BY <1>2, <1>3
  <2>2. \A m, n \in 1 .. Len(j.queue) : m < n => m + 1 < n + 1
    OBVIOUS
  <2> QED BY <1>3, <1>4, <2>1, <2>2 DEF QueueOk
<1> QED BY <1>3, <1>4 DEF Evolves, j

(* Every step of a target writer. *)
LEMMA WriterTaskMoves ==
    ASSUME IInv, NEW t \in Token, WriterTask(t)
    PROVE  TaskMove(t, "writer")
<1>0. /\ TypeOK /\ "writer" \in TaskKind /\ inc[t] \in Incarnation
      /\ {"recv", "write", "status", "notify"} \subseteq Pc
  BY Zenon DEF IInv, TypeOK, TaskKind, Pc
<1>. <<>> \in Seq(Command)
  BY EmptySeq
<1>1. CASE WriterStops(t)
  <2>1. task[t]["writer"] \notin Writing \cup {"off"}
    BY <1>1 DEF WriterStops, Writing
  <2> DEFINE i == [inc[t] EXCEPT !.queue = <<>>]
  <2>2. Evolves(inc[t], i)
    <3>1. i \in Incarnation
      BY <1>0, Zenon DEF Incarnation
    <3>2. i.kind = inc[t].kind /\ i.flow = inc[t].flow /\ i.from = inc[t].from /\ i.queue = <<>>
      BY <1>0 DEF Incarnation
    <3> HIDE DEF i
    <3> QED BY <1>0, <3>1, <3>2, EvolvesEmptied
  <2>3. inc' = [inc EXCEPT ![t] = i]
    BY <1>1 DEF WriterStops
  <2> QED BY <1>0, <1>1, <2>1, <2>2, <2>3, QuietTaskMove, Zenon DEF WriterStops
<1>2. CASE WriterTakes(t)
  <2>1. task[t]["writer"] \notin Writing \cup {"off"}
    BY <1>2 DEF WriterTakes, At, Writing
  <2> DEFINE i == [inc[t] EXCEPT !.queue = Tail(@)]
  <2>2. Evolves(inc[t], i)
    BY <1>0, <1>2, EvolvesTaken DEF WriterTakes
  <2>3. inc' = [inc EXCEPT ![t] = i]
    BY <1>2 DEF WriterTakes
  <2> QED BY <1>0, <1>2, <2>1, <2>2, <2>3, QuietTaskMove, Zenon DEF WriterTakes
<1>3. CASE WriterWrote(t)
  <2>1. task[t]["writer"] \notin Writing \cup {"off"}
    BY <1>3 DEF WriterWrote, At, Writing
  <2> QED BY <1>0, <1>3, <2>1, SameInc, QuietTaskMove DEF WriterWrote
<1>4. CASE WriterFinishes(t)
  <2>1. task[t]["writer"] \notin Writing \cup {"off"}
    BY <1>4 DEF WriterFinishes, At, Writing
  <2> DEFINE i == [inc[t] EXCEPT !.queue = <<>>, !.closed = @ \/ inc[t].queue # <<>>]
  <2>2. Evolves(inc[t], i)
    <3>1. i \in Incarnation
      BY <1>0, Zenon DEF Incarnation
    <3>2. i.kind = inc[t].kind /\ i.flow = inc[t].flow /\ i.from = inc[t].from /\ i.queue = <<>>
      BY <1>0 DEF Incarnation
    <3> HIDE DEF i
    <3> QED BY <1>0, <3>1, <3>2, EvolvesEmptied
  <2>3. inc' = [inc EXCEPT ![t] = i]
    BY <1>0, <1>4, Zenon DEF WriterFinishes, TypeOK, Incarnation
  <2> QED BY <1>0, <1>4, <2>1, <2>2, <2>3, QuietTaskMove, Zenon DEF WriterFinishes
<1>5. CASE WriterError(t)
  <2>1. task[t]["writer"] \notin Writing \cup {"off"}
    BY <1>5 DEF WriterError, At, Writing
  <2> DEFINE a == IF shutdown THEN inc[t] ELSE AbortControl(inc[t])
             i == [a EXCEPT !.queue = <<>>]
  <2>2. Evolves(inc[t], a)
    BY <1>0, EvolvesSame, EvolvesAbortControl
  <2>3. Evolves(a, i)
    <3>1. a \in Incarnation
      BY <2>2 DEF Evolves
    <3> HIDE DEF a
    <3>2. i \in Incarnation
      BY <3>1, Zenon DEF Incarnation
    <3>3. i.kind = a.kind /\ i.flow = a.flow /\ i.from = a.from /\ i.queue = <<>>
      BY <3>1 DEF Incarnation
    <3> HIDE DEF i
    <3> QED BY <3>1, <3>2, <3>3, EvolvesEmptied
  <2>4. Evolves(inc[t], i)
    BY <2>2, <2>3, EvolvesTransitive
  <2>5. inc' = [inc EXCEPT ![t] = i]
    BY <1>5 DEF WriterError
  <2>6. PICK pc \in Pc : Goto(t, "writer", pc)
    BY <1>0, <1>5 DEF WriterError
  <2> QED BY <1>0, <1>5, <2>1, <2>4, <2>5, <2>6, QuietTaskMove, Zenon DEF WriterError
<1>6. CASE ReportFailure(t, "writer")
  BY <1>6, ReportFailureMoves
<1>7. CASE WriterReport(t)
  <2>1. LET e == Posted("writeClosed", t, "none")
        IN  e \in Event /\ e.token = t /\ e.type # "opened"
    BY DEF Posted, Event
  <2>2. task[t]["writer"] \notin Writing \cup {"off"}
    BY <1>7 DEF WriterReport, At, Writing
  <2> QED BY <1>0, <1>7, <2>1, <2>2, NotifyMoves DEF WriterReport
<1> QED BY <1>1, <1>2, <1>3, <1>4, <1>5, <1>6, <1>7 DEF WriterTask

(* Every step of a half-close timer. *)
LEMMA TimerTaskMoves ==
    ASSUME IInv, NEW t \in Token, NEW k \in Timer, TimerFires(t, k) \/ TimerReport(t, k)
    PROVE  TaskMove(t, k)
<1>0. TypeOK /\ k \in TaskKind /\ {"off", "notify"} \subseteq Pc
  BY DEF IInv, TaskKind, Pc
<1>1. CASE TimerFires(t, k)
  <2>1. task[t][k] \notin Writing \cup {"off"}
    BY <1>1 DEF TimerFires, At, Writing
  <2>2. PICK pc \in Pc : Goto(t, k, pc)
    BY <1>0, <1>1 DEF TimerFires
  <2> QED BY <1>0, <1>1, <2>1, <2>2, SameInc, QuietTaskMove DEF TimerFires
<1>2. CASE TimerReport(t, k)
  <2>1. LET e == Posted(k, t, "none") IN e \in Event /\ e.token = t /\ e.type # "opened"
    BY DEF Posted, Event, Timer
  <2>2. task[t][k] \notin Writing \cup {"off"}
    BY <1>2 DEF TimerReport, At, Writing
  <2> QED BY <1>0, <1>2, <2>1, <2>2, NotifyMoves DEF TimerReport
<1> QED BY <1>1, <1>2

(* The steps of the spawned tasks preserve the invariant. *)
LEMMA TasksPreserve ==
    ASSUME IInv, NEW t \in Token, OpenTask(t) \/ ReaderTask(t) \/ WriterTask(t) \/ TimerTask(t)
    PROVE  IInv'
<1>1. TaskKind = {"open", "reader", "writer"} \cup Timer
  BY DEF TaskKind
<1>2. CASE OpenTask(t)
  BY <1>1, <1>2, OpenTaskMoves, TaskMovePreserves
<1>3. CASE ReaderTask(t)
  BY <1>1, <1>3, ReaderTaskMoves, TaskMovePreserves
<1>4. CASE WriterTask(t)
  BY <1>1, <1>4, WriterTaskMoves, TaskMovePreserves
<1>5. CASE TimerTask(t)
  BY <1>1, <1>5, TimerTaskMoves, TaskMovePreserves, Zenon DEF TimerTask
<1> QED BY <1>2, <1>3, <1>4, <1>5
=============================================================================
