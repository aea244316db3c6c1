------------------------ MODULE ServerSessionProofs -------------------------
(***************************************************************************)
(* The theorems about ServerSession, for any flow ids, bounds and          *)
(* configuration: the completion of a dial, the programs of the handlers,  *)
(* the establishment of a flow, the end of the session, and the theorems   *)
(* themselves.                                                             *)
(***************************************************************************)
EXTENDS ServerSessionHandlers

(* A dial has succeeded: the flow gets its token, and the acknowledgement  *)
(* is to be written before it is established.                              *)
LEMMA AcceptPreserves ==
    ASSUME IInv, NEW t \in Token, inc[t].kind \in Opening, inc[t].flow \in Flow, Current(t),
           nextToken \in Token, Selecting, EventMove,
           inc' = [inc EXCEPT ![nextToken] = NewFlow(t)], nextToken' = nextToken + 1,
           UNCHANGED <<table, task, state, stopping, carrier, outVars, peer, settings>>,
           Then(<<[Write("ack", inc[t].flow) EXCEPT !.token = nextToken],
                  Do("establish", inc[t].flow, nextToken)>>)
    PROVE  IInv'
<1> DEFINE n == nextToken
           f == inc[t].flow
           i == NewFlow(t)
           ack == [Write("ack", f) EXCEPT !.token = n]
           est == Do("establish", f, n)
<1>0. /\ TypeOK /\ i \in Incarnation /\ i.kind \in Established /\ i.flow = f /\ i.from = t
      /\ QueueOk(i)
  BY FreshTyped DEF IInv
<1>1. /\ inc[n].kind = "unused" /\ n # NoToken
      /\ \A k \in TaskKind : task[n][k] = "off"
      /\ \A g \in Flow : table[g] # n
      /\ \A m \in 1 .. Len(events) : events[m].token # n
      /\ \A u \in Token : inc[u].kind # "unused" => u < n /\ u # n
      /\ n + 1 \in 1 .. (2 * MaxOpens + 1)
  BY NextTokenFresh
<1>2. /\ inc' \in [Token -> Incarnation] /\ inc'[n] = i
      /\ \A u \in Token : u # n => inc'[u] = inc[u]
  BY <1>0 DEF TypeOK
<1>3. table' = table /\ task' = task /\ \A g \in Flow : table[g] # NoToken => table[g] \in Token
  BY <1>0 DEF TypeOK
<1>4. t # n /\ i.kind # "unused" /\ i.kind \notin Opening
  BY <1>0, <1>1, KindsDisjoint
<1> HIDE DEF i
<1>5. IdentityInv'
  <2>1. ASSUME NEW u \in Token, inc'[u].kind # "unused"
        PROVE  inc'[u].flow \in Flow /\ u < nextToken'
    <3>1. u \in Nat /\ n \in Nat
      BY DEF Token
    <3>2. CASE u = n
      BY <1>0, <1>2, <3>1, <3>2
    <3>3. CASE u # n
      <4>1. inc[u].flow \in Flow /\ u < n
        BY <1>2, <2>1, <3>3 DEF IInv, IdentityInv
      <4> QED BY <1>2, <3>1, <3>3, <4>1
    <3> QED BY <3>2, <3>3
  <2>2. \A g \in Flow : table'[g] # NoToken =>
           inc'[table'[g]].kind # "unused" /\ inc'[table'[g]].flow = g
    BY <1>1, <1>2, <1>3 DEF IInv, IdentityInv
  <2>3. \A u \in Token, k \in TaskKind : task'[u][k] # "off" => inc'[u].kind # "unused"
    BY <1>1, <1>2, <1>3, <1>4, SMTT(30) DEF IInv, IdentityInv
  <2>4. \A u \in Token : task'[u]["open"] # "off" => inc'[u].kind \in Opening
    BY <1>1, <1>2, <1>3 DEF IInv, IdentityInv, TaskKind
  <2>5. ASSUME NEW m \in 1 .. Len(events')
        PROVE  /\ inc'[events'[m].token].kind # "unused"
               /\ events'[m].type = "opened" => inc'[events'[m].token].kind \in Opening
    <3>1. PICK l \in 1 .. Len(events) : events'[m] = events[l]
      BY <1>0, EventsKept
    <3>2. inc'[events[l].token] = inc[events[l].token]
      BY <1>1, <1>2, EventNames
    <3> QED BY <3>1, <3>2, EventNames
  <2> QED BY <2>1, <2>2, <2>3, <2>4, <2>5 DEF IdentityInv
<1>6. LatestInv'
  <2>1. ASSUME NEW g \in Flow, NEW o \in Token, table'[g] # NoToken,
               inc'[o].kind \in Opening, inc'[o].flow = g
        PROVE  o <= AttemptOf(g)'
    <3>1. o # n /\ table[g] \in Token /\ table[g] # n /\ table[g] # NoToken
      BY <1>1, <1>2, <1>3, <1>4, <2>1
    <3>2. AttemptOf(g)' = AttemptOf(g)
      BY <1>2, <1>3, <3>1 DEF AttemptOf
    <3> QED BY <1>2, <2>1, <3>1, <3>2 DEF IInv, LatestInv
  <2> QED BY <2>1 DEF LatestInv
<1>7. QueueInv'
  BY <1>0, <1>2 DEF IInv, QueueInv
<1>8. PICK e \in Token : e = n /\ Ready(e)'
  <2>1. PICK e \in Token : e = n
    OBVIOUS
  <2>2. table[f] = t
    BY DEF Current
  <2>3. Ready(e)'
    BY <1>0, <1>1, <1>2, <1>3, <1>4, <2>1, <2>2 DEF Ready
  <2> QED BY <2>1, <2>3
<1>9. LoopMove
  <2>1. /\ ack \in Instr /\ ack.op = "write" /\ est \in Instr
        /\ est.op = "establish" /\ est.token = n
    <3>1. /\ Write("ack", f) \in Instr /\ Write("ack", f).op = "write"
          /\ est \in Instr /\ est.op = "establish" /\ est.token = n
      BY DEF Write, Do, Instr
    <3> QED BY <3>1 DEF Instr
  <2> HIDE DEF ack, est
  <2>2. PICK prog \in Seq(Instr) : prog = <<ack, est>>
    <3>1. <<ack, est>> \in Seq(Instr)
      BY <2>1
    <3> QED BY <3>1, Zenon
  <2>3. Len(prog) = 2 /\ prog[1].op = "write" /\ prog[2].op = "establish" /\ prog[2].token = e
    BY <1>8, <2>1, <2>2
  <2>4. ProgOk(prog)'
    <3>1. \A m \in 1 .. Len(prog) : m = 1 \/ m = 2
      BY <2>3
    <3> QED BY <1>8, <2>3, <3>1 DEF ProgOk
  <2>5. Then(prog)
    BY <2>2 DEF ack, est
  <2>6. lock # Loop /\ UNCHANGED lock
    BY LoopNotHolding DEF Selecting, Run, outVars
  <2>7. \A u \in Token, k \in {"reader", "writer"} : task'[u][k] = task[u][k]
    BY <1>3
  <2>8. \E p \in Seq(Instr) : ProgOk(p)' /\ Then(p)
    BY <2>4, <2>5
  <2> QED BY <2>6, <2>7, <2>8 DEF LoopMove
<1>10. /\ ProgInv' /\ LockHolderWrites' /\ EndInv'
       /\ loop' \in [pc : {"select", "run", "stop", "join", "carrier", "exit"}, prog : Seq(Instr)]
  BY <1>9, LoopMovePreserves
<1>11. TypeOK'
  <2>1. events' \in Seq(Event) /\ Len(events') <= EventCap
    BY <1>0, EventsKept
  <2> QED BY <1>0, <1>1, <1>2, <1>3, <1>10, <2>1 DEF TypeOK, outVars
<1> QED BY <1>5, <1>6, <1>7, <1>10, <1>11 DEF IInv

(* handle_flow_event *)
LEMMA FlowEventPreserves ==
    ASSUME IInv, FlowEvent PROVE IInv'
<1> DEFINE e == Head(events)
           t == e.token
<1>0. TypeOK
  BY DEF IInv
<1>1. e = events[1] /\ 1 \in 1 .. Len(events)
  BY <1>0, EmptySeq DEF FlowEvent, TypeOK
<1>2. /\ e \in Event /\ t \in Token /\ inc[t].flow \in Flow
      /\ e.type = "opened" => inc[t].kind \in Opening
  BY <1>1, EventNames
<1>3. EventMove /\ Selecting
  BY DEF FlowEvent, EventMove
<1>4. /\ UNCHANGED <<state, stopping, carrier, outVars, peer, settings>>
      /\ \/ e.type = "opened" /\ OpenCompleted(t, e.result)
         \/ ReadClosed(t)
         \/ WriteClosed(t)
         \/ DrainExpired(t, e.type)
  BY DEF FlowEvent
<1>5. RestTyped /\ UNCHANGED lock /\ ~Run({"write", "tell"})
  BY <1>0, <1>3, <1>4 DEF RestTyped, TypeOK, outVars, Selecting, Run
<1> HIDE DEF e, t
<1>6. ASSUME FlowMove, \E prog \in Seq(PlainInstr) : Then(prog) PROVE IInv'
  BY <1>3, <1>5, <1>6, HandlerPreserves
<1>7. CASE e.type = "opened" /\ OpenCompleted(t, e.result)
  <2>1. CASE UNCHANGED flowVars /\ (Then(<<>>) \/ Then(Reject(inc[t].flow)))
    <3>1. FlowMove
      BY <1>0, <2>1, FlowsStay
    <3> QED BY <1>2, <1>6, <2>1, <3>1, Answers, Zenon
  <2>2. CASE Current(t) /\ e.result = "ok" /\ OpenCompleted(t, e.result)
    BY <1>2, <1>3, <1>4, <1>7, <2>2, AcceptPreserves DEF OpenCompleted
  <2> QED BY <1>7, <2>1, <2>2 DEF OpenCompleted
<1>8. CASE ReadClosed(t)
  BY <1>2, <1>6, <1>8, ReadClosedMoves, Answers, Zenon
<1>9. CASE WriteClosed(t)
  BY <1>2, <1>6, <1>9, WriteClosedMoves, Answers, Zenon
<1>10. CASE DrainExpired(t, e.type)
  BY <1>2, <1>6, <1>10, DrainExpiredMoves
<1> QED BY <1>4, <1>7, <1>8, <1>9, <1>10

(* What is left of a program after its first instruction. *)
LEMMA RestOf ==
    ASSUME IInv, loop.prog # <<>>
    PROVE  /\ Rest \in Seq(Instr) /\ Len(loop.prog) \in Nat /\ Len(loop.prog) > 0
           /\ Len(Rest) = Len(loop.prog) - 1
           /\ \A m \in 1 .. Len(Rest) :
                 m + 1 \in 1 .. Len(loop.prog) /\ Rest[m] = loop.prog[m + 1]
           /\ Head(loop.prog) = loop.prog[1] /\ 1 \in 1 .. Len(loop.prog)
<1>1. loop.prog \in Seq(Instr)
  BY DEF IInv, TypeOK
<1>2. /\ Rest \in Seq(Instr) /\ Len(loop.prog) \in Nat /\ Len(loop.prog) > 0
      /\ Len(Rest) = Len(loop.prog) - 1
      /\ \A m \in 1 .. Len(Rest) : Rest[m] = loop.prog[m + 1]
      /\ Head(loop.prog) = loop.prog[1]
  BY <1>1, EmptySeq, HeadTailProperties DEF Rest
<1> QED BY <1>2

(* A step that leaves the flows alone keeps the rest of a program in order.*)
LEMMA RestOk ==
    ASSUME IInv, loop.prog # <<>>, UNCHANGED flowVars
    PROVE  \E prog \in Seq(Instr) : prog = Rest /\ ProgOk(prog)'
<1>1. ASSUME NEW x, Ready(x) PROVE Ready(x)'
  BY <1>1 DEF Ready, flowVars
<1>2. PICK old \in Seq(Instr) : old = loop.prog
  BY DEF IInv, TypeOK
<1>3. ProgOk(old)
  BY <1>2 DEF IInv, ProgInv
<1>4. PICK prog \in Seq(Instr) : prog = Rest
  BY RestOf
<1>5. /\ Len(prog) = Len(old) - 1 /\ Len(old) \in Nat
      /\ \A m \in 1 .. Len(prog) : m + 1 \in 1 .. Len(old) /\ prog[m] = old[m + 1]
  BY <1>2, <1>4, RestOf
<1>6. ASSUME NEW m \in 1 .. Len(prog)
      PROVE  /\ prog[m].op = "remove" => prog[m].flow \in Flow
             /\ prog[m].op = "establish" =>
                   /\ m = Len(prog) /\ Ready(prog[m].token)'
                   /\ \A l \in 1 .. Len(prog) : prog[l].op # "remove"
  <2>1. m + 1 \in 1 .. Len(old) /\ prog[m] = old[m + 1]
    BY <1>5
  <2>2. /\ old[m + 1].op = "remove" => old[m + 1].flow \in Flow
        /\ old[m + 1].op = "establish" =>
              /\ m + 1 = Len(old) /\ Ready(old[m + 1].token)
              /\ \A l \in 1 .. Len(old) : old[l].op # "remove"
    BY <1>3, <2>1 DEF ProgOk
  <2>3. prog[m].op = "establish" => Ready(prog[m].token)'
    BY <1>1, <2>1, <2>2
  <2> QED BY <1>5, <2>1, <2>2, <2>3
<1>7. ProgOk(prog)'
  BY <1>6 DEF ProgOk
<1> QED BY <1>4, <1>7

(* A carrier write of the loop. *)
LEMMA RunWritePreserves ==
    ASSUME IInv, RunWrite PROVE IInv'
<1> DEFINE w == Head(loop.prog)
<1>0. /\ TypeOK /\ loop.prog # <<>> /\ loop.pc = "run" /\ Run({"write", "tell"})
      /\ UNCHANGED <<state, flowVars, events, stopping, carrier, peer, settings>>
  BY DEF IInv, RunWrite, Run
<1>1. FlowMove /\ EventMove
  BY <1>0, FlowsStay DEF EventMove
<1>2. IdentityInv' /\ LatestInv' /\ QueueInv'
  BY <1>1, FlowMovePreserves
<1>3. CASE /\ lock' # Loop /\ lock' \in {Free, lock} /\ shutdown' \in BOOLEAN
           /\ wire' \in [Flow -> WireState] /\ (Then(Rest) \/ loop' = AtStop)
  <2>1. LoopMove
    BY <1>0, <1>3, RestOk DEF LoopMove, flowVars
  <2>2. /\ ProgInv' /\ LockHolderWrites' /\ EndInv'
        /\ loop' \in [pc : {"select", "run", "stop", "join", "carrier", "exit"}, prog : Seq(Instr)]
    BY <2>1, LoopMovePreserves
  <2>3. TypeOK'
    BY <1>0, <1>3, <2>2 DEF TypeOK, flowVars
  <2> QED BY <1>2, <2>2, <2>3 DEF IInv
<1>4. CASE WriteBlocks(Loop, w.frame, w.flow) /\ UNCHANGED loop
  <2>1. lock' = Loop /\ shutdown' = shutdown /\ wire' \in [Flow -> WireState]
    BY <1>0, <1>4, WriteBlocksHolds
  <2>2. TypeOK'
    BY <1>0, <1>4, <2>1 DEF TypeOK, flowVars
  <2>3. ProgInv'
    <3>1. ASSUME NEW x, Ready(x) PROVE Ready(x)'
      BY <1>0, <3>1 DEF Ready, flowVars
    <3> QED BY <1>4, <3>1 DEF IInv, ProgInv, ProgOk
  <2>4. LockHolderWrites'
    <3>1. Run({"write", "tell"})'
      BY <1>0, <1>4 DEF Run
    <3>2. \A t \in Token, k \in {"reader", "writer"} : lock' # <<t, k>>
      BY <2>1 DEF Loop
    <3> QED BY <3>1, <3>2 DEF LockHolderWrites
  <2>5. EndInv'
    BY <1>0, <1>4 DEF EndInv, DrainWaitsForFlows, Selecting
  <2> QED BY <1>2, <2>2, <2>3, <2>4, <2>5 DEF IInv
<1>5. \/ WriteOk(Loop, w.frame, w.flow) /\ Then(Rest)
      \/ WriteDiscarded(Loop, w.token) /\ Then(Rest)
      \/ WriteBlocks(Loop, w.frame, w.flow) /\ UNCHANGED loop
      \/ WriteErr(Loop) /\ (Then(Rest) \/ loop' = AtStop)
  BY DEF RunWrite
<1> HIDE DEF w
<1>6. CASE WriteOk(Loop, w.frame, w.flow) /\ Then(Rest)
  <2>1. Free # Loop
    BY DEF Free, Loop
  <2> QED BY <1>0, <1>3, <1>6, <2>1, WriteOkFrees DEF TypeOK
<1>7. CASE WriteDiscarded(Loop, w.token) /\ Then(Rest)
  BY <1>0, <1>3, <1>7 DEF WriteDiscarded, outVars, TypeOK
<1>8. CASE WriteErr(Loop) /\ (Then(Rest) \/ loop' = AtStop)
  <2>1. Free # Loop
    BY DEF Free, Loop
  <2> QED BY <1>0, <1>3, <1>8, <2>1, WriteErrReleases
<1> QED BY <1>4, <1>5, <1>6, <1>7, <1>8

(* remove_flow_slot at the end of a handler *)
LEMMA RunRemovePreserves ==
    ASSUME IInv, RunRemove PROVE IInv'
<1> DEFINE f == Head(loop.prog).flow
<1>0. TypeOK /\ loop.prog # <<>> /\ Head(loop.prog).op = "remove" /\ ~Run({"write", "tell"})
  BY DEF IInv, RunRemove, Run
<1>1. ProgOk(loop.prog) /\ loop.prog \in Seq(Instr)
  BY DEF IInv, TypeOK, ProgInv
<1>2. f \in Flow
  BY <1>0, <1>1, RestOf DEF ProgOk
<1>3. Rest \in Seq(PlainInstr)
  <2>1. ASSUME NEW m \in 1 .. Len(Rest) PROVE Rest[m] \in PlainInstr
    <3>1. m + 1 \in 1 .. Len(loop.prog) /\ Rest[m] = loop.prog[m + 1]
      BY <1>0, RestOf
    <3>2. /\ loop.prog[m + 1].op = "remove" => loop.prog[m + 1].flow \in Flow
          /\ loop.prog[m + 1].op # "establish"
      BY <1>0, <1>1, <3>1, RestOf DEF ProgOk
    <3>3. loop.prog[m + 1] \in Instr
      BY <1>1, <3>1
    <3> QED BY <3>1, <3>2, <3>3 DEF PlainInstr
  <2>2. Rest \in Seq(Instr)
    BY <1>0, RestOf
  <2> QED BY <2>1, <2>2, SeqDef
<1>4. FlowMove
  BY <1>2, RemoveMoves DEF RunRemove
<1>5. EventMove /\ RestTyped /\ UNCHANGED lock
  BY <1>0 DEF RunRemove, EventMove, RestTyped, outVars, TypeOK
<1>6. Then(Rest)
  BY DEF RunRemove
<1> QED BY <1>0, <1>3, <1>4, <1>5, <1>6, HandlerPreserves

(* The established flow replaces its attempt. *)
LEMMA RunEstablishPreserves ==
    ASSUME IInv, RunEstablish PROVE IInv'
<1>0. TypeOK /\ loop.prog # <<>> /\ Head(loop.prog).op = "establish" /\ ~Run({"write", "tell"})
  BY DEF IInv, RunEstablish, Run
<1>1. ProgOk(loop.prog) /\ loop.prog \in Seq(Instr)
  BY DEF IInv, TypeOK, ProgInv
<1>2. Len(loop.prog) = 1 /\ Ready(Head(loop.prog).token)
  BY <1>0, <1>1, RestOf, Zenon DEF ProgOk
<1>3. PICK e \in Token : e = Head(loop.prog).token /\ Ready(e)
  BY <1>2, Zenon DEF Ready
<1>4. Rest = <<>>
  BY <1>0, <1>2, RestOf, EmptySeq, SMTT(30)
<1> DEFINE f == inc[e].flow
<1>5. /\ table' = [table EXCEPT ![f] = e]
      /\ task' = [task EXCEPT ![e]["reader"] = "read",
                              ![e]["writer"] = IF inc[e].kind = "tcp" THEN "recv" ELSE "off"]
      /\ UNCHANGED <<state, inc, nextToken, events, stopping, carrier, outVars, peer, settings>>
      /\ Then(<<>>)
  BY <1>3, <1>4 DEF RunEstablish
<1>6. /\ f \in Flow /\ inc[e].kind \in Established /\ table[f] = inc[e].from
      /\ inc[e].from \in Token /\ inc[inc[e].from].kind \in Opening
      /\ \A k \in TaskKind : task[e][k] = "off"
      /\ e # NoToken /\ inc[e].kind # "unused" /\ inc[e].kind \notin Opening
  <2>1. e # NoToken
    BY DEF Token, NoToken
  <2> QED BY <1>3, <2>1, KindsDisjoint, Zenon DEF Ready
<1>7. /\ table' \in [Flow -> Token \cup {NoToken}] /\ table'[f] = e
      /\ \A g \in Flow : g # f => table'[g] = table[g]
  BY <1>0, <1>5, <1>6 DEF TypeOK
<1>8. /\ task' \in [Token -> [TaskKind -> Pc]]
      /\ \A t \in Token, k \in TaskKind :
            (t # e \/ k \notin {"reader", "writer"}) => task'[t][k] = task[t][k]
  <2>1. PICK pc \in Pc : pc = IF inc[e].kind = "tcp" THEN "recv" ELSE "off"
    BY DEF Pc
  <2>2. task' = [task EXCEPT ![e]["reader"] = "read", ![e]["writer"] = pc]
    BY <1>5, <2>1
  <2>3. "read" \in Pc
    BY DEF Pc
  <2> QED BY <1>0, <2>2, <2>3, Zenon DEF TypeOK
<1>9. UNCHANGED <<inc, events, nextToken, lock>>
  BY <1>5 DEF outVars
<1>10. IdentityInv'
  <2>1. \A g \in Flow : table'[g] # NoToken =>
           inc[table'[g]].kind # "unused" /\ inc[table'[g]].flow = g
    BY <1>6, <1>7 DEF IInv, IdentityInv
  <2>2. \A t \in Token, k \in TaskKind : task'[t][k] # "off" => inc[t].kind # "unused"
    BY <1>6, <1>8, SMTT(30) DEF IInv, IdentityInv
  <2>3. \A t \in Token : task'[t]["open"] # "off" => inc[t].kind \in Opening
    BY <1>8 DEF IInv, IdentityInv, TaskKind
  <2> QED BY <1>9, <2>1, <2>2, <2>3, SMTT(30) DEF IInv, IdentityInv
<1>11. LatestInv'
  <2>1. AttemptOf(f)' = AttemptOf(f)
    BY <1>6, <1>7, <1>9 DEF AttemptOf
  <2>2. \A g \in Flow : g # f => AttemptOf(g)' = AttemptOf(g)
    BY <1>7, <1>9 DEF AttemptOf
  <2>3. table[f] # NoToken
    BY <1>6 DEF Token, NoToken
  <2> QED BY <1>7, <1>9, <2>1, <2>2, <2>3, SMTT(30) DEF IInv, LatestInv
<1>12. QueueInv'
  BY <1>9 DEF IInv, QueueInv
<1>13. LoopMove
  <2>1. <<>> \in Seq(PlainInstr)
    BY EmptySeq
  <2>2. \E prog \in Seq(Instr) : ProgOk(prog)' /\ Then(prog)
    BY <1>5, <2>1, PlainProgram, Zenon
  <2>3. lock # Loop
    BY <1>0, LoopNotHolding
  <2>4. ASSUME NEW t \in Token, NEW k \in {"reader", "writer"}, lock = <<t, k>>
        PROVE  task'[t][k] = task[t][k]
    <3>1. task[t][k] \in {"data", "eof", "status", "close"} /\ k \in TaskKind
      BY <2>4 DEF IInv, LockHolderWrites, TaskKind
    <3>2. t # e
      BY <1>6, <3>1
    <3> QED BY <1>8, <3>1, <3>2
  <2> QED BY <1>9, <2>2, <2>3, <2>4 DEF LoopMove
<1>14. /\ ProgInv' /\ LockHolderWrites' /\ EndInv'
       /\ loop' \in [pc : {"select", "run", "stop", "join", "carrier", "exit"}, prog : Seq(Instr)]
  BY <1>13, LoopMovePreserves
<1>15. TypeOK'
  BY <1>0, <1>5, <1>7, <1>8, <1>14, ZenonT(60) DEF TypeOK, outVars
<1> QED BY <1>10, <1>11, <1>12, <1>14, <1>15, SMTT(30) DEF IInv

-----------------------------------------------------------------------------
(* The end of the session, the environment and the theorems.               *)

(* close_session up to its first await *)
LEMMA CloseSessionPreserves ==
    ASSUME IInv, CloseSession PROVE IInv'
<1>0. TypeOK
  BY DEF IInv
<1>1. \A t \in Token : inc[t] \in Incarnation /\ task[t] \in [TaskKind -> Pc]
  BY <1>0 DEF TypeOK
<1>2. ASSUME NEW t \in Token PROVE Evolves(inc[t], ClosedOut(t))
  <2> DEFINE i == [inc[t] EXCEPT !.t2c = FALSE]
  <2>1. Receiving(t) \in BOOLEAN
    BY DEF Receiving
  <2>2. Evolves(inc[t], i)
    BY <1>1, EvolvesHalfClosed
  <2>3. i \in Incarnation
    BY <2>2 DEF Evolves
  <2>4. Evolves(inc[t], Dropped(inc[t]))
    BY <1>1, EvolvesDropped
  <2> HIDE DEF i
  <2>5. Evolves(i, CloseClientToTarget(i, Receiving(t)))
    BY <2>1, <2>3, EvolvesCloseClientToTarget
  <2>6. CloseClientToTarget(i, Receiving(t)) \in Incarnation
    BY <2>5 DEF Evolves
  <2>7. Evolves(inc[t], Dropped(CloseClientToTarget(i, Receiving(t))))
    BY <1>1, <2>2, <2>3, <2>5, <2>6, EvolvesDropped, EvolvesTransitive, SMTT(30)
  <2> QED BY <2>4, <2>7 DEF ClosedOut, i
<1>3. \A t \in Token : Evolves(inc[t], inc'[t]) /\ TimerMove(task[t], task'[t])
  BY <1>1, <1>2, EvolvesSame, TimerMoveSame, TimerMoveCancel DEF CloseSession
<1>4. inc' \in [Token -> Incarnation]
  BY <1>1, <1>2 DEF CloseSession, Evolves
<1>5. task' \in [Token -> [TaskKind -> Pc]]
  <2>1. \A t \in Token : task'[t] \in [TaskKind -> Pc]
    BY <1>3 DEF TimerMove
  <2>2. task' = [t \in Token |-> task'[t]]
    BY DEF CloseSession
  <2> QED BY <2>1, <2>2
<1>6. /\ table' \in [Flow -> Token \cup {NoToken}] /\ \A f \in Flow : table'[f] = NoToken
  BY DEF CloseSession
<1>7. \A t \in Token : inc[t].kind = "unused" => task'[t] = task[t]
  <2>1. \A t \in Token : inc[t].kind = "unused" => ~\E f \in Flow : table[f] = t
    BY DEF IInv, IdentityInv, Token, NoToken
  <2> QED BY <2>1 DEF CloseSession
<1>8. FlowMove /\ EventMove
  BY <1>3, <1>4, <1>5, <1>6, <1>7, Zenon DEF FlowMove, EventMove, CloseSession
<1>9. IdentityInv' /\ LatestInv' /\ QueueInv'
  BY <1>8, FlowMovePreserves
<1>10. loop' = [pc |-> "join", prog |-> <<>>] /\ <<>> \in Seq(Instr) /\ Len(<<>>) = 0
  BY EmptySeq, Zenon DEF CloseSession
<1>11. ProgInv'
  BY <1>10 DEF ProgInv, ProgOk
<1>12. LockHolderWrites'
  <2>1. lock # Loop /\ lock' = lock
    BY LoopNotHolding DEF CloseSession, Run
  <2>2. \A t \in Token, k \in {"reader", "writer"} : task'[t][k] = task[t][k]
    BY <1>3 DEF TimerMove, TaskKind, Timer
  <2> QED BY <2>1, <2>2 DEF IInv, LockHolderWrites
<1>13. EndInv'
  BY <1>6, <1>10 DEF EndInv, DrainWaitsForFlows, Selecting, Occupied, HasSlot
<1>14. TypeOK'
  <2>1. loop' \in [pc : {"select", "run", "stop", "join", "carrier", "exit"}, prog : Seq(Instr)]
    BY <1>10
  <2>2. /\ state' = "Closing" /\ shutdown' = TRUE
        /\ UNCHANGED <<nextToken, events, stopping, carrier, lock, wire, peer, settings>>
    BY Zenon DEF CloseSession
  <2> QED BY <1>0, <1>4, <1>5, <1>6, <2>1, <2>2 DEF TypeOK
<1> QED BY <1>9, <1>11, <1>12, <1>13, <1>14 DEF IInv

(* Nobody holds the carrier once every task has ended and the loop is      *)
(* tearing down.                                                           *)
LEMMA AllOffFrees ==
    ASSUME IInv, AllOff, loop.pc # "run" PROVE lock = Free
<1>1. lock # Loop
  BY LoopNotHolding, Zenon DEF Run
<1>2. \A t \in Token, k \in {"reader", "writer"} : lock # <<t, k>>
  BY DEF IInv, LockHolderWrites, AllOff, TaskKind
<1> QED BY <1>1, <1>2 DEF IInv, TypeOK

(* A step that leaves flows, queues and tasks alone, and only moves the    *)
(* loop between the stages of the teardown, or changes the environment.    *)
LEMMA StillPreserves ==
    ASSUME IInv, UNCHANGED <<table, inc, task, nextToken, events>>
    PROVE  IdentityInv' /\ LatestInv' /\ QueueInv' /\ \A e : Ready(e) => Ready(e)'
<1>1. IdentityInv'
  BY DEF IInv, IdentityInv
<1>2. LatestInv'
  BY DEF IInv, LatestInv, AttemptOf
<1>3. QueueInv'
  BY DEF IInv, QueueInv
<1>4. \A e : Ready(e) => Ready(e)'
  BY DEF Ready
<1> QED BY <1>1, <1>2, <1>3, <1>4

(* drain_session_tasks and shutdown_carrier_writer *)
LEMMA TeardownPreserves ==
    ASSUME IInv, Teardown PROVE IInv'
<1>0. TypeOK /\ <<>> \in Seq(Instr) /\ Len(<<>>) = 0
  BY EmptySeq DEF IInv
<1>1. CASE CloseSession
  BY <1>1, CloseSessionPreserves
<1>2. CASE JoinTasks
  <2>1. UNCHANGED <<table, inc, task, nextToken, events>> /\ lock' = lock
    BY <1>2 DEF JoinTasks, flowVars, outVars
  <2>2. IdentityInv' /\ LatestInv' /\ QueueInv'
    BY <2>1, StillPreserves
  <2>3. lock = Free /\ AllOff /\ loop.pc = "join" /\ loop' = [pc |-> "carrier", prog |-> <<>>]
    BY <1>2, AllOffFrees DEF JoinTasks
  <2>4. ProgInv'
    BY <1>0, <2>3 DEF ProgInv, ProgOk
  <2>5. LockHolderWrites'
    BY <2>1, <2>3 DEF LockHolderWrites, Free, Loop
  <2>6. EndInv'
    BY <2>1, <2>3 DEF IInv, EndInv, DrainWaitsForFlows, Selecting, Occupied, HasSlot, AllOff
  <2>7. TypeOK'
    BY <1>0, <1>2, <2>3 DEF TypeOK, JoinTasks, flowVars, outVars
  <2> QED BY <2>2, <2>4, <2>5, <2>6, <2>7 DEF IInv
<1>3. CASE AbortTasks
  <2>1. /\ UNCHANGED <<table, inc, nextToken, events, loop>> /\ lock' = Free /\ loop.pc = "join"
        /\ task' \in [Token -> [TaskKind -> Pc]]
        /\ \A t \in Token, k \in TaskKind : task'[t][k] = "off"
    BY <1>3, SMTT(30) DEF AbortTasks, Pc
  <2>2. IdentityInv'
    BY <2>1 DEF IInv, IdentityInv, TaskKind
  <2>3. LatestInv'
    BY <2>1 DEF IInv, LatestInv, AttemptOf
  <2>4. QueueInv'
    BY <2>1 DEF IInv, QueueInv
  <2>5. ProgInv'
    <3>1. loop.prog = <<>>
      BY <2>1 DEF IInv, ProgInv
    <3> QED BY <1>0, <2>1, <3>1 DEF ProgInv, ProgOk
  <2>6. LockHolderWrites'
    BY <2>1 DEF LockHolderWrites, Free, Loop
  <2>7. EndInv'
    BY <2>1 DEF IInv, EndInv, DrainWaitsForFlows, Selecting, Occupied, HasSlot
  <2>8. TypeOK'
    BY <1>0, <1>3, <2>1 DEF TypeOK, AbortTasks
  <2> QED BY <2>2, <2>3, <2>4, <2>5, <2>6, <2>7, <2>8 DEF IInv
<1>4. CASE ShutdownCarrier
  <2>1. UNCHANGED <<table, inc, task, nextToken, events>> /\ lock' = lock
    BY <1>4 DEF ShutdownCarrier, flowVars, outVars
  <2>2. IdentityInv' /\ LatestInv' /\ QueueInv'
    BY <2>1, StillPreserves
  <2>3. loop.pc = "carrier" /\ loop' = [pc |-> "exit", prog |-> <<>>] /\ lock = Free
    BY <1>4 DEF ShutdownCarrier
  <2>4. ProgInv'
    BY <1>0, <2>3 DEF ProgInv, ProgOk
  <2>5. LockHolderWrites'
    BY <2>1, <2>3 DEF LockHolderWrites, Free, Loop
  <2>6. EndInv'
    BY <2>1, <2>3 DEF IInv, EndInv, DrainWaitsForFlows, Selecting, Occupied, HasSlot, AllOff
  <2>7. TypeOK'
    BY <1>0, <1>4, <2>3 DEF TypeOK, ShutdownCarrier, flowVars, outVars
  <2> QED BY <2>2, <2>4, <2>5, <2>6, <2>7 DEF IInv
<1> QED BY <1>1, <1>2, <1>3, <1>4 DEF Teardown

(* The server's stop request and the peer touch nothing of the session. *)
LEMMA EnvironmentPreserves ==
    ASSUME IInv, RequestStop \/ CarrierChanges \/ UNCHANGED vars PROVE IInv'
<1>1. UNCHANGED <<state, table, inc, task, nextToken, events, loop, shutdown, lock, wire,
                  peer, settings>>
  BY DEF RequestStop, CarrierChanges, vars, flowVars, outVars
<1>2. IdentityInv' /\ LatestInv' /\ QueueInv' /\ \A e : Ready(e) => Ready(e)'
  BY <1>1, StillPreserves
<1>3. ProgInv'
  BY <1>1, <1>2 DEF IInv, ProgInv, ProgOk
<1>4. LockHolderWrites'
  BY <1>1 DEF IInv, LockHolderWrites, Run
<1>5. EndInv'
  BY <1>1 DEF IInv, EndInv, DrainWaitsForFlows, Selecting, Occupied, HasSlot, AllOff
<1>6. stopping' \in BOOLEAN /\ carrier' \in {"ok", "stalled", "broken"}
  BY ModeAssumption, ZenonT(60) DEF IInv, TypeOK, RequestStop, CarrierChanges, vars
<1>7. TypeOK'
  BY <1>1, <1>6 DEF IInv, TypeOK
<1> QED BY <1>2, <1>3, <1>4, <1>5, <1>7 DEF IInv

(* The invariant holds of a session that has just been authenticated. *)
LEMMA InitIInv == Init => IInv
<1> SUFFICES ASSUME Init PROVE IInv
  OBVIOUS
<1>0. /\ <<>> \in Seq(Instr) /\ <<>> \in Seq(Command) /\ <<>> \in Seq(Event) /\ Len(<<>>) = 0
  BY EmptySeq
<1>1. Unused \in Incarnation /\ Unused.kind = "unused" /\ Unused.queue = <<>>
  BY <1>0 DEF Unused, Incarnation
<1>2. /\ \A t \in Token : inc[t] = Unused /\ \A k \in TaskKind : task[t][k] = "off"
      /\ \A f \in Flow : table[f] = NoToken
      /\ events = <<>> /\ loop = [pc |-> "select", prog |-> <<>>] /\ lock = Free
  BY DEF Init, AtSelect
<1>3. TypeOK
  <2>1. inc \in [Token -> Incarnation] /\ task \in [Token -> [TaskKind -> Pc]]
    BY <1>1 DEF Init, Pc
  <2>2. nextToken \in 1 .. (2 * MaxOpens + 1) /\ Len(events) <= EventCap
    BY <1>0, <1>2, BoundAssumption DEF Init
  <2>3. /\ table \in [Flow -> Token \cup {NoToken}] /\ wire \in [Flow -> WireState]
        /\ peer \in [Flow -> {"unused", "tcp", "udp", "closed"}]
    BY DEF Init, WireState
  <2>4. loop \in [pc : {"select", "run", "stop", "join", "carrier", "exit"}, prog : Seq(Instr)]
    BY <1>0, <1>2
  <2>5. events \in Seq(Event) /\ lock \in {Free, Loop} \cup (Token \X {"reader", "writer"})
    BY <1>0, <1>2
  <2>6. /\ state \in {"Relaying", "Draining", "Closing", "Closed"} /\ shutdown \in BOOLEAN
        /\ stopping \in BOOLEAN /\ carrier \in {"ok", "stalled", "broken"} /\ settings \in BOOLEAN
    BY Zenon DEF Init
  <2> QED BY <2>1, <2>2, <2>3, <2>4, <2>5, <2>6, SMTT(30) DEF TypeOK
<1>4. IdentityInv
  BY <1>0, <1>1, <1>2 DEF IdentityInv, TaskKind
<1>5. LatestInv
  BY <1>2 DEF LatestInv
<1>6. ProgInv
  BY <1>0, <1>2 DEF ProgInv, ProgOk
<1>7. LockHolderWrites
  BY <1>2 DEF LockHolderWrites, Free, Loop
<1>8. EndInv
  BY <1>2 DEF Init, EndInv, DrainWaitsForFlows
<1>9. QueueInv
  BY <1>0, <1>1, <1>2 DEF QueueInv, QueueOk
<1> QED BY <1>3, <1>4, <1>5, <1>6, <1>7, <1>8, <1>9 DEF IInv

(* Every step of the session preserves it. *)
LEMMA NextIInv == IInv /\ [Next]_vars => IInv'
<1> SUFFICES ASSUME IInv, [Next]_vars PROVE IInv'
  OBVIOUS
<1>1. ASSUME NEW f \in Flow, FlowFrame(f) PROVE IInv'
  BY <1>1, OpenPreserves, TcpDataPreserves, TcpClosePreserves, UdpDataPreserves,
     UdpClosePreserves, StatusPreserves DEF FlowFrame
<1>2. ASSUME NEW f \in Flow, UdpIdle(f) PROVE IInv'
  BY <1>2, UdpIdlePreserves
<1>3. CASE ConnectionFrame
  BY <1>3, ConnectionPreserves
<1>4. CASE FlowEvent
  BY <1>4, FlowEventPreserves
<1>5. CASE ShutdownEvent \/ DrainTimeout \/ SessionEnds \/ CarrierFailed
  BY <1>5, EndingsPreserve
<1>6. CASE LoopStep
  BY <1>6, RunWritePreserves, RunRemovePreserves, RunEstablishPreserves, EndingsPreserve
     DEF LoopStep
<1>7. CASE Teardown
  BY <1>7, TeardownPreserves
<1>8. ASSUME NEW t \in Token, OpenTask(t) \/ ReaderTask(t) \/ WriterTask(t) \/ TimerTask(t)
      PROVE  IInv'
  BY <1>8, TasksPreserve
<1>9. CASE RequestStop \/ CarrierChanges \/ UNCHANGED vars
  BY <1>9, EnvironmentPreserves
<1> QED BY <1>1, <1>2, <1>3, <1>4, <1>5, <1>6, <1>7, <1>8, <1>9 DEF Next, Terminated

(* The inductive invariant holds throughout every session. *)
THEOREM SessionInvariant == Spec => []IInv
BY InitIInv, NextIInv, PTL DEF Spec

(* No handler or task leaves the representations of relay/context.rs, for  *)
(* any flow ids, limits and timeouts.                                      *)
THEOREM SessionTyped == Spec => []TypeOK
<1>1. IInv => TypeOK
  BY DEF IInv
<1> QED BY <1>1, SessionInvariant, PTL

(* A stream is only wired in for the latest attempt on its flow id         *)
(* (handle_tcp_open_completed, handle_udp_open_completed).                 *)
THEOREM SessionAttemptMatches == Spec => []AttemptMatches
<1>1. IInv => AttemptMatches
  <2> SUFFICES ASSUME IInv, NEW f \in Occupied, NEW o \in OpenAttempts,
                      inc[o].flow = f, Slot(f).kind \in Established
               PROVE  o <= Slot(f).from
    BY DEF AttemptMatches
  <2>1. f \in Flow /\ table[f] # NoToken /\ o \in Token /\ inc[o].kind \in Opening
    BY DEF Occupied, HasSlot, OpenAttempts
  <2>2. AttemptOf(f) = Slot(f).from
    BY KindsDisjoint DEF AttemptOf, Slot
  <2> QED BY <2>1, <2>2 DEF IInv, LatestInv
<1> QED BY <1>1, SessionInvariant, PTL

(* Upload data is never queued behind the end of the upload                *)
(* (enqueue_data, close_client_to_target_queue).                           *)
THEOREM SessionQueueOrder == Spec => []QueueOrder
<1>1. IInv => QueueOrder
  <2> SUFFICES ASSUME IInv, NEW t \in Token PROVE
         \A m, n \in DOMAIN inc[t].queue :
            (m < n /\ inc[t].queue[m] = "close") => inc[t].queue[n] = "close"
    BY DEF QueueOrder
  <2>1. inc[t] \in Incarnation /\ QueueOk(inc[t])
    BY DEF IInv, TypeOK, QueueInv
  <2>2. inc[t].queue \in Seq(Command)
    BY <2>1 DEF Incarnation
  <2>3. DOMAIN inc[t].queue = 1 .. Len(inc[t].queue)
    BY <2>2
  <2> QED BY <2>1, <2>3 DEF QueueOk
<1> QED BY <1>1, SessionInvariant, PTL

(* The carrier lock never outlives the write it was taken for              *)
(* (write_frame_locked).                                                   *)
THEOREM SessionLock == Spec => []LockHolderWrites
<1>1. IInv => LockHolderWrites
  BY DEF IInv
<1> QED BY <1>1, SessionInvariant, PTL

(* After the join nothing of the session is left (close_session).          *)
THEOREM SessionTeardown == Spec => []TeardownComplete
<1>1. IInv => TeardownComplete
  BY DEF IInv, EndInv, TeardownComplete
<1> QED BY <1>1, SessionInvariant, PTL

(* A draining session waits only while it has flows (relay_session).       *)
THEOREM SessionDrain == Spec => []DrainWaitsForFlows
<1>1. IInv => DrainWaitsForFlows
  BY DEF IInv, EndInv
<1> QED BY <1>1, SessionInvariant, PTL
=============================================================================
