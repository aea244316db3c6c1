---------------------------- MODULE RelayProofs ----------------------------
(* Proofs about the client's relays.  UdpAssociation, for any peers, queue   *)
(* and number of flows: what a closed association leaves behind.             *)
(* ClientTcpRelay, for any amount of data and any limits: the bytes of a     *)
(* connection, numbered each way.                                            *)
EXTENDS UdpAssociation, ClientTcpRelay, FiniteSetTheorems, SequenceTheorems, TLAPS

-----------------------------------------------------------------------------
(* The worker of a UDP association opens a flow only when it has none, its   *)
(* relays serve flows that were opened, and they end with it.                *)
UdpIInv ==
    /\ NothingLeftBehind /\ opened \in Nat
    /\ relays \subseteq 1..opened /\ ended \subseteq 1..opened
    /\ worker = "open" => current = 0
    /\ worker = "none" => current = 0 /\ relays = {} /\ ended = {}
    /\ association = "closed" => worker = "none"

LEMMA UdpInitIInv ==
    UdpInit => UdpIInv
BY QueueAssumption, SMTT(30) DEF UdpInit, UdpIInv, NothingLeftBehind, UdpTypeOK, OnlyCurrentRouted, NothingLeftRunning, HasWorker

LEMMA UdpNextIInv ==
    ASSUME UdpIInv, [UdpNext]_udpVars
    PROVE  UdpIInv'
<1> USE QueueAssumption DEF UdpIInv, NothingLeftBehind, UdpTypeOK, OnlyCurrentRouted, NothingLeftRunning, HasWorker
<1>0. ASSUME close_worker_flow, worker # "none"
      PROVE  current' = 0 /\ routes' = {} /\ association # "closed" /\ 0 \in 0..opened
  BY <1>0 DEF close_worker_flow, RemoveRoute
<1>1. ASSUME NEW p \in Peers, ReceiveLocal(p) PROVE UdpIInv'
  <2>1. /\ association = "open" /\ learned' = p /\ UNCHANGED <<association, attempt, flowState>>
        /\ enqueue_datagram \/ UNCHANGED <<sender, worker, queue, offered>>
    BY <1>1 DEF ReceiveLocal
  <2>2. queue' \in 0..UDP_TARGET_QUEUE_CAPACITY /\ worker' \in {worker, "loop"}
    BY <2>1 DEF enqueue_datagram
  <2> QED BY <2>1, <2>2 DEF flowState
<1>2. CASE TakeDatagram
  BY <1>2 DEF TakeDatagram, assocVars, flowState
<1>3. ASSUME NEW f \in 1..MaxFlows, JoinRelay(f) PROVE UdpIInv'
  <2>1. /\ worker = "loop" /\ ended' \subseteq ended
        /\ UNCHANGED <<association, learned, worker, queue, opened, relays>>
    BY <1>3 DEF JoinRelay, assocVars
  <2>2. CASE UNCHANGED <<current, routes>>
    BY <2>1, <2>2
  <2>3. CASE close_worker_flow
    BY <1>0, <2>1, <2>3
  <2> QED BY <1>3, <2>2, <2>3 DEF JoinRelay
<1>4. CASE LeaveLoop
  BY <1>4 DEF LeaveLoop, assocVars, flowState
<1>5. CASE WorkerReturns
  BY <1>5 DEF WorkerReturns, close_worker_flow, RemoveRoute, assocVars
<1>6. CASE EnsureFlow
  <2>1. worker = "send" /\ UNCHANGED <<association, learned, queue, opened, relays, ended>>
    BY <1>6 DEF EnsureFlow, assocVars
  <2>2. CASE worker' \in {"leaving", "write"} /\ UNCHANGED <<current, routes>>
    BY <2>1, <2>2
  <2>3. CASE worker' = "open" /\ close_worker_flow
    BY <1>0, <2>1, <2>3
  <2> QED BY <1>6, <2>2, <2>3 DEF EnsureFlow
<1>7. CASE OpenWorkerFlow
  <2>1. worker = "open" /\ current = 0 /\ routes = {} /\ association # "closed"
    BY <1>7 DEF OpenWorkerFlow
  <2>2. UNCHANGED <<association, learned, queue, ended>>
    BY <1>7 DEF OpenWorkerFlow, assocVars
  <2>3. CASE /\ opened' = opened + 1 /\ current' = opened + 1 /\ routes' = routes \cup {opened + 1}
             /\ relays' = relays \cup {opened + 1} /\ worker' = "write"
    BY <2>1, <2>2, <2>3
  <2>4. CASE /\ opened' \in {opened, opened + 1} /\ worker' \in {"leaving", "loop"}
             /\ UNCHANGED <<current, routes, relays>>
    BY <2>1, <2>2, <2>4
  <2> QED BY <1>7, <2>3, <2>4 DEF OpenWorkerFlow
<1>8. CASE SendDatagram
  <2>1. worker = "write" /\ UNCHANGED <<association, learned, queue, opened, relays, ended>>
    BY <1>8 DEF SendDatagram, assocVars
  <2>2. CASE worker' = "loop" /\ UNCHANGED <<current, routes>>
    BY <2>1, <2>2
  <2>3. CASE worker' \in {"send", "loop"} /\ close_worker_flow
    BY <1>0, <2>1, <2>3
  <2> QED BY <1>8, <2>2, <2>3 DEF SendDatagram
<1>9. ASSUME NEW f \in 1..MaxFlows, InboundEnds(f) \/ CarrierLoses(f) PROVE UdpIInv'
  BY <1>9, Zenon DEF InboundEnds, CarrierLoses, assocVars
<1>10. CASE CloseAssociation \/ JoinWorkers
  BY <1>10, Zenon DEF CloseAssociation, JoinWorkers, flowState
<1>11. CASE AbortWorkers
  BY <1>11 DEF AbortWorkers
<1>12. CASE UNCHANGED udpVars
  BY <1>12 DEF udpVars
<1> QED
  BY <1>1, <1>2, <1>3, <1>4, <1>5, <1>6, <1>7, <1>8, <1>9, <1>10, <1>11, <1>12 DEF UdpNext, WorkerStep

(* A UDP association leaves nothing behind, whatever its queue's capacity:   *)
(* only the current flow of a living worker is routed, and close leaves      *)
(* neither worker nor relay (ensure_worker_flow, close_worker_flow,          *)
(* UdpAssociation::close).                                                   *)
THEOREM UdpLeavesNothingBehind == UdpSpec => []NothingLeftBehind
<1>1. UdpInit => UdpIInv
  BY UdpInitIInv
<1>2. UdpIInv /\ [UdpNext]_udpVars => UdpIInv'
  BY UdpNextIInv
<1>3. UdpIInv => NothingLeftBehind
  BY DEF UdpIInv
<1> QED BY <1>1, <1>2, <1>3, PTL DEF UdpSpec

(* The end of an earlier flow's relay leaves the present flow alone, and the *)
(* association keeps the peer it learned first (the worker's select loop,    *)
(* UdpClientEndpoint::accepts).                                              *)
THEOREM UdpKeepsFlowAndPeer == UdpSpec => [][HealthyFlowKept /\ PeerPinned]_udpVars
<1>1. [UdpNext]_udpVars => [HealthyFlowKept /\ PeerPinned]_udpVars
  <2> SUFFICES ASSUME UdpNext PROVE HealthyFlowKept /\ PeerPinned
    OBVIOUS
  <2> USE DEF HealthyFlowKept, PeerPinned, assocVars, flowState
  <2>1. CASE \E p \in Peers : ReceiveLocal(p)
    BY <2>1 DEF ReceiveLocal, accepts
  <2>2. CASE \E f \in 1..MaxFlows : JoinRelay(f) \/ InboundEnds(f) \/ CarrierLoses(f)
    BY <2>2 DEF JoinRelay, InboundEnds, CarrierLoses
  <2>3. CASE TakeDatagram \/ WorkerReturns \/ EnsureFlow \/ OpenWorkerFlow \/ SendDatagram \/ LeaveLoop
    BY <2>3 DEF TakeDatagram, WorkerReturns, EnsureFlow, OpenWorkerFlow, SendDatagram, LeaveLoop
  <2>4. CASE CloseAssociation \/ JoinWorkers \/ AbortWorkers
    BY <2>4 DEF CloseAssociation, JoinWorkers, AbortWorkers
  <2> QED BY <2>1, <2>2, <2>3, <2>4 DEF UdpNext, WorkerStep
<1> QED BY <1>1, PTL DEF UdpSpec

-----------------------------------------------------------------------------
(* The TCP relay of the client.  Upload: what was read while the flow opened *)
(* continues what was sent, and is all sent before anything else is read.    *)
Before == {"negotiate", "open", "reply", "flush"}
Relaying == {"loop", "write", "drain", "deliver"}

Upload ==
    /\ app \in [next : Nat \ {0}, eof : BOOLEAN]
    /\ sent \in Seq(Nat) /\ pending \in Seq(Nat) /\ Len(pending) <= max_pending_open
    /\ \A i \in 1 .. Len(sent) : sent[i] = i
    /\ \A i \in 1 .. Len(pending) : pending[i] = Len(sent) + i
    /\ Len(pending) + Len(sent) < app.next
    /\ step \in Relaying => pending = <<>>
    /\ step \in {"negotiate", "open", "reply"} => sent = <<>>

(* A normal close ends the upload.                                           *)
CloseSent ==
    /\ NormalCloseIsComplete
    /\ closeSent = "normal" => ~up /\ step \notin Before \union {"drain"}

(* Download: while the write half is open the queue continues the w frames   *)
(* written so far, up to the server's close once that was sent.              *)
Frames == [kind : {"data", "close", "closeError", "status"}, n : Nat]
DataUpTo(q, m, w) == \A j \in 1 .. m : q[j].kind = "data" /\ q[j].n = w + j
Continues(q, w, next, done) ==
    IF done THEN \E m \in 1 .. Len(q) : q[m].kind # "data" /\ DataUpTo(q, m - 1, w)
            ELSE next = w + Len(q) + 1 /\ DataUpTo(q, Len(q), w)

Download ==
    /\ written \in Seq(Nat) /\ frames \in Seq(Frames) /\ srv \in [next : Nat, done : BOOLEAN]
    /\ \A i \in 1 .. Len(written) : written[i] = i
    /\ step # "returned" => down = ~fin
    /\ ~fin /\ step # "returned" => Continues(frames, Len(written), srv.next, srv.done)

(* The connection's state follows the handler's step.                        *)
Stages ==
    /\ state \in {"NegotiatingSocks", "Opening", "Relaying", "Closing", "Closed"}
    /\ step \in Before \union Relaying \union {"returned"}
    /\ step = "negotiate" => state = "NegotiatingSocks"
    /\ step \in {"open", "reply"} => state = "Opening"
    /\ step \in Relaying \union {"flush"} => state = "Relaying"
    /\ outcome \in {"running", "ok", "err"} /\ closeSent \in {"none", "normal", "error"}
    /\ up \in BOOLEAN /\ down \in BOOLEAN /\ fin \in BOOLEAN /\ truncated \in BOOLEAN

TcpIInv == Upload /\ CloseSent /\ Download /\ Stages

LEMMA TcpInitIInv == TcpInit => TcpIInv
<1> SUFFICES ASSUME TcpInit PROVE TcpIInv
  OBVIOUS
<1> USE DEF TcpInit
<1>1. Upload
  BY PendingAssumption DEF Upload, Relaying
<1>2. CloseSent /\ Stages
  BY Zenon DEF CloseSent, NormalCloseIsComplete, Stages, Before, Relaying
<1>3. Download
  <2>1. written \in Seq(Nat) /\ frames \in Seq(Frames) /\ Len(written) = 0 /\ Len(frames) = 0
    OBVIOUS
  <2>2. srv \in [next : Nat, done : BOOLEAN] /\ srv.next = 1 /\ ~srv.done
    OBVIOUS
  <2>3. Continues(frames, Len(written), srv.next, srv.done)
    BY <2>1, <2>2 DEF Continues, DataUpTo
  <2>4. down = ~fin
    BY Zenon
  <2>5. \A i \in 1 .. Len(written) : written[i] = i
    BY <2>1
  <2> QED BY <2>1, <2>2, <2>3, <2>4, <2>5, Zenon DEF Download
<1> QED BY <1>1, <1>2, <1>3 DEF TcpIInv

(* One more chunk at the end of a numbered sequence.                         *)
LEMMA AppendNumber ==
    ASSUME NEW s \in Seq(Nat), NEW base \in Nat, NEW n, n = base + Len(s) + 1,
           \A i \in 1 .. Len(s) : s[i] = base + i
    PROVE  /\ Append(s, n) \in Seq(Nat) /\ Len(Append(s, n)) = Len(s) + 1
           /\ \A i \in 1 .. Len(Append(s, n)) : Append(s, n)[i] = base + i
<1>1. Len(s) \in Nat /\ n \in Nat
  OBVIOUS
<1>2. /\ Append(s, n) \in Seq(Nat) /\ Len(Append(s, n)) = Len(s) + 1
      /\ \A i \in 1 .. Len(s) : Append(s, n)[i] = s[i]
      /\ Append(s, n)[Len(s) + 1] = n
  BY <1>1, AppendProperties
<1> QED BY <1>1, <1>2

(* A chunk is read and sent: ReadLocal, drain_upload_before_shutdown.        *)
LEMMA SendKeepsUpload ==
    ASSUME Upload, step \in Relaying, step' \in Relaying, Unread,
           sent' = Append(sent, ReadCount + 1), UNCHANGED <<app, pending>>
    PROVE  Upload'
<1>1. pending = <<>> /\ Len(pending) = 0 /\ Len(sent) \in Nat /\ app.next \in Nat
  BY DEF Upload
<1>2. ReadCount + 1 = 0 + Len(sent) + 1 /\ Len(sent) + 1 < app.next
  BY <1>1 DEF ReadCount, Unread
<1>3. /\ sent' \in Seq(Nat) /\ Len(sent') = Len(sent) + 1
      /\ \A i \in 1 .. Len(sent') : sent'[i] = 0 + i
  BY <1>2, AppendNumber DEF Upload
<1> QED BY <1>1, <1>2, <1>3 DEF Upload, Relaying

(* A step that neither reads nor sends.                                      *)
LEMMA OthersKeepUpload ==
    ASSUME Upload, UNCHANGED <<pending, sent>>,
           app' = app \/ (app' \in [next : Nat \ {0}, eof : BOOLEAN] /\ app'.next >= app.next),
           step' \in Relaying => pending = <<>>,
           step' \in {"negotiate", "open", "reply"} => sent = <<>>
    PROVE  Upload'
BY DEF Upload

LEMMA OthersKeepDownload ==
    ASSUME Download, UNCHANGED <<frames, srv, written, fin, down>>, step # "returned"
    PROVE  Download'
BY DEF Download

(* The server's next frame joins the queue.                                  *)
LEMMA QueueGrows ==
    ASSUME NEW q \in Seq(Frames), NEW w \in Nat, NEW next \in Nat, NEW done \in BOOLEAN,
           NEW f \in Frames, Continues(q, w, next, done)
    PROVE  /\ Append(q, f) \in Seq(Frames)
           /\ f.kind = "data" /\ f.n = next => Continues(Append(q, f), w, next + 1, done)
           /\ f.kind # "data" /\ ~done => Continues(Append(q, f), w, next, TRUE)
<1> DEFINE r == Append(q, f)
<1>1. Len(q) \in Nat
  OBVIOUS
<1>2. /\ r \in Seq(Frames) /\ Len(r) = Len(q) + 1
      /\ \A j \in 1 .. Len(q) : r[j] = q[j]
      /\ r[Len(q) + 1] = f
  BY AppendProperties
<1> HIDE DEF r
<1>3. ASSUME NEW m \in 0 .. Len(q), DataUpTo(q, m, w) PROVE DataUpTo(r, m, w)
  <2> SUFFICES ASSUME NEW j \in 1 .. m PROVE r[j].kind = "data" /\ r[j].n = w + j
    BY DEF DataUpTo
  <2>1. j \in 1 .. Len(q)
    BY <1>1
  <2> QED BY <1>2, <1>3, <2>1 DEF DataUpTo
<1>4. ASSUME f.kind = "data", f.n = next PROVE Continues(r, w, next + 1, done)
  <2>1. CASE done
    <3>1. PICK m \in 1 .. Len(q) : q[m].kind # "data" /\ DataUpTo(q, m - 1, w)
      BY <2>1 DEF Continues
    <3>2. m \in 1 .. Len(r) /\ m - 1 \in 0 .. Len(q) /\ r[m] = q[m]
      BY <1>1, <1>2
    <3> QED BY <1>3, <2>1, <3>1, <3>2 DEF Continues
  <2>2. CASE ~done
    <3>1. next = w + Len(q) + 1 /\ DataUpTo(q, Len(q), w) /\ Len(q) \in 0 .. Len(q)
      BY <1>1, <2>2 DEF Continues
    <3>2. DataUpTo(r, Len(q), w)
      BY <1>3, <3>1
    <3>3. DataUpTo(r, Len(r), w)
      BY <1>1, <1>2, <1>4, <3>1, <3>2 DEF DataUpTo
    <3> QED BY <1>1, <1>2, <2>2, <3>1, <3>3 DEF Continues
  <2> QED BY <2>1, <2>2
<1>5. ASSUME f.kind # "data", ~done PROVE Continues(r, w, next, TRUE)
  <2>1. DataUpTo(q, Len(q), w) /\ Len(q) \in 0 .. Len(q)
    BY <1>1, <1>5 DEF Continues
  <2>2. DataUpTo(r, (Len(q) + 1) - 1, w) /\ Len(q) + 1 \in 1 .. Len(r)
    BY <1>1, <1>2, <1>3, <2>1
  <2> QED BY <1>2, <1>5, <2>2 DEF Continues
<1> QED BY <1>2, <1>4, <1>5, Zenon DEF r

(* A data frame at the head of the queue is the next one to write.           *)
LEMMA QueueShrinks ==
    ASSUME NEW q \in Seq(Frames), NEW w \in Nat, NEW next \in Nat, NEW done \in BOOLEAN,
           Continues(q, w, next, done), q # <<>>, Head(q).kind = "data"
    PROVE  /\ Head(q).n = w + 1
           /\ Tail(q) \in Seq(Frames) /\ Continues(Tail(q), w + 1, next, done)
<1> DEFINE r == Tail(q)
<1>1. Len(q) \in Nat \ {0} /\ Head(q) = q[1]
  OBVIOUS
<1>2. /\ r \in Seq(Frames) /\ Len(r) = Len(q) - 1
      /\ \A j \in 1 .. Len(r) : r[j] = q[j + 1]
  BY <1>1, HeadTailProperties
<1> HIDE DEF r
<1>3. ASSUME NEW m \in 1 .. Len(q), DataUpTo(q, m, w) PROVE q[1].n = w + 1 /\ DataUpTo(r, m - 1, w + 1)
  <2>1. q[1].n = w + 1
    BY <1>1, <1>3 DEF DataUpTo
  <2>2. ASSUME NEW j \in 1 .. m - 1 PROVE r[j].kind = "data" /\ r[j].n = (w + 1) + j
    <3>1. j \in 1 .. Len(r) /\ j + 1 \in 1 .. m /\ w + (j + 1) = (w + 1) + j
      BY <1>1, <1>2
    <3> QED BY <1>2, <1>3, <3>1, Zenon DEF DataUpTo
  <2> QED BY <2>1, <2>2 DEF DataUpTo
<1>4. CASE done
  <2>1. PICK m \in 1 .. Len(q) : q[m].kind # "data" /\ DataUpTo(q, m - 1, w)
    BY <1>4 DEF Continues
  <2>2. m # 1
    BY <1>1, <2>1
  <2>3. m - 1 \in 1 .. Len(q) /\ m - 1 \in 1 .. Len(r) /\ r[m - 1] = q[m]
    BY <1>1, <1>2, <2>2
  <2>4. q[1].n = w + 1 /\ DataUpTo(r, (m - 1) - 1, w + 1)
    BY <1>3, <2>1, <2>3
  <2> QED BY <1>1, <1>2, <1>4, <2>1, <2>3, <2>4, Zenon DEF Continues, r
<1>5. CASE ~done
  <2>1. next = w + Len(q) + 1 /\ DataUpTo(q, Len(q), w) /\ Len(q) \in 1 .. Len(q)
    BY <1>1, <1>5 DEF Continues
  <2>2. q[1].n = w + 1 /\ DataUpTo(r, Len(r), w + 1)
    BY <1>2, <1>3, <2>1
  <2>3. next = (w + 1) + Len(r) + 1
    BY <1>1, <1>2, <2>1
  <2> QED BY <1>1, <1>2, <1>5, <2>2, <2>3 DEF Continues, r
<1> QED BY <1>4, <1>5

LEMMA ServerSendsKeeps ==
    ASSUME TcpIInv, ServerSends
    PROVE  TcpIInv'
<1>1. Upload' /\ CloseSent' /\ Stages'
  BY DEF ServerSends, TcpIInv, Upload, CloseSent, NormalCloseIsComplete, ReadCount, Stages, appVars
<1>2. /\ frames \in Seq(Frames) /\ srv \in [next : Nat, done : BOOLEAN]
      /\ Len(written) \in Nat /\ srv.next \in Nat /\ srv.done \in BOOLEAN
      /\ UNCHANGED <<step, written, fin, down>> /\ step # "returned"
  BY DEF TcpIInv, Download, ServerSends
<1>3. PICK f \in Frames :
        /\ frames' = Append(frames, f)
        /\ \/ f.kind = "data" /\ f.n = srv.next /\ srv' = [srv EXCEPT !.next = @ + 1]
           \/ f.kind # "data" /\ ~srv.done /\ srv' = [srv EXCEPT !.done = TRUE]
  <2>1. CASE /\ frames' = Append(frames, [kind |-> "data", n |-> srv.next])
             /\ srv' = [srv EXCEPT !.next = @ + 1]
    <3> DEFINE g == [kind |-> "data", n |-> srv.next]
    <3>1. g \in Frames /\ g.kind = "data" /\ g.n = srv.next
      BY <1>2 DEF Frames
    <3> QED BY <2>1, <3>1
  <2>2. CASE \E f \in {"close", "closeError", "status"} :
               /\ ~srv.done
               /\ frames' = Append(frames, [kind |-> f, n |-> 0]) /\ srv' = [srv EXCEPT !.done = TRUE]
    <3>1. PICK f \in {"close", "closeError", "status"} :
               /\ ~srv.done
               /\ frames' = Append(frames, [kind |-> f, n |-> 0]) /\ srv' = [srv EXCEPT !.done = TRUE]
      BY <2>2
    <3> DEFINE g == [kind |-> f, n |-> 0]
    <3>2. g \in Frames /\ g.kind # "data"
      BY DEF Frames
    <3> QED BY <3>1, <3>2
  <2> QED BY <2>1, <2>2 DEF ServerSends
<1>4. /\ srv' \in [next : Nat, done : BOOLEAN]
      /\ \/ f.kind = "data" /\ f.n = srv.next /\ srv'.next = srv.next + 1 /\ srv'.done = srv.done
         \/ f.kind # "data" /\ ~srv.done /\ srv'.next = srv.next /\ srv'.done = TRUE
  <2>1. CASE f.kind = "data" /\ f.n = srv.next /\ srv' = [srv EXCEPT !.next = @ + 1]
    BY <1>2, <2>1
  <2>2. CASE f.kind # "data" /\ ~srv.done /\ srv' = [srv EXCEPT !.done = TRUE]
    BY <1>2, <2>2, Zenon
  <2> QED BY <1>3, <2>1, <2>2, Zenon
<1>5. frames' \in Seq(Frames)
  BY <1>2, <1>3, AppendProperties
<1>6. ~fin => Continues(frames', Len(written), srv'.next, srv'.done)
  <2>1. ~fin => Continues(frames, Len(written), srv.next, srv.done)
    BY <1>2 DEF TcpIInv, Download
  <2>2. PICK w, next, done : w = Len(written) /\ next = srv.next /\ done = srv.done
    BY Zenon
  <2>3. ASSUME ~fin
        PROVE  /\ f.kind = "data" /\ f.n = next => Continues(Append(frames, f), w, next + 1, done)
               /\ f.kind # "data" /\ ~done => Continues(Append(frames, f), w, next, TRUE)
    <3>1. w \in Nat /\ next \in Nat /\ done \in BOOLEAN /\ Continues(frames, w, next, done)
      BY <1>2, <2>1, <2>2, <2>3
    <3> QED BY <1>2, <3>1, QueueGrows, Zenon
  <2> QED BY <1>3, <1>4, <2>2, <2>3, Zenon
<1> QED BY <1>1, <1>2, <1>4, <1>5, <1>6 DEF TcpIInv, Download

LEMMA HeadContinues ==
    ASSUME Download, ~fin, step # "returned", frames # <<>>, Head(frames).kind = "data",
           frames' = Tail(frames), written' = Append(written, Head(frames).n),
           UNCHANGED <<srv, fin, down>>
    PROVE  Download'
<1>1. /\ frames \in Seq(Frames) /\ written \in Seq(Nat) /\ Len(written) \in Nat
      /\ srv.next \in Nat /\ srv.done \in BOOLEAN /\ down = ~fin
      /\ Continues(frames, Len(written), srv.next, srv.done)
  BY DEF Download
<1>2. /\ Head(frames).n = Len(written) + 1 /\ frames' \in Seq(Frames)
      /\ Continues(frames', Len(written) + 1, srv.next, srv.done)
  BY <1>1, QueueShrinks
<1>3. /\ written' \in Seq(Nat) /\ Len(written') = Len(written) + 1
      /\ \A i \in 1 .. Len(written') : written'[i] = 0 + i
  <2>1. Head(frames).n = 0 + Len(written) + 1
    BY <1>1, <1>2
  <2> QED BY <1>1, <2>1, AppendNumber DEF Download
<1>4. \A i \in 1 .. Len(written') : written'[i] = i
  BY <1>1, <1>3
<1> QED BY <1>1, <1>2, <1>3, <1>4 DEF Download

(* The write half is closed, or the handler returns: the queue no longer     *)
(* matters.                                                                  *)
LEMMA EndKeepsDownload ==
    ASSUME Download, UNCHANGED <<srv, written>>,
           frames' = frames \/ (frames # <<>> /\ frames' = Tail(frames)),
           (fin' = TRUE /\ down' = FALSE) \/ step' = "returned"
    PROVE  Download'
<1>1. frames \in Seq(Frames)
  BY DEF Download
<1>2. frames' \in Seq(Frames)
  BY <1>1, HeadTailProperties
<1>3. written' \in Seq(Nat) /\ srv' \in [next : Nat, done : BOOLEAN]
      /\ \A i \in 1 .. Len(written') : written'[i] = i
  BY DEF Download
<1>4. (step' # "returned" => down' = ~fin') /\ ~(~fin' /\ step' # "returned")
  BY Zenon
<1> QED BY <1>2, <1>3, <1>4 DEF Download

LEMMA ReceiveKeeps ==
    ASSUME TcpIInv, Receive
    PROVE  TcpIInv' /\ NothingAfterFin /\ TransitionsValid
<1> USE DEF TcpIInv
<1>1. step = "loop" /\ frames # <<>> /\ UNCHANGED <<app, pending, sent, srv, truncated>>
      /\ frames' = Tail(frames) /\ pending = <<>> /\ down = ~fin /\ state = "Relaying"
  BY DEF Receive, appVars, Upload, Download, Stages, Relaying
<1>2. CASE Head(frames).kind = "data" /\ down
  <2>1. /\ step' = "write" /\ written' = Append(written, Head(frames).n)
        /\ UNCHANGED <<state, outcome, closeSent, fin, up, down>>
    BY <1>2, Zenon DEF Receive
  <2>2. Download'
    BY <1>1, <1>2, <2>1, HeadContinues, Zenon DEF Stages
  <2>3. Upload'
    BY <1>1, <2>1, OthersKeepUpload DEF Upload, Relaying
  <2> QED BY <1>1, <1>2, <2>1, <2>2, <2>3, Zenon DEF CloseSent, NormalCloseIsComplete, ReadCount, Stages,
                                    Before, Relaying, NothingAfterFin, TransitionsValid
<1>3. CASE Head(frames).kind = "data" /\ ~down
  <2>1. RelayError /\ UNCHANGED <<written, fin, up, down>>
    BY <1>3 DEF Receive
  <2>2. step' = "returned" /\ state' = "Closing" /\ closeSent' = "error" /\ outcome' = "err"
    BY <2>1 DEF RelayError, Return
  <2>3. Download'
    BY <1>1, <2>1, <2>2, EndKeepsDownload
  <2>4. Upload'
    BY <1>1, <2>2, OthersKeepUpload DEF Relaying
  <2>5. CloseSent' /\ Stages'
    BY <1>1, <2>1, <2>2 DEF CloseSent, NormalCloseIsComplete, Stages, Before, Relaying
  <2> QED BY <1>1, <2>1, <2>2, <2>3, <2>4, <2>5 DEF NothingAfterFin, TransitionsValid, ValidTransitions
<1>4. CASE Head(frames).kind # "data"
  <2>1. /\ fin' = TRUE /\ down' = FALSE /\ up' \in BOOLEAN /\ (up' => up)
        /\ UNCHANGED <<step, state, outcome, closeSent, written>>
    BY <1>4, Zenon DEF Receive, Stages
  <2>2. Download'
    BY <1>1, <2>1, EndKeepsDownload, Zenon
  <2>3. Upload'
    BY <1>1, <2>1, OthersKeepUpload
  <2> QED BY <1>1, <2>1, <2>2, <2>3, Zenon DEF CloseSent, NormalCloseIsComplete, ReadCount, Stages, Relaying,
                                    NothingAfterFin, TransitionsValid
<1> QED BY <1>2, <1>3, <1>4

LEMMA FlushFramesKeeps ==
    ASSUME TcpIInv, flush_buffered_frames_before_shutdown
    PROVE  TcpIInv' /\ NothingAfterFin /\ TransitionsValid
<1> USE DEF TcpIInv
<1>1. step = "deliver" /\ UNCHANGED <<app, pending, sent, srv, up, truncated>>
      /\ pending = <<>> /\ down = ~fin /\ state = "Relaying"
      /\ frames' = (IF frames = <<>> THEN frames ELSE Tail(frames))
  BY DEF flush_buffered_frames_before_shutdown, appVars, Upload, Download, Stages, Relaying
<1>2. DataQueued => frames # <<>> /\ Head(frames).kind = "data"
  BY DEF DataQueued
<1>3. CASE DataQueued /\ ~fin
  <2>1. written' = Append(written, Head(frames).n)
        /\ UNCHANGED <<state, step, outcome, closeSent, fin, down>>
    BY <1>3 DEF flush_buffered_frames_before_shutdown
  <2>2. Download'
    BY <1>1, <1>2, <1>3, <2>1, HeadContinues
  <2>3. Upload'
    BY <1>1, <2>1, OthersKeepUpload
  <2> QED BY <1>1, <1>3, <2>1, <2>2, <2>3 DEF CloseSent, NormalCloseIsComplete, ReadCount, Stages,
                                    NothingAfterFin, TransitionsValid
<1>4. CASE DataQueued /\ fin
  <2>1. RelayError /\ UNCHANGED <<written, fin, down>>
    BY <1>4 DEF flush_buffered_frames_before_shutdown
  <2>2. step' = "returned" /\ state' = "Closing" /\ closeSent' = "error" /\ outcome' = "err"
    BY <2>1 DEF RelayError, Return
  <2>3. Download'
    BY <1>1, <1>2, <1>4, <2>1, <2>2, EndKeepsDownload
  <2>4. Upload'
    BY <1>1, <2>2, OthersKeepUpload DEF Relaying
  <2>5. CloseSent' /\ Stages'
    BY <1>1, <2>1, <2>2 DEF CloseSent, NormalCloseIsComplete, Stages, Before, Relaying
  <2> QED BY <1>1, <2>1, <2>2, <2>3, <2>4, <2>5 DEF NothingAfterFin, TransitionsValid, ValidTransitions
<1>5. CASE ~DataQueued
  <2>1. fin' = TRUE /\ down' = FALSE /\ step' = "loop" /\ UNCHANGED <<state, outcome, closeSent, written>>
    BY <1>5 DEF flush_buffered_frames_before_shutdown
  <2>2. Download'
    BY <1>1, <2>1, EndKeepsDownload, Zenon
  <2>3. Upload'
    BY <1>1, <2>1, OthersKeepUpload DEF Relaying
  <2> QED BY <1>1, <2>1, <2>2, <2>3, Zenon DEF CloseSent, NormalCloseIsComplete, ReadCount, Stages, Before, Relaying,
                                    NothingAfterFin, TransitionsValid
<1> QED BY <1>3, <1>4, <1>5

(* The steps of the upload.                                                  *)
LEMMA UploadStepsKeep ==
    ASSUME TcpIInv, ReadLocal \/ drain_upload_before_shutdown
    PROVE  TcpIInv' /\ NothingAfterFin /\ TransitionsValid
<1> USE DEF TcpIInv
<1>1. /\ step \in {"loop", "drain"} /\ step' \in {step, "deliver"}
      /\ UNCHANGED <<state, app, pending, frames, srv, written, fin, down, outcome>>
      /\ pending = <<>> /\ state = "Relaying"
  BY DEF ReadLocal, drain_upload_before_shutdown, netVars, Upload, Stages, Relaying
<1>2. Download'
  BY <1>1 DEF Download
<1>3. CASE Unread /\ sent' = Append(sent, ReadCount + 1) /\ UNCHANGED <<step, closeSent, up, truncated>>
  <2>1. Upload'
    BY <1>1, <1>3, SendKeepsUpload DEF Relaying
  <2>2. closeSent # "normal"
    BY <1>3 DEF ReadLocal, drain_upload_before_shutdown, CloseSent
  <2> QED BY <1>1, <1>2, <1>3, <2>1, <2>2 DEF CloseSent, NormalCloseIsComplete, Stages, NothingAfterFin,
                                    TransitionsValid
<1>4. CASE /\ closeSent' = "normal" /\ up' = FALSE /\ UNCHANGED sent
           /\ step' \in {"loop", "deliver"}
           /\ \/ ~Unread /\ app.eof /\ UNCHANGED truncated
              \/ truncated' = TRUE
  <2>1. Upload'
    BY <1>1, <1>4, OthersKeepUpload DEF Relaying
  <2>2. ~Unread => ReadCount + 1 = app.next
    <3>1. Len(pending) \in Nat /\ Len(sent) \in Nat /\ app.next \in Nat /\ Len(pending) + Len(sent) < app.next
      BY DEF Upload
    <3> QED BY <3>1 DEF Unread, ReadCount
  <2>3. NormalCloseIsComplete' /\ truncated' \in BOOLEAN
    BY <1>1, <1>4, <2>2, Zenon DEF NormalCloseIsComplete, ReadCount, Stages
  <2> QED BY <1>1, <1>2, <1>4, <2>1, <2>3, Zenon DEF CloseSent, Stages, Before, Relaying, NothingAfterFin, TransitionsValid
<1> QED BY <1>1, <1>3, <1>4, Zenon DEF ReadLocal, drain_upload_before_shutdown

(* What was read while the flow opened is sent first.                        *)
LEMMA FlushPendingKeeps ==
    ASSUME TcpIInv, flush_pending_local_data
    PROVE  TcpIInv' /\ NothingAfterFin /\ TransitionsValid
<1> USE DEF TcpIInv
<1>1. /\ step = "flush" /\ step' \in {"flush", "loop"} /\ state = "Relaying" /\ closeSent # "normal"
      /\ UNCHANGED <<state, app, closeSent, frames, srv, written, fin, up, down, truncated, outcome>>
  BY DEF flush_pending_local_data, netVars, CloseSent, Stages, Before
<1>2. Download'
  BY <1>1 DEF Download
<1>3. Upload'
  <2>1. CASE pending = <<>>
    BY <1>1, <2>1, OthersKeepUpload DEF flush_pending_local_data, Upload
  <2>2. CASE pending # <<>>
    <3>1. sent' = Append(sent, Head(pending)) /\ pending' = Tail(pending) /\ step' = "flush"
      BY <1>1, <2>2 DEF flush_pending_local_data
    <3>2. /\ pending \in Seq(Nat) /\ Len(pending) \in Nat \ {0} /\ Head(pending) = pending[1]
          /\ sent \in Seq(Nat) /\ Len(sent) \in Nat
      BY <2>2 DEF Upload
    <3>3. /\ pending' \in Seq(Nat) /\ Len(pending') = Len(pending) - 1
          /\ \A i \in 1 .. Len(pending') : pending'[i] = pending[i + 1]
      BY <2>2, <3>1, <3>2, HeadTailProperties
    <3>4. Head(pending) = 0 + Len(sent) + 1
      BY <3>2 DEF Upload
    <3>5. /\ sent' \in Seq(Nat) /\ Len(sent') = Len(sent) + 1
          /\ \A i \in 1 .. Len(sent') : sent'[i] = 0 + i
      BY <3>1, <3>2, <3>4, AppendNumber DEF Upload
    <3>6. \A i \in 1 .. Len(pending') : pending'[i] = Len(sent') + i
      BY <3>2, <3>3, <3>5, SMTT(30) DEF Upload
    <3> QED BY <1>1, <3>1, <3>2, <3>3, <3>5, <3>6, PendingAssumption DEF Upload, Relaying
  <2> QED BY <2>1, <2>2
<1> QED BY <1>1, <1>2, <1>3 DEF CloseSent, NormalCloseIsComplete, Stages, Before, Relaying, NothingAfterFin,
                          TransitionsValid

LEMMA BufferLocalKeeps ==
    ASSUME TcpIInv, BufferLocal
    PROVE  TcpIInv' /\ NothingAfterFin /\ TransitionsValid
<1> USE DEF TcpIInv
<1>1. /\ step = "open" /\ state = "Opening" /\ sent = <<>> /\ Unread
      /\ UNCHANGED <<app, sent, frames, srv, written, fin, up, down, truncated>>
  BY DEF BufferLocal, netVars, Upload, Stages
<1>2. CASE Len(pending) < max_pending_open
  <2>1. pending' = Append(pending, ReadCount + 1) /\ UNCHANGED <<step, state, outcome, closeSent>>
    BY <1>2 DEF BufferLocal
  <2>2. pending \in Seq(Nat) /\ Len(pending) \in Nat /\ Len(sent) = 0
    BY <1>1 DEF Upload
  <2>3. ReadCount + 1 = 0 + Len(pending) + 1
    BY <2>2 DEF ReadCount
  <2>4. /\ pending' \in Seq(Nat) /\ Len(pending') = Len(pending) + 1
        /\ \A i \in 1 .. Len(pending') : pending'[i] = 0 + i
    BY <2>1, <2>2, <2>3, AppendNumber DEF Upload
  <2>5. Upload'
    BY <1>1, <1>2, <2>1, <2>2, <2>4, PendingAssumption DEF Upload, Unread, ReadCount, Relaying
  <2>6. Download' /\ closeSent # "normal"
    BY <1>1, <2>1 DEF Download, CloseSent, Before
  <2> QED BY <1>1, <2>1, <2>5, <2>6 DEF CloseSent, NormalCloseIsComplete, Stages, NothingAfterFin, TransitionsValid
<1>3. CASE ~(Len(pending) < max_pending_open)
  <2>1. /\ step' = "returned" /\ state' = "Closed" /\ closeSent' = "error" /\ outcome' = "ok"
        /\ UNCHANGED pending
    BY <1>3 DEF BufferLocal, Return
  <2>2. Upload'
    BY <1>1, <2>1, OthersKeepUpload DEF Relaying
  <2>3. Download'
    BY <1>1, <2>1, EndKeepsDownload
  <2>4. CloseSent' /\ Stages'
    BY <1>1, <2>1 DEF CloseSent, NormalCloseIsComplete, Stages, Before, Relaying
  <2> QED BY <1>1, <2>1, <2>2, <2>3, <2>4 DEF NothingAfterFin, TransitionsValid, ValidTransitions
<1> QED BY <1>2, <1>3

(* The other ways to return.                                                 *)
LEMMA ReturnKeeps ==
    ASSUME TcpIInv, step' = "returned", outcome' \in {"ok", "err"}, closeSent' \in {closeSent, "error"},
           state' = state \/ <<state, state'>> \in ValidTransitions, state' \in {state, "Closing", "Closed"},
           UNCHANGED <<app, pending, sent, frames, srv, written, fin, up, down, truncated>>
    PROVE  TcpIInv' /\ NothingAfterFin /\ TransitionsValid
<1>1. Upload'
  BY OthersKeepUpload DEF TcpIInv, Relaying
<1>2. Download'
  BY EndKeepsDownload DEF TcpIInv
<1>3. CloseSent' /\ Stages'
  BY DEF TcpIInv, CloseSent, NormalCloseIsComplete, ReadCount, Stages, Before, Relaying
<1> QED BY <1>1, <1>2, <1>3 DEF TcpIInv, NothingAfterFin, TransitionsValid

(* The steps by which the handler goes on without reading, sending or        *)
(* writing.                                                                  *)
LEMMA MoveOnKeeps ==
    ASSUME TcpIInv, UNCHANGED <<app, pending, sent, frames, srv, written, closeSent, truncated, outcome>>,
           \/ step = "negotiate" /\ step' = "open" /\ state' = "Opening" /\ UNCHANGED <<fin, up, down>>
           \/ step = "open" /\ step' = "reply" /\ UNCHANGED <<state, fin, up, down>>
           \/ step = "reply" /\ step' = "flush" /\ state' = "Relaying" /\ UNCHANGED <<fin, up, down>>
           \/ step = "loop" /\ up /\ step' = "drain" /\ UNCHANGED <<state, fin, up, down>>
           \/ step \in Relaying /\ step' \in {"loop", "deliver"} /\ UNCHANGED <<state, fin, up, down>>
           \/ step \in Relaying /\ step' = "loop" /\ fin' = TRUE /\ up' = FALSE /\ down' = FALSE
              /\ UNCHANGED state
    PROVE  TcpIInv' /\ NothingAfterFin /\ TransitionsValid
<1> USE DEF TcpIInv
<1>1. Upload'
  BY DEF Upload, Relaying
<1>2. Download'
  BY Zenon DEF Download, Stages, Before, Relaying
<1>3. CloseSent' /\ Stages'
  <2>1. CloseSent'
    BY DEF CloseSent, NormalCloseIsComplete, ReadCount, Stages, Before, Relaying
  <2>2. Stages'
    BY ZenonT(60) DEF Stages, Before, Relaying
  <2> QED BY <2>1, <2>2
<1> QED BY <1>1, <1>2, <1>3 DEF NothingAfterFin, TransitionsValid, ValidTransitions, Stages

LEMMA TcpNextKeeps ==
    ASSUME TcpIInv, [TcpNext]_tcpVars
    PROVE  TcpIInv' /\ NothingAfterFin /\ TransitionsValid
<1> USE DEF appVars, netVars
<1>1. CASE UNCHANGED tcpVars
  <2>1. Upload' /\ Download'
    BY <1>1 DEF tcpVars, TcpIInv, Upload, Download
  <2>2. CloseSent' /\ Stages'
    BY <1>1 DEF tcpVars, TcpIInv, CloseSent, NormalCloseIsComplete, ReadCount, Stages
  <2> QED BY <1>1, <2>1, <2>2 DEF tcpVars, TcpIInv, NothingAfterFin, TransitionsValid
<1>2. CASE AppSends \/ AppCloses \/ BeginStop
  <2>1. UNCHANGED <<state, step, pending, sent, closeSent, frames, srv, written, fin, up, down, truncated, outcome>>
    BY <1>2 DEF AppSends, AppCloses, BeginStop
  <2>2. /\ app \in [next : Nat \ {0}, eof : BOOLEAN] /\ app' \in [next : Nat \ {0}, eof : BOOLEAN]
        /\ app'.next >= app.next /\ (app' = app \/ ~app.eof)
    <3>1. app \in [next : Nat \ {0}, eof : BOOLEAN] /\ app.next \in Nat \ {0}
      BY DEF TcpIInv, Upload
    <3>2. \/ app' = app
          \/ ~app.eof /\ app' = [app EXCEPT !.next = @ + 1]
          \/ ~app.eof /\ app' = [app EXCEPT !.eof = TRUE]
      BY <1>2 DEF AppSends, AppCloses, BeginStop
    <3>3. CASE ~app.eof /\ app' = [app EXCEPT !.next = @ + 1]
      BY <3>1, <3>3
    <3>4. CASE ~app.eof /\ app' = [app EXCEPT !.eof = TRUE]
      <4>1. app' \in [next : Nat \ {0}, eof : BOOLEAN] /\ app'.next = app.next
        BY <3>1, <3>4, Zenon
      <4> QED BY <3>1, <3>4, <4>1
    <3> QED BY <3>1, <3>2, <3>3, <3>4
  <2>3. Upload' /\ Download'
    BY <2>1, <2>2 DEF TcpIInv, Upload, Download
  <2> QED BY <2>1, <2>2, <2>3 DEF TcpIInv, CloseSent, NormalCloseIsComplete, ReadCount, Stages,
                            NothingAfterFin, TransitionsValid
<1>3. CASE ServerSends
  BY <1>3, ServerSendsKeeps DEF ServerSends, NothingAfterFin, TransitionsValid
<1>4. CASE Negotiate
  BY <1>4, ReturnKeeps, MoveOnKeeps, Zenon DEF Negotiate, Return, TcpIInv, Stages, ValidTransitions
<1>5. CASE CancelOpen \/ OpenAnswered \/ Reply
  BY <1>5, ReturnKeeps, MoveOnKeeps, ZenonT(60) DEF CancelOpen, OpenAnswered, Reply, Return, TcpIInv, Stages, ValidTransitions
<1>6. CASE RelayFails \/ RelayDone
  BY <1>6, ReturnKeeps, SMTT(30) DEF RelayFails, RelayDone, RelayError, Return, TcpIInv, Stages, ValidTransitions, Relaying
<1>7. CASE WriteEnds \/ QueueEnds \/ SeeShutdown
  BY <1>7, MoveOnKeeps, Zenon DEF WriteEnds, QueueEnds, SeeShutdown, Relaying
<1>8. CASE Finish
  <2>1. step' = "returned" /\ UNCHANGED outcome
    BY <1>8 DEF Finish
  <2>2. Upload' /\ Download'
    BY <1>8 DEF Finish, TcpIInv, Upload, Download
  <2> QED BY <1>8, <2>1, <2>2 DEF Finish, TcpIInv, CloseSent, NormalCloseIsComplete, ReadCount, Stages, Relaying,
                                  NothingAfterFin, TransitionsValid, ValidTransitions
<1>9. CASE Receive \/ flush_buffered_frames_before_shutdown
  BY <1>9, ReceiveKeeps, FlushFramesKeeps
<1>10. CASE ReadLocal \/ drain_upload_before_shutdown \/ flush_pending_local_data \/ BufferLocal
  BY <1>10, UploadStepsKeep, FlushPendingKeeps, BufferLocalKeeps
<1> QED BY <1>1, <1>2, <1>3, <1>4, <1>5, <1>6, <1>7, <1>8, <1>9, <1>10 DEF TcpNext, RelayTask

LEMMA IInvKeepsBytes == TcpIInv => BytesIntact
<1> SUFFICES ASSUME TcpIInv PROVE BytesIntact
  OBVIOUS
<1>1. /\ sent \in Seq(Nat) /\ pending \in Seq(Nat) /\ Len(sent) \in Nat /\ Len(pending) \in Nat
      /\ ReadCount \in Nat /\ ReadCount = Len(sent) + Len(pending) /\ ReadCount < app.next
  BY DEF TcpIInv, Upload, ReadCount
<1>2. /\ Len(sent \o pending) = ReadCount /\ sent \o pending \in Seq(Nat)
      /\ \A i \in 1 .. ReadCount :
            (sent \o pending)[i] = IF i <= Len(sent) THEN sent[i] ELSE pending[i - Len(sent)]
  BY <1>1, ConcatProperties
<1>3. \A i \in 1 .. ReadCount : (sent \o pending)[i] = i
  <2> SUFFICES ASSUME NEW i \in 1 .. ReadCount PROVE (sent \o pending)[i] = i
    BY Zenon
  <2>1. CASE i <= Len(sent)
    BY <1>1, <1>2, <2>1 DEF TcpIInv, Upload
  <2>2. CASE ~(i <= Len(sent))
    <3>1. i - Len(sent) \in 1 .. Len(pending)
      BY <1>1, <2>2
    <3>2. pending[i - Len(sent)] = Len(sent) + (i - Len(sent))
      BY <3>1, SMTT(30) DEF TcpIInv, Upload
    <3> QED BY <1>1, <1>2, <2>2, <3>2
  <2> QED BY <2>1, <2>2, Zenon
<1>4. sent \o pending = [i \in 1 .. ReadCount |-> i]
  <2>1. sent \o pending \in [1 .. ReadCount -> Nat]
    BY <1>2, LenProperties, Zenon
  <2> QED BY <1>3, <2>1, Zenon
<1>5. written = [i \in 1 .. Len(written) |-> i]
  <2>1. written \in [1 .. Len(written) -> Nat]
    BY LenProperties DEF TcpIInv, Download
  <2> QED BY <2>1 DEF TcpIInv, Download
<1>6. TcpTypeOK /\ NormalCloseIsComplete
  BY DEF TcpIInv, Upload, CloseSent, Stages, TcpTypeOK
<1> QED BY <1>1, <1>4, <1>5, <1>6 DEF BytesIntact, UploadInOrder, DownloadInOrder

(* For any amount of data each way and any limits, a relayed connection      *)
(* carries the bytes intact, whatever is read while the flow opens and       *)
(* whenever the stop comes (relay_tcp, flush_pending_local_data,             *)
(* drain_upload_before_shutdown, flush_buffered_frames_before_shutdown).     *)
THEOREM RelayKeepsBytes == TcpSpec => []BytesIntact
<1>1. TcpIInv /\ [TcpNext]_tcpVars => TcpIInv'
  BY TcpNextKeeps
<1> QED BY <1>1, TcpInitIInv, IInvKeepsBytes, PTL DEF TcpSpec

(* Nothing is written behind the FIN, and the connection's state changes     *)
(* only as is_valid_connection_transition allows.                            *)
THEOREM RelayEndsInOrder == TcpSpec => [][NothingAfterFin /\ TransitionsValid]_tcpVars
<1>1. TcpIInv /\ [TcpNext]_tcpVars => TcpIInv' /\ NothingAfterFin /\ TransitionsValid
  BY TcpNextKeeps
<1> QED BY <1>1, TcpInitIInv, PTL DEF TcpSpec
=============================================================================
