------------------------- MODULE GateConnectProofs -------------------------
(***************************************************************************)
(* The theorems about the gateway connection, for any number of gates and  *)
(* any interleaving of the two threads: with set_gate_ip at any moment,    *)
(* the types and that the device never holds two connections; without it,  *)
(* that the list names open sockets of its own, that no socket is lost,    *)
(* and that the pause after a lost connection is kept.                     *)
(***************************************************************************)
EXTENDS GateConnect, WellFoundedInduction, TLAPS

(* The kernel can always name the lowest free descriptor. *)
LEMMA LowestFreeIsFree ==
  ASSUME Free # {}
  PROVE  LowestFree \in Free
PROOF
  <1> DEFINE R == OpToRel(<, Nat)
  <1>1. Free \subseteq Nat
    BY GateAssumption DEF Free, Fds
  <1>2. \E f \in Free : \A e \in Free : ~ (<<e, f>> \in R)
    <2> HIDE DEF R
    <2>1. IsWellFoundedOn(R, Nat)
      BY NatLessThanWellFounded DEF R
    <2> QED BY <1>1, <2>1, WFMin
  <1>3. \E f \in Free : \A e \in Free : f <= e
    <2>1. PICK f \in Free : \A e \in Free : ~ (<<e, f>> \in R)
      BY <1>2
    <2>2. ASSUME NEW e \in Free
          PROVE  f <= e
      <3>1. e \in Nat /\ f \in Nat
        BY <1>1
      <3>2. ~ (e < f)
        BY <2>1, <3>1 DEF OpToRel
      <3> QED BY <3>1, <3>2
    <2> QED BY <2>2
  <1> QED BY <1>3 DEF LowestFree

(* A descriptor that is closed leaves a well-typed table. *)
LEMMA CloseType ==
  ASSUME fdt \in [Fds -> Conns \cup {Closed, Foreign}], NEW f
  PROVE  Close(f) \in [Fds -> Conns \cup {Closed, Foreign}]
  BY DEF Close

LEMMA Constants ==
  /\ AlarmGate \in Gates /\ 0 \in Gates
  /\ \A f \in Fds : f \in Int /\ f > 0
  /\ -1 \notin Fds
  BY GateAssumption DEF AlarmGate, Gates, Fds

(* recv_gate_ack_thread keeps its gate and its number when it dozes off. *)
LEMMA DozeType ==
  ASSUME TypeOK
  PROVE  Doze(ack) \in Ack
PROOF
  <1>1. Len(to) \in 0 .. MaxConns
    BY GateAssumption DEF TypeOK
  <1>2. ack \in Ack
    BY DEF TypeOK
  <1> QED BY <1>1, <1>2 DEF Doze, Ack

LEMMA LocalsType == Idle \in Snd /\ NoAck \in Ack
  BY GateAssumption, Constants DEF Idle, NoAck, Snd, Ack

(* gate_connect_thread changes its place, its gates to try, its number. *)
LEMMA SndType ==
  ASSUME NEW s \in Snd, NEW pc \in {"idle", "find", "try", "connecting", "send"},
         NEW g \in Gates, NEW todo \in Seq(Gates), NEW fd \in Fds \cup {-1}
  PROVE  /\ [s EXCEPT !.pc = pc] \in Snd /\ [s EXCEPT !.pc = pc, !.fd = fd] \in Snd
         /\ [s EXCEPT !.g = g] \in Snd /\ [s EXCEPT !.todo = todo] \in Snd
         /\ [s EXCEPT !.pc = pc, !.todo = todo] \in Snd
         /\ [pc |-> pc, g |-> g, todo |-> todo, fd |-> fd] \in Snd
  BY DEF Snd

LEMMA AckType ==
  ASSUME NEW a \in Ack, NEW pc \in {"none", "start", "select", "close", "doze", "end"},
         NEW g \in Gates, NEW fd \in Fds \cup {-1}
  PROVE  /\ [a EXCEPT !.pc = pc] \in Ack /\ [a EXCEPT !.pc = pc, !.g = g] \in Ack
         /\ [a EXCEPT !.pc = pc, !.netfd = fd] \in Ack
  BY DEF Ack

(* The two threads' locals are what their names say. *)
LEMMA Fields ==
  ASSUME TypeOK
  PROVE  /\ snd.g \in Gates /\ snd.todo \in Seq(Gates) /\ snd.fd \in Fds \cup {-1}
         /\ ack.g \in Gates /\ ack.netfd \in Fds \cup {-1}
         /\ gfd[snd.g] \in Fds \cup {-1} /\ gfd[ack.g] \in Fds \cup {-1}
  BY DEF TypeOK, Snd, Ack

LEMMA QueueType ==
  ASSUME TypeOK, NEW t \in {-1, -2} \cup Fds, SendGatePkt(t)
  PROVE  queue' \in Seq({-1, -2} \cup Fds) /\ Len(queue') <= MaxQueue
  BY GateAssumption DEF TypeOK, SendGatePkt

----------------------------------------------------------------------------
LEMMA TypeInit == Init => TypeOK
  BY GateAssumption, Constants, LocalsType DEF Init, TypeOK, Fds, Conns, Closed, Foreign

LEMMA TypeStep == TypeOK /\ [Next]_vars => TypeOK'
PROOF
  <1> SUFFICES ASSUME TypeOK, [Next]_vars
               PROVE  TypeOK'
    OBVIOUS
  <1> USE GateAssumption, Constants, LocalsType, Fields
  <1>1. CASE PostPkt
    BY <1>1, QueueType DEF PostPkt, TypeOK
  <1>2. CASE RecvGateCmd
    <2>1. Head(queue) \in {-1, -2} \cup Fds /\ queue' \in Seq({-1, -2} \cup Fds)
          /\ Len(queue') <= MaxQueue
      BY <1>2 DEF RecvGateCmd, TypeOK
    <2>2. GatesToTry(Head(queue)) \in Seq(Gates)
      <3> DEFINE gates == [i \in 1 .. NGates - 1 |-> i - 1]
      <3>1. gates \in Seq(Gates) /\ <<AlarmGate>> \o gates \in Seq(Gates)
        BY DEF Gates, AlarmGate
      <3> QED BY <3>1 DEF GatesToTry
    <2>3. snd' \in Snd
      <3>1. CASE Head(queue) < 0
        <4>1. snd' = [Idle EXCEPT !.pc = "find", !.todo = GatesToTry(Head(queue))]
          BY <1>2, <3>1 DEF RecvGateCmd
        <4> QED BY <2>2, <4>1, SndType
      <3>2. CASE ~ (Head(queue) < 0)
        <4>1. Head(queue) \in Fds
          BY <2>1, <3>2
        <4>2. snd' = [Idle EXCEPT !.pc = "send", !.fd = Head(queue)]
          BY <1>2, <3>2 DEF RecvGateCmd
        <4> QED BY <4>1, <4>2, SndType
      <3> QED BY <3>1, <3>2
    <2> QED BY <1>2, <2>1, <2>3 DEF RecvGateCmd, TypeOK
  <1>3. CASE FindActiveGate
    <2>1. snd.g # AlarmGate => snd.g + 1 \in Gates
      BY DEF Gates, AlarmGate
    <2>2. snd' \in Snd
      <3>1. snd \in Snd
        BY DEF TypeOK
      <3>2. CASE gfd[snd.g] > 0
        <4>0. ~ (gfd[snd.g] < 0)
          BY <3>2
        <4>1. snd' = [snd EXCEPT !.pc = "send", !.fd = gfd[snd.g]]
          BY <1>3, <4>0 DEF FindActiveGate
        <4> QED BY <3>1, <4>1, SndType
      <3>3. CASE gfd[snd.g] < 0 /\ snd.g = AlarmGate
        <4>1. snd' = [snd EXCEPT !.pc = "try"]
          BY <1>3, <3>3 DEF FindActiveGate
        <4> QED BY <3>1, <4>1, SndType
      <3>4. CASE gfd[snd.g] < 0 /\ snd.g # AlarmGate
        <4>1. snd' = [snd EXCEPT !.g = snd.g + 1]
          BY <1>3, <3>4 DEF FindActiveGate
        <4> QED BY <2>1, <3>1, <3>4, <4>1, SndType
      <3> QED BY <3>2, <3>3, <3>4, <1>3 DEF FindActiveGate
    <2> QED BY <1>3, <2>2 DEF FindActiveGate, TypeOK
  <1>4. CASE ConnectBegin
    <2>1. LowestFree \in Fds
      BY <1>4, LowestFreeIsFree DEF ConnectBegin, CanConnect, Free
    <2>2. Head(snd.todo) \in Gates /\ Tail(snd.todo) \in Seq(Gates)
      BY <1>4 DEF ConnectBegin
    <2>3. to' \in Seq(Gates) /\ Len(to') <= MaxConns /\ Len(to) + 1 \in Conns
      BY <1>4, <2>2 DEF ConnectBegin, CanConnect, TypeOK, Conns
    <2>4. fdt' \in [Fds -> Conns \cup {Closed, Foreign}]
      BY <1>4, <2>3 DEF ConnectBegin, TypeOK
    <2>5. snd' \in Snd
      BY <1>4, <2>1, <2>2, SndType DEF ConnectBegin
    <2>6. mutex' \in SUBSET Gates
      BY <1>4, <2>2 DEF ConnectBegin
    <2> QED BY <1>4, <2>3, <2>4, <2>5, <2>6 DEF ConnectBegin, TypeOK
  <1>5. CASE ConnectSkip
    <2>1. Tail(snd.todo) \in Seq(Gates)
      BY <1>5 DEF ConnectSkip
    <2> QED BY <1>5, <2>1, SndType DEF ConnectSkip, TypeOK
  <1>6. CASE ConnectOk
    <2>1. gfd' \in [Gates -> Fds \cup {-1}]
      BY <1>6 DEF ConnectOk, TypeOK
    <2>2. snd' \in Snd /\ ack' \in Ack
      BY <1>6, SndType, AckType DEF ConnectOk, CreateRecvGateAckThread, TypeOK
    <2> QED BY <1>6, <2>1, <2>2 DEF ConnectOk, TypeOK
  <1>7. CASE ConnectFail
    BY <1>7, CloseType, SndType DEF ConnectFail, TypeOK
  <1>8. CASE ConnectGiveUp
    BY <1>8 DEF ConnectGiveUp, TypeOK
  <1>9. CASE SendPkt
    BY <1>9 DEF SendPkt, TypeOK
  <1>10. CASE AckStart
    <2>1. queue' \in Seq({-1, -2} \cup Fds) /\ Len(queue') <= MaxQueue
      BY <1>10, QueueType DEF AckStart, ProcessGateConnect, TypeOK
    <2>2. ack' \in Ack
      BY <1>10, AckType, DozeType DEF AckStart, TypeOK
    <2> QED BY <1>10, <2>1, <2>2 DEF AckStart, TypeOK
  <1>11. CASE AckTimeout
    BY <1>11, DozeType DEF AckTimeout, TypeOK
  <1>12. CASE AckSelError
    BY <1>12, AckType DEF AckSelError, TypeOK
  <1>13. CASE AckClose
    BY <1>13, CloseType, DozeType DEF AckClose, TypeOK
  <1>14. CASE AckRecvError
    BY <1>14, DozeType DEF AckRecvError, TypeOK
  <1>15. CASE AckWake
    BY <1>15, CloseType, AckType DEF AckWake, TypeOK
  <1>16. CASE AckExit
    BY <1>16 DEF AckExit, TypeOK
  <1>17. CASE AckRecv
    <2>1. queue' \in Seq({-1, -2} \cup Fds) /\ Len(queue') <= MaxQueue
      BY <1>17, QueueType DEF AckRecv, TypeOK
    <2> QED BY <1>17, <2>1 DEF AckRecv, TypeOK
  <1>18. ASSUME NEW g \in Gates, SetGateIp(g)
         PROVE  TypeOK'
    BY <1>18, CloseType DEF SetGateIp, TypeOK
  <1>19. CASE PeerDrops
    <2>1. Up \subseteq Conns
      BY DEF Up, Conns, TypeOK
    <2> QED BY <1>19, <2>1 DEF PeerDrops, TypeOK
  <1>20. CASE OtherFile
    <2>1. Foreign \in Conns \cup {Closed, Foreign}
      OBVIOUS
    <2>2. fdt' \in [Fds -> Conns \cup {Closed, Foreign}]
      <3>1. fdt \in [Fds -> Conns \cup {Closed, Foreign}]
        BY DEF TypeOK
      <3>2. CASE fdt' = [fdt EXCEPT ![LowestFree] = Foreign]
        BY <2>1, <3>1, <3>2
      <3>3. CASE \E f \in Fds : fdt' = Close(f)
        BY <3>1, <3>3, CloseType
      <3> QED BY <1>20, <3>2, <3>3 DEF OtherFile
    <2> QED BY <1>20, <2>2 DEF OtherFile, TypeOK
  <1>21. CASE UNCHANGED vars
    BY <1>21 DEF vars, TypeOK
  <1> QED
    BY <1>1, <1>2, <1>3, <1>4, <1>5, <1>6, <1>7, <1>8, <1>9, <1>10, <1>11, <1>12, <1>13,
       <1>14, <1>15, <1>16, <1>17, <1>18, <1>19, <1>20, <1>21
       DEF Next, SenderStep, AckStep

(* TypeOK holds in every state: descriptors, connections, queued targets   *)
(* and both threads' locals stay in range, whatever the threads do.        *)
THEOREM GateTypeCorrect == Spec => []TypeOK
  BY TypeInit, TypeStep, PTL DEF Spec

----------------------------------------------------------------------------
LEMMA ScanInit == Init => ScanSound /\ OneConnection
  BY DEF Init, ScanSound, OneConnection, Idle

(* A step that only clears entries and leaves gate_connect_thread alone.   *)
LEMMA OnlyClears ==
  ASSUME TypeOK, ScanSound, OneConnection, UNCHANGED snd,
         \A h \in Gates : gfd'[h] = gfd[h] \/ gfd'[h] = -1
  PROVE  ScanSound' /\ OneConnection'
  BY DEF ScanSound, OneConnection

(* A step of gate_connect_thread to a place where nothing is claimed.      *)
LEMMA LeavesScan ==
  ASSUME OneConnection, UNCHANGED gfd, snd'.pc \in {"idle", "send"}
  PROVE  ScanSound' /\ OneConnection'
  BY DEF ScanSound, OneConnection

LEMMA ScanStep ==
  TypeOK /\ ScanSound /\ OneConnection /\ [Next]_vars => ScanSound' /\ OneConnection'
PROOF
  <1> SUFFICES ASSUME TypeOK, ScanSound, OneConnection, [Next]_vars
               PROVE  ScanSound' /\ OneConnection'
    OBVIOUS
  <1> USE Constants, Fields
  <1>1. CASE PostPkt
    BY <1>1, OnlyClears DEF PostPkt
  <1>2. CASE RecvGateCmd
    <2>1. \/ snd'.pc = "send"
          \/ snd'.pc = "find" /\ snd'.g = 0
      BY <1>2 DEF RecvGateCmd, Idle
    <2>2. \A h \in Gates : ~ (h < 0)
      BY GateAssumption DEF Gates
    <2> QED BY <1>2, <2>1, <2>2 DEF RecvGateCmd, ScanSound, OneConnection
  <1>3. CASE FindActiveGate
    <2>1. CASE gfd[snd.g] > 0
      <3>1. snd'.pc = "send"
        <4>1. ~ (gfd[snd.g] < 0)
          BY <2>1
        <4>2. snd' = [snd EXCEPT !.pc = "send", !.fd = gfd[snd.g]]
          BY <1>3, <4>1 DEF FindActiveGate
        <4> QED BY <4>2 DEF TypeOK, Snd
      <3> QED BY <1>3, <3>1, LeavesScan DEF FindActiveGate
    <2>2. CASE gfd[snd.g] < 0
      <3>1. \A h \in Gates : h <= snd.g => gfd[h] < 0
        <4>1. \A h \in Gates : h <= snd.g => h < snd.g \/ h = snd.g
          BY GateAssumption DEF Gates
        <4> QED BY <1>3, <2>2, <4>1 DEF FindActiveGate, ScanSound
      <3>2. CASE snd.g = AlarmGate
        <4>1. \A h \in Gates : h <= snd.g
          BY <3>2, GateAssumption DEF Gates, AlarmGate
        <4>2. snd'.pc = "try"
          BY <1>3, <2>2, <3>2 DEF FindActiveGate, TypeOK, Snd
        <4> QED BY <1>3, <3>1, <4>1, <4>2 DEF FindActiveGate, ScanSound, OneConnection
      <3>3. CASE snd.g # AlarmGate
        <4>1. snd'.pc = "find" /\ snd'.g = snd.g + 1
          BY <1>3, <2>2, <3>3 DEF FindActiveGate, TypeOK, Snd
        <4>2. \A h \in Gates : h < snd.g + 1 => h <= snd.g
          BY GateAssumption DEF Gates
        <4> QED BY <1>3, <3>1, <4>1, <4>2 DEF FindActiveGate, ScanSound, OneConnection
      <3> QED BY <3>2, <3>3
    <2> QED BY <1>3, <2>1, <2>2 DEF FindActiveGate
  <1>4. CASE ConnectBegin
    BY <1>4 DEF ConnectBegin, ScanSound, OneConnection
  <1>5. CASE ConnectSkip
    <2>1. snd'.pc = "try"
      BY <1>5 DEF ConnectSkip, TypeOK, Snd
    <2> QED BY <1>5, <2>1 DEF ConnectSkip, ScanSound, OneConnection
  <1>6. CASE ConnectOk
    <2>1. \A h \in Gates : h # snd.g => gfd'[h] < 0
      BY <1>6 DEF ConnectOk, ScanSound, TypeOK
    <2>2. snd'.pc = "send"
      BY <1>6 DEF ConnectOk, TypeOK, Snd
    <2>3. \A h \in Gates : gfd'[h] < 0 => ~ (gfd'[h] > 0)
      BY TypeStep DEF TypeOK, Fds
    <2> QED BY <2>1, <2>2, <2>3 DEF ScanSound, OneConnection
  <1>7. CASE ConnectFail
    <2>1. snd'.pc = "try"
      BY <1>7 DEF ConnectFail, TypeOK, Snd
    <2> QED BY <1>7, <2>1 DEF ConnectFail, ScanSound, OneConnection
  <1>8. CASE ConnectGiveUp
    BY <1>8, LeavesScan DEF ConnectGiveUp, Idle
  <1>9. CASE SendPkt
    BY <1>9, LeavesScan DEF SendPkt, Idle
  <1>10. CASE AckStart
    BY <1>10, OnlyClears DEF AckStart
  <1>11. CASE AckTimeout
    BY <1>11, OnlyClears DEF AckTimeout
  <1>12. CASE AckSelError
    BY <1>12, OnlyClears DEF AckSelError, TypeOK
  <1>13. CASE AckClose
    BY <1>13, OnlyClears DEF AckClose
  <1>14. CASE AckRecvError
    BY <1>14, OnlyClears DEF AckRecvError
  <1>15. CASE AckWake
    BY <1>15, OnlyClears DEF AckWake, TypeOK
  <1>16. CASE AckExit
    BY <1>16, OnlyClears DEF AckExit
  <1>17. CASE AckRecv
    BY <1>17, OnlyClears DEF AckRecv
  <1>18. ASSUME NEW g \in Gates, SetGateIp(g)
         PROVE  ScanSound' /\ OneConnection'
    BY <1>18, OnlyClears DEF SetGateIp, TypeOK
  <1>19. CASE PeerDrops
    BY <1>19, OnlyClears DEF PeerDrops
  <1>20. CASE OtherFile
    BY <1>20, OnlyClears DEF OtherFile
  <1>21. CASE UNCHANGED vars
    BY <1>21, OnlyClears DEF vars
  <1> QED
    BY <1>1, <1>2, <1>3, <1>4, <1>5, <1>6, <1>7, <1>8, <1>9, <1>10, <1>11, <1>12, <1>13,
       <1>14, <1>15, <1>16, <1>17, <1>18, <1>19, <1>20, <1>21
       DEF Next, SenderStep, AckStep

(* The device never holds two gateway connections: get_active_gate looks   *)
(* at the gates one mutex at a time, yet no gate it has passed can gain a  *)
(* descriptor before connect_to_gate enters the new one, for any number of *)
(* gates and with set_gate_ip at any moment.                               *)
THEOREM NeverTwoConnections == Spec => []OneConnection
PROOF
  <1>1. TypeOK /\ ScanSound /\ OneConnection /\ [Next]_vars
          => (TypeOK /\ ScanSound /\ OneConnection)'
    BY TypeStep, ScanStep
  <1> QED BY TypeInit, ScanInit, <1>1, PTL DEF Spec
----------------------------------------------------------------------------
(* As long as no address is changed under a connection (the instances whose *)
(* other threads do not call set_gate_ip) every number that is kept names   *)
(* what it was kept for.                                                    *)

(* No two descriptors are the same connection, and each is one that has     *)
(* been made.                                                               *)
ConnsDistinct ==
  /\ \A f \in Opened : fdt[f] <= Len(to)
  /\ \A f, e \in Opened : fdt[f] = fdt[e] => f = e

(* A mutex is held, and a socket is not yet in the list, only while         *)
(* connect_to_gate is connecting.                                           *)
ConnectingOwned ==
  /\ snd.pc = "connecting" => /\ mutex = {snd.g}
                              /\ snd.fd \in Opened
                              /\ to[fdt[snd.fd]] = snd.g
  /\ snd.pc # "connecting" => mutex = {}

(* recv_gate_ack_thread works on the descriptor of its gate's entry until   *)
(* it has closed the socket and cleared the entry, in one step.             *)
AckOwned ==
  /\ ack.pc # "close"
  /\ ack.pc = "start" => gfd[ack.g] > 0
  /\ ack.pc \in {"select", "doze"} => ack.netfd \in Fds /\ gfd[ack.g] = ack.netfd

(* Every socket made for a gate is in the list, or about to be.             *)
SocketsKnown ==
  \A f \in Opened : gfd[to[fdt[f]]] = f \/ (snd.pc = "connecting" /\ snd.fd = f)

LinkInv ==
  /\ TypeOK /\ ScanSound /\ OneConnection
  /\ ConnsDistinct /\ GateFdOwned /\ ConnectingOwned /\ AckOwned /\ SocketsKnown
  /\ ReconnectWaits

LEMMA LinkInit == Init => LinkInv
PROOF
  <1> SUFFICES ASSUME Init
               PROVE  LinkInv
    OBVIOUS
  <1>1. Opened = {}
    BY GateAssumption DEF Init, Opened, Conns, Closed
  <1>2. \A g \in Gates : gfd[g] = -1
    BY DEF Init
  <1>3. snd.pc = "idle" /\ ack.pc = "none" /\ mutex = {}
    BY DEF Init, Idle, NoAck
  <1> QED
    BY <1>1, <1>2, <1>3, TypeInit, ScanInit
       DEF LinkInv, ConnsDistinct, GateFdOwned, ConnectingOwned, AckOwned, SocketsKnown,
           ReconnectWaits

(* A step that leaves the descriptors, the list and the mutexes alone, and *)
(* gate_connect_thread outside connect_timeout.                            *)
LEMMA LinkKept ==
  ASSUME LinkInv, TypeOK', ScanSound', OneConnection',
         UNCHANGED <<gfd, fdt, to, mutex, ack>>,
         \/ UNCHANGED snd
         \/ snd.pc # "connecting" /\ snd'.pc # "connecting"
  PROVE  LinkInv'
PROOF
  <1>1. Opened' = Opened
    BY DEF Opened
  <1> QED
    BY <1>1 DEF LinkInv, ConnsDistinct, GateFdOwned, ConnectingOwned, AckOwned, SocketsKnown,
                ReconnectWaits

(* The same for recv_gate_ack_thread: the step leaves all but its locals.  *)
LEMMA LinkKeptByAck ==
  ASSUME LinkInv, TypeOK', ScanSound', OneConnection',
         UNCHANGED <<gfd, fdt, to, mutex, snd>>, AckOwned', ReconnectWaits'
  PROVE  LinkInv'
PROOF
  <1>1. Opened' = Opened
    BY DEF Opened
  <1> QED
    BY <1>1 DEF LinkInv, ConnsDistinct, GateFdOwned, ConnectingOwned, SocketsKnown

(* A descriptor and its connection. *)
LEMMA OpenedType ==
  ASSUME TypeOK, ConnsDistinct, NEW f \in Opened
  PROVE  /\ f \in Fds /\ f \in Int /\ f > 0
         /\ fdt[f] \in Conns /\ fdt[f] \in 1 .. Len(to) /\ to[fdt[f]] \in Gates
         /\ fdt[f] # Closed /\ fdt[f] # Foreign
  BY GateAssumption, Constants DEF TypeOK, ConnsDistinct, Opened, Conns, Closed, Foreign

(* A number that is closed is no connection any more; the others stay.     *)
LEMMA CloseOpened ==
  ASSUME TypeOK, NEW f \in Fds, fdt' = Close(f)
  PROVE  /\ Opened' = Opened \ {f}
         /\ \A e \in Opened' : fdt'[e] = fdt[e]
  BY GateAssumption DEF Close, Opened, Conns, Closed, TypeOK

(* connect_to_gate takes the lowest free number for a connection of its    *)
(* own; nobody keeps that number.                                          *)
LEMMA LinkConnectBegin ==
  ASSUME LinkInv, ConnectBegin, TypeOK', ScanSound', OneConnection'
  PROVE  LinkInv'
PROOF
  <1> DEFINE n == Len(to) + 1
             f == LowestFree
             g == Head(snd.todo)
  <1> USE Constants, GateAssumption
  <1>1. f \in Fds /\ fdt[f] = Closed
    BY LowestFreeIsFree DEF ConnectBegin, CanConnect, Free
  <1>2. g \in Gates /\ n \in Conns /\ n \in Nat
    BY Fields DEF ConnectBegin, CanConnect, LinkInv, TypeOK, Conns
  <1>3. snd'.pc = "connecting" /\ snd'.g = g /\ snd'.fd = f /\ mutex' = {g}
    BY DEF ConnectBegin
  <1>4. to' = Append(to, g) /\ Len(to') = n
    BY DEF ConnectBegin, LinkInv, TypeOK
  <1>5. to'[n] = g /\ \A m \in 1 .. Len(to) : to'[m] = to[m]
    BY <1>4, <1>2 DEF LinkInv, TypeOK
  <1>6. fdt' = [fdt EXCEPT ![f] = n]
    BY DEF ConnectBegin
  <1>7. f \notin Opened /\ Opened' = Opened \cup {f}
    BY <1>1, <1>2, <1>6 DEF Opened, LinkInv, TypeOK, Conns, Closed
  <1>8. fdt'[f] = n /\ \A e \in Opened : fdt'[e] = fdt[e] /\ to'[fdt[e]] = to[fdt[e]]
    BY <1>1, <1>5, <1>6, <1>7, OpenedType DEF LinkInv, TypeOK
  <1>9. \A h \in Gates : gfd[h] < 0
    BY DEF ConnectBegin, LinkInv, ScanSound
  <1>10. ConnsDistinct'
    <2>1. \A e \in Opened' : fdt'[e] <= Len(to')
      BY <1>4, <1>7, <1>8, <1>2, OpenedType DEF LinkInv, TypeOK
    <2>2. \A e \in Opened : fdt[e] # n
      BY <1>2, OpenedType DEF LinkInv, TypeOK
    <2> QED BY <1>7, <1>8, <2>1, <2>2 DEF ConnsDistinct, LinkInv
  <1>11. GateFdOwned'
    <2>1. \A h \in Gates : ~ (gfd'[h] > 0)
      BY <1>9 DEF ConnectBegin, LinkInv, TypeOK
    <2> QED BY <2>1 DEF GateFdOwned
  <1>12. ConnectingOwned'
    BY <1>3, <1>5, <1>7, <1>8 DEF ConnectingOwned
  <1>13. AckOwned'
    BY DEF ConnectBegin, AckOwned, LinkInv
  <1>14. SocketsKnown'
    <2>1. \A e \in Opened : gfd'[to'[fdt'[e]]] = gfd[to[fdt[e]]] /\ gfd[to[fdt[e]]] = e
      <3>1. gfd' = gfd /\ snd.pc # "connecting"
        BY DEF ConnectBegin
      <3> QED BY <1>8, <3>1 DEF LinkInv, SocketsKnown
    <2> QED BY <1>3, <1>7, <2>1 DEF SocketsKnown
  <1>15. ReconnectWaits'
    <2>1. ack.pc # "doze"
      BY <1>9, Fields DEF LinkInv, AckOwned, TypeOK
    <2> QED BY <2>1 DEF ConnectBegin, ReconnectWaits
  <1> QED BY <1>10, <1>11, <1>12, <1>13, <1>14, <1>15 DEF LinkInv

(* The connection goes from connect_to_gate's local to the gate's entry.   *)
LEMMA LinkConnectOk ==
  ASSUME LinkInv, ConnectOk, TypeOK', ScanSound', OneConnection'
  PROVE  LinkInv'
PROOF
  <1> USE Constants
  <1>1. snd.g \in Gates /\ snd.fd \in Opened /\ to[fdt[snd.fd]] = snd.g
    BY Fields DEF ConnectOk, LinkInv, ConnectingOwned
  <1>2. snd.fd \in Fds /\ snd.fd > 0 /\ fdt[snd.fd] \in Conns
    BY <1>1 DEF Opened
  <1>3. gfd'[snd.g] = snd.fd /\ \A h \in Gates : h # snd.g => gfd'[h] = gfd[h]
    BY <1>1 DEF ConnectOk, LinkInv, TypeOK
  <1>4. \A h \in Gates : gfd[h] < 0 /\ ~ (gfd[h] > 0)
    BY DEF ConnectOk, LinkInv, ScanSound, TypeOK
  <1>5. snd'.pc = "send"
    BY DEF ConnectOk, LinkInv, TypeOK, Snd
  <1>6. Opened' = Opened
    BY DEF ConnectOk, Opened
  <1>7. ConnsDistinct'
    BY <1>6 DEF ConnectOk, LinkInv, ConnsDistinct
  <1>8. GateFdOwned'
    <2>1. \A h \in Gates : gfd'[h] > 0 => h = snd.g
      BY <1>3, <1>4
    <2> QED BY <1>1, <1>2, <1>3, <2>1 DEF GateFdOwned, ConnectOk
  <1>9. ConnectingOwned'
    BY <1>5 DEF ConnectOk, ConnectingOwned
  <1>10. ack.pc \notin {"start", "select", "doze", "close"}
    BY <1>4, Fields DEF LinkInv, AckOwned
  <1>11. AckOwned' /\ ReconnectWaits'
    <2>1. CASE ack.pc = "none"
      <3>1. ack' = [NoAck EXCEPT !.pc = "start", !.g = snd.g]
        BY <2>1 DEF ConnectOk, CreateRecvGateAckThread
      <3>2. ack'.pc = "start" /\ ack'.g = snd.g
        BY <3>1 DEF NoAck
      <3> QED BY <1>2, <1>3, <3>2 DEF AckOwned, ReconnectWaits
    <2>2. CASE ack.pc # "none"
      <3>1. ack' = ack
        BY <2>2 DEF ConnectOk, CreateRecvGateAckThread
      <3> QED BY <1>10, <3>1 DEF AckOwned, ReconnectWaits
    <2> QED BY <2>1, <2>2
  <1>12. SocketsKnown'
    <2>1. ASSUME NEW f \in Opened
          PROVE  gfd'[to[fdt[f]]] = f
      <3>1. f = snd.fd
        BY <1>4, OpenedType DEF LinkInv, SocketsKnown
      <3> QED BY <1>1, <1>3, <3>1
    <2> QED BY <1>6, <2>1 DEF SocketsKnown, ConnectOk
  <1> QED BY <1>7, <1>8, <1>9, <1>11, <1>12 DEF LinkInv

(* A connection that was not made is closed by the thread that tried.      *)
LEMMA LinkConnectFail ==
  ASSUME LinkInv, ConnectFail, TypeOK', ScanSound', OneConnection'
  PROVE  LinkInv'
PROOF
  <1> USE Constants
  <1>1. snd.fd \in Opened
    BY DEF ConnectFail, LinkInv, ConnectingOwned
  <1>2. snd.fd \in Fds
    BY <1>1 DEF Opened
  <1>3. Opened' = Opened \ {snd.fd} /\ \A e \in Opened' : fdt'[e] = fdt[e]
    BY <1>2, CloseOpened DEF ConnectFail, LinkInv
  <1>4. \A h \in Gates : gfd[h] < 0 /\ ~ (gfd[h] > 0)
    BY DEF ConnectFail, LinkInv, ScanSound, TypeOK
  <1>5. snd'.pc = "try"
    BY DEF ConnectFail, LinkInv, TypeOK, Snd
  <1>6. Opened' = {}
    BY <1>3, <1>4, OpenedType DEF LinkInv, SocketsKnown
  <1>7. ConnsDistinct' /\ SocketsKnown'
    BY <1>6 DEF ConnsDistinct, SocketsKnown
  <1>8. GateFdOwned' /\ AckOwned' /\ ReconnectWaits'
    BY <1>4 DEF ConnectFail, LinkInv, GateFdOwned, AckOwned, ReconnectWaits
  <1>9. ConnectingOwned'
    BY <1>5 DEF ConnectFail, ConnectingOwned
  <1> QED BY <1>7, <1>8, <1>9 DEF LinkInv

(* After the pause the entry is cleared and its socket closed, both under  *)
(* the mutex: the number is the entry's, so no other socket is closed.     *)
LEMMA LinkAckWake ==
  ASSUME LinkInv, AckWake, TypeOK', ScanSound', OneConnection'
  PROVE  LinkInv'
PROOF
  <1> USE Constants
  <1>1. ack.g \in Gates /\ ack.netfd \in Fds /\ gfd[ack.g] = ack.netfd /\ ack.netfd > 0
    BY Fields DEF AckWake, LinkInv, AckOwned
  <1>2. Opened' = Opened \ {ack.netfd} /\ \A e \in Opened' : fdt'[e] = fdt[e]
    BY <1>1, CloseOpened DEF AckWake, LinkInv
  <1>3. \A h \in Gates : gfd'[h] = -1
    <2>1. \A h \in Gates : h # ack.g => ~ (gfd[h] > 0)
      BY <1>1 DEF LinkInv, OneConnection
    <2>2. \A h \in Gates : h # ack.g => gfd[h] = -1
      BY <2>1 DEF LinkInv, TypeOK
    <2> QED BY <1>1, <2>2 DEF AckWake, LinkInv, TypeOK
  <1>4. snd.pc # "connecting"
    BY <1>1, Fields DEF LinkInv, ScanSound
  <1>5. Opened' = {}
    <2>1. ASSUME NEW f \in Opened
          PROVE  f = ack.netfd
      <3>1. to[fdt[f]] \in Gates /\ gfd[to[fdt[f]]] = f /\ f > 0
        BY <1>4, OpenedType DEF LinkInv, SocketsKnown
      <3>2. to[fdt[f]] = ack.g
        BY <1>1, <3>1 DEF LinkInv, OneConnection
      <3> QED BY <1>1, <3>1, <3>2
    <2> QED BY <1>2, <2>1
  <1>6. ack'.pc = "end"
    BY DEF AckWake, LinkInv, TypeOK, Ack
  <1>7. \A h \in Gates : ~ (gfd'[h] > 0)
    BY <1>3
  <1> QED
    BY <1>4, <1>5, <1>6, <1>7
       DEF AckWake, LinkInv, ConnsDistinct, GateFdOwned, ConnectingOwned, AckOwned, SocketsKnown,
           ReconnectWaits

(* The other threads open and close numbers of their own only.             *)
LEMMA LinkOtherFile ==
  ASSUME LinkInv, OtherFile, TypeOK', ScanSound', OneConnection'
  PROVE  LinkInv'
PROOF
  <1>1. Opened' = Opened /\ \A e \in Opened : fdt'[e] = fdt[e]
    <2>1. CASE Free # {} /\ fdt' = [fdt EXCEPT ![LowestFree] = Foreign]
      <3>1. LowestFree \in Fds /\ fdt[LowestFree] = Closed
        BY <2>1, LowestFreeIsFree DEF Free
      <3> QED BY <2>1, <3>1, GateAssumption DEF Opened, Conns, Closed, Foreign, LinkInv, TypeOK
    <2>2. CASE \E f \in Fds : fdt[f] = Foreign /\ fdt' = Close(f)
      <3>1. PICK f \in Fds : fdt[f] = Foreign /\ fdt' = Close(f)
        BY <2>2
      <3>2. f \notin Opened
        BY <3>1, GateAssumption DEF Opened, Conns, Foreign
      <3> QED BY <3>1, <3>2, CloseOpened DEF LinkInv
    <2> QED BY <2>1, <2>2 DEF OtherFile
  <1>2. \A g \in Gates : gfd[g] > 0 => gfd[g] \in Opened
    BY DEF LinkInv, GateFdOwned, TypeOK, Opened
  <1>3. GateFdOwned'
    BY <1>1, <1>2 DEF LinkInv, GateFdOwned, OtherFile
  <1> QED
    BY <1>1, <1>3
       DEF OtherFile, LinkInv, ConnsDistinct, ConnectingOwned, AckOwned, SocketsKnown,
           ReconnectWaits

LEMMA LinkStep ==
  ASSUME "SetIp" \notin Ops
  PROVE  LinkInv /\ [Next]_vars => LinkInv'
PROOF
  <1> SUFFICES ASSUME LinkInv, [Next]_vars
               PROVE  LinkInv'
    OBVIOUS
  <1>0. TypeOK' /\ ScanSound' /\ OneConnection'
    BY TypeStep, ScanStep DEF LinkInv
  <1> USE <1>0, Constants
  <1>1. CASE PostPkt \/ AckRecv \/ PeerDrops \/ UNCHANGED vars
    BY <1>1, LinkKept DEF PostPkt, AckRecv, PeerDrops, vars
  <1>2. CASE RecvGateCmd
    <2>1. snd.pc # "connecting" /\ snd'.pc # "connecting"
      BY <1>2 DEF RecvGateCmd, Idle
    <2> QED BY <1>2, <2>1, LinkKept DEF RecvGateCmd
  <1>3. CASE FindActiveGate
    <2>1. snd.pc # "connecting" /\ snd'.pc # "connecting"
      BY <1>3 DEF FindActiveGate, LinkInv, TypeOK, Snd
    <2> QED BY <1>3, <2>1, LinkKept DEF FindActiveGate
  <1>4. CASE ConnectSkip
    <2>1. snd.pc # "connecting" /\ snd'.pc # "connecting"
      BY <1>4 DEF ConnectSkip, LinkInv, TypeOK, Snd
    <2> QED BY <1>4, <2>1, LinkKept DEF ConnectSkip
  <1>5. CASE ConnectGiveUp \/ SendPkt
    <2>1. snd.pc # "connecting" /\ snd'.pc # "connecting"
      BY <1>5 DEF ConnectGiveUp, SendPkt, Idle
    <2> QED BY <1>5, <2>1, LinkKept DEF ConnectGiveUp, SendPkt
  <1>6. CASE ConnectBegin
    BY <1>6, LinkConnectBegin
  <1>7. CASE ConnectOk
    BY <1>7, LinkConnectOk
  <1>8. CASE ConnectFail
    BY <1>8, LinkConnectFail
  <1>9. CASE AckStart
    <2>1. gfd[ack.g] > 0 /\ gfd[ack.g] \in Fds
      BY <1>9, Fields DEF AckStart, LinkInv, AckOwned
    <2>2. ack' = [ack EXCEPT !.pc = "select", !.netfd = gfd[ack.g]]
      BY <1>9, <2>1 DEF AckStart
    <2>3. ack'.pc = "select" /\ ack'.netfd = gfd[ack.g] /\ ack'.g = ack.g
      BY <2>2 DEF LinkInv, TypeOK, Ack
    <2>4. AckOwned' /\ ReconnectWaits'
      BY <1>9, <2>1, <2>3 DEF AckStart, AckOwned, ReconnectWaits
    <2> QED BY <1>9, <2>4, LinkKeptByAck DEF AckStart
  <1>10. CASE AckTimeout
    <2>1. gfd[ack.g] \in Fds /\ gfd[ack.g] < 0
      BY <1>10 DEF AckTimeout, LinkInv, AckOwned
    <2> QED BY <2>1
  <1>11. CASE AckSelError
    <2>1. gfd[ack.g] = ack.netfd /\ ack.netfd > 0 /\ ack.g \in Gates
      BY <1>11, Fields DEF AckSelError, LinkInv, AckOwned
    <2>2. fdt[ack.netfd] \in Conns
      BY <2>1 DEF LinkInv, GateFdOwned
    <2> QED BY <1>11, <2>2, GateAssumption DEF AckSelError, Conns, Closed
  <1>12. CASE AckClose
    BY <1>12 DEF AckClose, LinkInv, AckOwned
  <1>13. CASE AckRecvError
    <2>1. ack'.pc = "doze" /\ ack'.netfd = ack.netfd /\ ack'.g = ack.g /\ ack'.seen = Len(to)
      BY <1>13 DEF AckRecvError, Doze, LinkInv, TypeOK, Ack
    <2>2. AckOwned' /\ ReconnectWaits'
      BY <1>13, <2>1 DEF AckRecvError, LinkInv, AckOwned, ReconnectWaits
    <2> QED BY <1>13, <2>2, LinkKeptByAck DEF AckRecvError
  <1>14. CASE AckWake
    BY <1>14, LinkAckWake
  <1>15. CASE AckExit
    <2>1. AckOwned' /\ ReconnectWaits'
      BY <1>15 DEF AckExit, NoAck, AckOwned, ReconnectWaits
    <2> QED BY <1>15, <2>1, LinkKeptByAck DEF AckExit
  <1>16. ASSUME NEW g \in Gates, SetGateIp(g)
         PROVE  LinkInv'
    BY <1>16 DEF SetGateIp
  <1>17. CASE OtherFile
    BY <1>17, LinkOtherFile
  <1> QED
    BY <1>1, <1>2, <1>3, <1>4, <1>5, <1>6, <1>7, <1>8, <1>9, <1>10, <1>11, <1>12, <1>13,
       <1>14, <1>15, <1>16, <1>17
       DEF Next, SenderStep, AckStep

LEMMA LinkAlways ==
  ASSUME "SetIp" \notin Ops
  PROVE  Spec => []LinkInv
  BY LinkInit, LinkStep, PTL DEF Spec

(* Where nobody calls set_gate_ip, gate->fd is never a number that has     *)
(* been closed or given to something else: recv_gate_ack_thread closes the *)
(* socket and clears the entry under one mutex, however many files the     *)
(* other threads open and close meanwhile.                                 *)
THEOREM GateFdIsOwn ==
  ASSUME "SetIp" \notin Ops
  PROVE  Spec => []GateFdOwned
PROOF
  <1>1. LinkInv => GateFdOwned
    BY DEF LinkInv
  <1> QED BY <1>1, LinkAlways, PTL

(* Where nobody calls set_gate_ip, no socket made for a gate is forgotten: *)
(* each is in its gate's entry or in the hands of connect_to_gate, however *)
(* often the device connects and whichever step of a connect fails.        *)
THEOREM NoSocketLeaks ==
  ASSUME "SetIp" \notin Ops
  PROVE  Spec => []NoFdLeak
PROOF
  <1>1. LinkInv => NoFdLeak
    BY DEF LinkInv, SocketsKnown, NoFdLeak
  <1> QED BY <1>1, LinkAlways, PTL

(* Where nobody calls set_gate_ip, no connection is made while             *)
(* recv_gate_ack_thread pauses after a lost one: the entry that it clears  *)
(* only after the pause keeps get_active_gate from connecting.             *)
THEOREM PauseIsKept ==
  ASSUME "SetIp" \notin Ops
  PROVE  Spec => []ReconnectWaits
PROOF
  <1>1. LinkInv => ReconnectWaits
    BY DEF LinkInv
  <1> QED BY <1>1, LinkAlways, PTL
=============================================================================
