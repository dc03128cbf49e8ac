---------------------------- MODULE GateConnect ----------------------------
(***************************************************************************)
(* The device's own connection to its gateway (src/ipmain/gate_connect.c): *)
(* other threads queue packets, gate_connect_thread finds or makes a       *)
(* connection and sends them, recv_gate_ack_thread receives on the         *)
(* connection and tears it down, set_gate_ip changes a gateway's address   *)
(* under a live connection.                                                *)
(*                                                                         *)
(* Descriptors are numbers the kernel hands out lowest first and reuses,   *)
(* so a number that is kept across a close may name something else later.  *)
(* The other threads of ipmain open and close descriptors too.             *)
(***************************************************************************)
EXTENDS Integers, Sequences, FiniteSets

CONSTANTS
  NGates,      \* MAX_GATE_LIST; the last one is the emergency alarm server
  Configured,  \* gates with an address in the parameter file
  MaxFd,       \* bound: descriptors 1 .. MaxFd
  MaxConns,    \* bound: sockets created for gates
  MaxQueue,    \* bound: queued packets
  Ops          \* what the other threads and the peers do in this instance

ASSUME GateAssumption ==
  /\ NGates \in Nat \ {0, 1}
  /\ Configured \subseteq 0 .. NGates - 1
  /\ MaxFd \in Nat /\ MaxConns \in Nat /\ MaxQueue \in Nat
  /\ Ops \subseteq {"SetIp", "PeerDrops", "Other", "Alarm", "Reply"}

Gates == 0 .. NGates - 1
Fds   == 1 .. MaxFd
AlarmGate == NGates - 1

(* What a descriptor is: closed, a file of another thread, or connection n. *)
Closed == 0
Foreign == -1

VARIABLES
  gfd,       \* gate_list[g].fd, -1 when there is no connection
  addr,      \* whether gate_list[g].gateaddr is set
  mutex,     \* gates whose mutex gate_connect_thread holds while it connects
  fdt,       \* the descriptor table
  to,        \* to[n]: the gate that connection n was made to
  dropped,   \* connections that the peer has closed
  queue,     \* the message queue of gate_connect_thread: targets of packets
  snd,       \* gate_connect_thread: pc, gate looked at, gates to try, rmt_fd
  ack,       \* recv_gate_ack_thread: pc ("none": no thread), gate, netfd
  regist,    \* regist_flag
  linked     \* gate_connect_flag

vars == <<gfd, addr, mutex, fdt, to, dropped, queue, snd, ack, regist, linked>>

NoAck == [pc |-> "none", g |-> 0, netfd |-> -1, seen |-> 0]
Idle  == [pc |-> "idle", g |-> 0, todo |-> <<>>, fd |-> -1]

Init ==
  /\ gfd = [g \in Gates |-> -1]
  /\ addr = [g \in Gates |-> g \in Configured]
  /\ mutex = {}
  /\ fdt = [f \in Fds |-> Closed]
  /\ to = <<>>
  /\ dropped = {}
  /\ queue = <<>>
  /\ snd = Idle
  /\ ack = NoAck
  /\ regist = FALSE /\ linked = FALSE

Free == {f \in Fds : fdt[f] = Closed}
LowestFree == CHOOSE f \in Free : \A e \in Free : f <= e

Close(f) == [e \in Fds |-> IF e = f THEN Closed ELSE fdt[e]]

(* send_gate_pkt: another thread queues a packet for descriptor t, or for *)
(* any gate (-1), or for the alarm server first (-2). The send does not    *)
(* wait: a packet that the queue has no room for is lost.                  *)
SendGatePkt(t) ==
  /\ Len(queue) < MaxQueue
  /\ queue' = Append(queue, t)

(* netcmd_second_proc sends the registration until it is confirmed and     *)
(* the reports that are not confirmed after that; an alarm goes out.       *)
PostPkt ==
  /\ SendGatePkt(-1) \/ ("Alarm" \in Ops /\ SendGatePkt(-2))
  /\ UNCHANGED <<gfd, addr, mutex, fdt, to, dropped, snd, ack, regist, linked>>

----------------------------------------------------------------------------
(* gate_connect_thread.                                                    *)

(* The order in which get_active_gate tries the gates: all but the alarm   *)
(* server, which comes first for an alarm (target -2).                     *)
GatesToTry(t) ==
  LET gates == [i \in 1 .. NGates - 1 |-> i - 1]
  IN  IF t = -2 THEN <<AlarmGate>> \o gates ELSE gates

(* gate_connect_cmd_proc takes the next packet. *)
RecvGateCmd ==
  /\ snd.pc = "idle"
  /\ queue # <<>>
  /\ queue' = Tail(queue)
  /\ snd' = IF Head(queue) < 0
            THEN [Idle EXCEPT !.pc = "find", !.todo = GatesToTry(Head(queue))]
            ELSE [Idle EXCEPT !.pc = "send", !.fd = Head(queue)]
  /\ UNCHANGED <<gfd, addr, mutex, fdt, to, dropped, ack, regist, linked>>

(* Mutant: the scan runs one gate too far (i <= num). *)
FindActiveGatePastEnd ==
  /\ snd.pc = "find"
  /\ \/ /\ gfd[snd.g] > 0
        /\ snd' = [snd EXCEPT !.pc = "send", !.fd = gfd[snd.g]]
        /\ linked' = TRUE
     \/ /\ gfd[snd.g] < 0
        /\ snd' = IF snd.g = NGates THEN [snd EXCEPT !.pc = "try"] ELSE [snd EXCEPT !.g = @ + 1]
        /\ UNCHANGED linked
  /\ UNCHANGED <<gfd, addr, mutex, fdt, to, dropped, queue, ack, regist>>

(* Mutant: the scan covers the gates to try and forgets the alarm server. *)
FindActiveGateShort ==
  /\ snd.pc = "find"
  /\ \/ /\ gfd[snd.g] > 0
        /\ snd' = [snd EXCEPT !.pc = "send", !.fd = gfd[snd.g]]
        /\ linked' = TRUE
     \/ /\ gfd[snd.g] < 0
        /\ snd' = IF snd.g + 1 = AlarmGate THEN [snd EXCEPT !.pc = "try"] ELSE [snd EXCEPT !.g = @ + 1]
        /\ UNCHANGED linked
  /\ UNCHANGED <<gfd, addr, mutex, fdt, to, dropped, queue, ack, regist>>

(* find_active_gate looks at the gates one by one, each under its mutex. *)
FindActiveGate ==
  /\ snd.pc = "find"
  /\ \/ /\ gfd[snd.g] > 0
        /\ snd' = [snd EXCEPT !.pc = "send", !.fd = gfd[snd.g]]
        /\ linked' = TRUE
     \/ /\ gfd[snd.g] < 0
        /\ snd' = IF snd.g = AlarmGate THEN [snd EXCEPT !.pc = "try"] ELSE [snd EXCEPT !.g = @ + 1]
        /\ UNCHANGED linked
  /\ UNCHANGED <<gfd, addr, mutex, fdt, to, dropped, queue, ack, regist>>

(* socket() can serve this gate: it has an address, a descriptor is free.  *)
CanConnect(g) == addr[g] /\ Free # {} /\ Len(to) < MaxConns

(* connect_to_gate up to connect_timeout, which blocks with the mutex held. *)
(* The gate has no descriptor: find_active_gate has just seen to that, and  *)
(* no other thread enters one.                                              *)
ConnectBegin ==
  /\ snd.pc = "try"
  /\ snd.todo # <<>>
  /\ CanConnect(Head(snd.todo))
  /\ mutex' = {Head(snd.todo)}
  /\ to' = Append(to, Head(snd.todo))
  /\ fdt' = [fdt EXCEPT ![LowestFree] = Len(to) + 1]
  /\ snd' = [pc |-> "connecting", g |-> Head(snd.todo), todo |-> Tail(snd.todo),
             fd |-> LowestFree]
  /\ UNCHANGED <<gfd, addr, dropped, queue, ack, regist, linked>>

(* No address is set, or there is no socket: on to the next gate. *)
ConnectSkip ==
  /\ snd.pc = "try"
  /\ snd.todo # <<>>
  /\ ~CanConnect(Head(snd.todo))
  /\ snd' = [snd EXCEPT !.todo = Tail(@)]
  /\ UNCHANGED <<gfd, addr, mutex, fdt, to, dropped, queue, ack, regist, linked>>

(* A receiving thread for gate g, unless recv_gate_ack_id says that there  *)
(* is one already.                                                         *)
CreateRecvGateAckThread(g) ==
  ack' = IF ack.pc = "none" THEN [NoAck EXCEPT !.pc = "start", !.g = g] ELSE ack

(* The connection is entered in the list, under the mutex. *)
ConnectOk ==
  /\ snd.pc = "connecting"
  /\ gfd' = [gfd EXCEPT ![snd.g] = snd.fd]
  /\ CreateRecvGateAckThread(snd.g)
  /\ mutex' = {}
  /\ snd' = [snd EXCEPT !.pc = "send"]
  /\ linked' = TRUE
  /\ UNCHANGED <<addr, fdt, to, dropped, queue, regist>>

(* Mutant: the socket stays open when connect_timeout fails. *)
ConnectFailNoClose ==
  /\ snd.pc = "connecting"
  /\ mutex' = {}
  /\ snd' = [snd EXCEPT !.pc = "try", !.fd = -1]
  /\ UNCHANGED <<gfd, addr, fdt, to, dropped, queue, ack, regist, linked>>

ConnectFail ==
  /\ snd.pc = "connecting"
  /\ fdt' = Close(snd.fd)
  /\ mutex' = {}
  /\ snd' = [snd EXCEPT !.pc = "try", !.fd = -1]
  /\ UNCHANGED <<gfd, addr, to, dropped, queue, ack, regist, linked>>

(* No gate can be reached: the packet is dropped. *)
ConnectGiveUp ==
  /\ snd.pc = "try"
  /\ snd.todo = <<>>
  /\ linked' = FALSE
  /\ snd' = Idle
  /\ UNCHANGED <<gfd, addr, mutex, fdt, to, dropped, queue, ack, regist>>

(* send_pkt_to_gate writes to the number; nobody looks at the result. *)
SendPkt ==
  /\ snd.pc = "send"
  /\ snd' = Idle
  /\ UNCHANGED <<gfd, addr, mutex, fdt, to, dropped, queue, ack, regist, linked>>

SenderStep ==
  \/ RecvGateCmd \/ FindActiveGate \/ ConnectBegin \/ ConnectSkip \/ ConnectOk \/ ConnectFail
  \/ ConnectGiveUp \/ SendPkt

----------------------------------------------------------------------------
(* recv_gate_ack_thread.                                                   *)

(* Connections that carry data: established and not closed by the peer.    *)
Up == {fdt[f] : f \in Fds \ (IF snd.pc = "connecting" THEN {snd.fd} ELSE {})}
        \cap (1 .. Len(to) \ dropped)

Doze(a) == [a EXCEPT !.pc = "doze", !.seen = Len(to)]

(* What changed while there was no connection is reported on the new one.  *)
ProcessGateConnect(fd) ==
  UNCHANGED queue \/ ("Reply" \in Ops /\ SendGatePkt(fd))

(* The thread reads its gate's descriptor. *)
AckStart ==
  /\ ack.pc = "start"
  /\ ack.g \notin mutex
  /\ ack' = IF gfd[ack.g] > 0
            THEN [ack EXCEPT !.pc = "select", !.netfd = gfd[ack.g]]
            ELSE Doze(ack)
  /\ ProcessGateConnect(gfd[ack.g])
  /\ UNCHANGED <<gfd, addr, mutex, fdt, to, dropped, snd, regist, linked>>

(* select ran into its second; gate->fd is read without the mutex. *)
AckTimeout ==
  /\ ack.pc = "select"
  /\ gfd[ack.g] < 0
  /\ ack' = Doze(ack)
  /\ UNCHANGED <<gfd, addr, mutex, fdt, to, dropped, queue, snd, regist, linked>>

(* select fails on a descriptor that is closed; the number is closed again *)
(* after the mutex has been given back.                                    *)
AckSelError ==
  /\ ack.pc = "select"
  /\ fdt[ack.netfd] = Closed
  /\ ack.g \notin mutex
  /\ gfd' = [gfd EXCEPT ![ack.g] = -1]
  /\ ack' = [ack EXCEPT !.pc = "close"]
  /\ UNCHANGED <<addr, mutex, fdt, to, dropped, queue, snd, regist, linked>>

AckClose ==
  /\ ack.pc = "close"
  /\ fdt' = Close(ack.netfd)
  /\ ack' = Doze(ack)
  /\ UNCHANGED <<gfd, addr, mutex, to, dropped, queue, snd, regist, linked>>

(* A command from the gate: it may confirm the registration, or call for a *)
(* reply on this connection. (Whatever else the number names may also      *)
(* have something to read.)                                                *)
AckRecv ==
  /\ ack.pc = "select"
  /\ fdt[ack.netfd] \in Up \cup {Foreign}
  /\ ack.g \notin mutex
  /\ \/ regist' = TRUE /\ UNCHANGED queue
     \/ "Reply" \in Ops /\ SendGatePkt(ack.netfd) /\ UNCHANGED regist
  /\ UNCHANGED <<gfd, addr, mutex, fdt, to, dropped, snd, ack, linked>>

(* Mutant: the entry is cleared before the pause and not after it. *)
AckRecvErrorClears ==
  /\ ack.pc = "select"
  /\ fdt[ack.netfd] \in dropped \cup {Foreign}
  /\ gfd' = [gfd EXCEPT ![ack.g] = -1]
  /\ linked' = FALSE
  /\ ack' = Doze(ack)
  /\ UNCHANGED <<addr, mutex, fdt, to, dropped, queue, snd, regist>>

(* The peer has closed the connection, or the number is no connection now. *)
AckRecvError ==
  /\ ack.pc = "select"
  /\ fdt[ack.netfd] \in dropped \cup {Foreign}
  /\ linked' = FALSE
  /\ ack' = Doze(ack)
  /\ UNCHANGED <<gfd, addr, mutex, fdt, to, dropped, queue, snd, regist>>

(* Mutant: the number is closed and stays in the list. *)
AckWakeKeepsFd ==
  /\ ack.pc = "doze"
  /\ ack.g \notin mutex
  /\ fdt' = Close(ack.netfd)
  /\ ack' = [ack EXCEPT !.pc = "end"]
  /\ UNCHANGED <<gfd, addr, mutex, to, dropped, queue, snd, regist, linked>>

(* Twenty seconds later: the entry is cleared and the number closed. *)
AckWake ==
  /\ ack.pc = "doze"
  /\ ack.g \notin mutex
  /\ gfd' = [gfd EXCEPT ![ack.g] = -1]
  /\ fdt' = Close(ack.netfd)
  /\ ack' = [ack EXCEPT !.pc = "end"]
  /\ UNCHANGED <<addr, mutex, to, dropped, queue, snd, regist, linked>>

(* Mutant: set_regist_flag(dev_no, 0) is missing. *)
AckExitKeepsRegist ==
  /\ ack.pc = "end"
  /\ ack' = NoAck
  /\ UNCHANGED <<gfd, addr, mutex, fdt, to, dropped, queue, snd, regist, linked>>

(* After the mutex: regist_flag and recv_gate_ack_id. *)
AckExit ==
  /\ ack.pc = "end"
  /\ regist' = FALSE
  /\ ack' = NoAck
  /\ UNCHANGED <<gfd, addr, mutex, fdt, to, dropped, queue, snd, linked>>

AckStep ==
  \/ AckStart \/ AckTimeout \/ AckSelError \/ AckClose \/ AckRecvError
  \/ AckWake \/ AckExit

----------------------------------------------------------------------------
(* set_gate_ip, called for a command of a user or of the gate itself. *)
SetGateIp(g) ==
  /\ "SetIp" \in Ops
  /\ g \notin mutex
  /\ fdt' = IF gfd[g] > 0 THEN Close(gfd[g]) ELSE fdt
  /\ gfd' = [gfd EXCEPT ![g] = -1]
  /\ \E set \in BOOLEAN : addr' = [addr EXCEPT ![g] = set]
  /\ UNCHANGED <<mutex, to, dropped, queue, snd, ack, regist, linked>>

(* The gate, or the network, ends a connection. *)
PeerDrops ==
  /\ "PeerDrops" \in Ops
  /\ \E n \in Up : dropped' = dropped \cup {n}
  /\ UNCHANGED <<gfd, addr, mutex, fdt, to, queue, snd, ack, regist, linked>>

(* Another thread of ipmain opens or closes a file of its own. *)
OtherFile ==
  /\ "Other" \in Ops
  /\ \/ Free # {} /\ fdt' = [fdt EXCEPT ![LowestFree] = Foreign]
     \/ \E f \in Fds : fdt[f] = Foreign /\ fdt' = Close(f)
  /\ UNCHANGED <<gfd, addr, mutex, to, dropped, queue, snd, ack, regist, linked>>

Next ==
  \/ PostPkt \/ SenderStep \/ AckStep \/ AckRecv
  \/ (\E g \in Gates : SetGateIp(g)) \/ PeerDrops \/ OtherFile

Spec == Init /\ [][Next]_vars

(* Both threads are loops that never stop on their own, and no lock they   *)
(* take is held for ever (connect_timeout gives up after six seconds).     *)
FairSpec == Spec /\ WF_vars(SenderStep) /\ WF_vars(AckStep)

----------------------------------------------------------------------------
Conns == 1 .. MaxConns
Snd == [pc : {"idle", "find", "try", "connecting", "send"}, g : Gates, todo : Seq(Gates),
        fd : Fds \cup {-1}]
Ack == [pc : {"none", "start", "select", "close", "doze", "end"}, g : Gates,
        netfd : Fds \cup {-1}, seen : 0 .. MaxConns]

(* Descriptors, connections and both threads' locals stay in range. *)
TypeOK ==
  /\ gfd \in [Gates -> Fds \cup {-1}]
  /\ addr \in [Gates -> BOOLEAN]
  /\ mutex \in SUBSET Gates
  /\ fdt \in [Fds -> Conns \cup {Closed, Foreign}]
  /\ to \in Seq(Gates) /\ Len(to) <= MaxConns
  /\ dropped \in SUBSET Conns
  /\ queue \in Seq({-1, -2} \cup Fds) /\ Len(queue) <= MaxQueue
  /\ snd \in Snd
  /\ ack \in Ack
  /\ regist \in BOOLEAN /\ linked \in BOOLEAN

Opened == {f \in Fds : fdt[f] \in Conns}

(* The device keeps at most one connection to its gates: get_active_gate   *)
(* connects only after find_active_gate has found every gate without a     *)
(* descriptor, one mutex at a time, while the other threads clear entries. *)
OneConnection == \A g, h \in Gates : gfd[g] > 0 /\ gfd[h] > 0 => g = h

(* What makes it so: the gates that find_active_gate has passed stay       *)
(* without a descriptor, and all of them while a connection is made.       *)
ScanSound ==
  /\ snd.pc = "find" => \A h \in Gates : h < snd.g => gfd[h] < 0
  /\ snd.pc \in {"try", "connecting"} => \A h \in Gates : gfd[h] < 0

(* As long as no address is changed under a connection, gate->fd names the *)
(* socket that was connected to this gate, never a reused number: the one  *)
(* thread that closes it clears the entry under the same mutex.            *)
GateFdOwned == \A g \in Gates : gfd[g] > 0 => fdt[gfd[g]] \in Conns /\ to[fdt[gfd[g]]] = g

(* As long as no address is changed, no socket made for a gate is          *)
(* forgotten: its number is in its gate's entry, in the receiving thread   *)
(* or, while it is connecting, in connect_to_gate.  (Whether the thread    *)
(* that should close it is there is ConnectionHasReceiver's question.)     *)
NoFdLeak ==
  \A f \in Opened :
    \/ gfd[to[fdt[f]]] = f
    \/ ack.netfd = f
    \/ snd.pc = "connecting" /\ snd.fd = f

(* A connection that the peer has dropped while the receiving thread was   *)
(* on it is given up, the registration with it, so that the device will    *)
(* connect and register again.                                             *)
LostLinkReleased ==
  (ack.pc = "select" /\ fdt[ack.netfd] \in dropped) ~> (ack.pc = "none" /\ ~regist)

----------------------------------------------------------------------------
(* "网关需要隔一段时间才重新连接": no connection is made in the pause that *)
(* recv_gate_ack_thread takes after it has lost one, because the entry     *)
(* keeps its descriptor until the pause is over.  set_gate_ip clears the   *)
(* entry and breaks this.                                                  *)
ReconnectWaits == ack.pc = "doze" => Len(to) = ack.seen

(* What the comment says, and the code does not keep.                      *)

(* "接收并处理由ip1004主动向网关建立的连接的描述符": a connection that    *)
(* the device has made has a thread that receives on it.                   *)
ConnectionHasReceiver == ack.pc = "none" => \A g \in Gates : gfd[g] < 0
=============================================================================
