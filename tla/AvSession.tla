------------------------------ MODULE AvSession ------------------------------
(***************************************************************************)
(* Who is connected to rtimage's audio and video service, and who is sent  *)
(* frames: src/rtimage/net_avstream.c, with send_media_frames of           *)
(* avserver.c.  There is one rtnet_av_cmd_thread per slot of av_usr_list,  *)
(* one slot more than users are allowed, "for handling busy".  One of the  *)
(* threads holds l_mutex and accepts; the others serve their client or     *)
(* wait.  The video and the audio sender walk over the slots.              *)
(*                                                                         *)
(* A descriptor is the connection it stands for.  What goes on under       *)
(* u_mutex or s_mutex is one step.  The frames themselves are AvSend's.    *)
(***************************************************************************)
EXTENDS Integers, FiniteSets

CONSTANTS
    MaxLan,      \* max_lan_usrs
    MaxWan,      \* max_wan_usrs
    Clients,     \* the connections that clients make
    LanClients,  \* those of them that come from the device's subnet
    NoConn,      \* fd = -1
    MaxErrors    \* errors of accept a behaviour may see

ASSUME SessionAssumption ==
    /\ MaxLan \in Nat /\ MaxWan \in Nat /\ MaxErrors \in Nat
    /\ LanClients \subseteq Clients /\ NoConn \notin Clients

Slots   == 0..(MaxLan + MaxWan)
NoSlot  == -1
Senders == {"video", "audio"}
Conns   == Clients \union {NoConn}

VARIABLES
    conn,        \* each connection: new, queued, open or closed
    gone,        \* the open connections whose peer has hung up
    l_mutex,     \* the slot whose thread may accept, or NoSlot
    lan_usrs, wan_usrs,
    pc,          \* where each slot's thread is
    accept_fd,   \* the thread's own copy of its descriptor
    used, fd, serv_stat, addr,   \* the slot, av_usr_t
    snd,         \* the slot each sender has decided to send to, or NoSlot
    subscribed,  \* history: the open connections that asked for the stream
    stray,       \* history: <<t, c>> if t has sent to the open connection c
                 \* although c had not asked for the stream
    again,       \* history: a sender has done so twice with one connection
    errors

slot == <<used, fd, serv_stat, addr>>
counts == <<lan_usrs, wan_usrs>>
hist == <<subscribed, stray, again, errors>>
vars == <<conn, gone, l_mutex, counts, pc, accept_fd, slot, snd, hist>>

-----------------------------------------------------------------------------
(* Operations on the slot and the counters *)

Goes(s, from, to) == pc[s] = from /\ pc' = [pc EXCEPT ![s] = to]

\* close
Closed(c) == /\ conn' = [conn EXCEPT ![c] = "closed"]
             /\ gone' = gone \ {c} /\ subscribed' = subscribed \ {c}
             /\ stray' = {p \in stray : p[2] # c}

\* is_lan_user; the address of a slot that was deleted is zero, no subnet's
IsLan(c) == c \in LanClients

\* Mutant: serv_stat is not reset.
InitAvUsrInfoKeepsStat(s) ==
    /\ used' = [used EXCEPT ![s] = FALSE]
    /\ fd' = [fd EXCEPT ![s] = NoConn]
    /\ addr' = [addr EXCEPT ![s] = NoConn]
    /\ UNCHANGED serv_stat

\* Mutant: the descriptor is not reset.
InitAvUsrInfoKeepsFd(s) ==
    /\ used' = [used EXCEPT ![s] = FALSE]
    /\ serv_stat' = [serv_stat EXCEPT ![s] = 0]
    /\ addr' = [addr EXCEPT ![s] = NoConn]
    /\ UNCHANGED fd

\* init_av_usr_info: the slot counts as free again from here on
InitAvUsrInfo(s) ==
    /\ used' = [used EXCEPT ![s] = FALSE]
    /\ fd' = [fd EXCEPT ![s] = NoConn]
    /\ serv_stat' = [serv_stat EXCEPT ![s] = 0]
    /\ addr' = [addr EXCEPT ![s] = NoConn]

\* Mutant: usrs <= max, one user more than there is room for.
RoomForOneMore(c) == IF IsLan(c) THEN lan_usrs <= MaxLan ELSE wan_usrs <= MaxWan

\* add_av_usr_list: is there room for the guest in its class?
Room(c) == IF IsLan(c) THEN lan_usrs + 1 <= MaxLan ELSE wan_usrs + 1 <= MaxWan

Counted(c, n) ==
    /\ lan_usrs' = IF IsLan(c) THEN lan_usrs + n ELSE lan_usrs
    /\ wan_usrs' = IF IsLan(c) THEN wan_usrs ELSE wan_usrs + n

AddAvUsrList(s, c) ==
    /\ Room(c)
    /\ Counted(c, 1)
    /\ addr' = [addr EXCEPT ![s] = c]

\* Mutant: the address is cleared first, so every user leaves as a wan user.
DelAvUsrListCleared(s) ==
    /\ Counted(NoConn, -1)
    /\ InitAvUsrInfo(s)

\* del_av_usr_list
DelAvUsrList(s) ==
    /\ Counted(addr[s], -1)
    /\ InitAvUsrInfo(s)

-----------------------------------------------------------------------------
(* rtnet_av_cmd_thread: from waiting to serving *)

\* The loop on is_usr_valid, and pthread_mutex_trylock.  A thread that does
\* not get the mutex tries again.
Listen(s) ==
    /\ ~used[s] /\ l_mutex = NoSlot
    /\ Goes(s, "wait", "accept")
    /\ l_mutex' = s
    /\ used' = [used EXCEPT ![s] = TRUE]
    /\ UNCHANGED <<conn, gone, counts, accept_fd, fd, serv_stat, addr, snd,
                   hist>>

\* accept, and init_av_usr_info
Accept(s) ==
    /\ \E c \in Clients :
          /\ conn[c] = "queued"
          /\ conn' = [conn EXCEPT ![c] = "open"]
          /\ accept_fd' = [accept_fd EXCEPT ![s] = c]
    /\ Goes(s, "accept", "add")
    /\ InitAvUsrInfo(s)
    /\ UNCHANGED <<gone, l_mutex, counts, snd, hist>>

\* accept fails: the mutex is given back, used is not
AcceptFails(s) ==
    /\ errors < MaxErrors /\ errors' = errors + 1
    /\ Goes(s, "accept", "wait")
    /\ l_mutex' = NoSlot
    /\ UNCHANGED <<conn, gone, counts, accept_fd, slot, snd, subscribed,
                   stray, again>>

AddUsr(s) ==
    /\ Goes(s, "add", "setfd")
    /\ AddAvUsrList(s, accept_fd[s])
    /\ l_mutex' = NoSlot
    /\ UNCHANGED <<conn, gone, accept_fd, used, fd, serv_stat, snd, hist>>

\* ERR_DVC_BUSY is answered and the connection closed
RefuseBusy(s) ==
    /\ ~Room(accept_fd[s])
    /\ Goes(s, "add", "wait")
    /\ Closed(accept_fd[s])
    /\ accept_fd' = [accept_fd EXCEPT ![s] = NoConn]
    /\ l_mutex' = NoSlot
    /\ UNCHANGED <<counts, slot, snd, again, errors>>

SetFd(s) ==
    /\ Goes(s, "setfd", "serve")
    /\ fd' = [fd EXCEPT ![s] = accept_fd[s]]
    /\ UNCHANGED <<conn, gone, l_mutex, counts, accept_fd, used, serv_stat,
                   addr, snd, hist>>

-----------------------------------------------------------------------------
(* rtnet_av_cmd_thread: the loop that serves a client *)

Serving(s) == pc[s] = "serve" /\ fd[s] # NoConn /\ serv_stat[s] >= 0

\* proc_video_subscrib_cmd: video, or video and sound; subscribing again
\* changes which.  The encoder may be out of order: the client is cut off.
Subscribe(s) ==
    /\ Serving(s) /\ accept_fd[s] \notin gone
    /\ \/ /\ \E stat \in {1, 3} :
                serv_stat' = [serv_stat EXCEPT ![s] = stat]
          /\ subscribed' = subscribed \union {accept_fd[s]}
          /\ UNCHANGED pc
       \/ /\ serv_stat[s] = 0
          /\ Goes(s, "serve", "del")
          /\ UNCHANGED <<serv_stat, subscribed>>
    /\ UNCHANGED <<conn, gone, l_mutex, counts, accept_fd, used, fd, addr, snd,
                   stray, again, errors>>

\* Mutant: serv_stat is counted down.
UnsubscribeDown(s) ==
    /\ Serving(s) /\ accept_fd[s] \notin gone
    /\ serv_stat' = [serv_stat EXCEPT ![s] = @ - 4]
    /\ \E next \in {"serve", "del"} : Goes(s, "serve", next)
    /\ UNCHANGED <<conn, gone, l_mutex, counts, accept_fd, used, fd, addr, snd,
                   hist>>

\* VIEWER_UNSUBSCRIBE_VIDEO: the value process_net_av_cmd returns is not set,
\* so the loop is left now or at its next turn
Unsubscribe(s) ==
    /\ Serving(s) /\ accept_fd[s] \notin gone
    /\ serv_stat' = [serv_stat EXCEPT ![s] = -2]
    /\ \E next \in {"serve", "del"} : Goes(s, "serve", next)
    /\ UNCHANGED <<conn, gone, l_mutex, counts, accept_fd, used, fd, addr, snd,
                   hist>>

\* the descriptor was taken away, the client unsubscribed or has hung up
LeaveServe(s) ==
    /\ \/ fd[s] = NoConn
       \/ serv_stat[s] < 0
       \/ accept_fd[s] \in gone
    /\ Goes(s, "serve", "del")
    /\ UNCHANGED <<conn, gone, l_mutex, counts, accept_fd, slot, snd, hist>>

DelUsr(s) ==
    /\ Goes(s, "del", "close")
    /\ DelAvUsrList(s)
    /\ UNCHANGED <<conn, gone, l_mutex, accept_fd, snd, hist>>

CloseConn(s) ==
    /\ Goes(s, "close", "wait")
    /\ Closed(accept_fd[s])
    /\ accept_fd' = [accept_fd EXCEPT ![s] = NoConn]
    /\ UNCHANGED <<l_mutex, counts, slot, snd, again, errors>>

-----------------------------------------------------------------------------
(* send_media_frames, in the video and the audio thread *)

\* serv_stat and venc_no are looked at without a lock ...
SendPick(t, s) ==
    /\ snd[t] = NoSlot
    /\ serv_stat[s] \in (IF t = "video" THEN {1, 3} ELSE {3})
    /\ snd' = [snd EXCEPT ![t] = s]
    /\ UNCHANGED <<conn, gone, l_mutex, counts, pc, accept_fd, slot, hist>>

\* ... and send_media_frame2usr then takes u_mutex and writes to usr->fd,
\* whoever has the slot by then
SendFrame(t) ==
    /\ snd[t] # NoSlot
    /\ LET c == fd[snd[t]]
           strays == c \notin subscribed \union {NoConn}
       IN  /\ stray' = IF strays THEN stray \union {<<t, c>>} ELSE stray
           /\ again' = (again \/ (strays /\ <<t, c>> \in stray))
    /\ snd' = [snd EXCEPT ![t] = NoSlot]
    /\ UNCHANGED <<conn, gone, l_mutex, counts, pc, accept_fd, slot,
                   subscribed, errors>>

-----------------------------------------------------------------------------
(* The clients *)

Arrive(c) ==
    /\ conn[c] = "new"
    /\ conn' = [conn EXCEPT ![c] = "queued"]
    /\ UNCHANGED <<gone, l_mutex, counts, pc, accept_fd, slot, snd, hist>>

HangUp(c) ==
    /\ conn[c] = "open" /\ c \notin gone
    /\ gone' = gone \union {c}
    /\ UNCHANGED <<conn, l_mutex, counts, pc, accept_fd, slot, snd, hist>>

-----------------------------------------------------------------------------
InitServer ==
    /\ gone = {}
    /\ l_mutex = NoSlot /\ lan_usrs = 0 /\ wan_usrs = 0
    /\ pc = [s \in Slots |-> "wait"]
    /\ accept_fd = [s \in Slots |-> NoConn]
    /\ used = [s \in Slots |-> FALSE] /\ fd = [s \in Slots |-> NoConn]
    /\ serv_stat = [s \in Slots |-> 0] /\ addr = [s \in Slots |-> NoConn]
    /\ snd = [t \in Senders |-> NoSlot]
    /\ subscribed = {} /\ stray = {} /\ again = FALSE /\ errors = 0

Init == conn = [c \in Clients |-> "new"] /\ InitServer

\* what a thread does of itself
ThreadStep(s) == \/ Listen(s)
                 \/ Accept(s)
                 \/ AddUsr(s)
                 \/ RefuseBusy(s)
                 \/ SetFd(s)
                 \/ LeaveServe(s)
                 \/ DelUsr(s)
                 \/ CloseConn(s)

Next == \/ \E s \in Slots : ThreadStep(s)
        \/ \E s \in Slots : AcceptFails(s)
        \/ \E s \in Slots : Subscribe(s)
        \/ \E s \in Slots : Unsubscribe(s)
        \/ \E t \in Senders, s \in Slots : SendPick(t, s)
        \/ \E t \in Senders : SendFrame(t)
        \/ \E c \in Clients : Arrive(c)
        \/ \E c \in Clients : HangUp(c)

Spec == Init /\ [][Next]_vars

\* Every thread goes on when it can.  Nothing is assumed of the clients: they
\* need not subscribe, nor ever hang up.
Fairness == /\ \A s \in Slots : WF_vars(ThreadStep(s))
            /\ \A t \in Senders : WF_vars(SendFrame(t))

FairSpec == Spec /\ Fairness

-----------------------------------------------------------------------------
(* Properties *)

\* Every variable has its type.
TypeOK ==
    /\ conn \in [Clients -> {"new", "queued", "open", "closed"}]
    /\ gone \subseteq Clients
    /\ l_mutex \in Slots \union {NoSlot}
    /\ lan_usrs \in Int /\ wan_usrs \in Int
    /\ pc \in [Slots -> {"wait", "accept", "add", "setfd", "serve", "del",
                          "close"}]
    /\ accept_fd \in [Slots -> Conns]
    /\ used \in [Slots -> BOOLEAN] /\ fd \in [Slots -> Conns]
    /\ serv_stat \in [Slots -> {-2, 0, 1, 3}] /\ addr \in [Slots -> Conns]
    /\ snd \in [Senders -> Slots \union {NoSlot}]
    /\ subscribed \subseteq Clients
    /\ stray \subseteq Senders \X Clients /\ again \in BOOLEAN
    /\ errors \in 0..MaxErrors

Held == {s \in Slots : pc[s] \in {"setfd", "serve", "del"}}

\* The counters that decide who is refused count the clients that have a
\* slot, each in its class, however a client's session ends: by a refusal, a
\* command, a hang-up or an encoder that is out of order.  While the SDK has
\* no session, showbug() on a negative counter is thus not reached; with one
\* it is (AvSessionSdk).
UsersCounted ==
    /\ lan_usrs = Cardinality({s \in Held : IsLan(accept_fd[s])})
    /\ wan_usrs = Cardinality({s \in Held : ~IsLan(accept_fd[s])})

\* The descriptor the senders write to is open and belongs to the client of
\* the slot: it leaves the slot before it is closed.
FdOwned == \A s \in Slots : fd[s] # NoConn =>
              conn[fd[s]] = "open" /\ fd[s] = accept_fd[s]

\* The senders look at serv_stat without the lock and slots are used again, so
\* what was meant for a slot's last client may go to its next one, which has
\* not subscribed.  That happens once for each sender and no more: nobody goes
\* on being served as its predecessor was.
StrayOnce == ~again

\* There is always a thread to answer: a client that connects is accepted or
\* refused, even while every user slot is taken by clients that stay for
\* ever.  A thread whose accept failed never comes back, hence the exception.
ClientAnswered ==
    \A c \in Clients : (conn[c] = "queued") ~> (conn[c] # "queued" \/ errors > 0)
=============================================================================
