---------------------------- MODULE AvSessionSdk ----------------------------
(***************************************************************************)
(* AvSession together with the users of the net SDK: on a command of the   *)
(* gate, rtimage's command thread connects to a viewer by itself           *)
(* (rtnet_av_connect2gate) in a slot whose thread is not serving, and ends *)
(* the session on another command, while a sender whose write fails ends   *)
(* it too (rtnet_av_close_connect).                                        *)
(***************************************************************************)
EXTENDS AvSession

CONSTANT SdkConns   \* the members of Clients that the device connects to

Closers == Senders \union {"gate"}
Idle == [at |-> "idle", slot |-> NoSlot, fd |-> NoConn]

VARIABLES
    sdk,      \* the slots with a stream_idx: their users are the SDK's
    taken,    \* the slot rtnet_av_connect2gate is working on, or NoSlot
    id,       \* the query_usr_id the gate was told last, or NoSlot
    closing   \* where each caller of rtnet_av_close_connect is

sdkVars == <<sdk, taken, id, closing>>
allVars == <<vars, sdkVars>>

-----------------------------------------------------------------------------
(* rtnet_av_connect2gate *)

FreeSlots == {s \in Slots : ~used[s]}

\* get_free_usr, init_av_usr_info, used = 1
Connect2GateTake(s) ==
    /\ taken = NoSlot /\ s \in FreeSlots /\ \A z \in FreeSlots : s <= z
    /\ fd' = [fd EXCEPT ![s] = NoConn]
    /\ serv_stat' = [serv_stat EXCEPT ![s] = 0]
    /\ addr' = [addr EXCEPT ![s] = NoConn]
    /\ used' = [used EXCEPT ![s] = TRUE]
    /\ taken' = s
    /\ sdk' = sdk \ {s}
    /\ UNCHANGED <<conn, gone, l_mutex, counts, pc, accept_fd, snd, hist, id,
                   closing>>

\* the user is added and connected, and the senders begin to serve it
Connect2GateOk(c) ==
    /\ taken # NoSlot /\ conn[c] = "viewer"
    /\ AddAvUsrList(taken, c)
    /\ conn' = [conn EXCEPT ![c] = "open"]
    /\ fd' = [fd EXCEPT ![taken] = c]
    /\ \E stat \in {1, 3} : serv_stat' = [serv_stat EXCEPT ![taken] = stat]
    /\ subscribed' = subscribed \union {c}
    /\ sdk' = sdk \union {taken}
    /\ id' = taken /\ taken' = NoSlot
    /\ UNCHANGED <<gone, l_mutex, pc, accept_fd, used, snd, stray, again, errors,
                   closing>>

\* there is no room, or the connection fails: neither used nor, in the second
\* case, the counter is put back
Connect2GateFails(c) ==
    /\ taken # NoSlot /\ conn[c] = "viewer"
    /\ \/ ~Room(c) /\ UNCHANGED <<counts, addr>>
       \/ AddAvUsrList(taken, c)
    /\ taken' = NoSlot
    /\ UNCHANGED <<conn, gone, l_mutex, pc, accept_fd, used, fd, serv_stat,
                   snd, hist, sdk, id, closing>>

-----------------------------------------------------------------------------
(* rtnet_av_close_connect *)

\* the descriptor is read before s_mutex is taken
Starts(a, s) ==
    /\ closing[a] = Idle
    /\ closing' = [closing EXCEPT ![a] =
                     [at |-> "del", slot |-> s, fd |-> fd[s]]]

\* send_media_frame2usr: the write to a user of the SDK fails
SdkWriteFails(t) ==
    /\ snd[t] # NoSlot /\ snd[t] \in sdk /\ fd[snd[t]] \in gone
    /\ Starts(t, snd[t])
    /\ snd' = [snd EXCEPT ![t] = NoSlot]
    /\ UNCHANGED <<conn, gone, l_mutex, counts, pc, accept_fd, slot, hist, sdk,
                   taken, id>>

\* USR_STOP_RT_IMAGE: the gate ends the session it was told of
GateStops ==
    /\ taken = NoSlot /\ id # NoSlot
    /\ Starts("gate", id)
    /\ id' = NoSlot
    /\ UNCHANGED <<vars, sdk, taken>>

CloseConnectDel(a) ==
    /\ closing[a].at = "del"
    /\ DelAvUsrList(closing[a].slot)
    /\ sdk' = sdk \ {closing[a].slot}
    /\ closing' = [closing EXCEPT ![a].at = "close"]
    /\ UNCHANGED <<conn, gone, l_mutex, pc, accept_fd, snd, hist, taken, id>>

CloseConnectFd(a) ==
    /\ closing[a].at = "close"
    /\ IF closing[a].fd = NoConn THEN UNCHANGED <<conn, gone, subscribed, stray>>
                                 ELSE Closed(closing[a].fd)
    /\ closing' = [closing EXCEPT ![a] = Idle]
    /\ UNCHANGED <<l_mutex, counts, pc, accept_fd, slot, snd, again, errors,
                   sdk, taken, id>>

-----------------------------------------------------------------------------
\* AvSession's initial state, but for the connections the device will make
SdkInit ==
    /\ conn = [c \in Clients |-> IF c \in SdkConns THEN "viewer" ELSE "new"]
    /\ InitServer
    /\ sdk = {} /\ taken = NoSlot /\ id = NoSlot
    /\ closing = [a \in Closers |-> Idle]

\* a step of AvSession; deleting and initialising a slot clear stream_idx
SessionStep == /\ Next
               /\ sdk' = {s \in sdk : fd'[s] # NoConn}
               /\ UNCHANGED <<taken, id, closing>>

SdkNext == \/ SessionStep
           \/ \E s \in Slots : Connect2GateTake(s)
           \/ \E c \in SdkConns : Connect2GateOk(c)
           \/ \E c \in SdkConns : Connect2GateFails(c)
           \/ \E t \in Senders : SdkWriteFails(t)
           \/ GateStops
           \/ \E a \in Closers : CloseConnectDel(a)
           \/ \E a \in Closers : CloseConnectFd(a)

SdkSpec == SdkInit /\ [][SdkNext]_allVars

-----------------------------------------------------------------------------
\* del_av_usr_list calls showbug() when a counter falls below zero: it is
\* meant never to.
CountsNotNegative == lan_usrs >= 0 /\ wan_usrs >= 0
=============================================================================
