-------------------------- MODULE AvSessionProofs --------------------------
(***************************************************************************)
(* Theorems about AvSession, for any limits and any number of clients.     *)
(***************************************************************************)
EXTENDS AvSession, FiniteSetTheorems, TLAPS

\* A thread has a connection from accept to close, and no two have the same.
Connected ==
    /\ \A s \in Slots : pc[s] \in {"wait", "accept"} => accept_fd[s] = NoConn
    /\ \A s \in Slots : pc[s] \in {"add", "setfd", "serve", "del", "close"}
          => accept_fd[s] \in Clients /\ conn[accept_fd[s]] = "open"
    /\ \A s, z \in Slots :
          accept_fd[s] = accept_fd[z] /\ accept_fd[s] # NoConn => s = z

\* What the slot says is about the thread's connection, while it serves it.
SlotOwned ==
    /\ \A s \in Slots : fd[s] # NoConn =>
          pc[s] \in {"serve", "del"} /\ fd[s] = accept_fd[s]
    /\ \A s \in Held : addr[s] = accept_fd[s]
    /\ \A s \in Slots : serv_stat[s] \in {1, 3} =>
          pc[s] \in {"serve", "del"} /\ accept_fd[s] \in subscribed

\* A connection that was sent something it had not asked for is open, and a
\* sender that has decided again for its slot has done so because it asked.
SenderSafe ==
    /\ \A p \in stray : conn[p[2]] = "open"
    /\ \A t \in Senders, s \in Slots :
          snd[t] = s /\ <<t, accept_fd[s]>> \in stray => accept_fd[s] \in subscribed
    /\ ~again

SessInv == TypeOK /\ Connected /\ SlotOwned /\ SenderSafe /\ UsersCounted

-----------------------------------------------------------------------------
(* Types *)

\* The counters stay numbers.
LEMMA CountedTyped ==
    ASSUME NEW c, NEW n \in Int, lan_usrs \in Int, wan_usrs \in Int, Counted(c, n)
    PROVE  lan_usrs' \in Int /\ wan_usrs' \in Int
PROOF BY DEF Counted

\* The steps of a thread keep the types.
LEMMA ThreadTyped ==
    ASSUME TypeOK, Connected, NEW s \in Slots, ThreadStep(s)
    PROVE  TypeOK'
PROOF
<1>. USE DEF TypeOK, Goes, hist, slot, counts, Conns
<1>1. CASE Listen(s)
  BY <1>1 DEF Listen
<1>2. CASE Accept(s)
  BY <1>2 DEF Accept, InitAvUsrInfo
<1>3. CASE AddUsr(s)
  <2>1. lan_usrs' \in Int /\ wan_usrs' \in Int
    BY <1>3, CountedTyped DEF AddUsr, AddAvUsrList
  <2>. QED
    BY <1>3, <2>1 DEF AddUsr, AddAvUsrList
<1>4. CASE RefuseBusy(s)
  BY <1>4 DEF RefuseBusy, Closed
<1>5. CASE SetFd(s)
  BY <1>5 DEF SetFd
<1>6. CASE LeaveServe(s)
  BY <1>6 DEF LeaveServe
<1>7. CASE DelUsr(s)
  <2>1. lan_usrs' \in Int /\ wan_usrs' \in Int
    BY <1>7, CountedTyped DEF DelUsr, DelAvUsrList
  <2>. QED
    BY <1>7, <2>1 DEF DelUsr, DelAvUsrList, InitAvUsrInfo
<1>8. CASE CloseConn(s)
  BY <1>8 DEF CloseConn, Closed
<1>. QED
  BY <1>1, <1>2, <1>3, <1>4, <1>5, <1>6, <1>7, <1>8 DEF ThreadStep

\* So do the others.
LEMMA OtherTyped ==
    ASSUME TypeOK, Connected, Next, \A s \in Slots : ~ThreadStep(s)
    PROVE  TypeOK'
PROOF
<1>. USE SessionAssumption DEF TypeOK, Goes, hist, slot, counts, Conns
<1>1. ASSUME NEW s \in Slots, AcceptFails(s)
      PROVE  TypeOK'
  BY <1>1 DEF AcceptFails
<1>2. ASSUME NEW s \in Slots, Subscribe(s)
      PROVE  TypeOK'
  <2>1. accept_fd[s] \in Clients
    BY <1>2 DEF Subscribe, Serving, Connected
  <2>. QED
    BY <1>2, <2>1 DEF Subscribe, Serving
<1>3. ASSUME NEW s \in Slots, Unsubscribe(s)
      PROVE  TypeOK'
  BY <1>3 DEF Unsubscribe
<1>4. ASSUME NEW t \in Senders, NEW s \in Slots, SendPick(t, s)
      PROVE  TypeOK'
  BY <1>4 DEF SendPick
<1>5. ASSUME NEW t \in Senders, SendFrame(t)
      PROVE  TypeOK'
  BY <1>5 DEF SendFrame
<1>6. ASSUME NEW c \in Clients, Arrive(c) \/ HangUp(c)
      PROVE  TypeOK'
  BY <1>6 DEF Arrive, HangUp
<1>. QED
  BY <1>1, <1>2, <1>3, <1>4, <1>5, <1>6 DEF Next

-----------------------------------------------------------------------------
(* Connections and slots *)

\* Every connection that was accepted has one thread, which closes it.
LEMMA ConnectedKept ==
    ASSUME TypeOK, Connected, Next
    PROVE  Connected'
PROOF
<1>. USE SessionAssumption DEF TypeOK, Connected, Goes, hist, slot, counts, Conns
<1>1. ASSUME NEW s \in Slots, Listen(s) \/ SetFd(s) \/ LeaveServe(s)
      PROVE  Connected'
  BY <1>1 DEF Listen, SetFd, LeaveServe
<1>2. ASSUME NEW s \in Slots, Accept(s)
      PROVE  Connected'
  BY <1>2 DEF Accept
<1>3. ASSUME NEW s \in Slots, AddUsr(s) \/ DelUsr(s)
      PROVE  Connected'
  BY <1>3 DEF AddUsr, DelUsr
<1>4. ASSUME NEW s \in Slots, RefuseBusy(s) \/ CloseConn(s)
      PROVE  Connected'
  <2>1. pc[s] \in {"add", "close"} /\ pc' = [pc EXCEPT ![s] = "wait"]
    BY <1>4 DEF RefuseBusy, CloseConn
  <2>2. /\ conn' = [conn EXCEPT ![accept_fd[s]] = "closed"]
        /\ accept_fd' = [accept_fd EXCEPT ![s] = NoConn]
    BY <1>4 DEF RefuseBusy, CloseConn, Closed
  <2>. QED
    BY <2>1, <2>2
<1>5. ASSUME NEW s \in Slots, AcceptFails(s) \/ Unsubscribe(s)
      PROVE  Connected'
  BY <1>5 DEF AcceptFails, Unsubscribe
<1>6. ASSUME NEW s \in Slots, Subscribe(s)
      PROVE  Connected'
  BY <1>6 DEF Subscribe, Serving
<1>7. ASSUME NEW t \in Senders, SendFrame(t) \/ \E s \in Slots : SendPick(t, s)
      PROVE  Connected'
  BY <1>7 DEF SendPick, SendFrame
<1>8. ASSUME NEW c \in Clients, Arrive(c) \/ HangUp(c)
      PROVE  Connected'
  BY <1>8 DEF Arrive, HangUp
<1>. QED
  BY <1>1, <1>2, <1>3, <1>4, <1>5, <1>6, <1>7, <1>8 DEF Next, ThreadStep

\* The slot is about the thread's connection: it is filled after accept and
\* emptied before close.
LEMMA SlotOwnedKept ==
    ASSUME TypeOK, Connected, SlotOwned, Next
    PROVE  SlotOwned'
PROOF
<1>. USE SessionAssumption DEF TypeOK, SlotOwned, Held, Goes, hist, slot, counts, Conns
<1>1. ASSUME NEW s \in Slots, Listen(s) \/ LeaveServe(s)
      PROVE  SlotOwned'
  BY <1>1 DEF Listen, LeaveServe
<1>2. ASSUME NEW s \in Slots, Accept(s)
      PROVE  SlotOwned'
  BY <1>2 DEF Accept, InitAvUsrInfo
<1>3. ASSUME NEW s \in Slots, AddUsr(s)
      PROVE  SlotOwned'
  BY <1>3 DEF AddUsr, AddAvUsrList
<1>4. ASSUME NEW s \in Slots, RefuseBusy(s) \/ CloseConn(s)
      PROVE  SlotOwned'
  <2>1. pc[s] \in {"add", "close"} /\ pc' = [pc EXCEPT ![s] = "wait"]
    BY <1>4 DEF RefuseBusy, CloseConn
  <2>2. /\ subscribed' = subscribed \ {accept_fd[s]}
        /\ accept_fd' = [accept_fd EXCEPT ![s] = NoConn]
        /\ UNCHANGED slot
    BY <1>4 DEF RefuseBusy, CloseConn, Closed
  <2>. QED
    BY <2>1, <2>2 DEF Connected
<1>5. ASSUME NEW s \in Slots, SetFd(s)
      PROVE  SlotOwned'
  BY <1>5 DEF SetFd
<1>6. ASSUME NEW s \in Slots, DelUsr(s)
      PROVE  SlotOwned'
  BY <1>6 DEF DelUsr, DelAvUsrList, InitAvUsrInfo
<1>7. ASSUME NEW s \in Slots, AcceptFails(s) \/ Unsubscribe(s)
      PROVE  SlotOwned'
  BY <1>7 DEF AcceptFails, Unsubscribe, Serving
<1>8. ASSUME NEW s \in Slots, Subscribe(s)
      PROVE  SlotOwned'
  BY <1>8 DEF Subscribe, Serving
<1>9. ASSUME NEW t \in Senders, SendFrame(t) \/ \E s \in Slots : SendPick(t, s)
      PROVE  SlotOwned'
  BY <1>9 DEF SendPick, SendFrame
<1>10. ASSUME NEW c \in Clients, Arrive(c) \/ HangUp(c)
      PROVE  SlotOwned'
  BY <1>10 DEF Arrive, HangUp
<1>. QED
  BY <1>1, <1>2, <1>3, <1>4, <1>5, <1>6, <1>7, <1>8, <1>9, <1>10
     DEF Next, ThreadStep

-----------------------------------------------------------------------------
(* The senders *)

\* Between a sender's look at serv_stat and its write the slot's client may
\* leave and another come, but not one to which that sender has already sent.
LEMMA SenderSafeKept ==
    ASSUME TypeOK, Connected, SlotOwned, SenderSafe, Next
    PROVE  SenderSafe'
PROOF
<1>. USE SessionAssumption DEF TypeOK, SenderSafe, Goes, hist, slot, counts, Conns
<1>1. ASSUME NEW s \in Slots, Accept(s)
      PROVE  SenderSafe'
  <2>1. PICK c \in Clients : /\ conn[c] = "queued"
                             /\ conn' = [conn EXCEPT ![c] = "open"]
                             /\ accept_fd' = [accept_fd EXCEPT ![s] = c]
    BY <1>1 DEF Accept
  <2>2. snd' = snd /\ stray' = stray /\ again' = again /\ subscribed' = subscribed
    BY <1>1 DEF Accept
  <2>3. \A p \in stray : p[2] # c /\ p[2] \in Clients
    BY <2>1
  <2>4. \A t \in Senders : <<t, c>> \notin stray
    BY <2>3
  <2>. QED
    BY <2>1, <2>2, <2>3, <2>4
<1>2. ASSUME NEW s \in Slots,
             \/ Listen(s) \/ AddUsr(s) \/ SetFd(s) \/ AcceptFails(s)
             \/ LeaveServe(s) \/ DelUsr(s) \/ Unsubscribe(s)
      PROVE  SenderSafe'
  BY <1>2 DEF Listen, AddUsr, SetFd, AcceptFails, LeaveServe, DelUsr, Unsubscribe
<1>3. ASSUME NEW s \in Slots, RefuseBusy(s) \/ CloseConn(s)
      PROVE  SenderSafe'
  <2>1. pc[s] \in {"add", "close"}
    BY <1>3 DEF RefuseBusy, CloseConn
  <2>2. /\ subscribed' = subscribed \ {accept_fd[s]}
        /\ stray' = {p \in stray : p[2] # accept_fd[s]}
        /\ accept_fd' = [accept_fd EXCEPT ![s] = NoConn]
        /\ conn' = [conn EXCEPT ![accept_fd[s]] = "closed"]
        /\ snd' = snd /\ again' = again
    BY <1>3 DEF RefuseBusy, CloseConn, Closed
  <2>3. \A p \in stray : p[2] \in Clients
    OBVIOUS
  <2>4. \A p \in stray' : conn'[p[2]] = "open"
    BY <2>2, <2>3
  <2>5. ASSUME NEW t \in Senders, NEW z \in Slots, snd'[t] = z,
               <<t, accept_fd'[z]>> \in stray'
        PROVE  accept_fd'[z] \in subscribed'
    <3>1. <<t, accept_fd'[z]>> \in stray /\ accept_fd'[z] # accept_fd[s]
      BY <2>2, <2>5
    <3>2. accept_fd'[z] \in Clients
      BY <3>1
    <3>3. z # s /\ accept_fd'[z] = accept_fd[z]
      BY <2>2, <3>2
    <3>. QED
      BY <2>2, <2>5, <3>1, <3>3
  <2>. QED
    BY <2>2, <2>4, <2>5
<1>4. ASSUME NEW s \in Slots, Subscribe(s)
      PROVE  SenderSafe'
  BY <1>4 DEF Subscribe, Serving
<1>5. ASSUME NEW t \in Senders, NEW s \in Slots, SendPick(t, s)
      PROVE  SenderSafe'
  BY <1>5 DEF SendPick, SlotOwned
<1>6. ASSUME NEW t \in Senders, SendFrame(t)
      PROVE  SenderSafe'
  <2>. DEFINE c == fd[snd[t]]
              strays == c \notin subscribed \union {NoConn}
  <2>1. /\ snd[t] \in Slots /\ snd' = [snd EXCEPT ![t] = NoSlot]
        /\ stray' = IF strays THEN stray \union {<<t, c>>} ELSE stray
        /\ again' = (again \/ (strays /\ <<t, c>> \in stray))
        /\ UNCHANGED <<conn, accept_fd, subscribed>>
    BY <1>6 DEF SendFrame
  <2>2. c # NoConn => c = accept_fd[snd[t]] /\ c \in Clients /\ conn[c] = "open"
    BY <2>1 DEF SlotOwned, Connected
  <2>. HIDE DEF c
  <2>3. ~again'
    BY <2>1, <2>2
  <2>4. \A p \in stray' : conn'[p[2]] = "open"
    BY <2>1, <2>2
  <2>5. ASSUME NEW u \in Senders, NEW z \in Slots, snd'[u] = z,
               <<u, accept_fd'[z]>> \in stray'
        PROVE  accept_fd'[z] \in subscribed'
    <3>1. u # t /\ snd[u] = z
      BY <2>1, <2>5 DEF NoSlot, Slots
    <3>2. <<u, accept_fd[z]>> \in stray
      BY <2>1, <2>5, <3>1
    <3>. QED
      BY <2>1, <3>1, <3>2
  <2>. QED
    BY <2>3, <2>4, <2>5
<1>7. ASSUME NEW c \in Clients, Arrive(c) \/ HangUp(c)
      PROVE  SenderSafe'
  <2>1. \A p \in stray : p[2] \in Clients
    OBVIOUS
  <2>. QED
    BY <1>7, <2>1 DEF Arrive, HangUp
<1>. QED
  BY <1>1, <1>2, <1>3, <1>4, <1>5, <1>6, <1>7 DEF Next, ThreadStep

-----------------------------------------------------------------------------
(* The counters *)

LanHeld == {s \in Held : IsLan(accept_fd[s])}
WanHeld == {s \in Held : ~IsLan(accept_fd[s])}

\* There are finitely many slots.
LEMMA HeldFinite == IsFiniteSet(LanHeld) /\ IsFiniteSet(WanHeld)
PROOF
<1>1. IsFiniteSet(Slots)
  BY SessionAssumption, FS_Interval DEF Slots
<1>2. LanHeld \subseteq Slots /\ WanHeld \subseteq Slots
  BY DEF LanHeld, WanHeld, Held
<1>. QED
  BY <1>1, <1>2, FS_Subset

\* A step that changes neither who holds a slot nor the counters.
LEMMA CountFrame ==
    ASSUME UsersCounted, Held' = Held, UNCHANGED counts,
           \A s \in Held : accept_fd'[s] = accept_fd[s]
    PROVE  UsersCounted'
PROOF
<1>1. LanHeld' = LanHeld /\ WanHeld' = WanHeld
  BY DEF LanHeld, WanHeld
<1>2. UsersCounted <=> /\ lan_usrs = Cardinality(LanHeld)
                       /\ wan_usrs = Cardinality(WanHeld)
  BY DEF UsersCounted, LanHeld, WanHeld
<1>3. UsersCounted' <=> /\ lan_usrs' = Cardinality(LanHeld')
                        /\ wan_usrs' = Cardinality(WanHeld')
  BY DEF UsersCounted, LanHeld, WanHeld
<1>. QED
  BY <1>1, <1>2, <1>3 DEF counts

\* The counters follow the slots that are held, each in its class.
LEMMA UsersCountedKept ==
    ASSUME TypeOK, Connected, SlotOwned, UsersCounted, Next
    PROVE  UsersCounted'
PROOF
<1>. USE DEF TypeOK, Goes, hist, slot, counts
<1>0. /\ lan_usrs = Cardinality(LanHeld) /\ wan_usrs = Cardinality(WanHeld)
      /\ (UsersCounted' <=> /\ lan_usrs' = Cardinality(LanHeld')
                            /\ wan_usrs' = Cardinality(WanHeld'))
  BY DEF UsersCounted, LanHeld, WanHeld
<1>1. ASSUME NEW s \in Slots, AddUsr(s)
      PROVE  UsersCounted'
  <2>1. /\ Held' = Held \union {s} /\ s \notin Held /\ accept_fd' = accept_fd
        /\ Counted(accept_fd[s], 1)
    BY <1>1 DEF AddUsr, AddAvUsrList, Held
  <2>2. CASE IsLan(accept_fd[s])
    <3>1. /\ LanHeld' = LanHeld \union {s} /\ s \notin LanHeld
          /\ WanHeld' = WanHeld
      BY <2>1, <2>2 DEF LanHeld, WanHeld
    <3>2. Cardinality(LanHeld') = Cardinality(LanHeld) + 1
      BY <3>1, HeldFinite, FS_AddElement
    <3>. QED
      BY <1>0, <2>1, <2>2, <3>1, <3>2 DEF Counted
  <2>3. CASE ~IsLan(accept_fd[s])
    <3>1. /\ WanHeld' = WanHeld \union {s} /\ s \notin WanHeld
          /\ LanHeld' = LanHeld
      BY <2>1, <2>3 DEF LanHeld, WanHeld
    <3>2. Cardinality(WanHeld') = Cardinality(WanHeld) + 1
      BY <3>1, HeldFinite, FS_AddElement
    <3>. QED
      BY <1>0, <2>1, <2>3, <3>1, <3>2 DEF Counted
  <2>. QED
    BY <2>2, <2>3
<1>2. ASSUME NEW s \in Slots, DelUsr(s)
      PROVE  UsersCounted'
  <2>1. /\ Held' = Held \ {s} /\ s \in Held /\ accept_fd' = accept_fd
        /\ Counted(accept_fd[s], -1)
    BY <1>2 DEF DelUsr, DelAvUsrList, SlotOwned, Held
  <2>2. CASE IsLan(accept_fd[s])
    <3>1. /\ LanHeld' = LanHeld \ {s} /\ s \in LanHeld
          /\ WanHeld' = WanHeld
      BY <2>1, <2>2 DEF LanHeld, WanHeld
    <3>2. Cardinality(LanHeld') = Cardinality(LanHeld) - 1
      BY <3>1, HeldFinite, FS_RemoveElement
    <3>. QED
      BY <1>0, <2>1, <2>2, <3>1, <3>2 DEF Counted
  <2>3. CASE ~IsLan(accept_fd[s])
    <3>1. /\ WanHeld' = WanHeld \ {s} /\ s \in WanHeld
          /\ LanHeld' = LanHeld
      BY <2>1, <2>3 DEF LanHeld, WanHeld
    <3>2. Cardinality(WanHeld') = Cardinality(WanHeld) - 1
      BY <3>1, HeldFinite, FS_RemoveElement
    <3>. QED
      BY <1>0, <2>1, <2>3, <3>1, <3>2 DEF Counted
  <2>. QED
    BY <2>2, <2>3
<1>3. ASSUME NEW s \in Slots, ThreadStep(s), ~AddUsr(s), ~DelUsr(s)
      PROVE  UsersCounted'
  <2>1. Held' = Held /\ UNCHANGED counts
    BY <1>3 DEF ThreadStep, Listen, Accept, RefuseBusy, SetFd, LeaveServe,
                CloseConn, Held
  <2>2. \A z \in Held : accept_fd'[z] = accept_fd[z]
    BY <1>3 DEF ThreadStep, Listen, Accept, RefuseBusy, SetFd, LeaveServe,
                CloseConn, Held
  <2>. QED
    BY <2>1, <2>2, CountFrame
<1>4. ASSUME NEW s \in Slots, AcceptFails(s) \/ Subscribe(s) \/ Unsubscribe(s)
      PROVE  UsersCounted'
  <2>1. Held' = Held /\ UNCHANGED counts /\ accept_fd' = accept_fd
    BY <1>4 DEF AcceptFails, Subscribe, Unsubscribe, Serving, Held
  <2>. QED
    BY <2>1, CountFrame
<1>5. ASSUME NEW t \in Senders, SendFrame(t) \/ \E s \in Slots : SendPick(t, s)
      PROVE  UsersCounted'
  <2>1. Held' = Held /\ UNCHANGED counts /\ accept_fd' = accept_fd
    BY <1>5 DEF SendFrame, SendPick, Held
  <2>. QED
    BY <2>1, CountFrame
<1>6. ASSUME NEW c \in Clients, Arrive(c) \/ HangUp(c)
      PROVE  UsersCounted'
  <2>1. Held' = Held /\ UNCHANGED counts /\ accept_fd' = accept_fd
    BY <1>6 DEF Arrive, HangUp, Held
  <2>. QED
    BY <2>1, CountFrame
<1>. QED
  BY <1>1, <1>2, <1>3, <1>4, <1>5, <1>6 DEF Next

-----------------------------------------------------------------------------
(* The theorems *)

\* The server before its first client.
LEMMA SessInit == Init => SessInv
PROOF
<1>. SUFFICES ASSUME Init PROVE SessInv
  OBVIOUS
<1>. USE SessionAssumption DEF Init, InitServer
<1>1. TypeOK
  <2>1. again \in BOOLEAN
    OBVIOUS
  <2>2. used \in [Slots -> BOOLEAN]
    OBVIOUS
  <2>3. errors \in 0..MaxErrors /\ lan_usrs \in Int /\ wan_usrs \in Int
    OBVIOUS
  <2>. QED
    BY <2>1, <2>2, <2>3 DEF TypeOK, Conns
<1>2. Connected /\ SlotOwned
  BY DEF Connected, SlotOwned, Held
<1>3. SenderSafe
  BY DEF SenderSafe
<1>4. UsersCounted
  <2>1. LanHeld = {} /\ WanHeld = {}
    BY DEF LanHeld, WanHeld, Held
  <2>. QED
    BY <2>1, FS_EmptySet DEF UsersCounted, LanHeld, WanHeld
<1>. QED
  BY <1>1, <1>2, <1>3, <1>4 DEF SessInv

\* Every step keeps the invariant.
LEMMA SessStep == SessInv /\ [Next]_vars => SessInv'
PROOF
<1>. SUFFICES ASSUME SessInv, [Next]_vars PROVE SessInv'
  OBVIOUS
<1>. USE DEF SessInv
<1>1. CASE Next
  <2>1. TypeOK'
    BY <1>1, ThreadTyped, OtherTyped
  <2>. QED
    BY <1>1, <2>1, ConnectedKept, SlotOwnedKept, SenderSafeKept, UsersCountedKept
<1>2. CASE UNCHANGED vars
  <2>. USE <1>2 DEF vars, slot, counts, hist
  <2>1. TypeOK'
    BY DEF TypeOK
  <2>2. Connected' /\ SlotOwned' /\ SenderSafe'
    BY DEF Connected, SlotOwned, SenderSafe, Held
  <2>3. UsersCounted'
    BY CountFrame DEF Held
  <2>. QED
    BY <2>1, <2>2, <2>3
<1>. QED
  BY <1>1, <1>2

\* The invariant holds of every behaviour of the service.
LEMMA SessionInvariant == Spec => []SessInv
PROOF BY SessInit, SessStep, PTL DEF Spec

\* Every variable keeps its type, whatever the limits.
THEOREM SessionTypeCorrect == Spec => []TypeOK
PROOF BY SessionInvariant, PTL DEF SessInv

\* lan_usrs and wan_usrs are the numbers of users that hold a slot, however a
\* client's session ends: without users of the SDK, showbug() in
\* del_av_usr_list is not reached.
THEOREM UserCountsExact == Spec => []UsersCounted
PROOF BY SessionInvariant, PTL DEF SessInv

\* usr->fd is the open connection of the slot's own client.
THEOREM SlotFdOwned == Spec => []FdOwned
PROOF
<1>1. SessInv => FdOwned
  BY SessionAssumption DEF SessInv, Connected, SlotOwned, FdOwned
<1>. QED
  BY <1>1, SessionInvariant, PTL

\* send_media_frames, which looks at serv_stat without a lock, sends to a
\* client that has not subscribed at most once for each kind of media,
\* however slots change hands between the look and the write.
THEOREM StrayFrameOnce == Spec => []StrayOnce
PROOF
<1>1. SessInv => StrayOnce
  BY DEF SessInv, SenderSafe, StrayOnce
<1>. QED
  BY <1>1, SessionInvariant, PTL
=============================================================================
