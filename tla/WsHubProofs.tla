---------------------------- MODULE WsHubProofs ----------------------------
(***************************************************************************)
(* Proofs about WsHub: for any number of connections, rooms, IPs and       *)
(* messages, any limits and any buffer sizes, the counters of the hub are  *)
(* exact, and the map, the rooms and the clients agree.                    *)
(***************************************************************************)
EXTENDS WsHub, FiniteSetTheorems, TLAPS

\* The program points at which a client object is known to its room.
In == {"registered", "serving"}

-----------------------------------------------------------------------------
(* Counting.                                                               *)

\* Taking a part away from a finite set.
LEMMA CountWithout ==
    ASSUME NEW S, IsFiniteSet(S), NEW T \in SUBSET S
    PROVE  /\ IsFiniteSet(S \ T)
           /\ Cardinality(S) \in Nat /\ Cardinality(T) \in Nat /\ Cardinality(S \ T) \in Nat
           /\ Cardinality(S \ T) = Cardinality(S) - Cardinality(T)
           /\ Cardinality(T) <= Cardinality(S)
<1>1. IsFiniteSet(T) /\ Cardinality(T) <= Cardinality(S)
  BY FS_Subset
<1>2. S \cap T = T
  OBVIOUS
<1>3. IsFiniteSet(S \ T) /\ Cardinality(S \ T) = Cardinality(S) - Cardinality(T)
  BY <1>2, FS_Difference
<1> QED
  BY <1>1, <1>3, FS_CardinalityType

\* Subsets of the connections are finite.
LEMMA ConnsCount ==
    ASSUME NEW S \in SUBSET Conns
    PROVE  IsFiniteSet(S) /\ Cardinality(S) \in Nat
  BY HubConstants, FS_Subset, FS_CardinalityType

\* A release that is due lowers the counter by one for each holder.
LEMMA ReleasedIsExact ==
    ASSUME NEW n \in Nat, NEW k \in Nat, k <= n
    PROVE  Released(n, k) = n - k /\ Released(n, k) \in Nat
  BY DEF Released

\* When holders release their quota and hold none afterwards, the counters are
\* still exact.
LEMMA QuotaReleased ==
    ASSUME QuotaExact, NEW R \in SUBSET Holders, Release(R), Holders' = Holders \ R
    PROVE  /\ QuotaExact'
           /\ connCounter' \in [IPs -> Nat] /\ roomConnCount' \in [RoomIds -> Nat]
<1>1. ASSUME NEW i \in IPs
      PROVE  /\ connCounter'[i] = Cardinality({c \in Holders' : IpOf[c] = i})
             /\ connCounter'[i] \in Nat
  <2> DEFINE S == {c \in Holders : IpOf[c] = i}
             T == {c \in R : IpOf[c] = i}
  <2>1. IsFiniteSet(S) /\ T \in SUBSET S /\ {c \in Holders' : IpOf[c] = i} = S \ T
    BY ConnsCount DEF Holders
  <2>2. connCounter[i] = Cardinality(S)
    BY DEF QuotaExact
  <2>3. connCounter'[i] = Released(connCounter[i], Cardinality(T))
    BY DEF Release
  <2> HIDE DEF S, T
  <2>4. /\ Cardinality(S) \in Nat /\ Cardinality(T) \in Nat /\ Cardinality(T) <= Cardinality(S)
        /\ Cardinality(S \ T) = Cardinality(S) - Cardinality(T)
    BY <2>1, CountWithout
  <2> QED
    BY <2>1, <2>2, <2>3, <2>4, ReleasedIsExact
<1>2. ASSUME NEW i \in RoomIds
      PROVE  /\ roomConnCount'[i] = Cardinality({c \in Holders' : RoomOf[c] = i})
             /\ roomConnCount'[i] \in Nat
  <2> DEFINE S == {c \in Holders : RoomOf[c] = i}
             T == {c \in R : RoomOf[c] = i}
  <2>1. IsFiniteSet(S) /\ T \in SUBSET S /\ {c \in Holders' : RoomOf[c] = i} = S \ T
    BY ConnsCount DEF Holders
  <2>2. roomConnCount[i] = Cardinality(S)
    BY DEF QuotaExact
  <2>3. roomConnCount'[i] = Released(roomConnCount[i], Cardinality(T))
    BY DEF Release
  <2> HIDE DEF S, T
  <2>4. /\ Cardinality(S) \in Nat /\ Cardinality(T) \in Nat /\ Cardinality(T) <= Cardinality(S)
        /\ Cardinality(S \ T) = Cardinality(S) - Cardinality(T)
    BY <2>1, CountWithout
  <2> QED
    BY <2>1, <2>2, <2>3, <2>4, ReleasedIsExact
<1>3. /\ connCounter' = [i \in IPs |-> connCounter'[i]]
      /\ roomConnCount' = [i \in RoomIds |-> roomConnCount'[i]]
  BY DEF Release
<1> QED
  BY <1>1, <1>2, <1>3 DEF QuotaExact

\* A connection that was admitted holds one unit more of its IP and its room.
LEMMA QuotaAcquired ==
    ASSUME QuotaExact, NEW c \in Conns, c \notin Holders, Holders' = Holders \cup {c},
           connCounter \in [IPs -> Nat], roomConnCount \in [RoomIds -> Nat],
           connCounter' = [connCounter EXCEPT ![IpOf[c]] = @ + 1],
           roomConnCount' = [roomConnCount EXCEPT ![RoomOf[c]] = @ + 1]
    PROVE  QuotaExact'
<1>1. ASSUME NEW i \in IPs
      PROVE  connCounter'[i] = Cardinality({d \in Holders' : IpOf[d] = i})
  <2> DEFINE S == {d \in Holders : IpOf[d] = i}
  <2>1. IsFiniteSet(S) /\ c \notin S
    BY ConnsCount DEF Holders
  <2>2. connCounter[i] = Cardinality(S)
    BY DEF QuotaExact
  <2>3. CASE IpOf[c] = i
    <3>1. {d \in Holders' : IpOf[d] = i} = S \cup {c}
      BY <2>3
    <3>2. connCounter'[i] = connCounter[i] + 1
      BY <2>3
    <3> HIDE DEF S
    <3>3. Cardinality(S \cup {c}) = Cardinality(S) + 1
      BY <2>1, FS_AddElement
    <3> QED
      BY <2>2, <3>1, <3>2, <3>3
  <2>4. CASE IpOf[c] # i
    <3>1. {d \in Holders' : IpOf[d] = i} = S
      BY <2>4
    <3>2. connCounter'[i] = connCounter[i]
      BY <2>4
    <3> QED
      BY <2>2, <3>1, <3>2
  <2> QED
    BY <2>3, <2>4
<1>2. ASSUME NEW i \in RoomIds
      PROVE  roomConnCount'[i] = Cardinality({d \in Holders' : RoomOf[d] = i})
  <2> DEFINE S == {d \in Holders : RoomOf[d] = i}
  <2>1. IsFiniteSet(S) /\ c \notin S
    BY ConnsCount DEF Holders
  <2>2. roomConnCount[i] = Cardinality(S)
    BY DEF QuotaExact
  <2>3. CASE RoomOf[c] = i
    <3>1. {d \in Holders' : RoomOf[d] = i} = S \cup {c}
      BY <2>3
    <3>2. roomConnCount'[i] = roomConnCount[i] + 1
      BY <2>3
    <3> HIDE DEF S
    <3>3. Cardinality(S \cup {c}) = Cardinality(S) + 1
      BY <2>1, FS_AddElement
    <3> QED
      BY <2>2, <3>1, <3>2, <3>3
  <2>4. CASE RoomOf[c] # i
    <3>1. {d \in Holders' : RoomOf[d] = i} = S
      BY <2>4
    <3>2. roomConnCount'[i] = roomConnCount[i]
      BY <2>4
    <3> QED
      BY <2>2, <3>1, <3>2
  <2> QED
    BY <2>3, <2>4
<1> QED
  BY <1>1, <1>2 DEF QuotaExact

\* client.stop gives back the quota of exactly those that were not stopped
\* before, whoever calls it and however often.
LEMMA QuotaStopped ==
    ASSUME QuotaExact, NEW S \in SUBSET Conns, \A c \in S : serve[c] \in In,
           Stop(S), serve' = serve
    PROVE  /\ QuotaExact'
           /\ connCounter' \in [IPs -> Nat] /\ roomConnCount' \in [RoomIds -> Nat]
           /\ done' = [c \in Conns |-> done[c] \/ c \in S]
<1> DEFINE R == {c \in S : ~done[c]}
<1>1. Release(R) /\ done' = [c \in Conns |-> done[c] \/ c \in S]
  BY DEF Stop
<1>2. R \in SUBSET Holders
  BY DEF Holders, In
<1>3. Holders' = Holders \ R
  BY <1>1 DEF Holders, In
<1> HIDE DEF R
<1> QED
  BY <1>1, <1>2, <1>3, QuotaReleased

\* The handshake gives its quota back when it ends in a refusal.
LEMMA QuotaRefused ==
    ASSUME TypeOK, QuotaExact, NEW c \in Conns, c \in Holders, serve[c] \notin In,
           Release({c}), serve' = [serve EXCEPT ![c] = "refused"], done' = done
    PROVE  /\ QuotaExact'
           /\ connCounter' \in [IPs -> Nat] /\ roomConnCount' \in [RoomIds -> Nat]
<1>1. Holders' = Holders \ {c}
  BY DEF Holders, In, TypeOK
<1> QED
  BY <1>1, QuotaReleased

-----------------------------------------------------------------------------
(* The parts of the invariant.                                             *)

LEMMA HubInit == Init => HubInv
<1> SUFFICES ASSUME Init PROVE HubInv
  OBVIOUS
<1>1. TypeOK
  <2>1. SendBufferSize \in Nat /\ BroadcastBufferSize \in Nat /\ MaxReplies \in [Conns -> Nat]
    BY HubConstants
  <2>2. /\ send \in [Conns -> Seq(Messages \cup {Reply})]
        /\ \A c \in Conns : Len(send[c]) <= SendBufferSize
    BY <2>1 DEF Init
  <2>3. /\ broadcast \in [Conns -> Seq(Messages)]
        /\ \A o \in Conns : Len(broadcast[o]) <= BroadcastBufferSize
    BY <2>1 DEF Init
  <2>4. owed \in [Conns -> Nat] /\ \A c \in Conns : owed[c] <= MaxReplies[c]
    BY <2>1 DEF Init
  <2> QED
    BY <2>2, <2>3, <2>4 DEF Init, TypeOK
<1>2. ConnInv /\ RoomInv /\ MapInv /\ OpenIsMember
  BY DEF Init, ConnInv, RoomInv, MapInv, OpenIsMember
<1>3. CountIsClients
  BY FS_EmptySet DEF Init, CountIsClients
<1>4. Holders = {}
  BY DEF Init, Holders
<1>5. QuotaExact
  <2>1. \A i : {c \in Holders : IpOf[c] = i} = {} /\ {c \in Holders : RoomOf[c] = i} = {}
    BY <1>4
  <2> QED
    BY <2>1, FS_EmptySet DEF Init, QuotaExact
<1> QED
  BY <1>1, <1>2, <1>3, <1>5 DEF HubInv

\* The counters of the quota stay exact, and with them their types.
LEMMA QuotaKept ==
    ASSUME HubInv, [Next]_vars
    PROVE  /\ QuotaExact'
           /\ connCounter' \in [IPs -> Nat] /\ roomConnCount' \in [RoomIds -> Nat]
           /\ done' \in [Conns -> BOOLEAN]
<1> DEFINE Good == /\ QuotaExact'
                   /\ connCounter' \in [IPs -> Nat] /\ roomConnCount' \in [RoomIds -> Nat]
                   /\ done' \in [Conns -> BOOLEAN]
<1> SUFFICES Good
  OBVIOUS
<1> USE DEF clientVars, roomVars, hubVars, quotaVars, sendVars
<1>0. TypeOK /\ QuotaExact /\ ConnInv /\ RoomInv
      /\ serve \in [Conns -> {"idle", "acquired", "upgraded", "admitted", "joining",
                              "registered", "serving", "refused"}]
      /\ done \in [Conns -> BOOLEAN]
      /\ connCounter \in [IPs -> Nat] /\ roomConnCount \in [RoomIds -> Nat]
  BY DEF HubInv, TypeOK
<1>a. ASSUME Holders' = Holders, UNCHANGED <<connCounter, roomConnCount, done>> PROVE Good
  BY <1>0, <1>a DEF QuotaExact
<1>b. ASSUME NEW c \in Conns, c \in Holders, serve[c] \notin In, Release({c}),
             serve' = [serve EXCEPT ![c] = "refused"], done' = done
      PROVE  Good
  BY <1>0, <1>b, QuotaRefused
<1>c. ASSUME NEW S \in SUBSET Conns, \A c \in S : serve[c] \in In, Stop(S), serve' = serve
      PROVE  Good
  <2>1. /\ QuotaExact'
        /\ connCounter' \in [IPs -> Nat] /\ roomConnCount' \in [RoomIds -> Nat]
        /\ done' = [c \in Conns |-> done[c] \/ c \in S]
    BY <1>0, <1>c, QuotaStopped
  <2>2. done' \in [Conns -> BOOLEAN]
    BY <2>1
  <2> QED
    BY <2>1, <2>2
<1>d. ASSUME UNCHANGED <<serve, done, connCounter, roomConnCount>> PROVE Good
  <2>1. Holders' = Holders
    BY <1>d DEF Holders
  <2> QED
    BY <1>a, <1>d, <2>1
<1> HIDE DEF Good
<1>1. ASSUME NEW c \in Conns, Accept(c) PROVE Good
  <2>1. CASE serve' = [serve EXCEPT ![c] = "refused"] /\ UNCHANGED quotaVars
    <3>1. Holders' = Holders
      BY <1>0, <1>1, <2>1 DEF Holders, Accept
    <3> QED
      BY <1>1, <1>a, <2>1, <3>1 DEF Accept
  <2>2. CASE /\ serve' = [serve EXCEPT ![c] = "acquired"]
             /\ connCounter' = [connCounter EXCEPT ![IpOf[c]] = @ + 1]
             /\ roomConnCount' = [roomConnCount EXCEPT ![RoomOf[c]] = @ + 1]
    <3>1. c \notin Holders /\ Holders' = Holders \cup {c}
      BY <1>0, <1>1, <2>2 DEF Holders, Accept
    <3>2. QuotaExact'
      BY <1>0, <2>2, <3>1, QuotaAcquired
    <3>3. connCounter' \in [IPs -> Nat] /\ roomConnCount' \in [RoomIds -> Nat]
      <4>1. IpOf[c] \in IPs /\ RoomOf[c] \in RoomIds
        BY HubConstants
      <4>2. connCounter[IpOf[c]] + 1 \in Nat /\ roomConnCount[RoomOf[c]] + 1 \in Nat
        BY <1>0, <4>1
      <4> QED
        BY <1>0, <2>2, <4>2
    <3> QED
      BY <1>0, <1>1, <3>2, <3>3 DEF Accept, Good
  <2> QED
    BY <1>1, <2>1, <2>2 DEF Accept
<1>2. ASSUME NEW c \in Conns, Upgrade(c) \/ CheckShuttingDown(c) \/ RegisterRefused(c) PROVE Good
  <2>1. c \in Holders /\ serve[c] \notin In /\ done' = done
    BY <1>2 DEF Upgrade, CheckShuttingDown, RegisterRefused, Holders, In
  <2>2. CASE serve' = [serve EXCEPT ![c] = "refused"] /\ Release({c})
    BY <1>b, <2>1, <2>2
  <2>3. CASE /\ UNCHANGED quotaVars
             /\ \/ serve[c] = "acquired" /\ serve' = [serve EXCEPT ![c] = "upgraded"]
                \/ serve[c] = "upgraded" /\ serve' = [serve EXCEPT ![c] = "admitted"]
    <3>1. Holders' = Holders
      BY <1>0, <2>1, <2>3 DEF Holders
    <3> QED
      BY <1>a, <2>1, <2>3, <3>1
  <2> QED
    BY <1>2, <2>2, <2>3 DEF Upgrade, CheckShuttingDown, RegisterRefused
<1>3. ASSUME NEW c \in Conns, GetOrCreateRoom(c) PROVE Good
  <2>1. Holders' = Holders
    BY <1>0, <1>3 DEF Holders, GetOrCreateRoom
  <2> QED
    BY <1>3, <1>a, <2>1 DEF GetOrCreateRoom
<1>4. ASSUME NEW c \in Conns, Register(c) PROVE Good
  <2>1. ~done[c]
    BY <1>0, <1>4 DEF Register, ConnInv
  <2>2. Holders' = Holders
    BY <1>0, <1>4, <2>1 DEF Holders, Register
  <2> QED
    BY <1>4, <1>a, <2>2 DEF Register
<1>5. ASSUME NEW c \in Conns, StartPumps(c) PROVE Good
  <2>1. Holders' = Holders
    BY <1>0, <1>5 DEF Holders, StartPumps
  <2> QED
    BY <1>5, <1>a, <2>1 DEF StartPumps
<1>6. ASSUME NEW c \in Conns, ReadPumpExit(c) \/ WritePumpExit(c) PROVE Good
  <2>1. serve[c] = "serving" /\ Stop({c}) /\ serve' = serve
    BY <1>0, <1>6 DEF ConnInv, ReadPumpExit, WritePumpExit
  <2> QED
    BY <1>c, <2>1 DEF In
<1>7. ASSUME NEW c \in Conns, Unregister(c) PROVE Good
  <2>1. serve[c] = "serving" /\ serve' = serve
        /\ (Stop({c}) \/ UNCHANGED <<done, connCounter, roomConnCount>>)
    BY <1>0, <1>7 DEF ConnInv, Unregister
  <2> QED
    BY <1>c, <1>d, <2>1 DEF In
<1>8. ASSUME NEW o \in Conns, BroadcastToClients(o) \/ RunDone(o) PROVE Good
  <2>1. \E S \in SUBSET clients[o] : Stop(S) /\ serve' = serve
    BY <1>8 DEF BroadcastToClients, RunDone, Slow
  <2>2. clients[o] \in SUBSET Conns /\ \A c \in clients[o] : serve[c] \in In
    BY <1>0 DEF RoomInv, In, TypeOK
  <2> QED
    BY <1>c, <2>1, <2>2
<1>9. ASSUME NEW c \in Conns, \/ EnqueueReply(c) \/ ReadError(c) \/ UnregisterRoomDone(c)
                              \/ WriteMessage(c) \/ RemoveRoomIfSame(c) \/ RunStop(c)
      PROVE  Good
  BY <1>9, <1>d DEF EnqueueReply, ReadError, UnregisterRoomDone, WriteMessage, RemoveRoomIfSame, RunStop
<1>10. ASSUME NEW m \in Messages, FindRoom(m) \/ SendToRoom(m) PROVE Good
  BY <1>10, <1>d DEF FindRoom, SendToRoom
<1>11. CASE ShutdownBegin \/ ShutdownStopRooms \/ UNCHANGED vars
  BY <1>11, <1>d DEF ShutdownBegin, ShutdownStopRooms, vars
<1> QED
  BY <1>1, <1>2, <1>3, <1>4, <1>5, <1>6, <1>7, <1>8, <1>9, <1>10, <1>11 DEF Next, ServeStep, RunStep

\* Room.count stays the number of clients.
LEMMA CountKept ==
    ASSUME HubInv, [Next]_vars
    PROVE  CountIsClients' /\ count' \in [Conns -> Nat] /\ clients' \in [Conns -> SUBSET Conns]
<1> DEFINE Good == CountIsClients' /\ count' \in [Conns -> Nat] /\ clients' \in [Conns -> SUBSET Conns]
<1> SUFFICES Good
  OBVIOUS
<1> USE DEF clientVars, roomVars, hubVars, quotaVars, sendVars
<1>0. /\ CountIsClients /\ ConnInv /\ RoomInv
      /\ count \in [Conns -> Nat] /\ clients \in [Conns -> SUBSET Conns]
  BY DEF HubInv, TypeOK
<1>a. ASSUME UNCHANGED <<count, clients>> PROVE Good
  BY <1>0, <1>a DEF CountIsClients
<1>b. ASSUME NEW o \in Conns, NEW T \in SUBSET clients[o],
             clients' = [clients EXCEPT ![o] = @ \ T],
             count' = [count EXCEPT ![o] = @ - Cardinality(T)]
      PROVE  Good
  <2>1. IsFiniteSet(clients[o]) /\ count[o] = Cardinality(clients[o])
    BY <1>0, ConnsCount DEF CountIsClients
  <2>2. count[o] - Cardinality(T) = Cardinality(clients[o] \ T) /\ Cardinality(clients[o] \ T) \in Nat
    BY <2>1, CountWithout
  <2>3. count'[o] = Cardinality(clients'[o]) /\ count' \in [Conns -> Nat]
        /\ clients' \in [Conns -> SUBSET Conns]
    BY <1>0, <1>b, <2>2
  <2>4. \A p \in Conns : p # o => count'[p] = Cardinality(clients'[p])
    BY <1>0, <1>b DEF CountIsClients
  <2> QED
    BY <2>3, <2>4 DEF CountIsClients
<1> HIDE DEF Good
<1>1. ASSUME NEW c \in Conns, Register(c) PROVE Good
  <2> DEFINE o == room[c]
  <2>1. o \in Conns /\ c \notin clients[o]
    BY <1>0, <1>1 DEF Register, ConnInv, RoomInv
  <2>2. clients' = [clients EXCEPT ![o] = @ \cup {c}] /\ count' = [count EXCEPT ![o] = @ + 1]
    BY <1>1 DEF Register
  <2> HIDE DEF o
  <2>3. IsFiniteSet(clients[o]) /\ count[o] = Cardinality(clients[o])
    BY <1>0, <2>1, ConnsCount DEF CountIsClients
  <2>4. Cardinality(clients[o] \cup {c}) = count[o] + 1
    BY <2>1, <2>3, FS_AddElement
  <2>5. count'[o] = Cardinality(clients'[o]) /\ count' \in [Conns -> Nat]
        /\ clients' \in [Conns -> SUBSET Conns]
    BY <1>0, <2>1, <2>2, <2>4
  <2>6. \A p \in Conns : p # o => count'[p] = Cardinality(clients'[p])
    BY <1>0, <2>2 DEF CountIsClients
  <2> QED
    BY <2>5, <2>6 DEF CountIsClients, Good
<1>2. ASSUME NEW c \in Conns, Unregister(c) PROVE Good
  <2>1. room[c] \in Conns
    BY <1>0, <1>2 DEF Unregister, ConnInv
  <2>2. CASE c \in clients[room[c]]
    <3>1. /\ clients' = [clients EXCEPT ![room[c]] = @ \ {c}]
          /\ count' = [count EXCEPT ![room[c]] = @ - 1]
      BY <1>2, <2>2 DEF Unregister
    <3>2. Cardinality({c}) = 1 /\ {c} \in SUBSET clients[room[c]]
      BY <2>2, FS_Singleton
    <3> QED
      BY <1>b, <2>1, <2>2, <3>1, <3>2
  <2>3. CASE c \notin clients[room[c]]
    BY <1>2, <1>a, <2>3 DEF Unregister
  <2> QED
    BY <2>2, <2>3
<1>3. ASSUME NEW o \in Conns, BroadcastToClients(o) PROVE Good
  <2>1. Slow(o) \in SUBSET clients[o]
    BY DEF Slow
  <2> QED
    BY <1>3, <1>b, <2>1 DEF BroadcastToClients
<1>4. ASSUME NEW o \in Conns, RunDone(o) PROVE Good
  <2>1. clients' = [clients EXCEPT ![o] = {}] /\ count' = [count EXCEPT ![o] = 0]
    BY <1>4 DEF RunDone
  <2> QED
    BY <1>0, <2>1, FS_EmptySet DEF CountIsClients, Good
<1>5. ASSUME NEW c \in Conns,
             \/ Accept(c) \/ Upgrade(c) \/ CheckShuttingDown(c) \/ GetOrCreateRoom(c)
             \/ RegisterRefused(c) \/ StartPumps(c) \/ EnqueueReply(c) \/ ReadError(c)
             \/ UnregisterRoomDone(c) \/ ReadPumpExit(c) \/ WriteMessage(c) \/ WritePumpExit(c)
             \/ RemoveRoomIfSame(c) \/ RunStop(c)
      PROVE  Good
  BY <1>5, <1>a DEF Accept, Upgrade, CheckShuttingDown, GetOrCreateRoom, RegisterRefused, StartPumps,
     EnqueueReply, ReadError, UnregisterRoomDone, ReadPumpExit, WriteMessage, WritePumpExit,
     RemoveRoomIfSame, RunStop
<1>6. ASSUME NEW m \in Messages, FindRoom(m) \/ SendToRoom(m) PROVE Good
  BY <1>6, <1>a DEF FindRoom, SendToRoom
<1>7. CASE ShutdownBegin \/ ShutdownStopRooms \/ UNCHANGED vars
  BY <1>7, <1>a DEF ShutdownBegin, ShutdownStopRooms, vars
<1> QED
  BY <1>1, <1>2, <1>3, <1>4, <1>5, <1>6, <1>7 DEF Next, ServeStep, RunStep

\* The buffers stay within their capacities.
LEMMA BuffersKept ==
    ASSUME HubInv, [Next]_vars
    PROVE  /\ send' \in [Conns -> Seq(Messages \cup {Reply})]
           /\ \A c \in Conns : Len(send'[c]) <= SendBufferSize
           /\ broadcast' \in [Conns -> Seq(Messages)]
           /\ \A o \in Conns : Len(broadcast'[o]) <= BroadcastBufferSize
<1> DEFINE Items == Messages \cup {Reply}
           Sends == /\ send' \in [Conns -> Seq(Items)]
                    /\ \A c \in Conns : Len(send'[c]) <= SendBufferSize
           Broadcasts == /\ broadcast' \in [Conns -> Seq(Messages)]
                         /\ \A o \in Conns : Len(broadcast'[o]) <= BroadcastBufferSize
<1> SUFFICES Sends /\ Broadcasts
  OBVIOUS
<1> USE DEF clientVars, roomVars, hubVars, quotaVars, sendVars
<1>0. /\ send \in [Conns -> Seq(Items)] /\ \A c \in Conns : Len(send[c]) <= SendBufferSize
      /\ broadcast \in [Conns -> Seq(Messages)]
      /\ \A o \in Conns : Len(broadcast[o]) <= BroadcastBufferSize
      /\ clients \in [Conns -> SUBSET Conns]
      /\ found \in [Messages -> Conns \cup {NoRoom}] /\ MapInv
  BY DEF HubInv, TypeOK
<1>1. SendBufferSize \in Nat /\ BroadcastBufferSize \in Nat
  BY HubConstants
<1>2. Messages \subseteq Items /\ Reply \in Items
  OBVIOUS
<1> HIDE DEF Items
<1>a. send' = send => Sends
  BY <1>0
<1>b. broadcast' = broadcast => Broadcasts
  BY <1>0
<1>c. ASSUME NEW S, NEW s \in Seq(S), s # <<>>, NEW n \in Nat, Len(s) <= n
      PROVE  Tail(s) \in Seq(S) /\ Len(Tail(s)) <= n
  <2>1. Tail(s) \in Seq(S) /\ Len(Tail(s)) = Len(s) - 1 /\ Len(s) \in Nat
    BY <1>c
  <2> QED
    BY <1>c, <2>1
<1>d. ASSUME NEW S, NEW s \in Seq(S), NEW x \in S, NEW n \in Nat, Len(s) < n
      PROVE  Append(s, x) \in Seq(S) /\ Len(Append(s, x)) <= n
  <2>1. Append(s, x) \in Seq(S) /\ Len(Append(s, x)) = Len(s) + 1 /\ Len(s) \in Nat
    OBVIOUS
  <2> QED
    BY <1>d, <2>1
<1>e. ASSUME NEW c \in Conns, send[c] # <<>>, send' = [send EXCEPT ![c] = Tail(@)] PROVE Sends
  <2>1. Tail(send[c]) \in Seq(Items) /\ Len(Tail(send[c])) <= SendBufferSize
    BY <1>0, <1>1, <1>c, <1>e
  <2> QED
    BY <1>0, <1>e, <2>1
<1>3. ASSUME NEW c \in Conns, EnqueueReply(c) PROVE Sends /\ Broadcasts
  <2>1. CASE send' = send
    BY <1>3, <1>a, <1>b, <2>1 DEF EnqueueReply
  <2>2. CASE Len(send[c]) < SendBufferSize /\ send' = [send EXCEPT ![c] = Append(@, Reply)]
    <3>1. Append(send[c], Reply) \in Seq(Items) /\ Len(Append(send[c], Reply)) <= SendBufferSize
      BY <1>0, <1>1, <1>2, <1>d, <2>2
    <3>2. Sends
      BY <1>0, <2>2, <3>1
    <3> QED
      BY <1>3, <1>b, <3>2 DEF EnqueueReply
  <2> QED
    BY <1>3, <2>1, <2>2 DEF EnqueueReply
<1>4. ASSUME NEW c \in Conns, WriteMessage(c) \/ WritePumpExit(c) PROVE Sends /\ Broadcasts
  <2>1. broadcast' = broadcast /\ (send' = send \/ (send[c] # <<>> /\ send' = [send EXCEPT ![c] = Tail(@)]))
    BY <1>4 DEF WriteMessage, WritePumpExit
  <2> QED
    BY <1>a, <1>b, <1>e, <2>1
<1>5. ASSUME NEW o \in Conns, BroadcastToClients(o) PROVE Sends /\ Broadcasts
  <2> DEFINE m == Head(broadcast[o])
  <2>1. broadcast[o] # <<>> /\ broadcast' = [broadcast EXCEPT ![o] = Tail(@)]
    BY <1>5 DEF BroadcastToClients
  <2>2. m \in Messages
    BY <1>0, <2>1
  <2>3. send' = [c \in Conns |-> IF c \in clients[o] \ Slow(o) THEN Append(send[c], m) ELSE send[c]]
    BY <1>5 DEF BroadcastToClients
  <2> HIDE DEF m
  <2>4. Tail(broadcast[o]) \in Seq(Messages) /\ Len(Tail(broadcast[o])) <= BroadcastBufferSize
    BY <1>0, <1>1, <1>c, <2>1
  <2>5. Broadcasts
    BY <1>0, <2>1, <2>4
  <2>6. ASSUME NEW c \in Conns PROVE send'[c] \in Seq(Items) /\ Len(send'[c]) <= SendBufferSize
    <3>1. CASE c \in clients[o] \ Slow(o)
      <4>1. Len(send[c]) < SendBufferSize
        BY <1>0, <1>1, <3>1 DEF Slow
      <4>2. send'[c] = Append(send[c], m) /\ m \in Items
        BY <1>2, <2>2, <2>3, <3>1
      <4> QED
        BY <1>0, <1>1, <1>d, <4>1, <4>2
    <3>2. CASE c \notin clients[o] \ Slow(o)
      BY <1>0, <2>3, <3>2
    <3> QED
      BY <3>1, <3>2
  <2>7. send' = [c \in Conns |-> send'[c]]
    BY <2>3
  <2> QED
    BY <2>5, <2>6, <2>7
<1>6. ASSUME NEW m \in Messages, SendToRoom(m) PROVE Sends /\ Broadcasts
  <2>1. CASE broadcast' = broadcast
    BY <1>6, <1>a, <1>b, <2>1 DEF SendToRoom
  <2>2. CASE /\ Len(broadcast[found[m]]) < BroadcastBufferSize
             /\ broadcast' = [broadcast EXCEPT ![found[m]] = Append(@, m)]
    <3>1. found[m] \in Conns
      BY <1>0, <1>6 DEF SendToRoom, MapInv
    <3>2. /\ Append(broadcast[found[m]], m) \in Seq(Messages)
          /\ Len(Append(broadcast[found[m]], m)) <= BroadcastBufferSize
      BY <1>0, <1>1, <1>d, <2>2, <3>1
    <3>3. Broadcasts
      BY <1>0, <2>2, <3>1, <3>2
    <3> QED
      BY <1>6, <1>a, <3>3 DEF SendToRoom
  <2> QED
    BY <1>6, <2>1, <2>2 DEF SendToRoom
<1>7. ASSUME NEW c \in Conns,
             \/ Accept(c) \/ Upgrade(c) \/ CheckShuttingDown(c) \/ GetOrCreateRoom(c) \/ Register(c)
             \/ RegisterRefused(c) \/ StartPumps(c) \/ ReadError(c) \/ Unregister(c)
             \/ UnregisterRoomDone(c) \/ ReadPumpExit(c) \/ RemoveRoomIfSame(c) \/ RunStop(c)
             \/ RunDone(c)
      PROVE  send' = send /\ broadcast' = broadcast
  BY <1>7 DEF Accept, Upgrade, CheckShuttingDown, GetOrCreateRoom, Register, RegisterRefused, StartPumps,
     ReadError, Unregister, UnregisterRoomDone, ReadPumpExit, RemoveRoomIfSame, RunStop, RunDone
<1>8. ASSUME NEW m \in Messages, FindRoom(m) PROVE send' = send /\ broadcast' = broadcast
  BY <1>8 DEF FindRoom
<1>9. ASSUME ShutdownBegin \/ ShutdownStopRooms \/ UNCHANGED vars
      PROVE  send' = send /\ broadcast' = broadcast
  BY <1>9 DEF ShutdownBegin, ShutdownStopRooms, vars
<1> HIDE DEF Sends, Broadcasts
<1> QED
  BY <1>a, <1>b, <1>3, <1>4, <1>5, <1>6, <1>7, <1>8, <1>9 DEF Next, ServeStep, RunStep

\* The types of the program points, the flags and the maps.
LEMMA TypesKept == HubInv /\ [Next]_vars => TypeOK'
<1> SUFFICES ASSUME HubInv, [Next]_vars PROVE TypeOK'
  OBVIOUS
<1> DEFINE Good == /\ cfg' = cfg
                   /\ serve' \in [Conns -> {"idle", "acquired", "upgraded", "admitted", "joining",
                                            "registered", "serving", "refused"}]
                   /\ room' \in [Conns -> Conns \cup {NoRoom}]
                   /\ readPump' \in [Conns -> {"none", "reading", "unregistering", "stopping", "exited"}]
                   /\ writePump' \in [Conns -> {"none", "running", "exited"}]
                   /\ owed' \in [Conns -> Nat] /\ \A c \in Conns : owed'[c] <= MaxReplies[c]
                   /\ run' \in [Conns -> {"none", "running", "removing", "draining", "done"}]
                   /\ stop' \in [Conns -> BOOLEAN]
                   /\ rooms' \in [RoomIds -> Conns \cup {NoRoom}]
                   /\ shuttingDown' \in BOOLEAN
                   /\ hub' \in {"open", "closing", "closed"}
                   /\ sender' \in [Messages -> {"idle", "looking", "sending", "done"}]
                   /\ found' \in [Messages -> Conns \cup {NoRoom}]
<1>0. SUFFICES Good
  BY QuotaKept, CountKept, BuffersKept DEF HubInv, TypeOK
<1> USE DEF clientVars, roomVars, hubVars, quotaVars, sendVars, TypeOK
<1>t. TypeOK /\ RoomOf \in [Conns -> RoomIds] /\ MaxReplies \in [Conns -> Nat]
      /\ Target \in [Messages -> RoomIds]
  BY HubConstants DEF HubInv
<1>1. ASSUME NEW c \in Conns, \/ Accept(c) \/ Upgrade(c) \/ CheckShuttingDown(c) \/ Register(c)
                              \/ RegisterRefused(c)
      PROVE  Good
  <2>1. /\ UNCHANGED <<room, readPump, writePump, owed, run, stop, rooms, shuttingDown, hub, sender,
                       found, cfg>>
        /\ \E x \in {"acquired", "upgraded", "admitted", "registered", "refused"} :
              serve' = [serve EXCEPT ![c] = x]
    BY <1>1 DEF Accept, Upgrade, CheckShuttingDown, Register, RegisterRefused
  <2> QED
    BY <1>t, <2>1
<1>3. ASSUME NEW c \in Conns, GetOrCreateRoom(c) PROVE Good
  <2>1. /\ UNCHANGED <<readPump, writePump, owed, stop, shuttingDown, hub, sender, found, cfg>>
        /\ serve' = [serve EXCEPT ![c] = "joining"]
        /\ room' = [room EXCEPT ![c] = rooms[RoomOf[c]]] \/ room' = [room EXCEPT ![c] = c]
        /\ rooms' = rooms \/ rooms' = [rooms EXCEPT ![RoomOf[c]] = c]
        /\ run' = run \/ run' = [run EXCEPT ![c] = "running"]
    BY <1>3 DEF GetOrCreateRoom
  <2>0. rooms[RoomOf[c]] \in Conns \cup {NoRoom} /\ c \in Conns \cup {NoRoom}
    BY <1>t
  <2>2. room' \in [Conns -> Conns \cup {NoRoom}]
    <3>1. \E x \in Conns \cup {NoRoom} : room' = [room EXCEPT ![c] = x]
      BY <2>0, <2>1
    <3> QED
      BY <1>t, <3>1
  <2>3. rooms' \in [RoomIds -> Conns \cup {NoRoom}]
    <3>1. CASE rooms' = [rooms EXCEPT ![RoomOf[c]] = c]
      BY <1>t, <2>0, <3>1
    <3> QED
      BY <1>t, <2>1, <3>1
  <2>4. run' \in [Conns -> {"none", "running", "removing", "draining", "done"}]
    <3>1. CASE run' = [run EXCEPT ![c] = "running"]
      BY <1>t, <3>1
    <3> QED
      BY <1>t, <2>1, <3>1
  <2>5. serve' \in [Conns -> {"idle", "acquired", "upgraded", "admitted", "joining",
                             "registered", "serving", "refused"}]
    BY <1>t, <2>1
  <2> QED
    BY <1>t, <2>1, <2>2, <2>3, <2>4, <2>5
<1>4. ASSUME NEW c \in Conns, StartPumps(c) PROVE Good
  BY <1>t, <1>4 DEF StartPumps
<1>5. ASSUME NEW c \in Conns, EnqueueReply(c) PROVE Good
  <2>1. owed[c] \in Nat /\ owed[c] > 0 /\ owed' = [owed EXCEPT ![c] = owed[c] - 1]
    BY <1>t, <1>5 DEF EnqueueReply
  <2>2. owed' \in [Conns -> Nat] /\ \A d \in Conns : owed'[d] <= MaxReplies[d]
    BY <1>t, <2>1
  <2> QED
    BY <1>t, <1>5, <2>2 DEF EnqueueReply
<1>6. ASSUME NEW c \in Conns, \/ ReadError(c) \/ Unregister(c) \/ UnregisterRoomDone(c)
                              \/ ReadPumpExit(c) \/ WriteMessage(c) \/ WritePumpExit(c)
      PROVE  Good
  <2>1. /\ UNCHANGED <<serve, room, owed, stop, rooms, shuttingDown, hub, sender, found, cfg>>
        /\ \/ readPump' = readPump
           \/ \E x \in {"unregistering", "stopping", "exited"} : readPump' = [readPump EXCEPT ![c] = x]
        /\ writePump' = writePump \/ writePump' = [writePump EXCEPT ![c] = "exited"]
        /\ run' = run \/ run' = [run EXCEPT ![room[c]] = "removing"]
    BY <1>6 DEF ReadError, Unregister, UnregisterRoomDone, ReadPumpExit, WriteMessage, WritePumpExit
  <2>2. readPump' \in [Conns -> {"none", "reading", "unregistering", "stopping", "exited"}]
    BY <1>t, <2>1
  <2>3. /\ writePump' \in [Conns -> {"none", "running", "exited"}]
        /\ run' \in [Conns -> {"none", "running", "removing", "draining", "done"}]
    BY <1>t, <2>1
  <2> QED
    BY <1>t, <2>1, <2>2, <2>3
<1>7. ASSUME NEW o \in Conns, RunStep(o) PROVE Good
  <2>1. /\ UNCHANGED <<serve, room, readPump, writePump, owed, stop, shuttingDown, hub, sender, found,
                       cfg>>
        /\ rooms' = rooms \/ rooms' = [rooms EXCEPT ![RoomOf[o]] = NoRoom]
        /\ \/ run' = run
           \/ \E x \in {"running", "draining", "done"} : run' = [run EXCEPT ![o] = x]
    BY <1>7 DEF RunStep, RemoveRoomIfSame, BroadcastToClients, RunStop, RunDone
  <2>2. rooms' \in [RoomIds -> Conns \cup {NoRoom}]
    BY <1>t, <2>1
  <2>3. run' \in [Conns -> {"none", "running", "removing", "draining", "done"}]
    BY <1>t, <2>1
  <2> QED
    BY <1>t, <2>1, <2>2, <2>3
<1>8. ASSUME NEW m \in Messages, FindRoom(m) \/ SendToRoom(m) PROVE Good
  BY <1>t, <1>8 DEF FindRoom, SendToRoom
<1>9. ASSUME ShutdownBegin \/ UNCHANGED vars PROVE Good
  BY <1>t, <1>9 DEF ShutdownBegin, vars
<1>10. ASSUME ShutdownStopRooms PROVE Good
  <2>1. stop' \in [Conns -> BOOLEAN]
    BY <1>t, <1>10 DEF ShutdownStopRooms
  <2> QED
    BY <1>t, <1>10, <2>1 DEF ShutdownStopRooms
<1> HIDE DEF Good
<1> QED
  BY <1>1, <1>3, <1>4, <1>5, <1>6, <1>7, <1>8, <1>9, <1>10 DEF Next, ServeStep

\* A loop that was started is never forgotten: run leaves "none" for good.
LEMMA LoopStays ==
    ASSUME HubInv, [Next]_vars
    PROVE  \A o \in Conns : run[o] # "none" => run'[o] # "none"
<1> USE DEF clientVars, roomVars, hubVars, quotaVars, sendVars
<1>0. TypeOK
  BY DEF HubInv
<1>1. ASSUME NEW c \in Conns, GetOrCreateRoom(c) PROVE run' = run \/ run' = [run EXCEPT ![c] = "running"]
  BY <1>1 DEF GetOrCreateRoom
<1>2. ASSUME NEW c \in Conns, Unregister(c) PROVE run' = run \/ run' = [run EXCEPT ![room[c]] = "removing"]
  BY <1>2 DEF Unregister
<1>3. ASSUME NEW o \in Conns, RunStep(o)
      PROVE  run' = run \/ \E x \in {"running", "draining", "done"} : run' = [run EXCEPT ![o] = x]
  BY <1>3 DEF RunStep, RemoveRoomIfSame, BroadcastToClients, RunStop, RunDone
<1>4. ASSUME NEW c \in Conns,
             \/ Accept(c) \/ Upgrade(c) \/ CheckShuttingDown(c) \/ Register(c) \/ RegisterRefused(c)
             \/ StartPumps(c) \/ EnqueueReply(c) \/ ReadError(c) \/ UnregisterRoomDone(c)
             \/ ReadPumpExit(c) \/ WriteMessage(c) \/ WritePumpExit(c)
      PROVE  run' = run
  BY <1>4 DEF Accept, Upgrade, CheckShuttingDown, Register, RegisterRefused, StartPumps, EnqueueReply,
     ReadError, UnregisterRoomDone, ReadPumpExit, WriteMessage, WritePumpExit
<1>5. ASSUME NEW m \in Messages, FindRoom(m) \/ SendToRoom(m) PROVE run' = run
  BY <1>5 DEF FindRoom, SendToRoom
<1>6. ASSUME ShutdownBegin \/ ShutdownStopRooms \/ UNCHANGED vars PROVE run' = run
  BY <1>6 DEF ShutdownBegin, ShutdownStopRooms, vars
<1>7. \/ run' = run
      \/ \E o \in Conns \cup {NoRoom} :
            \E x \in {"running", "removing", "draining", "done"} : run' = [run EXCEPT ![o] = x]
  BY <1>0, <1>1, <1>2, <1>3, <1>4, <1>5, <1>6 DEF Next, ServeStep, TypeOK
<1> QED
  BY <1>0, <1>7 DEF TypeOK

\* The connections stay with the room they got, and only registered clients
\* are stopped or have pumps.
LEMMA ConnKept == HubInv /\ [Next]_vars => ConnInv'
<1> SUFFICES ASSUME HubInv, [Next]_vars, NEW d \in Conns
             PROVE  /\ serve'[d] \in {"joining", "registered", "serving"} =>
                          room'[d] \in Conns /\ run'[room'[d]] # "none" /\ RoomOf[room'[d]] = RoomOf[d]
                    /\ done'[d] => serve'[d] \in In
                    /\ readPump'[d] # "none" \/ writePump'[d] # "none" => serve'[d] = "serving"
  BY DEF ConnInv, In
<1> DEFINE Roomed == serve'[d] \in {"joining", "registered", "serving"} =>
                        room'[d] \in Conns /\ run'[room'[d]] # "none" /\ RoomOf[room'[d]] = RoomOf[d]
           Stopped == done'[d] => serve'[d] \in In
           Pumped == readPump'[d] # "none" \/ writePump'[d] # "none" => serve'[d] = "serving"
<1> SUFFICES Roomed /\ Stopped /\ Pumped
  OBVIOUS
<1> USE DEF clientVars, roomVars, hubVars, quotaVars, sendVars
<1>0. /\ TypeOK /\ RoomInv /\ MapInv
      /\ serve[d] \in {"joining", "registered", "serving"} =>
            room[d] \in Conns /\ run[room[d]] # "none" /\ RoomOf[room[d]] = RoomOf[d]
      /\ done[d] => serve[d] \in In
      /\ readPump[d] # "none" \/ writePump[d] # "none" => serve[d] = "serving"
  BY DEF HubInv, ConnInv, In
<1>r. \A o \in Conns : run[o] # "none" => run'[o] # "none"
  BY LoopStays
<1>a. ASSUME UNCHANGED <<serve, room>> PROVE Roomed
  BY <1>0, <1>a, <1>r
<1>b. ASSUME UNCHANGED <<serve, done>> PROVE Stopped
  BY <1>0, <1>b
<1>c. ASSUME UNCHANGED <<serve, readPump, writePump>> PROVE Pumped
  BY <1>0, <1>c
<1>1. ASSUME NEW c \in Conns, \/ Accept(c) \/ Upgrade(c) \/ CheckShuttingDown(c) \/ Register(c)
                              \/ RegisterRefused(c)
      PROVE  Roomed /\ Stopped /\ Pumped
  <2>1. /\ UNCHANGED <<room, done, readPump, writePump>>
        /\ serve[c] \notin In
        /\ \/ \E x \in {"acquired", "upgraded", "admitted", "refused"} : serve' = [serve EXCEPT ![c] = x]
           \/ serve[c] = "joining" /\ serve' = [serve EXCEPT ![c] = "registered"]
    BY <1>1 DEF Accept, Upgrade, CheckShuttingDown, Register, RegisterRefused, In
  <2> QED
    BY <1>0, <1>r, <2>1 DEF TypeOK, In
<1>2. ASSUME NEW c \in Conns, GetOrCreateRoom(c) PROVE Roomed /\ Stopped /\ Pumped
  <2>1. /\ serve[c] = "admitted" /\ serve' = [serve EXCEPT ![c] = "joining"]
        /\ UNCHANGED <<done, readPump, writePump>>
    BY <1>2 DEF GetOrCreateRoom
  <2>2. Stopped /\ Pumped
    BY <1>0, <2>1 DEF TypeOK, In
  <2>3. CASE d # c
    <3>1. room'[d] = room[d] /\ serve'[d] = serve[d]
      BY <1>0, <1>2, <2>3 DEF GetOrCreateRoom, TypeOK
    <3> QED
      BY <1>0, <1>r, <2>2, <3>1
  <2>4. CASE d = c /\ rooms[RoomOf[c]] # NoRoom
    <3>1. room'[d] = rooms[RoomOf[c]] /\ RoomOf[c] \in RoomIds
      BY <1>0, <1>2, <2>4, HubConstants DEF GetOrCreateRoom, TypeOK
    <3>2. rooms[RoomOf[c]] \in Conns /\ run[rooms[RoomOf[c]]] # "none"
          /\ RoomOf[rooms[RoomOf[c]]] = RoomOf[c]
      BY <1>0, <2>4, <3>1 DEF TypeOK, MapInv
    <3> QED
      BY <1>r, <2>2, <2>4, <3>1, <3>2
  <2>5. CASE d = c /\ rooms[RoomOf[c]] = NoRoom
    <3>1. room'[d] = c /\ run'[c] = "running"
      BY <1>0, <1>2, <2>5 DEF GetOrCreateRoom, TypeOK
    <3> QED
      BY <2>2, <2>5, <3>1
  <2> QED
    BY <2>3, <2>4, <2>5
<1>3. ASSUME NEW c \in Conns, StartPumps(c) PROVE Roomed /\ Stopped /\ Pumped
  BY <1>0, <1>3, <1>r DEF StartPumps, TypeOK, In
<1>4. ASSUME NEW c \in Conns, readPump[c] # "none" \/ writePump[c] # "none", Stop({c}),
             serve' = serve
      PROVE  Stopped
  BY <1>0, <1>4 DEF Stop, In, HubInv, ConnInv
<1>5. ASSUME NEW c \in Conns, \/ ReadError(c) \/ UnregisterRoomDone(c) \/ ReadPumpExit(c)
                              \/ WriteMessage(c) \/ WritePumpExit(c) \/ Unregister(c)
      PROVE  Roomed /\ Stopped /\ Pumped
  <2>1. /\ UNCHANGED <<serve, room>>
        /\ readPump[c] # "none" \/ writePump[c] # "none"
        /\ done' = done \/ Stop({c})
        /\ readPump' = readPump \/ \E x : readPump' = [readPump EXCEPT ![c] = x]
        /\ writePump' = writePump \/ \E x : writePump' = [writePump EXCEPT ![c] = x]
    BY <1>5 DEF ReadError, Unregister, UnregisterRoomDone, ReadPumpExit, WriteMessage, WritePumpExit
  <2>2. Pumped
    BY <1>0, <2>1 DEF TypeOK
  <2> QED
    BY <1>4, <1>a, <1>b, <2>1, <2>2
<1>6. ASSUME NEW o \in Conns, RunStep(o) PROVE Roomed /\ Stopped /\ Pumped
  <2>1. /\ UNCHANGED <<serve, room, readPump, writePump>>
        /\ done' = done \/ \E S \in SUBSET clients[o] : Stop(S)
    BY <1>6 DEF RunStep, RemoveRoomIfSame, BroadcastToClients, RunStop, RunDone, Slow
  <2>2. done'[d] => done[d] \/ d \in clients[o]
    BY <2>1 DEF Stop
  <2>3. Stopped
    BY <1>0, <2>1, <2>2 DEF RoomInv, In
  <2> QED
    BY <1>a, <1>c, <2>1, <2>3
<1>7. ASSUME NEW c \in Conns, EnqueueReply(c) PROVE Roomed /\ Stopped /\ Pumped
  BY <1>7, <1>a, <1>b, <1>c DEF EnqueueReply
<1>8. ASSUME NEW m \in Messages, FindRoom(m) \/ SendToRoom(m) PROVE Roomed /\ Stopped /\ Pumped
  BY <1>8, <1>a, <1>b, <1>c DEF FindRoom, SendToRoom
<1>9. ASSUME ShutdownBegin \/ ShutdownStopRooms \/ UNCHANGED vars PROVE Roomed /\ Stopped /\ Pumped
  BY <1>9, <1>a, <1>b, <1>c DEF ShutdownBegin, ShutdownStopRooms, vars
<1> HIDE DEF Roomed, Stopped, Pumped
<1> QED
  BY <1>1, <1>2, <1>3, <1>5, <1>6, <1>7, <1>8, <1>9 DEF Next, ServeStep

\* The clients of a room are registered with it, and the room that is removed,
\* or whose loop has ended, has none.
LEMMA RoomKept == HubInv /\ [Next]_vars => RoomInv'
<1> SUFFICES ASSUME HubInv, [Next]_vars, NEW p \in Conns
             PROVE  /\ \A d \in clients'[p] : serve'[d] \in In /\ room'[d] = p
                    /\ run'[p] \in {"none", "removing", "done"} => clients'[p] = {}
                    /\ run'[p] \in {"draining", "done"} => stop'[p]
  BY DEF RoomInv, In
<1> DEFINE Members == \A d \in clients'[p] : serve'[d] \in In /\ room'[d] = p
           Empty == run'[p] \in {"none", "removing", "done"} => clients'[p] = {}
           Signalled == run'[p] \in {"draining", "done"} => stop'[p]
<1> SUFFICES Members /\ Empty /\ Signalled
  OBVIOUS
<1> USE DEF clientVars, roomVars, hubVars, quotaVars, sendVars
<1>0. /\ TypeOK /\ ConnInv /\ CountIsClients
      /\ clients[p] \in SUBSET Conns
      /\ \A d \in clients[p] : serve[d] \in In /\ room[d] = p
      /\ run[p] \in {"none", "removing", "done"} => clients[p] = {}
      /\ run[p] \in {"draining", "done"} => stop[p]
  BY DEF HubInv, RoomInv, In, TypeOK
<1>a. ASSUME clients'[p] \subseteq clients[p],
             \A d \in Conns : serve[d] \in In => serve'[d] \in In /\ room'[d] = room[d]
      PROVE  Members
  BY <1>0, <1>a
<1>b. ASSUME run'[p] = run[p], stop'[p] = stop[p], clients'[p] \subseteq clients[p]
      PROVE  Empty /\ Signalled
  BY <1>0, <1>b
<1>1. ASSUME NEW c \in Conns,
             \/ Accept(c) \/ Upgrade(c) \/ CheckShuttingDown(c) \/ RegisterRefused(c) \/ StartPumps(c)
      PROVE  Members /\ Empty /\ Signalled
  <2>1. /\ UNCHANGED <<room, run, clients, stop>>
        /\ \E x \in {"acquired", "upgraded", "admitted", "refused", "serving"} :
              serve' = [serve EXCEPT ![c] = x] /\ (serve[c] \in In => x = "serving")
    BY <1>1 DEF Accept, Upgrade, CheckShuttingDown, RegisterRefused, StartPumps, In
  <2>2. \A d \in Conns : serve[d] \in In => serve'[d] \in In /\ room'[d] = room[d]
    BY <1>0, <2>1 DEF TypeOK, In
  <2> QED
    BY <1>a, <1>b, <2>1, <2>2
<1>2. ASSUME NEW c \in Conns, GetOrCreateRoom(c) PROVE Members /\ Empty /\ Signalled
  <2>1. /\ serve[c] = "admitted" /\ serve' = [serve EXCEPT ![c] = "joining"]
        /\ UNCHANGED <<clients, stop>>
        /\ \E x : room' = [room EXCEPT ![c] = x]
        /\ run' = run \/ run' = [run EXCEPT ![c] = "running"]
    BY <1>2 DEF GetOrCreateRoom
  <2>2. \A d \in Conns : serve[d] \in In => serve'[d] \in In /\ room'[d] = room[d]
    BY <1>0, <2>1 DEF TypeOK, In
  <2>3. run'[p] = run[p] \/ run'[p] = "running"
    BY <1>0, <2>1 DEF TypeOK
  <2> QED
    BY <1>0, <1>a, <1>b, <2>1, <2>2, <2>3
<1>3. ASSUME NEW c \in Conns, Register(c) PROVE Members /\ Empty /\ Signalled
  <2>1. /\ run[room[c]] = "running" /\ serve[c] = "joining"
        /\ serve' = [serve EXCEPT ![c] = "registered"]
        /\ clients' = [clients EXCEPT ![room[c]] = @ \cup {c}]
        /\ UNCHANGED <<room, run, stop>>
    BY <1>3 DEF Register
  <2>2. \A d \in Conns : serve[d] \in In => serve'[d] \in In
    BY <1>0, <2>1 DEF TypeOK, In
  <2>3. CASE p = room[c]
    <3>1. clients'[p] = clients[p] \cup {c} /\ serve'[c] \in In
      BY <1>0, <2>1, <2>3 DEF TypeOK, In
    <3> QED
      BY <1>0, <2>1, <2>2, <2>3, <3>1
  <2>4. CASE p # room[c]
    <3>1. clients'[p] = clients[p]
      BY <1>0, <2>1, <2>4 DEF TypeOK
    <3> QED
      BY <1>0, <2>1, <2>2, <3>1
  <2> QED
    BY <2>3, <2>4
<1>4. ASSUME NEW c \in Conns, Unregister(c) PROVE Members /\ Empty /\ Signalled
  <2>1. UNCHANGED <<serve, room, stop>> /\ run[room[c]] = "running" /\ room[c] \in Conns
    BY <1>0, <1>4 DEF Unregister, ConnInv
  <2>2. CASE c \notin clients[room[c]]
    <3>1. UNCHANGED <<clients, run>>
      BY <1>4, <2>2 DEF Unregister
    <3> QED
      BY <1>a, <1>b, <2>1, <3>1
  <2>3. CASE c \in clients[room[c]]
    <3>1. /\ clients' = [clients EXCEPT ![room[c]] = @ \ {c}]
          /\ run' = IF count[room[c]] = 1 THEN [run EXCEPT ![room[c]] = "removing"] ELSE run
      BY <1>4, <2>3 DEF Unregister
    <3>2. clients'[p] \subseteq clients[p] /\ (p # room[c] => run'[p] = run[p])
      BY <1>0, <3>1 DEF TypeOK
    <3>3. CASE p # room[c]
      BY <1>a, <1>b, <2>1, <3>2, <3>3
    <3>4. CASE p = room[c] /\ count[p] # 1
      <4>1. run'[p] = run[p]
        BY <3>1, <3>4
      <4> QED
        BY <1>a, <1>b, <2>1, <3>2, <4>1
    <3>5. CASE p = room[c] /\ count[p] = 1
      <4>1. IsFiniteSet(clients[p]) /\ Cardinality(clients[p]) = 1
        BY <1>0, <3>5, ConnsCount DEF CountIsClients
      <4>2. clients[p] = {c}
        <5>1. \E x : clients[p] = {x}
          BY <4>1, FS_Singleton
        <5> QED
          BY <2>3, <3>5, <5>1
      <4>3. clients'[p] = {} /\ run'[p] = "removing"
        BY <1>0, <3>1, <3>5, <4>2 DEF TypeOK
      <4> QED
        BY <4>3
    <3> QED
      BY <3>3, <3>4, <3>5
  <2> QED
    BY <2>2, <2>3
<1>5. ASSUME NEW o \in Conns, RunStep(o) PROVE Members /\ Empty /\ Signalled
  <2>1. UNCHANGED <<serve, room, stop>>
    BY <1>5 DEF RunStep, RemoveRoomIfSame, BroadcastToClients, RunStop, RunDone
  <2>2. CASE RemoveRoomIfSame(o) \/ RunStop(o)
    <3>1. /\ clients' = clients
          /\ \/ run' = [run EXCEPT ![o] = "running"]
             \/ stop[o] /\ run' = [run EXCEPT ![o] = "draining"]
      BY <2>2 DEF RemoveRoomIfSame, RunStop
    <3>2. run'[p] = run[p] \/ run'[p] = "running" \/ (run'[p] = "draining" /\ stop[p])
      BY <1>0, <3>1 DEF TypeOK
    <3> QED
      BY <1>0, <1>a, <1>b, <2>1, <3>1, <3>2
  <2>3. CASE BroadcastToClients(o)
    <3>1. run' = run /\ clients' = [clients EXCEPT ![o] = @ \ Slow(o)]
      BY <2>3 DEF BroadcastToClients
    <3>2. clients'[p] \subseteq clients[p]
      BY <1>0, <3>1 DEF TypeOK
    <3> QED
      BY <1>a, <1>b, <2>1, <3>1, <3>2
  <2>4. CASE RunDone(o)
    <3>1. /\ run[o] = "draining" /\ run' = [run EXCEPT ![o] = "done"]
          /\ clients' = [clients EXCEPT ![o] = {}]
      BY <2>4 DEF RunDone
    <3>2. CASE p = o
      BY <1>0, <2>1, <3>1, <3>2 DEF TypeOK
    <3>3. CASE p # o
      <4>1. run'[p] = run[p] /\ clients'[p] = clients[p]
        BY <1>0, <3>1, <3>3 DEF TypeOK
      <4> QED
        BY <1>a, <1>b, <2>1, <4>1
    <3> QED
      BY <3>2, <3>3
  <2> QED
    BY <1>5, <2>2, <2>3, <2>4 DEF RunStep
<1>6. ASSUME NEW c \in Conns,
             \/ EnqueueReply(c) \/ ReadError(c) \/ UnregisterRoomDone(c)
             \/ ReadPumpExit(c) \/ WriteMessage(c) \/ WritePumpExit(c)
      PROVE  UNCHANGED <<serve, room, run, clients, stop>>
  BY <1>6 DEF EnqueueReply, ReadError, UnregisterRoomDone, ReadPumpExit, WriteMessage, WritePumpExit
<1>7. ASSUME NEW m \in Messages, FindRoom(m) \/ SendToRoom(m)
      PROVE  UNCHANGED <<serve, room, run, clients, stop>>
  BY <1>7 DEF FindRoom, SendToRoom
<1>8. ASSUME ShutdownBegin \/ UNCHANGED vars PROVE UNCHANGED <<serve, room, run, clients, stop>>
  BY <1>8 DEF ShutdownBegin, vars
<1>9. ASSUME UNCHANGED <<serve, room, run, clients, stop>> PROVE Members /\ Empty /\ Signalled
  BY <1>9, <1>a, <1>b
<1>10. ASSUME ShutdownStopRooms PROVE Members /\ Empty /\ Signalled
  <2>1. UNCHANGED <<serve, room, run, clients>> /\ (stop[p] => stop'[p])
    BY <1>10 DEF ShutdownStopRooms
  <2> QED
    BY <1>0, <2>1
<1> HIDE DEF Members, Empty, Signalled
<1> QED
  BY <1>1, <1>2, <1>3, <1>4, <1>5, <1>6, <1>7, <1>8, <1>9, <1>10 DEF Next, ServeStep

\* hub.rooms, and a broadcast on its way, name objects whose loop was started.
LEMMA MapKept == HubInv /\ [Next]_vars => MapInv'
<1> SUFFICES ASSUME HubInv, [Next]_vars PROVE MapInv'
  OBVIOUS
<1> USE DEF clientVars, roomVars, hubVars, quotaVars, sendVars
<1>0. TypeOK /\ MapInv
  BY DEF HubInv
<1>r. \A o \in Conns : run[o] # "none" => run'[o] # "none"
  BY LoopStays
<1>a. ASSUME \A i \in RoomIds : rooms'[i] \in {rooms[i], NoRoom}, UNCHANGED <<sender, found>>
      PROVE  MapInv'
  BY <1>0, <1>a, <1>r DEF TypeOK, MapInv
<1>1. ASSUME NEW c \in Conns, GetOrCreateRoom(c) PROVE MapInv'
  <2>1. UNCHANGED <<sender, found>>
    BY <1>1 DEF GetOrCreateRoom
  <2>2. CASE rooms' = rooms
    BY <1>a, <2>1, <2>2
  <2>3. CASE rooms' # rooms
    <3>1. rooms' = [rooms EXCEPT ![RoomOf[c]] = c] /\ run' = [run EXCEPT ![c] = "running"]
      BY <1>1, <2>3 DEF GetOrCreateRoom
    <3>2. run'[c] = "running"
      BY <1>0, <3>1 DEF TypeOK
    <3>3. ASSUME NEW i \in RoomIds, rooms'[i] # NoRoom
          PROVE  run'[rooms'[i]] # "none" /\ RoomOf[rooms'[i]] = i
      <4>1. CASE i = RoomOf[c]
        BY <1>0, <3>1, <3>2, <4>1 DEF TypeOK
      <4>2. CASE i # RoomOf[c]
        BY <1>0, <1>r, <3>1, <3>3, <4>2 DEF TypeOK, MapInv
      <4> QED
        BY <4>1, <4>2
    <3>4. ASSUME NEW m \in Messages, sender'[m] = "sending"
          PROVE  found'[m] # NoRoom /\ run'[found'[m]] # "none"
      BY <1>0, <1>r, <2>1, <3>4 DEF TypeOK, MapInv
    <3> QED
      BY <3>3, <3>4 DEF MapInv
  <2> QED
    BY <2>2, <2>3
<1>2. ASSUME NEW o \in Conns, RunStep(o) PROVE MapInv'
  <2>1. /\ UNCHANGED <<sender, found>>
        /\ rooms' = rooms \/ rooms' = [rooms EXCEPT ![RoomOf[o]] = NoRoom]
    BY <1>2 DEF RunStep, RemoveRoomIfSame, BroadcastToClients, RunStop, RunDone
  <2>2. \A i \in RoomIds : rooms'[i] \in {rooms[i], NoRoom}
    BY <1>0, <2>1 DEF TypeOK
  <2> QED
    BY <1>a, <2>1, <2>2
<1>3. ASSUME NEW m \in Messages, FindRoom(m) PROVE MapInv'
  <2>1. /\ UNCHANGED <<rooms, run>> /\ Target[m] \in RoomIds
        /\ \/ /\ rooms[Target[m]] # NoRoom
              /\ found' = [found EXCEPT ![m] = rooms[Target[m]]]
              /\ sender' = [sender EXCEPT ![m] = "sending"]
           \/ \E at \in {"looking", "done"} : sender' = [sender EXCEPT ![m] = at] /\ UNCHANGED found
    BY <1>3, HubConstants DEF FindRoom
  <2>2. \A n \in Messages : \/ sender'[n] = sender[n] /\ found'[n] = found[n]
                            \/ sender'[n] \in {"looking", "done"}
                            \/ rooms[Target[m]] # NoRoom /\ found'[n] = rooms[Target[m]]
    BY <1>0, <2>1 DEF TypeOK
  <2> QED
    BY <1>0, <2>1, <2>2 DEF TypeOK, MapInv
<1>4. ASSUME NEW m \in Messages, SendToRoom(m) PROVE MapInv'
  BY <1>0, <1>4 DEF SendToRoom, TypeOK, MapInv
<1>5. ASSUME NEW c \in Conns,
             \/ Accept(c) \/ Upgrade(c) \/ CheckShuttingDown(c) \/ Register(c) \/ RegisterRefused(c)
             \/ StartPumps(c) \/ EnqueueReply(c) \/ ReadError(c) \/ Unregister(c)
             \/ UnregisterRoomDone(c) \/ ReadPumpExit(c) \/ WriteMessage(c) \/ WritePumpExit(c)
      PROVE  UNCHANGED <<rooms, sender, found>>
  BY <1>5 DEF Accept, Upgrade, CheckShuttingDown, Register, RegisterRefused, StartPumps, EnqueueReply,
     ReadError, Unregister, UnregisterRoomDone, ReadPumpExit, WriteMessage, WritePumpExit
<1>6. ASSUME ShutdownBegin \/ ShutdownStopRooms \/ UNCHANGED vars
      PROVE  UNCHANGED <<rooms, sender, found>>
  BY <1>6 DEF ShutdownBegin, ShutdownStopRooms, vars
<1>7. ASSUME UNCHANGED <<rooms, sender, found>> PROVE MapInv'
  BY <1>7, <1>a
<1> QED
  BY <1>1, <1>2, <1>3, <1>4, <1>5, <1>6, <1>7 DEF Next, ServeStep

\* A registered client that is not stopped stays in its room.
LEMMA OpenKept == HubInv /\ [Next]_vars => OpenIsMember'
<1> SUFFICES ASSUME HubInv, [Next]_vars, NEW d \in Conns, serve'[d] \in In, ~done'[d]
             PROVE  d \in clients'[room'[d]]
  BY DEF OpenIsMember, In
<1> USE DEF clientVars, roomVars, hubVars, quotaVars, sendVars
<1>0. /\ TypeOK /\ ConnInv /\ RoomInv
      /\ serve[d] \in In /\ ~done[d] => d \in clients[room[d]]
      /\ serve[d] \in In => room[d] \in Conns
  BY DEF HubInv, OpenIsMember, ConnInv, In
<1>a. ASSUME serve[d] \in In, ~done[d], room'[d] = room[d], clients'[room[d]] = clients[room[d]]
      PROVE  d \in clients'[room'[d]]
  BY <1>0, <1>a
<1>1. ASSUME NEW c \in Conns,
             \/ Accept(c) \/ Upgrade(c) \/ CheckShuttingDown(c) \/ GetOrCreateRoom(c)
             \/ RegisterRefused(c) \/ StartPumps(c)
      PROVE  d \in clients'[room'[d]]
  <2>1. /\ UNCHANGED <<clients, done>>
        /\ \E x \in {"acquired", "upgraded", "admitted", "joining", "refused", "serving"} :
              serve' = [serve EXCEPT ![c] = x] /\ (x = "serving" <=> serve[c] \in In)
        /\ room' = room \/ (serve'[c] = "joining" /\ \E o : room' = [room EXCEPT ![c] = o])
    BY <1>0, <1>1 DEF Accept, Upgrade, CheckShuttingDown, GetOrCreateRoom, RegisterRefused, StartPumps,
       In, TypeOK
  <2>2. serve[d] \in In
    BY <1>0, <2>1 DEF In, TypeOK
  <2>3. room'[d] = room[d]
    BY <1>0, <2>1 DEF In, TypeOK
  <2> QED
    BY <1>a, <2>1, <2>2, <2>3
<1>2. ASSUME NEW c \in Conns, Register(c) PROVE d \in clients'[room'[d]]
  <2>1. /\ serve[c] = "joining" /\ serve' = [serve EXCEPT ![c] = "registered"]
        /\ clients' = [clients EXCEPT ![room[c]] = @ \cup {c}] /\ room[c] \in Conns
        /\ UNCHANGED <<room, done>>
    BY <1>0, <1>2 DEF Register, ConnInv
  <2>2. CASE d = c
    BY <1>0, <2>1, <2>2 DEF TypeOK
  <2>3. CASE d # c
    <3>1. serve[d] \in In /\ ~done[d]
      BY <1>0, <2>1, <2>3 DEF TypeOK
    <3>2. d \in clients[room[d]] /\ room[d] \in Conns
      BY <1>0, <3>1
    <3> QED
      BY <1>0, <2>1, <3>2 DEF TypeOK
  <2> QED
    BY <2>2, <2>3
<1>3. ASSUME NEW o \in Conns, NEW S \in SUBSET clients[o], UNCHANGED <<serve, room>>, Stop(S),
             clients' = [clients EXCEPT ![o] = @ \ S]
      PROVE  d \in clients'[room'[d]]
  <2>1. ~done[d] /\ d \notin S
    BY <1>3 DEF Stop
  <2>2. d \in clients[room[d]] /\ room[d] \in Conns
    BY <1>0, <1>3, <2>1
  <2> QED
    BY <1>0, <1>3, <2>1, <2>2 DEF TypeOK
<1>4. ASSUME NEW c \in Conns, Unregister(c) PROVE d \in clients'[room'[d]]
  <2>1. UNCHANGED <<serve, room>> /\ room[c] \in Conns
    BY <1>0, <1>4 DEF Unregister, ConnInv
  <2>2. CASE c \in clients[room[c]]
    <3>1. /\ clients' = [clients EXCEPT ![room[c]] = @ \ {c}] /\ Stop({c})
          /\ {c} \in SUBSET clients[room[c]]
      BY <1>4, <2>2 DEF Unregister
    <3> QED
      BY <1>3, <2>1, <3>1
  <2>3. CASE c \notin clients[room[c]]
    <3>1. UNCHANGED <<clients, done>>
      BY <1>4, <2>3 DEF Unregister
    <3> QED
      BY <1>a, <2>1, <3>1
  <2> QED
    BY <2>2, <2>3
<1>5. ASSUME NEW c \in Conns, ReadPumpExit(c) \/ WritePumpExit(c) PROVE d \in clients'[room'[d]]
  <2>1. UNCHANGED <<serve, room, clients>> /\ Stop({c})
    BY <1>5 DEF ReadPumpExit, WritePumpExit
  <2>2. ~done[d]
    BY <2>1 DEF Stop
  <2> QED
    BY <1>a, <2>1, <2>2
<1>6. ASSUME NEW o \in Conns, BroadcastToClients(o) PROVE d \in clients'[room'[d]]
  <2>1. Slow(o) \in SUBSET clients[o]
    BY DEF Slow
  <2> QED
    BY <1>3, <1>6, <2>1 DEF BroadcastToClients
<1>7. ASSUME NEW o \in Conns, RunDone(o) PROVE d \in clients'[room'[d]]
  <2>1. /\ UNCHANGED <<serve, room>> /\ Stop(clients[o])
        /\ clients' = [clients EXCEPT ![o] = @ \ clients[o]]
    BY <1>0, <1>7 DEF RunDone, TypeOK
  <2> QED
    BY <1>3, <2>1
<1>8. ASSUME NEW c \in Conns, \/ EnqueueReply(c) \/ ReadError(c) \/ UnregisterRoomDone(c)
                              \/ WriteMessage(c) \/ RemoveRoomIfSame(c) \/ RunStop(c)
      PROVE  UNCHANGED <<serve, room, done, clients>>
  BY <1>8 DEF EnqueueReply, ReadError, UnregisterRoomDone, WriteMessage, RemoveRoomIfSame, RunStop
<1>9. ASSUME NEW m \in Messages, FindRoom(m) \/ SendToRoom(m)
      PROVE  UNCHANGED <<serve, room, done, clients>>
  BY <1>9 DEF FindRoom, SendToRoom
<1>10. ASSUME ShutdownBegin \/ ShutdownStopRooms \/ UNCHANGED vars
       PROVE  UNCHANGED <<serve, room, done, clients>>
  BY <1>10 DEF ShutdownBegin, ShutdownStopRooms, vars
<1>11. ASSUME UNCHANGED <<serve, room, done, clients>> PROVE d \in clients'[room'[d]]
  BY <1>11, <1>a
<1> QED
  BY <1>1, <1>2, <1>4, <1>5, <1>6, <1>7, <1>8, <1>9, <1>10, <1>11 DEF Next, ServeStep, RunStep

-----------------------------------------------------------------------------
(* The theorems.                                                           *)

\* The inductive invariant holds in every behaviour of the hub.
THEOREM HubInvariant == Spec => []HubInv
<1>1. HubInv /\ [Next]_vars => HubInv'
  BY TypesKept, ConnKept, RoomKept, MapKept, OpenKept, CountKept, QuotaKept DEF HubInv
<1> QED
  BY HubInit, <1>1, PTL DEF Spec

\* The quota of an IP and of a room is given back exactly once on every path
\* of ServeWs and by whichever call of client.stop comes first.
THEOREM QuotaIsExact == Spec => []QuotaExact
<1>1. HubInv => QuotaExact
  BY DEF HubInv
<1> QED
  BY <1>1, HubInvariant, PTL

\* Room.count is the number of clients after registrations, unregistrations,
\* kicks of slow clients and the final drain.
THEOREM RoomCountIsExact == Spec => []CountIsClients
<1>1. HubInv => CountIsClients
  BY DEF HubInv
<1> QED
  BY <1>1, HubInvariant, PTL

\* A room in hub.rooms has a running event loop or the stop signal, so a
\* handshake that finds it does not wait on a loop that has ended.
THEOREM MappedRoomsAnswer == Spec => []MappedRoomAnswers
<1>1. HubInv => MappedRoomAnswers
  BY DEF HubInv, TypeOK, RoomInv, MapInv, MappedRoomAnswers
<1> QED
  BY <1>1, HubInvariant, PTL

\* When Room.Run has ended, every client that was registered is stopped.
THEOREM EndedRoomStopsClients == Spec => []DoneRoomHasNoOpenClient
<1>1. HubInv => DoneRoomHasNoOpenClient
  BY DEF HubInv, ConnInv, RoomInv, OpenIsMember, DoneRoomHasNoOpenClient
<1> QED
  BY <1>1, HubInvariant, PTL

\* RemoveRoomIfSame takes an object out of the map only when it has no client,
\* and nothing else takes one out.
THEOREM RemovalsAreSafe == Spec => NonEmptyRoomKept
<1>1. HubInv /\ [Next]_vars => [RemovedRoomIsEmpty]_vars
  <2> SUFFICES ASSUME HubInv, [Next]_vars, NEW i \in RoomIds, rooms[i] # NoRoom, rooms'[i] # rooms[i]
               PROVE  clients[rooms[i]] = {}
    BY DEF RemovedRoomIsEmpty
  <2> USE DEF clientVars, roomVars, hubVars, quotaVars, sendVars
  <2>0. TypeOK /\ RoomInv
    BY DEF HubInv
  <2>1. ASSUME NEW c \in Conns, GetOrCreateRoom(c) PROVE clients[rooms[i]] = {}
    <3>1. rooms' = rooms \/ (rooms[RoomOf[c]] = NoRoom /\ rooms' = [rooms EXCEPT ![RoomOf[c]] = c])
      BY <2>1 DEF GetOrCreateRoom
    <3> QED
      BY <2>0, <3>1 DEF TypeOK
  <2>2. ASSUME NEW o \in Conns, RemoveRoomIfSame(o) PROVE clients[rooms[i]] = {}
    <3>1. /\ run[o] = "removing"
          /\ rooms' = rooms \/ (rooms[RoomOf[o]] = o /\ rooms' = [rooms EXCEPT ![RoomOf[o]] = NoRoom])
      BY <2>2 DEF RemoveRoomIfSame
    <3>2. rooms[i] = o
      BY <2>0, <3>1 DEF TypeOK
    <3> QED
      BY <2>0, <3>1, <3>2 DEF RoomInv
  <2>3. ASSUME NEW c \in Conns,
               \/ Accept(c) \/ Upgrade(c) \/ CheckShuttingDown(c) \/ Register(c) \/ RegisterRefused(c)
               \/ StartPumps(c) \/ EnqueueReply(c) \/ ReadError(c) \/ Unregister(c)
               \/ UnregisterRoomDone(c) \/ ReadPumpExit(c) \/ WriteMessage(c) \/ WritePumpExit(c)
               \/ BroadcastToClients(c) \/ RunStop(c) \/ RunDone(c)
        PROVE  rooms' = rooms
    BY <2>3 DEF Accept, Upgrade, CheckShuttingDown, Register, RegisterRefused, StartPumps, EnqueueReply,
       ReadError, Unregister, UnregisterRoomDone, ReadPumpExit, WriteMessage, WritePumpExit,
       BroadcastToClients, RunStop, RunDone
  <2>4. ASSUME NEW m \in Messages, FindRoom(m) \/ SendToRoom(m) PROVE rooms' = rooms
    BY <2>4 DEF FindRoom, SendToRoom
  <2>5. ASSUME ShutdownBegin \/ ShutdownStopRooms \/ UNCHANGED vars PROVE rooms' = rooms
    BY <2>5 DEF ShutdownBegin, ShutdownStopRooms, vars
  <2> QED
    BY <2>1, <2>2, <2>3, <2>4, <2>5 DEF Next, ServeStep, RunStep
<1> QED
  BY <1>1, HubInvariant, PTL DEF Spec, NonEmptyRoomKept

\* The counters rise in TryAcquireConn only, which looks at the limits first.
LEMMA CountersRise ==
    ASSUME HubInv, [Next]_vars
    PROVE  /\ cfg' = cfg
           /\ \A i \in IPs : \/ connCounter'[i] <= connCounter[i]
                             \/ /\ connCounter'[i] = connCounter[i] + 1
                                /\ cfg.MaxConnPerIP > 0 => connCounter[i] < cfg.MaxConnPerIP
           /\ \A i \in RoomIds : \/ roomConnCount'[i] <= roomConnCount[i]
                                 \/ /\ roomConnCount'[i] = roomConnCount[i] + 1
                                    /\ cfg.MaxConnPerRoom > 0 => roomConnCount[i] < cfg.MaxConnPerRoom
<1> DEFINE Good == /\ \A i \in IPs : \/ connCounter'[i] <= connCounter[i]
                                     \/ /\ connCounter'[i] = connCounter[i] + 1
                                        /\ cfg.MaxConnPerIP > 0 => connCounter[i] < cfg.MaxConnPerIP
                   /\ \A i \in RoomIds : \/ roomConnCount'[i] <= roomConnCount[i]
                                         \/ /\ roomConnCount'[i] = roomConnCount[i] + 1
                                            /\ cfg.MaxConnPerRoom > 0 =>
                                                  roomConnCount[i] < cfg.MaxConnPerRoom
<1> SUFFICES cfg' = cfg /\ Good
  OBVIOUS
<1> USE DEF clientVars, roomVars, hubVars, quotaVars, sendVars
<1>0. connCounter \in [IPs -> Nat] /\ roomConnCount \in [RoomIds -> Nat]
  BY DEF HubInv, TypeOK
<1>a. ASSUME UNCHANGED <<connCounter, roomConnCount>> PROVE Good
  BY <1>0, <1>a
<1>b. ASSUME NEW R \in SUBSET Conns, Release(R) PROVE Good
  <2>1. ASSUME NEW n \in Nat, NEW k \in Nat PROVE Released(n, k) <= n
    BY DEF Released
  <2>2. ASSUME NEW i \in IPs PROVE connCounter'[i] <= connCounter[i]
    <3> DEFINE k == Cardinality({c \in R : IpOf[c] = i})
    <3>1. k \in Nat
      BY ConnsCount
    <3>2. connCounter'[i] = Released(connCounter[i], k)
      BY <1>b DEF Release
    <3> HIDE DEF k
    <3> QED
      BY <1>0, <2>1, <3>1, <3>2
  <2>3. ASSUME NEW i \in RoomIds PROVE roomConnCount'[i] <= roomConnCount[i]
    <3> DEFINE k == Cardinality({c \in R : RoomOf[c] = i})
    <3>1. k \in Nat
      BY ConnsCount
    <3>2. roomConnCount'[i] = Released(roomConnCount[i], k)
      BY <1>b DEF Release
    <3> HIDE DEF k
    <3> QED
      BY <1>0, <2>1, <3>1, <3>2
  <2> QED
    BY <2>2, <2>3
<1>c. ASSUME NEW S \in SUBSET Conns, Stop(S) PROVE Good
  <2>1. {c \in S : ~done[c]} \in SUBSET Conns /\ Release({c \in S : ~done[c]})
    BY <1>c DEF Stop
  <2> QED
    BY <1>b, <2>1
<1>1. ASSUME NEW c \in Conns, Accept(c) PROVE cfg' = cfg /\ Good
  <2>1. CASE UNCHANGED quotaVars
    BY <1>1, <1>a, <2>1 DEF Accept
  <2>2. CASE /\ WithinQuota(c)
             /\ connCounter' = [connCounter EXCEPT ![IpOf[c]] = @ + 1]
             /\ roomConnCount' = [roomConnCount EXCEPT ![RoomOf[c]] = @ + 1]
    BY <1>0, <1>1, <2>2 DEF Accept, WithinQuota
  <2> QED
    BY <1>1, <2>1, <2>2 DEF Accept
<1> HIDE DEF Good
<1>2. ASSUME NEW c \in Conns,
             \/ Upgrade(c) \/ CheckShuttingDown(c) \/ RegisterRefused(c) \/ ReadPumpExit(c)
             \/ WritePumpExit(c) \/ Unregister(c)
      PROVE  cfg' = cfg /\ Good
  <2>1. cfg' = cfg /\ (UNCHANGED <<connCounter, roomConnCount>> \/ Release({c}) \/ Stop({c}))
    BY <1>2 DEF Upgrade, CheckShuttingDown, RegisterRefused, ReadPumpExit, WritePumpExit, Unregister
  <2> QED
    BY <1>a, <1>b, <1>c, <2>1
<1>3. ASSUME NEW o \in Conns, BroadcastToClients(o) \/ RunDone(o) PROVE cfg' = cfg /\ Good
  <2>1. cfg' = cfg /\ \E S \in SUBSET clients[o] : Stop(S)
    BY <1>3 DEF BroadcastToClients, RunDone, Slow
  <2>2. clients[o] \in SUBSET Conns
    BY DEF HubInv, TypeOK
  <2> QED
    BY <1>c, <2>1, <2>2
<1>4. ASSUME NEW c \in Conns,
             \/ GetOrCreateRoom(c) \/ Register(c) \/ StartPumps(c) \/ EnqueueReply(c) \/ ReadError(c)
             \/ UnregisterRoomDone(c) \/ WriteMessage(c) \/ RemoveRoomIfSame(c) \/ RunStop(c)
      PROVE  cfg' = cfg /\ Good
  BY <1>4, <1>a DEF GetOrCreateRoom, Register, StartPumps, EnqueueReply, ReadError, UnregisterRoomDone,
     WriteMessage, RemoveRoomIfSame, RunStop
<1>5. ASSUME NEW m \in Messages, FindRoom(m) \/ SendToRoom(m) PROVE cfg' = cfg /\ Good
  BY <1>5, <1>a DEF FindRoom, SendToRoom
<1>6. ASSUME ShutdownBegin \/ ShutdownStopRooms \/ UNCHANGED vars PROVE cfg' = cfg /\ Good
  BY <1>6, <1>a DEF ShutdownBegin, ShutdownStopRooms, vars
<1> QED
  BY <1>1, <1>2, <1>3, <1>4, <1>5, <1>6 DEF Next, ServeStep, RunStep

\* The limits per IP and per room hold for the connections themselves, because
\* the counters are exact and TryAcquireConn checks and counts in one step.
THEOREM LimitsHold == Spec => []LimitsRespected
<1> DEFINE Counted == /\ cfg.MaxConnPerIP > 0 => \A i \in IPs : connCounter[i] <= cfg.MaxConnPerIP
                      /\ cfg.MaxConnPerRoom > 0 =>
                            \A i \in RoomIds : roomConnCount[i] <= cfg.MaxConnPerRoom
<1>1. Init => Counted
  BY HubConstants DEF Init
<1>2. HubInv /\ Counted /\ [Next]_vars => Counted'
  <2> SUFFICES ASSUME HubInv, Counted, [Next]_vars PROVE Counted'
    OBVIOUS
  <2>1. /\ cfg.MaxConnPerIP \in Nat /\ cfg.MaxConnPerRoom \in Nat
        /\ connCounter \in [IPs -> Nat] /\ roomConnCount \in [RoomIds -> Nat]
    BY HubConstants DEF HubInv, TypeOK
  <2>2. connCounter' \in [IPs -> Nat] /\ roomConnCount' \in [RoomIds -> Nat]
    BY QuotaKept
  <2>3. cfg' = cfg
    BY CountersRise
  <2>4. ASSUME NEW i \in IPs, cfg.MaxConnPerIP > 0 PROVE connCounter'[i] <= cfg.MaxConnPerIP
    BY <2>1, <2>2, <2>4, CountersRise
  <2>5. ASSUME NEW i \in RoomIds, cfg.MaxConnPerRoom > 0 PROVE roomConnCount'[i] <= cfg.MaxConnPerRoom
    BY <2>1, <2>2, <2>5, CountersRise
  <2> QED
    BY <2>3, <2>4, <2>5
<1>3. HubInv /\ Counted => LimitsRespected
  BY DEF HubInv, QuotaExact, LimitsRespected
<1> HIDE DEF Counted
<1> QED
  BY <1>1, <1>2, <1>3, HubInvariant, PTL DEF Spec

=============================================================================
