------------------------------- MODULE WsHub -------------------------------
(***************************************************************************)
(* The WebSocket layer of one instance: the handshake of ServeWs with its  *)
(* connection quota (websocket/handler.go), the event loop of every Room   *)
(* and the room map of the Hub (websocket/hub.go), and the read and write  *)
(* pumps of every Client (websocket/client.go), without Redis              *)
(* (redisClient == nil).                                                   *)
(*                                                                         *)
(* A Room object is named after the connection whose GetOrCreateRoom made  *)
(* it, so hub.rooms maps a room id to an object or to NoRoom, and an       *)
(* object may live on after it was removed from the map.                   *)
(***************************************************************************)
EXTENDS Integers, Sequences, FiniteSets

CONSTANTS Conns,               \* connection attempts
          Messages,            \* messages given to BroadcastToRoom
          RoomIds, IPs,
          RoomOf,              \* room id a connection asks for
          IpOf,                \* client IP of a connection
          Target,              \* room id a message is broadcast to
          NoRoom,
          Configs,             \* limits the hub may be configured with; 0: none
          SendBufferSize,      \* capacity of client.send
          BroadcastBufferSize, \* capacity of room.broadcast
          MaxReplies           \* bound: replies each connection may be owed

ASSUME HubConstants ==
    /\ RoomOf \in [Conns -> RoomIds]
    /\ IpOf \in [Conns -> IPs]
    /\ Target \in [Messages -> RoomIds]
    /\ NoRoom \notin Conns
    /\ IsFiniteSet(Conns)
    /\ Configs \subseteq [MaxConnPerIP : Nat, MaxConnPerRoom : Nat]
    /\ MaxReplies \in [Conns -> Nat]
    /\ {SendBufferSize, BroadcastBufferSize} \subseteq Nat \ {0}

VARIABLES
    \* the handshake and the client object of a connection
    serve,         \* program point of ServeWs
    room,          \* the Room object GetOrCreateRoom returned
    done,          \* client.done is closed: quota released, socket closed
    send,          \* client.send
    readPump, writePump,
    owed,          \* replies the connection may still cause
    \* the Room objects
    run,           \* state of the goroutine Room.Run
    clients, count, stop, broadcast,
    \* the hub
    cfg,           \* the limits of hub.cfg
    rooms, shuttingDown, hub,
    connCounter, roomConnCount,
    \* calls of BroadcastToRoom
    sender, found

clientVars == <<serve, room, done, send, readPump, writePump, owed>>
roomVars   == <<run, clients, count, stop, broadcast>>
hubVars    == <<rooms, shuttingDown, hub>>
quotaVars  == <<connCounter, roomConnCount>>
sendVars   == <<sender, found>>
vars == <<clientVars, roomVars, hubVars, quotaVars, sendVars, cfg>>

\* A reply (ACK, error or history page) as opposed to a broadcast message.
Reply == "reply"

TypeOK ==
    /\ cfg \in Configs
    /\ serve \in [Conns -> {"idle", "acquired", "upgraded", "admitted", "joining",
                            "registered", "serving", "refused"}]
    /\ room \in [Conns -> Conns \cup {NoRoom}]
    /\ done \in [Conns -> BOOLEAN]
    /\ send \in [Conns -> Seq(Messages \cup {Reply})]
    /\ \A c \in Conns : Len(send[c]) <= SendBufferSize
    /\ readPump \in [Conns -> {"none", "reading", "unregistering", "stopping", "exited"}]
    /\ writePump \in [Conns -> {"none", "running", "exited"}]
    /\ owed \in [Conns -> Nat]
    /\ \A c \in Conns : owed[c] <= MaxReplies[c]
    /\ run \in [Conns -> {"none", "running", "removing", "draining", "done"}]
    /\ clients \in [Conns -> SUBSET Conns]
    /\ count \in [Conns -> Nat]
    /\ stop \in [Conns -> BOOLEAN]
    /\ broadcast \in [Conns -> Seq(Messages)]
    /\ \A o \in Conns : Len(broadcast[o]) <= BroadcastBufferSize
    /\ rooms \in [RoomIds -> Conns \cup {NoRoom}]
    /\ shuttingDown \in BOOLEAN
    /\ hub \in {"open", "closing", "closed"}
    /\ connCounter \in [IPs -> Nat]
    /\ roomConnCount \in [RoomIds -> Nat]
    /\ sender \in [Messages -> {"idle", "looking", "sending", "done"}]
    /\ found \in [Messages -> Conns \cup {NoRoom}]

Init ==
    /\ cfg \in Configs
    /\ serve = [c \in Conns |-> "idle"]
    /\ room = [c \in Conns |-> NoRoom]
    /\ done = [c \in Conns |-> FALSE]
    /\ send = [c \in Conns |-> <<>>]
    /\ readPump = [c \in Conns |-> "none"]
    /\ writePump = [c \in Conns |-> "none"]
    /\ owed = MaxReplies
    /\ run = [o \in Conns |-> "none"]
    /\ clients = [o \in Conns |-> {}]
    /\ count = [o \in Conns |-> 0]
    /\ stop = [o \in Conns |-> FALSE]
    /\ broadcast = [o \in Conns |-> <<>>]
    /\ rooms = [i \in RoomIds |-> NoRoom]
    /\ shuttingDown = FALSE
    /\ hub = "open"
    /\ connCounter = [i \in IPs |-> 0]
    /\ roomConnCount = [i \in RoomIds |-> 0]
    /\ sender = [m \in Messages |-> "idle"]
    /\ found = [m \in Messages |-> NoRoom]

-----------------------------------------------------------------------------
(* The connection quota and client.stop.                                   *)

\* A map counter after n releases: the entry is deleted at zero or below.
Released(n, releases) == IF n - releases <= 0 THEN 0 ELSE n - releases

\* The release closures of the connections in S are called.
Release(S) ==
    /\ connCounter' = [i \in IPs |->
          Released(connCounter[i], Cardinality({c \in S : IpOf[c] = i}))]
    /\ roomConnCount' = [i \in RoomIds |->
          Released(roomConnCount[i], Cardinality({c \in S : RoomOf[c] = i}))]

\* Mutant: stop runs its body on every call.
StopRepeated(S) ==
    /\ done' = [c \in Conns |-> done[c] \/ c \in S]
    /\ Release(S)

\* client.stop of the clients in S: the once-body of those not stopped yet.
Stop(S) ==
    /\ done' = [c \in Conns |-> done[c] \/ c \in S]
    /\ Release({c \in S : ~done[c]})

\* TryAcquireConn admits the connection.
WithinQuota(c) ==
    /\ cfg.MaxConnPerIP > 0 => connCounter[IpOf[c]] < cfg.MaxConnPerIP
    /\ cfg.MaxConnPerRoom > 0 => roomConnCount[RoomOf[c]] < cfg.MaxConnPerRoom

-----------------------------------------------------------------------------
(* ServeWs.                                                                *)

\* Token, room status and quota: the connection is refused, or it holds one
\* unit of the quota of its IP and of its room.
Accept(c) ==
    /\ serve[c] = "idle"
    /\ \/ /\ serve' = [serve EXCEPT ![c] = "refused"]
          /\ UNCHANGED quotaVars
       \/ /\ WithinQuota(c)
          /\ serve' = [serve EXCEPT ![c] = "acquired"]
          /\ connCounter' = [connCounter EXCEPT ![IpOf[c]] = @ + 1]
          /\ roomConnCount' = [roomConnCount EXCEPT ![RoomOf[c]] = @ + 1]
    /\ UNCHANGED <<room, done, send, readPump, writePump, owed, roomVars, hubVars, sendVars, cfg>>

\* upgrader.Upgrade; its failure releases the quota.
Upgrade(c) ==
    /\ serve[c] = "acquired"
    /\ \/ /\ serve' = [serve EXCEPT ![c] = "upgraded"]
          /\ UNCHANGED quotaVars
       \/ /\ serve' = [serve EXCEPT ![c] = "refused"]
          /\ Release({c})
    /\ UNCHANGED <<room, done, send, readPump, writePump, owed, roomVars, hubVars, sendVars, cfg>>

\* GetOrCreateRoom reads shuttingDown before it takes the lock; nil makes
\* ServeWs release the quota and close the socket.
CheckShuttingDown(c) ==
    /\ serve[c] = "upgraded"
    /\ \/ /\ ~shuttingDown
          /\ serve' = [serve EXCEPT ![c] = "admitted"]
          /\ UNCHANGED quotaVars
       \/ /\ shuttingDown
          /\ serve' = [serve EXCEPT ![c] = "refused"]
          /\ Release({c})
    /\ UNCHANGED <<room, done, send, readPump, writePump, owed, roomVars, hubVars, sendVars, cfg>>

\* GetOrCreateRoom under hub.mu: the mapped object, or a new one with its Run.
GetOrCreateRoom(c) ==
    LET mapped == rooms[RoomOf[c]]
    IN  /\ serve[c] = "admitted"
        /\ serve' = [serve EXCEPT ![c] = "joining"]
        /\ \/ /\ mapped # NoRoom
              /\ room' = [room EXCEPT ![c] = mapped]
              /\ UNCHANGED <<rooms, run>>
           \/ /\ mapped = NoRoom
              /\ room' = [room EXCEPT ![c] = c]
              /\ rooms' = [rooms EXCEPT ![RoomOf[c]] = c]
              /\ run' = [run EXCEPT ![c] = "running"]
        /\ UNCHANGED <<done, send, readPump, writePump, owed, clients, count, stop, broadcast,
                       shuttingDown, hub, quotaVars, sendVars, cfg>>

\* The event loop of the room takes the client from room.register.
Register(c) ==
    /\ serve[c] = "joining"
    /\ run[room[c]] = "running"
    /\ serve' = [serve EXCEPT ![c] = "registered"]
    /\ clients' = [clients EXCEPT ![room[c]] = @ \cup {c}]
    /\ count' = [count EXCEPT ![room[c]] = @ + 1]
    /\ UNCHANGED <<room, done, send, readPump, writePump, owed, run, stop, broadcast, hubVars,
                   quotaVars, sendVars, cfg>>

\* Mutant: the handshake waits for the registration only.
RegisterRefusedNever(c) ==
    /\ FALSE
    /\ UNCHANGED vars

\* The other branch of the select: room.stop is closed.
RegisterRefused(c) ==
    /\ serve[c] = "joining"
    /\ stop[room[c]]
    /\ serve' = [serve EXCEPT ![c] = "refused"]
    /\ Release({c})
    /\ UNCHANGED <<room, done, send, readPump, writePump, owed, roomVars, hubVars, sendVars, cfg>>

\* go client.writePump(); go client.readPump()
StartPumps(c) ==
    /\ serve[c] = "registered"
    /\ serve' = [serve EXCEPT ![c] = "serving"]
    /\ readPump' = [readPump EXCEPT ![c] = "reading"]
    /\ writePump' = [writePump EXCEPT ![c] = "running"]
    /\ UNCHANGED <<room, done, send, owed, roomVars, hubVars, quotaVars, sendVars, cfg>>

ServeStep(c) ==
    \/ Upgrade(c)
    \/ CheckShuttingDown(c)
    \/ GetOrCreateRoom(c)
    \/ Register(c)
    \/ RegisterRefused(c)
    \/ StartPumps(c)

-----------------------------------------------------------------------------
(* The pumps of a client.                                                  *)

\* enqueue of an ACK, an error or a history page: dropped when the client is
\* done or its buffer is full.
EnqueueReply(c) ==
    /\ serve[c] = "serving"
    /\ owed[c] > 0
    /\ owed' = [owed EXCEPT ![c] = @ - 1]
    /\ send' = IF ~done[c] /\ Len(send[c]) < SendBufferSize
               THEN [send EXCEPT ![c] = Append(@, Reply)]
               ELSE send
    /\ UNCHANGED <<serve, room, done, readPump, writePump, roomVars, hubVars, quotaVars,
                   sendVars, cfg>>

\* ReadMessage fails: the peer went away, or stop closed the socket.
ReadError(c) ==
    /\ readPump[c] = "reading"
    /\ readPump' = [readPump EXCEPT ![c] = "unregistering"]
    /\ UNCHANGED <<serve, room, done, send, writePump, owed, roomVars, hubVars, quotaVars,
                   sendVars, cfg>>

\* Mutant: the loop takes only clients that are in the map.
UnregisterMemberOnly(c) ==
    LET o == room[c]
    IN  /\ readPump[c] = "unregistering"
        /\ run[o] = "running"
        /\ c \in clients[o]
        /\ readPump' = [readPump EXCEPT ![c] = "stopping"]
        /\ clients' = [clients EXCEPT ![o] = @ \ {c}]
        /\ count' = [count EXCEPT ![o] = @ - 1]
        /\ Stop({c})
        /\ run' = IF count[o] = 1 THEN [run EXCEPT ![o] = "removing"] ELSE run
        /\ UNCHANGED <<serve, room, send, writePump, owed, stop, broadcast, hubVars, sendVars, cfg>>

\* The event loop takes the client from room.unregister; a client that was
\* kicked before is no longer in the map and nothing happens.
Unregister(c) ==
    LET o == room[c]
    IN  /\ readPump[c] = "unregistering"
        /\ run[o] = "running"
        /\ readPump' = [readPump EXCEPT ![c] = "stopping"]
        /\ \/ /\ c \in clients[o]
              /\ clients' = [clients EXCEPT ![o] = @ \ {c}]
              /\ count' = [count EXCEPT ![o] = @ - 1]
              /\ Stop({c})
              /\ run' = IF count[o] = 1 THEN [run EXCEPT ![o] = "removing"] ELSE run
           \/ /\ c \notin clients[o]
              /\ UNCHANGED <<clients, count, done, quotaVars, run>>
        /\ UNCHANGED <<serve, room, send, writePump, owed, stop, broadcast, hubVars, sendVars, cfg>>

\* The other branch of the select: room.done is closed.
UnregisterRoomDone(c) ==
    /\ readPump[c] = "unregistering"
    /\ run[room[c]] = "done"
    /\ readPump' = [readPump EXCEPT ![c] = "stopping"]
    /\ UNCHANGED <<serve, room, done, send, writePump, owed, roomVars, hubVars, quotaVars,
                   sendVars, cfg>>

\* c.stop() at the end of readPump.
ReadPumpExit(c) ==
    /\ readPump[c] = "stopping"
    /\ readPump' = [readPump EXCEPT ![c] = "exited"]
    /\ Stop({c})
    /\ UNCHANGED <<serve, room, send, writePump, owed, roomVars, hubVars, sendVars, cfg>>

\* writePump writes a message of client.send to the open socket.
WriteMessage(c) ==
    /\ writePump[c] = "running"
    /\ send[c] # <<>>
    /\ ~done[c]
    /\ send' = [send EXCEPT ![c] = Tail(@)]
    /\ UNCHANGED <<serve, room, done, readPump, writePump, owed, roomVars, hubVars, quotaVars,
                   sendVars, cfg>>

\* writePump ends: a ping failed, client.done is closed, or the write of a
\* message it took from client.send failed.
WritePumpExit(c) ==
    /\ writePump[c] = "running"
    /\ writePump' = [writePump EXCEPT ![c] = "exited"]
    /\ \/ UNCHANGED send
       \/ /\ send[c] # <<>>
          /\ send' = [send EXCEPT ![c] = Tail(@)]
    /\ Stop({c})
    /\ UNCHANGED <<serve, room, readPump, owed, roomVars, hubVars, sendVars, cfg>>

-----------------------------------------------------------------------------
(* Room.Run.                                                               *)

\* Mutant: RemoveRoom deletes whatever the id is mapped to.
RemoveRoomAlways(o) ==
    /\ run[o] = "removing"
    /\ run' = [run EXCEPT ![o] = "running"]
    /\ rooms' = [rooms EXCEPT ![RoomOf[o]] = NoRoom]
    /\ UNCHANGED <<clientVars, clients, count, stop, broadcast, shuttingDown, hub, quotaVars,
                   sendVars, cfg>>

\* Mutant: the loop of an empty room ends and the room stays in the map.
RunEndsWhenEmpty(o) ==
    /\ run[o] = "removing"
    /\ run' = [run EXCEPT ![o] = "done"]
    /\ UNCHANGED <<clientVars, clients, count, stop, broadcast, hubVars, quotaVars, sendVars, cfg>>

\* RemoveRoomIfSame after the last unregistration; the loop goes on.
RemoveRoomIfSame(o) ==
    /\ run[o] = "removing"
    /\ run' = [run EXCEPT ![o] = "running"]
    /\ rooms' = IF rooms[RoomOf[o]] = o THEN [rooms EXCEPT ![RoomOf[o]] = NoRoom] ELSE rooms
    /\ UNCHANGED <<clientVars, clients, count, stop, broadcast, shuttingDown, hub, quotaVars,
                   sendVars, cfg>>

\* Clients of the room whose send buffer is full.
Slow(o) == {c \in clients[o] : Len(send[c]) >= SendBufferSize}

\* Mutant: the kick of a slow client leaves count alone.
BroadcastToClientsMiscounts(o) ==
    LET m == Head(broadcast[o])
    IN  /\ run[o] \in {"running", "draining"}
        /\ broadcast[o] # <<>>
        /\ broadcast' = [broadcast EXCEPT ![o] = Tail(@)]
        /\ send' = [c \in Conns |-> IF c \in clients[o] \ Slow(o) THEN Append(send[c], m)
                                                                 ELSE send[c]]
        /\ clients' = [clients EXCEPT ![o] = @ \ Slow(o)]
        /\ Stop(Slow(o))
        /\ UNCHANGED <<serve, room, readPump, writePump, owed, run, count, stop, hubVars, sendVars, cfg>>

\* broadcastToClients: every client gets the message or, when its buffer is
\* full, is stopped and removed.  The loop does it for each message, and so
\* does the deferred drain.
BroadcastToClients(o) ==
    LET m == Head(broadcast[o])
    IN  /\ run[o] \in {"running", "draining"}
        /\ broadcast[o] # <<>>
        /\ broadcast' = [broadcast EXCEPT ![o] = Tail(@)]
        /\ send' = [c \in Conns |-> IF c \in clients[o] \ Slow(o) THEN Append(send[c], m)
                                                                 ELSE send[c]]
        /\ clients' = [clients EXCEPT ![o] = @ \ Slow(o)]
        /\ count' = [count EXCEPT ![o] = @ - Cardinality(Slow(o))]
        /\ Stop(Slow(o))
        /\ UNCHANGED <<serve, room, readPump, writePump, owed, run, stop, hubVars, sendVars, cfg>>

\* Mutant: the stop signal is only seen by an empty room.
RunStopWhenEmpty(o) ==
    /\ run[o] = "running"
    /\ stop[o]
    /\ clients[o] = {}
    /\ run' = [run EXCEPT ![o] = "draining"]
    /\ UNCHANGED <<clientVars, clients, count, stop, broadcast, hubVars, quotaVars, sendVars, cfg>>

\* case <-r.stop: return, which starts the deferred drain.
RunStop(o) ==
    /\ run[o] = "running"
    /\ stop[o]
    /\ run' = [run EXCEPT ![o] = "draining"]
    /\ UNCHANGED <<clientVars, clients, count, stop, broadcast, hubVars, quotaVars, sendVars, cfg>>

\* Mutant: the room ends without stopping its clients.
RunDoneKeepsClients(o) ==
    /\ run[o] = "draining"
    /\ broadcast[o] = <<>>
    /\ run' = [run EXCEPT ![o] = "done"]
    /\ UNCHANGED <<clientVars, clients, count, stop, broadcast, hubVars, quotaVars, sendVars, cfg>>

\* doneDrain: stop every client, reset count, close(r.done).
RunDone(o) ==
    /\ run[o] = "draining"
    /\ broadcast[o] = <<>>
    /\ run' = [run EXCEPT ![o] = "done"]
    /\ clients' = [clients EXCEPT ![o] = {}]
    /\ count' = [count EXCEPT ![o] = 0]
    /\ Stop(clients[o])
    /\ UNCHANGED <<serve, room, send, readPump, writePump, owed, stop, broadcast, hubVars,
                   sendVars, cfg>>

RunStep(o) == RemoveRoomIfSame(o) \/ BroadcastToClients(o) \/ RunStop(o) \/ RunDone(o)

-----------------------------------------------------------------------------
(* BroadcastToRoom and Hub.Shutdown.                                       *)

\* shuttingDown is read first; then the room is looked up under the read lock.
FindRoom(m) ==
    /\ \/ /\ sender[m] = "idle"
          /\ sender' = [sender EXCEPT ![m] = IF shuttingDown THEN "done" ELSE "looking"]
          /\ UNCHANGED found
       \/ /\ sender[m] = "looking" /\ rooms[Target[m]] # NoRoom
          /\ found' = [found EXCEPT ![m] = rooms[Target[m]]]
          /\ sender' = [sender EXCEPT ![m] = "sending"]
       \/ /\ sender[m] = "looking" /\ rooms[Target[m]] = NoRoom
          /\ sender' = [sender EXCEPT ![m] = "done"]
          /\ UNCHANGED found
    /\ UNCHANGED <<clientVars, roomVars, hubVars, quotaVars, cfg>>

\* The non-blocking send to room.broadcast: dropped when it is full.  The local
\* variable room is gone with the call.
SendToRoom(m) ==
    /\ sender[m] = "sending"
    /\ sender' = [sender EXCEPT ![m] = "done"]
    /\ found' = [found EXCEPT ![m] = NoRoom]
    /\ broadcast' = IF Len(broadcast[found[m]]) < BroadcastBufferSize
                    THEN [broadcast EXCEPT ![found[m]] = Append(@, m)]
                    ELSE broadcast
    /\ UNCHANGED <<clientVars, run, clients, count, stop, hubVars, quotaVars, cfg>>

\* h.shuttingDown.Store(true)
ShutdownBegin ==
    /\ hub = "open"
    /\ hub' = "closing"
    /\ shuttingDown' = TRUE
    /\ UNCHANGED <<clientVars, roomVars, rooms, quotaVars, sendVars, cfg>>

\* Under hub.mu every mapped room gets its stop signal; h.wg counts only the
\* Redis goroutines, so Shutdown returns here.
ShutdownStopRooms ==
    /\ hub = "closing"
    /\ hub' = "closed"
    /\ stop' = [o \in Conns |-> stop[o] \/ \E i \in RoomIds : rooms[i] = o]
    /\ UNCHANGED <<clientVars, run, clients, count, broadcast, rooms, shuttingDown, quotaVars,
                   sendVars, cfg>>

-----------------------------------------------------------------------------
Next ==
    \/ \E c \in Conns :
          \/ Accept(c) \/ ServeStep(c)
          \/ EnqueueReply(c) \/ ReadError(c) \/ Unregister(c) \/ UnregisterRoomDone(c)
          \/ ReadPumpExit(c) \/ WriteMessage(c) \/ WritePumpExit(c)
          \/ RunStep(c)
    \/ \E m \in Messages : FindRoom(m) \/ SendToRoom(m)
    \/ ShutdownBegin
    \/ ShutdownStopRooms

Spec == Init /\ [][Next]_vars

\* Goroutines that can run do run; a select that stays possible is taken.
\* Peers need not hang up, clients need not connect.  A closed socket makes
\* ReadMessage fail and writePump return, so those steps are fair too.  The
\* event loop serves each waiting client and the stop signal in the end,
\* because select picks among the ready cases at random (strong fairness).
FairSpec ==
    /\ Spec
    /\ \A c \in Conns :
          /\ WF_vars(ServeStep(c))
          /\ WF_vars(ReadPumpExit(c))
          /\ WF_vars(done[c] /\ ReadError(c))
          /\ WF_vars(done[c] /\ WritePumpExit(c))
          /\ SF_vars(Register(c) \/ RegisterRefused(c))
          /\ SF_vars(Unregister(c) \/ UnregisterRoomDone(c))
          /\ WF_vars(RunStep(c))
          /\ SF_vars(RunStop(c))
    /\ WF_vars(ShutdownStopRooms)

-----------------------------------------------------------------------------
(* Properties.                                                             *)

\* The connections that hold a unit of the quota: from TryAcquireConn to the
\* refusal of the handshake or to client.stop.
Holders ==
    {c \in Conns :
        \/ serve[c] \in {"acquired", "upgraded", "admitted", "joining"}
        \/ serve[c] \in {"registered", "serving"} /\ ~done[c]}

\* Every path of the handshake and every way a client can end (peer, write
\* error, slow kick, room stop, in any combination) gives its quota back
\* exactly once: the counters are the number of holders.
QuotaExact ==
    /\ \A i \in IPs : connCounter[i] = Cardinality({c \in Holders : IpOf[c] = i})
    /\ \A i \in RoomIds : roomConnCount[i] = Cardinality({c \in Holders : RoomOf[c] = i})

\* However handshakes and departures interleave, no more connections hold
\* quota than hub.cfg allows per IP and per room; 0 means no limit.
LimitsRespected ==
    /\ cfg.MaxConnPerIP > 0 =>
          \A i \in IPs : Cardinality({c \in Holders : IpOf[c] = i}) <= cfg.MaxConnPerIP
    /\ cfg.MaxConnPerRoom > 0 =>
          \A i \in RoomIds : Cardinality({c \in Holders : RoomOf[c] = i}) <= cfg.MaxConnPerRoom

\* Room.count, which decides the removal of the room and is what OnlineCount
\* reports, is the number of clients in the room after every step of Run.
CountIsClients == \A o \in Conns : count[o] = Cardinality(clients[o])

\* A room that has clients is never taken out of hub.rooms: the last client
\* of an object that was replaced does not remove its successor
\* (RemoveRoomIfSame).
RemovedRoomIsEmpty ==
    \A i \in RoomIds :
        rooms[i] # NoRoom /\ rooms'[i] # rooms[i] => clients[rooms[i]] = {}

NonEmptyRoomKept == [][RemovedRoomIsEmpty]_vars

\* Whoever finds a room in hub.rooms finds one whose event loop runs or which
\* was told to stop, so ServeWs and readPump never wait on a dead loop.
MappedRoomAnswers ==
    \A i \in RoomIds :
        rooms[i] # NoRoom =>
            run[rooms[i]] \in {"running", "removing"} \/ stop[rooms[i]]

\* When the event loop of a room has ended, none of its clients is left open.
DoneRoomHasNoOpenClient ==
    \A c \in Conns :
        serve[c] \in {"registered", "serving"} /\ run[room[c]] = "done" => done[c]

\* The inductive invariant behind these.  A connection: it has its room from
\* GetOrCreateRoom on, and client.stop and the pumps exist for registered
\* clients only.
ConnInv ==
    \A c \in Conns :
        /\ serve[c] \in {"joining", "registered", "serving"} =>
              room[c] \in Conns /\ run[room[c]] # "none" /\ RoomOf[room[c]] = RoomOf[c]
        /\ done[c] => serve[c] \in {"registered", "serving"}
        /\ readPump[c] # "none" \/ writePump[c] # "none" => serve[c] = "serving"

\* A Room object: its clients were registered with it, it is empty before its
\* loop starts, while it is being removed and after its loop has ended, and
\* its loop only ends on the stop signal.
RoomInv ==
    \A o \in Conns :
        /\ \A c \in clients[o] : serve[c] \in {"registered", "serving"} /\ room[c] = o
        /\ run[o] \in {"none", "removing", "done"} => clients[o] = {}
        /\ run[o] \in {"draining", "done"} => stop[o]

\* What hub.rooms and a broadcast find is an object whose loop was started,
\* under the id it was made for.
MapInv ==
    /\ \A i \in RoomIds : rooms[i] # NoRoom => run[rooms[i]] # "none" /\ RoomOf[rooms[i]] = i
    /\ \A m \in Messages : sender[m] = "sending" => found[m] # NoRoom /\ run[found[m]] # "none"

\* Only client.stop takes a registered client out of its room.
OpenIsMember ==
    \A c \in Conns :
        serve[c] \in {"registered", "serving"} /\ ~done[c] => c \in clients[room[c]]

HubInv ==
    /\ TypeOK
    /\ ConnInv
    /\ RoomInv
    /\ MapInv
    /\ OpenIsMember
    /\ CountIsClients
    /\ QuotaExact

\* Every handshake that got its quota ends: the connection is served or
\* refused, also when the room stops under it.
HandshakeEnds ==
    \A c \in Conns : serve[c] = "acquired" ~> serve[c] \in {"serving", "refused"}

\* A client that lost its peer or was stopped, whoever stopped it first, is
\* forgotten: it does not hang in readPump's select, both pumps exit, the room
\* drops it and it holds no quota.
DepartureCompletes ==
    \A c \in Conns :
        done[c] \/ readPump[c] = "unregistering"
            ~> /\ readPump[c] = "exited"
               /\ writePump[c] = "exited"
               /\ c \notin clients[room[c]]
               /\ c \notin Holders

\* A room that gets the stop signal ends and stops its clients.
SignalledRoomEnds == \A o \in Conns : stop[o] ~> run[o] = "done"

-----------------------------------------------------------------------------
(* Statements of the documentation that the code does not keep.            *)

\* README.md:625: within one instance "only the explicit kick of a slow
\* client" makes a client miss messages.  So a client in a room is in the
\* room that BroadcastToRoom finds.
ClientsAreReachable ==
    \A c \in Conns :
        serve[c] \in {"registered", "serving"} /\ c \in clients[room[c]] /\ ~done[c]
            => rooms[RoomOf[c]] = room[c]

=============================================================================
