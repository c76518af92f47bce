------------------------------ MODULE WebSocketHub -----------------------------
(* The realtime stream of the API process (internal/websocket): one goroutine  *)
(* owns the set of clients and serves three queues (hub.go); every client has   *)
(* a read pump, a write pump and a bounded send channel (client.go); the HTTP   *)
(* handler registers a connection before it starts the pumps (handler.go). The  *)
(* payloads come from the Redis subscription (api/server.go).                   *)
EXTENDS Naturals, Sequences

CONSTANTS Conns,        \* connections that upgrade
          QueueCap,     \* capacity of the register and of the unregister queue
          BroadcastCap, \* capacity of the broadcast queue
          SendCap,      \* capacity of the send channel of a client
          MaxPayloads   \* bound: payloads that arrive

ASSUME HubAssumption == QueueCap \in Nat \ {0} /\ BroadcastCap \in Nat \ {0}
                        /\ SendCap \in Nat \ {0} /\ MaxPayloads \in Nat

VARIABLES running,      \* the hub goroutine serves its queues
          registerQ, unregisterQ, broadcastQ,
          members,      \* hub.clients
          send,         \* the channel of a client: what is buffered, and how often it was closed
          serving,      \* ServeWS of a connection: new, upgraded, registered, served
          readPump,       \* its read pump: none, reading, leaving, done
          writePump,       \* its write pump: none, writing, done
          conn,         \* the connection is open
          arrived,      \* payloads that came from Redis
          fanned,       \* history: payloads in the order the hub fanned them out
          joined,       \* history: how many it had fanned out when the client joined
          received      \* history: payloads written to the peer

hubVars == <<running, registerQ, unregisterQ, broadcastQ, members, send, serving, readPump, writePump, conn,
             arrived, fanned, joined, received>>
queues == <<registerQ, unregisterQ, broadcastQ>>
hubHistory == <<arrived, fanned, joined, received>>

HubInit ==
    /\ running = TRUE /\ members = {} /\ arrived = 0 /\ fanned = <<>>
    /\ registerQ = <<>> /\ unregisterQ = <<>> /\ broadcastQ = <<>>
    /\ send = [c \in Conns |-> [buf |-> <<>>, closes |-> 0]]
    /\ serving = [c \in Conns |-> "new"]
    /\ readPump = [c \in Conns |-> "none"] /\ writePump = [c \in Conns |-> "none"]
    /\ conn = [c \in Conns |-> FALSE]
    /\ joined = [c \in Conns |-> 0] /\ received = [c \in Conns |-> <<>>]

-------------------------------------------------------------------------------
(* ServeWS: upgrade, h.register <- client (waits for room), start the pumps.    *)

Upgrade(c) ==
    /\ serving[c] = "new"
    /\ serving' = [serving EXCEPT ![c] = "upgraded"] /\ conn' = [conn EXCEPT ![c] = TRUE]
    /\ UNCHANGED <<running, queues, members, send, readPump, writePump, hubHistory>>

Register(c) ==
    /\ serving[c] = "upgraded" /\ Len(registerQ) < QueueCap
    /\ registerQ' = Append(registerQ, c)
    /\ serving' = [serving EXCEPT ![c] = "registered"]
    /\ UNCHANGED <<running, unregisterQ, broadcastQ, members, send, readPump, writePump, conn, hubHistory>>

StartPumps(c) ==
    /\ serving[c] = "registered" /\ serving' = [serving EXCEPT ![c] = "served"]
    /\ readPump' = [readPump EXCEPT ![c] = "reading"] /\ writePump' = [writePump EXCEPT ![c] = "writing"]
    /\ UNCHANGED <<running, queues, members, send, conn, hubHistory>>

\* A payload comes from Redis; Broadcast drops it when the queue is full.
Broadcast ==
    /\ arrived < MaxPayloads /\ arrived' = arrived + 1
    /\ broadcastQ' = IF Len(broadcastQ) < BroadcastCap THEN Append(broadcastQ, arrived') ELSE broadcastQ
    /\ UNCHANGED <<running, registerQ, unregisterQ, members, send, serving, readPump, writePump, conn,
                   fanned, joined, received>>

-------------------------------------------------------------------------------
(* Hub.Run: one ready case of the select at a time.                            *)

HubRegister ==
    /\ running /\ registerQ # <<>> /\ registerQ' = Tail(registerQ)
    /\ members' = members \cup {Head(registerQ)}
    /\ joined' = [joined EXCEPT ![Head(registerQ)] = Len(fanned)]
    /\ UNCHANGED <<running, unregisterQ, broadcastQ, send, serving, readPump, writePump, conn, arrived, fanned, received>>

Closed(cs) == [c \in Conns |-> IF c \in cs THEN [send[c] EXCEPT !.closes = @ + 1] ELSE send[c]]
\* The send channels once c is unregistered: it may be no client (any more).
Unregistered(c) == Closed({c} \cap members)

HubUnregister ==
    /\ running /\ unregisterQ # <<>> /\ unregisterQ' = Tail(unregisterQ)
    /\ members' = members \ {Head(unregisterQ)}
    /\ send' = Unregistered(Head(unregisterQ))
    /\ UNCHANGED <<running, registerQ, broadcastQ, serving, readPump, writePump, conn, hubHistory>>

Slow == {c \in members : Len(send[c].buf) >= SendCap}
\* Mutant of StaysAfter: a slow client misses the payload and stays.
MutStaysAfter(cs) == cs
\* The clients that stay after a payload is fanned out: a slow one is dropped.
StaysAfter(cs) == cs \ Slow

HubBroadcast ==
    /\ running /\ broadcastQ # <<>> /\ broadcastQ' = Tail(broadcastQ)
    /\ fanned' = Append(fanned, Head(broadcastQ))
    /\ members' = StaysAfter(members)
    /\ send' = [c \in Conns |-> IF c \in members \ Slow
                                THEN [send[c] EXCEPT !.buf = Append(@, Head(broadcastQ))]
                                ELSE Closed(members \ StaysAfter(members))[c]]
    /\ UNCHANGED <<running, registerQ, unregisterQ, serving, readPump, writePump, conn, arrived, joined, received>>

\* ctx is cancelled: every channel is closed and nobody serves the queues.
HubStop ==
    /\ running /\ running' = FALSE
    /\ members' = {} /\ send' = Closed(members)
    /\ UNCHANGED <<queues, serving, readPump, writePump, conn, hubHistory>>

-------------------------------------------------------------------------------
(* The pumps.                                                                  *)

\* The peer goes away, its pong is late, or the write pump closed the connection.
ReadFails(c) ==
    /\ readPump[c] = "reading" /\ readPump' = [readPump EXCEPT ![c] = "leaving"]
    /\ UNCHANGED <<running, queues, members, send, serving, writePump, conn, hubHistory>>

\* The deferred h.unregister <- c, which waits for room, then the close.
Unregister(c) ==
    /\ readPump[c] = "leaving" /\ Len(unregisterQ) < QueueCap
    /\ unregisterQ' = Append(unregisterQ, c)
    /\ readPump' = [readPump EXCEPT ![c] = "done"] /\ conn' = [conn EXCEPT ![c] = FALSE]
    /\ UNCHANGED <<running, registerQ, broadcastQ, members, send, serving, writePump, hubHistory>>

WritePayload(c) ==
    /\ writePump[c] = "writing" /\ send[c].buf # <<>> /\ conn[c]
    /\ send' = [send EXCEPT ![c].buf = Tail(@)]
    /\ received' = [received EXCEPT ![c] = Append(@, Head(send[c].buf))]
    /\ UNCHANGED <<running, queues, members, serving, readPump, writePump, conn, arrived, fanned, joined>>

\* A payload or a ping cannot be written: the payload is gone with the pump.
WriteFails(c) ==
    /\ writePump[c] = "writing"
    /\ send' = [send EXCEPT ![c].buf = IF @ = <<>> THEN @ ELSE Tail(@)]
    /\ writePump' = [writePump EXCEPT ![c] = "done"] /\ conn' = [conn EXCEPT ![c] = FALSE]
    /\ UNCHANGED <<running, queues, members, serving, readPump, hubHistory>>

\* The hub closed the channel and what it held is written.
WriterLeaves(c) ==
    /\ writePump[c] = "writing" /\ send[c].closes > 0 /\ send[c].buf = <<>>
    /\ writePump' = [writePump EXCEPT ![c] = "done"] /\ conn' = [conn EXCEPT ![c] = FALSE]
    /\ UNCHANGED <<running, queues, members, send, serving, readPump, hubHistory>>

HubNext ==
    \/ \E c \in Conns : \/ Upgrade(c) \/ Register(c) \/ StartPumps(c)
                        \/ ReadFails(c) \/ Unregister(c)
                        \/ WritePayload(c) \/ WriteFails(c) \/ WriterLeaves(c)
    \/ Broadcast \/ HubRegister \/ HubUnregister \/ HubBroadcast \/ HubStop

HubSpec == HubInit /\ [][HubNext]_hubVars

-------------------------------------------------------------------------------
(* Properties.                                                                 *)

\* What the hub fanned out since the client joined.
Since(c) == SubSeq(fanned, joined[c] + 1, Len(fanned))

\* A peer sees a gapless run of the stream from the moment it joined, and as long
\* as it is a client whose write pump lives it lags by what its channel holds and
\* no more: the hub drops a slow client, never a payload of it (hub.go Run).
StreamWithoutGap ==
    \A c \in Conns :
        /\ received[c] = SubSeq(Since(c), 1, Len(received[c]))
        /\ c \in members /\ writePump[c] # "done" => received[c] \o send[c].buf = Since(c)

\* The hub never sends on a closed channel and never closes one twice, either of
\* which would end the API process: it uses the channels of its clients only, and
\* unregistration, drop and stop each make sure that it is one (hub.go Run).
NoPanic == \A c \in Conns : send[c].closes <= IF c \in members THEN 0 ELSE 1
================================================================================
