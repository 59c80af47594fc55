------------------------------ MODULE EventHub ------------------------------
(***************************************************************************)
(* The WebSocket hub of src/internal/server/ws.go.                         *)
(*                                                                         *)
(* One goroutine, Run, owns the set of clients and takes from three        *)
(* buffered channels: messages to broadcast, clients that join, clients    *)
(* that leave.  Each client has a bounded buffer, filled by Run and        *)
(* emptied by the client's writePump, another goroutine.  A client too     *)
(* slow to empty it is dropped by Run; one whose connection fails asks to  *)
(* leave.  Both may happen to the same client, in either order, while the  *)
(* context of Run is cancelled.                                            *)
(*                                                                         *)
(* Messages are all alike: they are counted, per channel and per client.   *)
(***************************************************************************)
EXTENDS Integers, Sequences, FiniteSets, SequencesExt

CONSTANTS
    Clients,       \* the requests for a WebSocket that are served
    BroadcastCap,  \* cap(h.broadcast)
    QueueCap,      \* cap(h.register) and cap(h.unregister)
    SendCap,       \* wsSendBufSize
    MaxMessages    \* bound on the messages accepted by Broadcast

HubAssumption ==
    /\ {BroadcastCap, QueueCap, SendCap, MaxMessages} \subseteq Nat \ {0}

VARIABLES
    cancelled,     \* the context of Run is done
    stopped,       \* Run has returned
    accepted,      \* messages ever put into h.broadcast
    taken,         \* messages Run has taken from it
    registerQ,     \* the buffer of h.register
    unregisterQ,   \* the buffer of h.unregister
    clients,       \* h.clients
    send,          \* the number of messages in each c.send
    closes,        \* how often close(c.send) was called
    pump,          \* where each client's handler or writePump is
    joined,        \* history: value of taken when the client was registered
    got            \* history: messages its pump took from c.send

vars == <<cancelled, stopped, accepted, taken, registerQ, unregisterQ,
          clients, send, closes, pump, joined, got>>
queues  == <<accepted, registerQ, unregisterQ>>
members == <<clients, send, closes, joined, taken>>

Init ==
    /\ cancelled = FALSE
    /\ stopped = FALSE
    /\ accepted = 0
    /\ taken = 0
    /\ registerQ = <<>>
    /\ unregisterQ = <<>>
    /\ clients = {}
    /\ send = [c \in Clients |-> 0]
    /\ closes = [c \in Clients |-> 0]
    /\ pump = [c \in Clients |-> "none"]
    /\ joined = [c \in Clients |-> 0]
    /\ got = [c \in Clients |-> 0]

-----------------------------------------------------------------------------
\* Broadcast never blocks.  On a full channel it drops the message, which
\* changes nothing.
Broadcast ==
    /\ accepted < MaxMessages
    /\ accepted - taken < BroadcastCap
    /\ accepted' = accepted + 1
    /\ UNCHANGED <<cancelled, stopped, registerQ, unregisterQ, members, pump, got>>

Cancel ==
    /\ ~cancelled
    /\ cancelled' = TRUE
    /\ UNCHANGED <<stopped, queues, members, pump, got>>

-----------------------------------------------------------------------------
\* close(c.send), which panics on a channel that is closed already.
Close(C) == [c \in Clients |-> IF c \in C THEN closes[c] + 1 ELSE closes[c]]

\* Fault: a client is taken at its word that it is still connected.
KnownUnchecked(C) == C

\* The clients a case of Run may take out: those it still knows.
Known(C) == C \cap clients

RunDone ==
    /\ cancelled
    /\ ~stopped
    /\ stopped' = TRUE
    /\ clients' = {}
    /\ closes' = Close(clients)
    /\ UNCHANGED <<cancelled, queues, send, joined, taken, pump, got>>

RunRegister ==
    /\ ~stopped
    /\ registerQ # <<>>
    /\ registerQ' = Tail(registerQ)
    /\ clients' = clients \cup {Head(registerQ)}
    /\ joined' = [joined EXCEPT ![Head(registerQ)] = taken]
    /\ UNCHANGED <<cancelled, stopped, accepted, unregisterQ, send, closes,
                   taken, pump, got>>

RunUnregister ==
    /\ ~stopped
    /\ unregisterQ # <<>>
    /\ unregisterQ' = Tail(unregisterQ)
    /\ clients' = clients \ {Head(unregisterQ)}
    /\ closes' = Close(Known({Head(unregisterQ)}))
    /\ UNCHANGED <<cancelled, stopped, accepted, registerQ, send, joined,
                   taken, pump, got>>

\* Fault: a client without room stays, and misses the message.
SlowTolerated == {}

\* The clients a message does not fit into are dropped.
Slow == {c \in clients : send[c] = SendCap}

\* The message goes to every client with room for it.  The loop is one step:
\* what a pump takes meanwhile it could as well have taken before.
RunBroadcast ==
    /\ ~stopped
    /\ taken < accepted
    /\ taken' = taken + 1
    /\ send' = [c \in Clients |->
                  IF c \in clients /\ send[c] < SendCap THEN send[c] + 1 ELSE send[c]]
    /\ clients' = clients \ Slow
    /\ closes' = Close(Slow)
    /\ UNCHANGED <<cancelled, stopped, queues, joined, pump, got>>

-----------------------------------------------------------------------------
\* handleWS: the client is queued for Run and its pump starts.  The handler
\* blocks while the queue is full, for ever once Run has returned.
HandleWS(c) ==
    /\ pump[c] = "none"
    /\ Len(registerQ) < QueueCap
    /\ registerQ' = Append(registerQ, c)
    /\ pump' = [pump EXCEPT ![c] = "running"]
    /\ UNCHANGED <<cancelled, stopped, accepted, unregisterQ, members, got>>

\* writePump takes a message and writes it; the write may fail.
PumpWrite(c) ==
    /\ pump[c] = "running"
    /\ send[c] > 0
    /\ send' = [send EXCEPT ![c] = @ - 1]
    /\ got' = [got EXCEPT ![c] = @ + 1]
    /\ \/ UNCHANGED pump
       \/ pump' = [pump EXCEPT ![c] = "leaving"]
    /\ UNCHANGED <<cancelled, stopped, queues, clients, closes, joined, taken>>

\* writePump sees the channel closed, once it has emptied it.
PumpClosed(c) ==
    /\ pump[c] = "running"
    /\ send[c] = 0
    /\ closes[c] > 0
    /\ pump' = [pump EXCEPT ![c] = "leaving"]
    /\ UNCHANGED <<cancelled, stopped, queues, members, got>>

\* A ping is not answered.  The first one is sent 30 s after the start, when
\* Run, which never blocks, has long taken the client in or has returned.
PumpPing(c) ==
    /\ pump[c] = "running"
    /\ stopped \/ ~Contains(registerQ, c)
    /\ pump' = [pump EXCEPT ![c] = "leaving"]
    /\ UNCHANGED <<cancelled, stopped, queues, members, got>>

\* The deferred send to h.unregister.
PumpLeave(c) ==
    /\ pump[c] = "leaving"
    /\ Len(unregisterQ) < QueueCap
    /\ unregisterQ' = Append(unregisterQ, c)
    /\ pump' = [pump EXCEPT ![c] = "gone"]
    /\ UNCHANGED <<cancelled, stopped, accepted, registerQ, members, got>>

Next ==
    \/ Broadcast
    \/ Cancel
    \/ RunDone
    \/ RunRegister
    \/ RunUnregister
    \/ RunBroadcast
    \/ \E c \in Clients : \/ HandleWS(c)
                          \/ PumpWrite(c)
                          \/ PumpClosed(c)
                          \/ PumpPing(c)
                          \/ PumpLeave(c)

Spec == Init /\ [][Next]_vars

-----------------------------------------------------------------------------
TypeOK ==
    /\ {cancelled, stopped} \subseteq BOOLEAN
    /\ taken \in 0..accepted /\ accepted \in 0..MaxMessages
    /\ {registerQ, unregisterQ} \subseteq Seq(Clients)
    /\ clients \subseteq Clients
    /\ send \in [Clients -> 0..SendCap]
    /\ closes \in [Clients -> Nat]
    /\ pump \in [Clients -> {"none", "running", "leaving", "gone"}]
    /\ joined \in [Clients -> 0..MaxMessages]
    /\ got \in [Clients -> 0..MaxMessages]

\* No channel is closed twice, which would bring down the whole process: a
\* client dropped as too slow (ws.go:83-88) also asks to leave (ws.go:72-77),
\* and Run may be closing everyone (ws.go:61-66).
ClosedOnce == \A c \in Clients : closes[c] <= 1

\* A client still connected has missed nothing since it joined: what its pump
\* took and what waits for it are all the messages handled since.  The hub
\* disconnects a slow client rather than skip a message (ws.go:79-89).
NothingSkipped ==
    \A c \in clients : joined[c] + got[c] + send[c] = taken
=============================================================================
