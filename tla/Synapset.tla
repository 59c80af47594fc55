------------------------------ MODULE Synapset ------------------------------
(***************************************************************************)
(* The client of the Synapset memory server, src/internal/synapset, as the *)
(* workers of the pool share it: one session id for all of them.  A call   *)
(* opens a session if there is none, sends its request with whatever       *)
(* session is current then, and on any error throws the current session    *)
(* away, opens another and tries once more.                                *)
(*                                                                         *)
(* The server is external: it serves a request with a session it knows,    *)
(* refuses one without, and forgets all sessions when it restarts.  A      *)
(* request or its answer may be lost.                                      *)
(***************************************************************************)
EXTENDS Integers

CONSTANTS
    Callers,       \* workers with the client in common
    MaxFaults,     \* bound: lost requests and answers, and expired contexts
    MaxRestarts    \* bound: restarts of the server

SynapsetAssumption == {MaxFaults, MaxRestarts} \subseteq Nat

VARIABLES
    sessionID,     \* the session the client has: "none", "live", or "stale"
    faults, restarts,
    pc,            \* where each caller is in callTool
    opened,        \* the session its initialize request obtained
    retrying,      \* callTool is past its first attempt
    result,        \* how the caller's last call ended
    disturbed      \* history: during the call something was lost, the server
                   \* restarted, or another caller spoilt the session

callVars == <<pc, opened, retrying, result>>
vars == <<sessionID, faults, restarts, callVars, disturbed>>

Busy == {c \in Callers : pc[c] # "idle"}

Init ==
    /\ sessionID = "none"
    /\ faults = 0
    /\ restarts = 0
    /\ pc = [c \in Callers |-> "idle"]
    /\ opened = [c \in Callers |-> "none"]
    /\ retrying = [c \in Callers |-> FALSE]
    /\ result = [c \in Callers |-> "none"]
    /\ disturbed = [c \in Callers |-> FALSE]

Disturb(C) == disturbed' = [c \in Callers |-> disturbed[c] \/ c \in C]

\* A request of the caller, or the answer to it, is lost.
Lost(c) ==
    /\ faults < MaxFaults
    /\ faults' = faults + 1
    /\ Disturb({c})

Arrived == UNCHANGED <<faults, disturbed>>

Goto(c, where) == pc' = [pc EXCEPT ![c] = where]

\* callTool returns.
Return(c, how) ==
    /\ Goto(c, "idle")
    /\ result' = [result EXCEPT ![c] = how]
    /\ opened' = [opened EXCEPT ![c] = "none"]
    /\ UNCHANGED retrying

-----------------------------------------------------------------------------
\* SearchMemory, StoreMemory and the others all come down to callTool.
CallTool(c) ==
    /\ pc[c] = "idle"
    /\ Goto(c, "ensure")
    /\ retrying' = [retrying EXCEPT ![c] = FALSE]
    /\ result' = [result EXCEPT ![c] = "none"]
    /\ disturbed' = [disturbed EXCEPT ![c] = FALSE]
    /\ UNCHANGED <<sessionID, faults, restarts, opened>>

\* ensureSession: nothing to do if there is a session, dead or alive.
EnsureSession(c) ==
    /\ pc[c] = "ensure"
    /\ Goto(c, IF sessionID = "none" THEN "initialize" ELSE "call")
    /\ UNCHANGED <<sessionID, faults, restarts, opened, retrying, result, disturbed>>

\* The initialize request, sent without the lock: several callers may do it.
Initialize(c) ==
    /\ pc[c] = "initialize"
    /\ \/ /\ Arrived
          /\ Goto(c, "adopt")
          /\ opened' = [opened EXCEPT ![c] = "live"]
          /\ UNCHANGED <<retrying, result>>
       \/ Lost(c) /\ Return(c, "error")
    /\ UNCHANGED <<sessionID, restarts>>

\* It becomes the session of everybody, even if the server has restarted since.
Adopt(c) ==
    /\ pc[c] = "adopt"
    /\ sessionID' = opened[c]
    /\ Disturb(IF opened[c] = "stale" THEN Busy \ {c} ELSE {})
    /\ Goto(c, "settle")
    /\ UNCHANGED <<faults, restarts, opened, retrying, result>>

\* The notification, the pause and the tools/list request: failures are only
\* logged, but the context may expire in the pause.
Settle(c) ==
    /\ pc[c] = "settle"
    /\ \/ /\ Arrived
          /\ Goto(c, "call")
          /\ opened' = [opened EXCEPT ![c] = "none"]
          /\ UNCHANGED <<retrying, result>>
       \/ Lost(c) /\ Return(c, "error")
    /\ UNCHANGED <<sessionID, restarts>>

\* doToolCall: the session is read again, and the server judges it.
DoToolCall(c) ==
    /\ pc[c] = "call"
    /\ \/ sessionID = "live" /\ Arrived /\ Return(c, "ok")
       \/ /\ \/ sessionID # "live" /\ Arrived
             \/ Lost(c)
          /\ IF retrying[c]
               THEN Return(c, "error")
               ELSE Goto(c, "reset") /\ UNCHANGED <<opened, retrying, result>>
    /\ UNCHANGED <<sessionID, restarts>>

\* Fault: the second attempt keeps the session.
ResetSessionKept(c) ==
    /\ pc[c] = "reset"
    /\ Goto(c, "ensure")
    /\ retrying' = [retrying EXCEPT ![c] = TRUE]
    /\ UNCHANGED <<sessionID, faults, restarts, opened, result, disturbed>>

\* resetSession clears the session of everybody, whoever opened it and
\* whatever the error was.
ResetSession(c) ==
    /\ pc[c] = "reset"
    /\ sessionID' = "none"
    /\ Disturb(Busy \ {c})
    /\ Goto(c, "ensure")
    /\ retrying' = [retrying EXCEPT ![c] = TRUE]
    /\ UNCHANGED <<faults, restarts, opened, result>>

-----------------------------------------------------------------------------
\* The server forgets its sessions.
Stale(s) == IF s = "live" THEN "stale" ELSE s

Restart ==
    /\ restarts < MaxRestarts
    /\ restarts' = restarts + 1
    /\ sessionID' = Stale(sessionID)
    /\ opened' = [c \in Callers |-> Stale(opened[c])]
    /\ Disturb(Busy)
    /\ UNCHANGED <<faults, pc, retrying, result>>

Next ==
    \/ \E c \in Callers : \/ CallTool(c)
                          \/ EnsureSession(c)
                          \/ Initialize(c)
                          \/ Adopt(c)
                          \/ Settle(c)
                          \/ DoToolCall(c)
                          \/ ResetSession(c)
    \/ Restart

Spec == Init /\ [][Next]_vars

-----------------------------------------------------------------------------
TypeOK ==
    /\ sessionID \in {"none", "live", "stale"}
    /\ faults \in 0..MaxFaults /\ restarts \in 0..MaxRestarts
    /\ pc \in [Callers -> {"idle", "ensure", "initialize", "adopt", "settle",
                           "call", "reset"}]
    /\ opened \in [Callers -> {"none", "live", "stale"}]
    /\ {retrying, disturbed} \subseteq [Callers -> BOOLEAN]
    /\ result \in [Callers -> {"none", "ok", "error"}]

\* A call survives a session that had expired before it began: it fails only
\* if something was lost or the server restarted while it ran, or another
\* caller threw the session away, or replaced it by a dead one, under it
\* (client.go:174-251, 330-350).
ExpiredSessionHealed ==
    \A c \in Callers : result[c] = "error" => disturbed[c]
=============================================================================
