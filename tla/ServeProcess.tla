---------------------------- MODULE ServeProcess ----------------------------
(***************************************************************************)
(* The `samverk serve` process, RunE of serveCmd in                        *)
(* src/cmd/samverk/main.go with Server.Start of src/internal/server: two   *)
(* HTTP listeners, the dashboard with its API and the one for MCP only,    *)
(* over the same databases, and the goroutines started beside them.  Only  *)
(* the first listener is waited for when the process ends.                 *)
(***************************************************************************)
EXTENDS Integers, Sequences, SequencesExt

CONSTANTS
    MaxRequests     \* bound on the requests either listener takes

ServeAssumption == MaxRequests \in Nat \ {0}

Listeners == {"dashboard", "mcp"}

VARIABLES
    config,         \* the databases that could be opened
    signal,         \* SIGINT or SIGTERM has been received
    listener,       \* "open", "closed" by Shutdown, or "failed"
    arrived,        \* bounded counter: requests taken
    requests,       \* requests in flight
    services,       \* the goroutines that run until the context is done
    open,           \* databases not closed yet
    deferred,       \* the deferred calls still to run
    process         \* where the main goroutine is

vars == <<config, signal, listener, arrived, requests, services, open,
          deferred, process>>

\* The host metrics collector and the nightly probe always run; the pruner
\* needs the log database, the advisor the store.
Services(c) ==
    {"collector", "probe"}
      \cup (IF "logs" \in c THEN {"pruner"} ELSE {})
      \cup (IF "store" \in c THEN {"advisor"} ELSE {})

Deferred(c) ==
    SelectSeq(<<"logs", "store", "cancel">>, LAMBDA d : d = "cancel" \/ d \in c)

\* The dashboard's port may be taken, which ends the process at once; the MCP
\* port may be taken, which is only logged.
Init ==
    /\ config \in SUBSET {"store", "logs"}
    /\ signal = FALSE
    /\ listener \in [Listeners -> {"open", "failed"}]
    /\ arrived = 0
    /\ requests = [l \in Listeners |-> 0]
    /\ services = Services(config)
    /\ open = config
    /\ deferred = Deferred(config)
    /\ process = "serving"

Signal ==
    /\ ~signal
    /\ process # "exited"
    /\ signal' = TRUE
    /\ UNCHANGED <<config, listener, arrived, requests, services, open,
                   deferred, process>>

-----------------------------------------------------------------------------
Arrives(l) ==
    /\ listener[l] = "open"
    /\ process # "exited"
    /\ arrived < MaxRequests
    /\ arrived' = arrived + 1
    /\ requests' = [requests EXCEPT ![l] = @ + 1]
    /\ UNCHANGED <<config, signal, listener, services, open, deferred, process>>

Ends(l) ==
    /\ requests[l] > 0
    /\ requests' = [requests EXCEPT ![l] = @ - 1]
    /\ UNCHANGED <<config, signal, listener, arrived, services, open,
                   deferred, process>>

\* Accepting connections fails for good.
ListenerFails(l) ==
    /\ listener[l] = "open"
    /\ process # "exited"
    /\ listener' = [listener EXCEPT ![l] = "failed"]
    /\ UNCHANGED <<config, signal, arrived, requests, services, open,
                   deferred, process>>

\* A goroutine of its own shuts the MCP listener down; nobody waits for it.
McpShutdown ==
    /\ signal
    /\ process # "exited"
    /\ listener["mcp"] = "open"
    /\ listener' = [listener EXCEPT !["mcp"] = "closed"]
    /\ UNCHANGED <<config, signal, arrived, requests, services, open,
                   deferred, process>>

ServiceStops(s) ==
    /\ s \in services
    /\ signal
    /\ services' = services \ {s}
    /\ UNCHANGED <<config, signal, listener, arrived, requests, open,
                   deferred, process>>

-----------------------------------------------------------------------------
\* Start sees its context done: Shutdown closes the listener, and waits.
StartShutsDown ==
    /\ process = "serving"
    /\ signal
    /\ process' = "draining"
    /\ listener' = [listener EXCEPT !["dashboard"] = IF @ = "open" THEN "closed" ELSE @]
    /\ UNCHANGED <<config, signal, arrived, requests, services, open, deferred>>

\* Fault: connections are closed without waiting for their requests.
DrainedAtOnce == TRUE

Drained == requests["dashboard"] = 0

StartDrained ==
    /\ process = "draining"
    /\ Drained
    /\ process' = "deferred"
    /\ UNCHANGED <<config, signal, listener, arrived, requests, services,
                   open, deferred>>

\* Start returns the error of Serve, or of Listen, and waits for nobody.
StartFails ==
    /\ process = "serving"
    /\ listener["dashboard"] = "failed"
    /\ process' = "deferred"
    /\ UNCHANGED <<config, signal, listener, arrived, requests, services,
                   open, deferred>>

CloseDatabase(d) ==
    /\ process = "deferred"
    /\ Head(deferred) = d
    /\ open' = open \ {d}
    /\ deferred' = Tail(deferred)
    /\ UNCHANGED <<config, signal, listener, arrived, requests, services, process>>

\* cancel runs last, and the process ends with whatever is still running.
Exit ==
    /\ process = "deferred"
    /\ Head(deferred) = "cancel"
    /\ deferred' = Tail(deferred)
    /\ process' = "exited"
    /\ requests' = [l \in Listeners |-> 0]
    /\ services' = {}
    /\ UNCHANGED <<config, signal, listener, arrived, open>>

Main == \/ StartShutsDown \/ StartDrained \/ StartFails
        \/ CloseDatabase("logs") \/ CloseDatabase("store")
        \/ Exit

Next ==
    \/ Signal
    \/ \E l \in Listeners : Arrives(l) \/ Ends(l) \/ ListenerFails(l)
    \/ McpShutdown
    \/ \E s \in services : ServiceStops(s)
    \/ Main

Spec == Init /\ [][Next]_vars

-----------------------------------------------------------------------------
TypeOK ==
    /\ config \subseteq {"store", "logs"} /\ open \subseteq config
    /\ signal \in BOOLEAN
    /\ listener \in [Listeners -> {"open", "closed", "failed"}]
    /\ arrived \in 0..MaxRequests
    /\ requests \in [Listeners -> 0..MaxRequests]
    /\ services \subseteq Services(config)
    /\ IsSuffix(deferred, Deferred(config))
    /\ process \in {"serving", "draining", "deferred", "exited"}

\* A request the dashboard has taken finds its databases open until it is
\* answered, unless the listener itself broke: Shutdown waits for it before
\* the deferred calls run (server.go:139-148, main.go:152, 167, 527).
DatabasesOutliveRequests ==
    requests["dashboard"] > 0 /\ listener["dashboard"] # "failed" => open = config
=============================================================================
