----------------------------- MODULE MCProviders -----------------------------
(***************************************************************************)
(* An instance of Providers: two Ollama models on a host that can be woken *)
(* are the chain of a chore, and the CLI is the default chain.             *)
(***************************************************************************)
EXTENDS Naturals, TLC

CONSTANTS
    Providers, Hosts, NoHost, HostOf, WakeTarget, Kind, Chains, Chores, Text, ChainKey,
    Deadline, Interval, RoundLimit, WakeCooldown, Startup, StaleOutput, ClientTimeout,
    MinutesPerTick, MaxUpsets,
    qwen, llama, cli, box, chore

VARIABLES
    up, woken, downFor, health, probe, phase, due, lastSent, calm, issue, count, spent, upsets

Monitor == INSTANCE Providers WITH
             None <- NoHost, Issues <- Chores, Cooldown <- WakeCooldown, Stale <- StaleOutput,
             quiet <- calm, budgetOpen <- spent

ASSUME MonitorAssumption == Monitor!ProviderAssumption

MCHostOf     == (qwen :> box) @@ (llama :> box) @@ (cli :> NoHost)
MCWakeTarget == (qwen :> box) @@ (llama :> box) @@ (cli :> NoHost)
MCKind       == (qwen :> "ollama") @@ (llama :> "ollama") @@ (cli :> "claude-cli")
MCChains     == [local |-> <<qwen, llama>>, default |-> <<cli>>]
MCClientTimeout == (qwen :> 1) @@ (llama :> 1) @@ (cli :> 2)

\* 15 minutes for a start, 2 and 1 for what the text asks for, 3 for its code: 21 times 7
\* tenths of documentation times 8 of the local chain, in units of 5 minutes.
MCText     == (chore :> [signs |-> {"chore:"}, agent |-> "", minutes |-> 0, words |-> 50,
                         boxes |-> 1, files |-> 1, code |-> TRUE])
MCChainKey == (chore :> "local")
MCDeadline == (chore :> 3)

(***************************************************************************)
(* Fairness: timers fire, goroutines run, and the lock of the cache lets   *)
(* the reader in that waits for it; a host that was woken comes up.  No    *)
(* answer is promised, and nobody has to offer an issue.                   *)
(***************************************************************************)
monitorVars == Monitor!vars

Promptly ==
    /\ WF_monitorVars(Monitor!Tick) /\ WF_monitorVars(Monitor!BeginRound)
    /\ \A h \in Hosts : WF_monitorVars(Monitor!WakeUp(h))
    /\ \A p \in Providers : WF_monitorVars(Monitor!Check(p)) /\ WF_monitorVars(Monitor!Write(p))
    /\ \A i \in Chores :
         /\ SF_monitorVars(Monitor!Route(i)) /\ WF_monitorVars(Monitor!PassBudget(i))
         /\ WF_monitorVars(Monitor!Serve(i)) /\ WF_monitorVars(Monitor!Expire(i))

MonitorSpec == Monitor!Spec /\ Promptly

\* The monitor neither floods a host with packets nor lets an issue pass on an old
\* verdict (wol.go:66-93, health.go:130-201).
MonitorSound == Monitor!MonitorSound

\* An issue whose chain has a host that can be woken is claimed in the end, if watchers
\* report it over and over (health.go:203-230, router.go:171-189).
WaitingIsServed == Monitor!WaitingIsServed
=============================================================================
