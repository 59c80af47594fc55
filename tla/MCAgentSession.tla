--------------------------- MODULE MCAgentSession ---------------------------
(***************************************************************************)
(* An instance of AgentSession: two workers; two sessions that write code  *)
(* for the same issue, as after a claim that timed out while its session   *)
(* still ran, and one that only comments; a chain whose one provider is a  *)
(* CLI, and a default chain of an Ollama server and a hosted API.          *)
(***************************************************************************)
EXTENDS AgentSession, TLC

CONSTANTS w1, w2, s1, s2, s3, cli, local, api

MCIssueOf == (s1 :> 7) @@ (s2 :> 7) @@ (s3 :> 9)
MCRoutingKey == (s1 :> "complex") @@ (s2 :> "complex") @@ (s3 :> "default")
MCRouting == [complex |-> <<cli>>, default |-> <<local, api>>]
MCKind == (cli :> "claude-cli") @@ (local :> "ollama") @@ (api :> "api")

Symmetry == Permutations({w1, w2}) \cup Permutations({s1, s2})
=============================================================================
