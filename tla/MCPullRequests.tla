--------------------------- MODULE MCPullRequests ---------------------------
(* A small instance of PullRequests for TLC. *)
EXTENDS PullRequests, TLC

\* Documentation by a person, and a pull request in conflict that waits for people and
\* is never merged; a third one, the agent's, takes the last place of the first page.
Documentation ==
    [state |-> "open", title |-> "docs", trusted |-> TRUE, draft |-> FALSE,
     mergeable |-> TRUE, labels |-> {}, checks |-> {"pending"},
     comments |-> {}, mentions |-> {}, age |-> 0]

Standing ==
    [Documentation EXCEPT !.title = "feat", !.labels = {"needs-human"},
       !.mergeable = FALSE, !.checks = {"success"}, !.age = Delay]

TwoOpen == 1 :> Documentation @@ 2 :> Standing

Suggestion == [by |-> "copilot", says |-> "actionable"]
Suggestions == {Suggestion}
=============================================================================
