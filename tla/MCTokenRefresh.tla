---------------------------- MODULE MCTokenRefresh ----------------------------
(* Small instances of TokenRefresh for TLC. *)
EXTENDS TokenRefresh

CONSTANTS r1, r2

TwoRequests == {r1, r2}

AllFlows == {TodoistFlow, SlackFlow, GitHubFlow, NotionFlow, GoogleFlow, GenericFlow}
OnlySlack == {SlackFlow}
=============================================================================
