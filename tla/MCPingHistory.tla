--------------------------- MODULE MCPingHistory ----------------------------
\* Two tasks, one every five seconds and one every ten, and reports that arrive
\* within the second, without a reconnection or a change of the task list.
EXTENDS PingHistory, TLC

CONSTANTS fast, slow

Intervals == fast :> 5 @@ slow :> 10

\* From the first round on, the session and its tasks stay.
Steady == now > 0 => specs = Tasks
=============================================================================
