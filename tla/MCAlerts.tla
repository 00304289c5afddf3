------------------------------ MODULE MCAlerts ------------------------------
EXTENDS Alerts

Rule(kind, threshold, duration, num, den, cooldown, consecutive) ==
    [kind |-> kind, threshold |-> threshold, duration |-> duration, num |-> num,
     den |-> den, cooldown |-> cooldown, consecutive |-> consecutive]

\* a rule of every kind that asks for all samples, and a metric rule that asks for half
CommonRules == {Rule("offline", 2, 1, 1, 1, 3, 1), Rule("metric", 0, 1, 1, 1, 3, 1),
                Rule("metric", 0, 2, 1, 2, 0, 1), Rule("task", 0, 1, 1, 1, 3, 1)}

\* a task rule that asks for two failures in a row
TwoFailures == {Rule("task", 0, 1, 1, 1, 0, 2)}
=============================================================================
