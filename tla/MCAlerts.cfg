\* One key (keys are independent), six intervals from Start, a gap of 65 s and a send
\* timeout of 75 s in intervals of 30 s.
CONSTANTS
    Rules = {rule}
    Agents = {host}
    Configs <- CommonRules
    Steps = {1, 2, 3}
    MaxGap = 2
    MaxSend = 2
    Start = 10
    MaxTime = 16
    MaxEdits = 1
SPECIFICATION Spec
INVARIANTS AlertTypeOK OperatorKnows WindowMeetsReference
PROPERTIES NoFalseRecovery NoRepeatedFiringPage
CHECK_DEADLOCK FALSE
