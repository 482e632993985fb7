CONSTANTS
    Tab = {t1, t2}
    Value = {v1, v2}
    Expiring = {v1}
    Operation = {o1, o2}
    Attempt = {q1}
    Text <- SomeTexts
    Canonical <- Trimmed
    None = None
    MaxSubmissions = 3
    MaxFaults = 1
SPECIFICATION Spec
SYMMETRY Symmetry
INVARIANTS
    ToldIsTrue
    OneDecision
    EffectIsRecoverable
CHECK_DEADLOCK FALSE
