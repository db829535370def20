SPECIFICATION Spec
CONSTANTS
    Codes = {c1, c2}
    Contents = {x, y}
    Callers = {k1, k2}
    NoPrompt = NoPrompt
    MaxPrompts = 2
CHECK_DEADLOCK FALSE
INVARIANTS
    PromptsTypeOK
    StaleHasCause
PROPERTY
    NewPromptKept
