\* Prompts of two tasks (one of them the empty one), a task that comes and goes, a
\* restart: two prompts and one grant.
CONSTANTS
    Actions = {a}
    Tasks = {t}
    NoTask = NoTask
    MaxRequests = 2
    MaxGrants = 1
    MaxRestarts = 1
    MaxUses = 2
SPECIFICATION Spec
INVARIANTS
    TypeOK
    OnePrompt
    GrantHasAnswer
    OnceUsedOnce
PROPERTIES
    EndedStaysEnded
    RevocationSticks
    ImplementsConsent
