\* One destination, two payloads, two prompts, two grants, one restart.
CONSTANTS
    Actions = {baby}
    Tasks = {}
    NoTask = NoTask
    Payloads = {p1, p2}
    NoPreview = NoPreview
    NoReply = NoReply
    MaxRequests = 2
    MaxGrants = 2
    MaxRestarts = 1
    MaxUses = 2
SPECIFICATION RelaySpec
PROPERTY
    DenialIsHonoured
