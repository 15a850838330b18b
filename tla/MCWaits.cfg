CONSTANTS
    a = a  b = b
    Reqs = {a, b}
    Budget <- MCBudget
    RuntimeTimeout = 2
    MaxAttempts = 2
    MaxTime = 6
    alert = alert  reply = reply  press = press
    None = None
    Providers = {"mattermost", "slack"}
    Posts = {alert, reply, press}
    Sender <- MCSender
    InThread = {reply}
    Routes <- MCRoutes
    Key <- MCKey
    Questions = 2
    Skew = 0
    BotAccount = TRUE
    MaxFaults = 1
    MaxOps = 1
SPECIFICATION MCSpec
INVARIANTS NotCutShort CeilingEnforced HandledOnce AnswersGenuine PauseHolds
PROPERTIES AskEnds
CHECK_DEADLOCK FALSE
