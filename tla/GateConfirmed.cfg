SPECIFICATION Spec
CONSTANTS
    mail1 = mail1
    mail2 = mail2
    book = book
    buy = buy
    Action = {mail1, mail2, book, buy}
    NoAction = NoAction
    LabelOf <- MCLabelOf
    Browser <- MCBrowser
    Refusals <- MCRefusals
    Wants = {"mail", "none"}
    LadderCap = 1
    MaxReplans = 1
    MaxPlan = 2
    MaxCalls = 2
    MaxReplies = 2
    MaxCrashes = 1
PROPERTIES
    ConfirmedStays
CHECK_DEADLOCK FALSE
