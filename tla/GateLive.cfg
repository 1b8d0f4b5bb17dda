SPECIFICATION FairSpec
CONSTANTS
    mail1 = mail1
    mail2 = mail2
    book = book
    buy = buy
    Action = {mail1, mail2, book, buy}
    NoAction = NoAction
    LabelOf <- MCLabelOf
    Browser <- MCBrowser
    Refusals <- MCRefusals
    Wants = {"mail", "none"}
    LadderCap = 1
    MaxReplans = 1
    MaxPlan = 2
    MaxCalls = 1
    MaxReplies = 1
    MaxCrashes = 1
PROPERTIES
    DriveEnds
CHECK_DEADLOCK FALSE
