SPECIFICATION Spec
CONSTANTS
    Waits <- MCWaits
    soldOut = soldOut
    flicker = flicker
    cheap = cheap
    Pages = {soldOut, flicker, cheap}
    WordsOf <- MCWordsOf
    NumberOf <- MCNumberOf
    NoNumber = NoNumber
    Failed = Failed
    None = None
    MaxWaits = 2
    MaxReplans = 1
    MaxReplies = 2
    MaxMessages = 1
    MaxCrashes = 1
INVARIANTS TypeOK OutcomeIsEarned WaitIsTimed OneChain
PROPERTIES WindowHonoured WaitEnds
CHECK_DEADLOCK FALSE
