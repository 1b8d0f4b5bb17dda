SPECIFICATION Spec
CONSTANTS
    Action = {"mail", "mails", "tag", "wipe", "pay", "look"}
    NoAction = "nothing"
    Refused = {"pay"}
    Browser = {"wipe"}
    Natural <- MCNatural
    Override <- MCOverride
    Label = {"MAIL", "TAG", "WIPE", "PAY", "LOOK"}
    LabelOf <- MCLabelOf
    Digest = {"mail", "mails", "tag", "wipe", "pay", "look"}
    DigestOf <- MCDigestOf
    Recipient = {"ann", "bob"}
    RecipsOf <- MCRecipsOf
    Domain = {"acme"}
    DomainOf <- MCDomainOf
    Delivers = {"mail", "mails"}
    Intent = {"mail", "mails"}
    Listed = {"MAIL"}
    Scope = {"ann", "bob"}
    Previews = TRUE
    MaxCalls = 2
    MaxMishaps = 1
    MaxAnswers = 2
    Mandates <- MCMandates
    ReadBack <- MCReadBack
    TrustThreshold = 1
INVARIANTS TypeOK CapsHold LedgerComplete
PROPERTIES KnownStaysDone Authorized DraftsShown AtMostOnce
CHECK_DEADLOCK FALSE
