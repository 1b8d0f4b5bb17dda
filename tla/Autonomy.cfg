SPECIFICATION Spec
CONSTANTS
    Address = {"ann", "bob", "chef", "eve"}
    Host = {"acme", "bistro", "mail.bistro", "suffix"}
    HostOf <- MCHostOf
    OrgOf <- MCOrgOf
    Within <- MCWithin
    Junk = "anyone"
    Class = {"MAIL", "INVITE", "WIPE"}
    Sends = {"MAIL"}
    Mail = "MAIL"
    Forbidden = {"WIPE"}
    Page = {"menu", "blog"}
    Shows <- MCShows
    PageHost <- MCPageHost
    Goals <- MCGoals
    Replies <- MCReplies
    Proposals <- MCProposals
    MaxCrashes = 1
INVARIANTS TypeOK OnlyVouched UnshownIsNarrow AdmittedSurvive
CHECK_DEADLOCK FALSE
