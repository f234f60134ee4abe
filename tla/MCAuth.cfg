SPECIFICATION FairSpec
CONSTANTS
    c1 = c1
    c2 = c2
    n1 = n1
    n2 = n2
    b1 = b1
    b2 = b2
    Clients <- MCClients
    Names <- MCNames
    Mailboxes <- MCMailboxes
    Reads <- MCReads
    Typed <- MCTyped
    Existing <- MCExisting
    Mortal <- MCMortal
    MaxForms <- MCForms
    MaxExpired = 1
    NoClient = NoClient
    NoName = NoName
    NoMail = NoMail
    NoInfo = NoInfo
CHECK_DEADLOCK FALSE
INVARIANTS
    TypeOK
    AccountsAreConfirmed
    OwnersData
    RefusedCodeWasReplaced
    AnswersMatch
PROPERTIES
    SuccessIsSaved
    Answered
