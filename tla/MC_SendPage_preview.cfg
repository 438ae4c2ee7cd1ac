\* The preview after edits and sends.
CONSTANTS
    x1 = x1
    x2 = x2
    NoText = NoText
    NoResult = NoResult
    Texts <- MCTexts
    Body <- MCBody
    Dest <- MCDest
    OtpText <- MCOtpText
    MaxParts = 6
    RateTable <- MCRateTable
    RateLimitRps = 2
    MaxTime = 2
    InitialBalance = 345
    CreditLimit = 115
    LoadTest = FALSE
    MaxRequests = 4
SPECIFICATION Spec
INVARIANT PreviewMatchesForm
