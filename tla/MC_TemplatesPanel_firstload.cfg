CONSTANTS
    tp1 = tp1
    tp2 = tp2
    Templates <- MCTemplates
    ServerErrors = TRUE
    MaxCreates = 1
    NoData = NoData
SPECIFICATION Spec
PROPERTY CreatedEventuallyListed
