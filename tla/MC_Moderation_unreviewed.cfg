\* One console, one resubmission: can an approval land on unseen content?
CONSTANTS
    t1 = t1
    t2 = t2
    c1 = c1
    c2 = c2
    NoModal = NoModal
    Templates <- TwoTemplates
    Consoles <- OneConsole
    MaxVersion = 1
    MaxMutations = 2
    NetworkErrors = FALSE
SPECIFICATION Spec
INVARIANT ApprovedContentWasReviewed
