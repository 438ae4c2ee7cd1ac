\* Two consoles on one template, one resubmission, lost requests and
\* answers: a row this console decided must leave its queue.
CONSTANTS
    t1 = t1
    t2 = t2
    c1 = c1
    c2 = c2
    NoModal = NoModal
    Templates <- OneTemplate
    Consoles <- TwoConsoles
    MaxVersion = 1
    MaxMutations = 1
    NetworkErrors = TRUE
SPECIFICATION Spec
PROPERTY StaleEntryDropped
