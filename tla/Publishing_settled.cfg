CONSTANTS
    Post = {p1, p2}
    NoPost = nopost
    MaxTries = 2
    PublishActive = FALSE
    EditAnyTime = FALSE
    AnswersLost = FALSE
    Crashes = TRUE
    Locks = FALSE
SPECIFICATION FairSpec
INVARIANTS
    PublishingIsAlive
PROPERTY AskedIsSettled
