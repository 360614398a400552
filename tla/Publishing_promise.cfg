CONSTANTS
    Post = {p1, p2, p3}
    NoPost = nopost
    MaxTries = 2
    PublishActive = TRUE
    EditAnyTime = FALSE
    AnswersLost = FALSE
    Crashes = FALSE
    Locks = FALSE
SPECIFICATION Spec
PROPERTY KeepsPromise
