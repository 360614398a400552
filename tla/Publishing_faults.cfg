CONSTANTS
    Post = {p1, p2, p3}
    NoPost = nopost
    MaxTries = 2
    PublishActive = FALSE
    EditAnyTime = TRUE
    AnswersLost = TRUE
    Crashes = TRUE
    Locks = TRUE
SPECIFICATION Spec
SYMMETRY Symmetry
INVARIANTS
    PostsAreKnown
