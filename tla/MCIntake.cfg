CONSTANTS
    Requests = {q1, q2}
    Texts = {"x"}
    File <- Repeated
    Parallel = TRUE
    ProducerMayFail = FALSE
    Window = 0
    None = None
    MaxNow = 1
    MaxEnds = 1
SPECIFICATION Spec
INVARIANTS
    TypeOK
    MintedOnce
    LinksAgree
    PromotedOnce
    CopiesHaveOriginal
PROPERTIES LinksStay
SYMMETRY Interchangeable
CHECK_DEADLOCK FALSE
