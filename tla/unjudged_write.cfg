SPECIFICATION LadderSpec
CONSTANTS
    Verifiers <- MCVerifiers
    Accepts <- Validates
    Tools <- MCTools
    Texts <- MCTexts
    Mutating = {"git.push"}
    Observing = {"docs.search", "items.list"}
    Judge = TRUE
    NotJson = NotJson
    Nobody = Nobody
INVARIANT IrreversibleToolJudged
CHECK_DEADLOCK FALSE
