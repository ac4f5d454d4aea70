\* Texts of up to 12 tokens, chunks of up to 5.
SPECIFICATION Spec
CONSTANTS
    MaxTokens = 12
    MaxSize = 5
    Inputs <- MCInputs
INVARIANTS TypeOK EveryTokenCovered OverlapsExactly MatchesReference
PROPERTY Progress
