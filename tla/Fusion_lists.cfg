\* Both methods: lists of up to 3 of 4 chunks with scores 1 to 3, lists of 4 of 5, k = 3.
SPECIFICATION Spec
CONSTANTS
    RankConstant = 3
    LexicalWeight = 9
    DenseWeight = 11
    CandidateMultiplier = 2
    Methods = {"rrf", "weighted"}
    Chunks = {c1, c2, c3, c4, c5}
    Spare = c5
    MaxLength = 3
    MaxScore = 3
    Rankings <- MCRankings
    TopKs = {1, 2, 3}
\* One call per behaviour: it ends when the answer is made.
CHECK_DEADLOCK FALSE
SYMMETRY MCSymmetry
INVARIANTS TypeOK AgreedOrder AnswerFull AgreementWins
