SPECIFICATION MCSpec
CONSTANTS
    MaxDepth = 2
    MaxNodes = 5
    MaxTyped = 8
    MaxExpression = 3
    MaxChars = 4
    Alphabet <- MCAlphabet
    Characters <- MCCharacters
    MaxCandidates = 4
    MaxPresented = 9
    MaxLabel = 2
    MaxNesting = 2
CHECK_DEADLOCK FALSE
INVARIANTS
    TextReadsBack
    AbsentIsNeverSigned
    VerifiesExactlyTheSigned
    FunctionsAgree
    EncodingsDecode
