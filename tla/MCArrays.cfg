CONSTANTS
    NULL = NULL
    StaleWord = 77
    MaxElements = 18
    MaxSteps = 2
    Sigmoid <- MCSigmoid
    TextBits <- MCTextBits
    Texts <- MCTexts
    Constructors <- MCConstructors
    Groups <- MCGroups
    Operands <- MCOperands
    Scalars <- MCScalars
    Chains <- MCChains

SPECIFICATION Spec
INVARIANTS
    ArrayIsValue
    PrintParses
CHECK_DEADLOCK FALSE
