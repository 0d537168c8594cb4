SPECIFICATION FairSpec
CONSTANTS
    Widest = 3
    MaxAmount = 3
    MaxMishaps = 1
    MaxEdits = 1
INVARIANT TypeOK
INVARIANT IssuingUnderBudget
INVARIANT RefusalIsContained
PROPERTY BudgetsComeIntoForce
CHECK_DEADLOCK FALSE
