SPECIFICATION Spec
CONSTANTS
    v1 = v1
    v2 = v2
    f = f
    n1 = n1
    n2 = n2
    Validators <- MCValidators
    Correct <- MCCorrect
    Nodes <- MCNodes
    WeightOf <- MCWeightOf
    Rounds <- MCTwoRounds
    Blocks = {"a"}
    Ftt = 1
SYMMETRY Symmetry
INVARIANTS Agreement CommittedNotSkippable SameChains
PROPERTY FinalizeAppends
CHECK_DEADLOCK FALSE
