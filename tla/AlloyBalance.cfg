CONSTANTS
    TBSets = 2
    TBWays = 2
    Tags = {0, 1, 2, 4}
    Configs <- OnlyAlloyBalance
SPECIFICATION Spec
PROPERTY DrainWritesBack
