CONSTANTS
    Callers = {c1, c2}
    Keys = {k1}
    Inputs <- MCInputs
    Delay = 2
SPECIFICATION FairSpec
INVARIANTS ChannelsInOnePlace MergeServesCallers
PROPERTY CallersAnswered
