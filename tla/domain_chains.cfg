CONSTANTS
    Chains = {rl, sft}
    Base = rl
    Splits = {s1, s2}
    Prompts <- TwoPrompts
    Boundary <- TwoBoundaries
    None = None
    MaxChainRestarts = 2
    MaxChainFaults = 1
SPECIFICATION FairChainSpec
INVARIANT CompletedIsOwn
PROPERTY ChainFinishes
CHECK_DEADLOCK FALSE
