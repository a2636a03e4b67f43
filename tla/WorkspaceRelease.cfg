SPECIFICATION Spec
CONSTANTS
    c1 = c1
    c2 = c2
    c3 = c3
    b1 = b1
    b2 = b2
    Callers <- MCCallers
    Branches <- MCBranches
    TTL = 2
PROPERTIES
    NobodyRemovesAHeldWorktree
