CONSTANTS
    None = None
    Old = Old
    Worklet = {w1, w2}
SPECIFICATION VaultSpec
INVARIANT CompleteWallet
