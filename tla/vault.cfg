CONSTANTS
    None = None
    Old = Old
    Worklet = {w1, w2, w3}
SPECIFICATION FairVaultSpec
INVARIANTS CompleteUnlessOverlapped OneWallet CeremonyWhileLocked
PROPERTIES ImplementsEngine WaitsEnd
