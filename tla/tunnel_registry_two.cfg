SPECIFICATION Spec
CONSTANTS
    Nodes = {n1, n2}
    Conns = {c1, c2}
    None = None
    Announced <- MCAllKeys
    SignalCap = 1
    MaxCrashes = 1
SYMMETRY Symmetry
INVARIANTS TypeOK AuthenticBinding NoDanglingEntry NoSpuriousTeardown QuietAgreement
PROPERTIES OwnRemovalOnly ImplementsTunnelMap
CHECK_DEADLOCK FALSE
