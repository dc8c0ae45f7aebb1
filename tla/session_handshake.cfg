SPECIFICATION FairSpec
CONSTANTS
    Peers = {a, b}
    None = None
    MaxSends = 1
    AppKinds = {"unsigned", "text", "goodbye"}
INVARIANTS KeyAgreement TokensBounded
PROPERTIES TokensMoveForward HandshakeCompletes
CHECK_DEADLOCK FALSE
