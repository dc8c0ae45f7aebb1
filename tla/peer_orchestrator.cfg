SPECIFICATION FairSpec
CONSTANTS
    Lo = Lo
    Hi = Hi
    None = None
    Pool = {1, 2, 3, 4}
    Top = 2
    Ways = {"server", "tunnel", "both", "none"}
    Again = {"rtc", "limit"}
    Kinds = {"call", "host", "list", "tunnel", "ws", "limit", "rtc", "signal", "net", "delay"}
    MaxEvents = 2
INVARIANTS NoOrphan DeadSessionWatched
PROPERTIES WorkingSessionKept Reconnect
CHECK_DEADLOCK FALSE
