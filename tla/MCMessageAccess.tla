--------------------------- MODULE MCMessageAccess ---------------------------
\* A node that shares files and a desktop, with a peer that shares something.
EXTENDS MessageAccess

MCOwn == {"fs", "desk"}
MCTypeOf == [r \in MCOwn |-> IF r = "fs" THEN "Filesystem" ELSE "RemoteDesktop"]
=============================================================================
