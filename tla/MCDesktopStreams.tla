--------------------------- MODULE MCDesktopStreams ---------------------------
\* A viewer's session, or two, with a shared resource and others.
EXTENDS DesktopStreams
=============================================================================
