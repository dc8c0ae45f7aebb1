--------------------------- MODULE MCRenegotiation ---------------------------
\* The two ends of one session.
EXTENDS Renegotiation
=============================================================================
