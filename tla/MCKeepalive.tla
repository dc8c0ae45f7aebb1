----------------------------- MODULE MCKeepalive -----------------------------
\* One session watched long enough for several pings, pongs and timeouts.
EXTENDS Keepalive
=============================================================================
