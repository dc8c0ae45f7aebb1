--------------------------- MODULE MCTunnelTraffic ---------------------------
\* Two nodes a and b; a dialled b.  One signal goes each way.
EXTENDS TunnelTraffic

CONSTANTS a, b

MCNodes == {a, b}
MCLinks == {<<a, b>>}
MCSignals == {<<a, b, 1>>, <<b, a, 1>>}
=============================================================================
