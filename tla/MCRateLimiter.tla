---------------------------- MODULE MCRateLimiter ----------------------------
\* Two sessions that share the bucket, and a limit that changes meanwhile.
EXTENDS RateLimiter
=============================================================================
