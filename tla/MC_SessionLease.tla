--------------------------- MODULE MC_SessionLease ---------------------------
\* Two login sessions and one client: the leases of clients do not interact.
EXTENDS SessionLease
=============================================================================
