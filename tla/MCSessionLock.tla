--------------------------- MODULE MCSessionLock ---------------------------
\* SessionLock on small instances (MCSessionLock*.cfg).
EXTENDS SessionLock
=============================================================================
