---------------------------- MODULE MCDimRestore ----------------------------
\* DimRestore with one or two handlers and a few levels (MCDimRestoreDouble.cfg).
EXTENDS DimRestore
=============================================================================
