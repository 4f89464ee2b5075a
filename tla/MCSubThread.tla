---------------------------- MODULE MCSubThread ----------------------------
\* SubThread with two overlapping passes (MCSubThreadSaved.cfg).
EXTENDS SubThread
=============================================================================
