------------------------------ MODULE MCLogins ------------------------------
\* Logins with two files and one completion (MCLoginsRetry.cfg).
EXTENDS Logins
=============================================================================
