----------------------------- MODULE MCRecords -----------------------------
\* What must not be lost (MCRecords.cfg): the thread of the consciousness, the logins it
\* speaks through, and the secrets.  They share no state, so a behaviour is one of one of
\* them.
EXTENDS SubThread, Logins, SecretStore, TLC

VARIABLE of

records == <<threadVars, loginVars, secretVars, of>>

RecordsInit ==
    /\ of \in {"thread", "logins", "secrets"} /\ ThreadInit /\ LoginInit /\ SecretInit
    /\ of # "thread" => \A c \in Threads : file[c] = Nothing
    /\ of # "secrets" => saved = NoStore

OfThread  == of = "thread" /\ UNCHANGED <<loginVars, secretVars, of>>
OfLogins  == of = "logins" /\ UNCHANGED <<threadVars, secretVars, of>>
OfSecrets == of = "secrets" /\ UNCHANGED <<threadVars, loginVars, of>>

RecordsNext ==
    \/ OfThread /\ ThreadNext
    \/ OfLogins /\ LoginNext
    \/ OfSecrets /\ SecretNext

RecordsSpec == RecordsInit /\ [][RecordsNext]_records

\* A bound: a login that was lost on its way is not followed to the next one.
Followed == lost = {}

\* The callers of the one are those of the other, and as alike; so are two secrets.
Either == Permutations(Requests) \cup Permutations(Secrets)
=============================================================================
