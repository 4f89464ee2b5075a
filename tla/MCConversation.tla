--------------------------- MODULE MCConversation ---------------------------
\* A conversation's turns, the compactions of its messages, and the summons that go out
\* to another being and come back as notes (MCConversation.cfg).  They share no state, so
\* a behaviour is one of one of them.
EXTENDS TurnLoop, Compaction, Summons

VARIABLE part

all == <<vars, conversation, summonVars, part>>

ConversationInit ==
    /\ part \in {"turns", "compaction", "summons"}
    /\ Init /\ CompactionInit /\ SummonInit
    /\ part # "turns" => surface = CHOOSE s \in Surfaces : TRUE

Turning    == part = "turns" /\ UNCHANGED <<conversation, summonVars, part>>
Compacting == part = "compaction" /\ UNCHANGED <<vars, summonVars, part>>
Summoning  == part = "summons" /\ UNCHANGED <<vars, conversation, part>>

ConversationNext ==
    \/ Turning /\ Next
    \/ Compacting /\ CompactionNext
    \/ Summoning /\ SummonNext

\* The fairness of TurnLoop and of Summons; Compaction has none.
ConversationSpec ==
    /\ ConversationInit /\ [][ConversationNext]_all
    /\ WF_all(Turning /\ Code)
    /\ WF_all(Summoning /\ Listens) /\ WF_all(Summoning /\ Prunes)
    /\ \A id \in Summoned : WF_all(Summoning /\ MinutePasses(id))
=============================================================================
