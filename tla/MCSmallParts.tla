---------------------------- MODULE MCSmallParts ----------------------------
\* The small rules of the two daemons side by side (MCSmallParts.cfg): sources,
\* proximity, policy, dim, trail, bearer and power of sessiond, and the boxes and the
\* heartbeats of the consciousness.  They share no state, so a behaviour is one of one
\* of them.
EXTENDS SourceHealth, ProximityVeto, PolicySettings, DimRestore, ForensicTrail,
        BearerPosture, PowerRequest, SubconsciousInbox, Heartbeats

VARIABLE part

Parts == {"sources", "proximity", "policy", "dim", "trail", "bearer", "power", "boxes",
          "beats"}

all == <<vars, proximityVars, policyVars, dimVars, trailVars, bearerVars, powerVars,
         inbox, beatVars, part>>

PartsInit ==
    /\ part \in Parts
    /\ Init /\ ProximityInit /\ PolicyInit /\ DimInit /\ TrailInit /\ BearerInit
    /\ PowerInit /\ InboxInit /\ BeatInit
    /\ part # "proximity" => ~covered
    /\ part # "dim" => wanted = CHOOSE l \in UserLevels : TRUE
    /\ part # "sources" => ttl = CHOOSE t \in TTLs : TRUE

\* One part takes a step, the others none.
Only(p, mine) == IF part = p THEN TRUE ELSE UNCHANGED mine

In(p) ==
    /\ part = p /\ UNCHANGED part
    /\ Only("sources", vars) /\ Only("proximity", proximityVars)
    /\ Only("policy", policyVars) /\ Only("dim", dimVars)
    /\ Only("trail", trailVars) /\ Only("bearer", bearerVars)
    /\ Only("power", powerVars) /\ Only("boxes", inbox) /\ Only("beats", beatVars)

PartsNext ==
    \/ In("sources") /\ Next
    \/ In("proximity") /\ ProximityNext
    \/ In("policy") /\ PolicyNext
    \/ In("dim") /\ DimNext
    \/ In("trail") /\ TrailNext
    \/ In("bearer") /\ BearerNext
    \/ In("power") /\ PowerNext
    \/ In("boxes") /\ InboxNext
    \/ In("beats") /\ BeatNext

\* The fairness of those of the nine specifications that have some.
PartsSpec ==
    /\ PartsInit /\ [][PartsNext]_all
    /\ WF_all(In("sources") /\ Tick)
    /\ WF_all(In("sources") /\ TimePasses)
    /\ WF_all(In("proximity") /\ ProximityTick)
    /\ WF_all(In("proximity") /\ ProximityAges)
    /\ WF_all(In("bearer") /\ BearerTick)
    /\ \A p \in Inboxers :
         /\ WF_all(In("boxes") /\ Beginning(p))
         /\ WF_all(In("boxes") /\ InboxStep(p))
         /\ SF_all(In("boxes") /\ Records(p))
         /\ SF_all(In("boxes") /\ Removes(p))
    /\ WF_all(In("beats") /\ SensorGoes)
    /\ WF_all(In("beats") /\ Wake)
=============================================================================
