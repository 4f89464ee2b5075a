--------------------------- MODULE PolicySettings ---------------------------
(***************************************************************************)
(* The policy of the device state machine and its file (set_policy in      *)
(* sessiond/server.rs, DeviceStatePolicy in device_state.rs).              *)
(*                                                                         *)
(* A request assigns the fields it names in a fixed order to the policy    *)
(* that is in use, and checks on the way.  An accepted policy is written   *)
(* out (write, then rename: one step) and read back at the next start.     *)
(***************************************************************************)
EXTENDS Naturals, FiniteSets

CONSTANTS
    Seconds,    \* budgets and graces a request may name, besides 0
    Waits,      \* acknowledgement and settling times, besides 0
    MaxNamed,   \* bound: fields one request names
    Never,      \* a budget that is off
    Keep,       \* a field a request does not name
    NoFile,     \* no policy has been saved yet
    DefaultBlank, DefaultHeld, DefaultGrace, DefaultAck, DefaultSettle,
    FileFaults  \* the file may fail to be written or to be read

ASSUME PolicyConstants ==
    /\ Seconds \subseteq Nat \ {0}
    /\ Waits \subseteq Nat \ {0} /\ MaxNamed \in Nat
    /\ {DefaultBlank, DefaultHeld, DefaultGrace} \subseteq Seconds
    /\ {DefaultAck, DefaultSettle} \subseteq Waits
    /\ DefaultGrace < DefaultBlank
    /\ Never \notin Nat /\ Keep \notin Nat \cup BOOLEAN
    /\ FileFaults \in BOOLEAN

VARIABLES
    policy,  \* device_state.policy
    disk,    \* device-state-policy.json
    told     \* the last answer

policyVars == <<policy, disk, told>>

Budgets == Seconds \cup {Never}

Policies ==
    [blank: Budgets, held: Budgets, grace: Seconds \cup {0}, warning: BOOLEAN,
     ack: Waits, settle: Waits]

Requests ==
    LET Named == Seconds \cup {0, Keep}
        Timed == Waits \cup {0, Keep}
        All   == [blank: Named, held: Named, grace: Named,
                  warning: BOOLEAN \cup {Keep}, ack: Timed, settle: Timed]
    IN  {r \in All : Cardinality({f \in DOMAIN r : r[f] # Keep}) <= MaxNamed}

\* A zero acknowledgement or settling time never takes effect, not even from a
\* request that is refused half way, or from the file.
PolicyTypeOK ==
    /\ policy \in Policies
    /\ disk \in Policies \cup {NoFile}
    /\ told \in {"none", "ok", "refused", "unsaved"}

Default ==
    [blank |-> DefaultBlank, held |-> DefaultHeld, grace |-> DefaultGrace,
     warning |-> TRUE, ack |-> DefaultAck, settle |-> DefaultSettle]

-----------------------------------------------------------------------------

\* A budget of 0 seconds means never.
Reads(field, value) ==
    IF field \in {"blank", "held"} /\ value = 0 THEN Never ELSE value

\* The fields of a set, taken from a request.
Takes(p, r, fields) ==
    [f \in DOMAIN p |-> IF f \in fields /\ r[f] # Keep THEN Reads(f, r[f]) ELSE p[f]]

Early == {"blank", "held", "grace", "warning"}

\* A warning has to be shorter than the budget it warns about.
Fits(p) == p.warning /\ p.blank # Never => p.grace < p.blank

Refuse(p) == policy' = p /\ told' = "refused" /\ UNCHANGED disk

AnswerAnyway(saves) == "ok"

Answer(saves) == IF saves THEN "ok" ELSE "unsaved"

Accept(p) ==
    \E saves \in {TRUE} \cup (IF FileFaults THEN {FALSE} ELSE {}) :
        /\ policy' = p
        /\ disk' = IF saves THEN p ELSE disk
        /\ told' = Answer(saves)

\* Each check comes after the assignments before it.
SetPolicy(r) ==
    IF r.ack = 0 THEN Refuse(Takes(policy, r, Early))
    ELSE IF r.settle = 0 THEN Refuse(Takes(policy, r, Early \cup {"ack"}))
    ELSE LET p == Takes(policy, r, DOMAIN policy)
         IN  IF Fits(p) THEN Accept(p) ELSE Refuse(p)

\* A new daemon loads the file, or starts on the defaults.
Restart ==
    /\ policy' \in {IF disk = NoFile THEN Default ELSE disk}
                     \cup (IF FileFaults THEN {Default} ELSE {})
    /\ told' = "none"
    /\ UNCHANGED disk

PolicyInit == policy = Default /\ disk = NoFile /\ told = "none"

PolicyNext == (\E r \in Requests : SetPolicy(r)) \/ Restart

PolicySpec == PolicyInit /\ [][PolicyNext]_policyVars

-----------------------------------------------------------------------------
(* Properties. *)

\* However many refused requests went before it, what is written out, and so
\* what a restart brings back, never has a warning as long as its budget.
SavedIsSane ==
    disk # NoFile => (disk.warning /\ disk.blank # Never => disk.grace < disk.blank)

\* A caller who was told ok keeps the settings past a restart, with everything
\* earlier requests left in them.
OkSurvives == told = "ok" => disk = policy

\* The settings in use and those on disk agree with what was answered, and neither a
\* refused request nor a failed save leaves a file that a restart should not load.
PolicyInv == PolicyTypeOK /\ SavedIsSane /\ OkSurvives
=============================================================================
