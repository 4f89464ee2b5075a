---------------------------- MODULE SecretStore ----------------------------
(***************************************************************************)
(* The secret service (secrets/, bin/souveraine-secrets.rs): a store of    *)
(* sealed items behind a mutex, its file, and the D-Bus objects that stand *)
(* for the items.  A call holds the mutex once or twice and registers or   *)
(* removes an object outside of it; calls run on as many threads.          *)
(*                                                                         *)
(* An item is its attributes (the label and the content type with them),   *)
(* its secret and the key it is sealed under.                              *)
(***************************************************************************)
EXTENDS Naturals, FiniteSets

CONSTANTS
    Ids,        \* bound: ids that are drawn (uuids, never drawn twice)
    Secrets,
    Attributes, \* of a new item, or NoAttributes
    NoAttributes,
    Callers,    \* calls under way
    Absent, Unsure, NoStore, Blank,
    MaxKeys,    \* bound: store keys minted
    MaxFails    \* bound: writes that fail

ASSUME SecretConstants ==
    /\ Secrets \cap {Absent, Unsure} = {} /\ Absent # Unsure
    /\ NoAttributes \in Attributes /\ MaxKeys \in Nat \ {0} /\ MaxFails \in Nat
    /\ NoStore # Blank

NoKey == 0
Keys  == 1 .. MaxKeys
Item  == [attributes: Attributes, secret: Secrets, key: Keys]

\* StoreFile: the key under the machine's wrap and the passphrase's, and the items.
StoreFile == [machine: Keys \cup {NoKey}, passphrase: Keys \cup {NoKey},
              items: [Ids -> Item \cup {Absent}]]

\* What stands for no item, or no file, is none.
ASSUME StoreConstants == Absent \notin Item /\ {NoStore, Blank} \cap StoreFile = {}

EmptyFile == [machine |-> NoKey, passphrase |-> NoKey, items |-> [i \in Ids |-> Absent]]

VARIABLES
    serving, \* how far main is
    toServe, \* items of start-up that have no object yet
    kept,    \* SecretStore.file
    storeKey,
    saved,   \* store.json
    objects, \* items the object server knows
    calls,
    unused,  \* ids not drawn
    minted,  \* store keys minted so far
    fails,   \* writes that failed so far
    promised, \* what callers were told of each item (nothing reads it)
    astray   \* written without an object since start-up (nothing reads it)

secretVars == <<serving, toServe, kept, storeKey, saved, objects, calls, unused, minted,
                fails, promised, astray>>

Stored == {i \in Ids : kept.items[i] # Absent}

NoCall == [pc |-> "idle", id |-> Absent, attributes |-> NoAttributes, secret |-> Absent,
           new |-> FALSE]

SecretTypeOK ==
    /\ serving \in {"down", "named", "registering"}
    /\ toServe \subseteq Ids /\ objects \subseteq Ids /\ unused \subseteq Ids
    /\ kept \in StoreFile /\ saved \in StoreFile \cup {NoStore, Blank}
    /\ storeKey \in Keys \cup {NoKey} /\ minted \in 0 .. MaxKeys
    /\ fails \in 0 .. MaxFails
    /\ calls \in [Callers ->
         [pc: {"idle", "create", "serve", "set", "describe", "delete", "unserve"},
          id: Ids \cup {Absent}, attributes: Attributes, secret: Secrets \cup {Absent},
          new: BOOLEAN]]
    /\ promised \in [Ids -> Secrets \cup {Absent, Unsure}]
    /\ astray \subseteq Ids

-----------------------------------------------------------------------------
(* The daemon starts and stops. *)

\* open: the key the machine unwraps, or a new one; only a store without a file is
\* written at once.  Then the name is claimed.
OpenStore ==
    LET file == IF saved \in {NoStore, Blank} THEN EmptyFile ELSE saved IN
    /\ serving = "down"
    /\ \/ /\ file.machine # NoKey
          /\ kept' = file /\ storeKey' = file.machine
          /\ UNCHANGED <<saved, minted>>
       \/ /\ file.machine = NoKey /\ minted < MaxKeys
          /\ minted' = minted + 1 /\ storeKey' = minted + 1
          /\ kept' = [file EXCEPT !.machine = minted + 1]
          /\ saved' = IF saved = NoStore THEN kept' ELSE saved
    /\ serving' = "named"
    /\ UNCHANGED <<toServe, objects, calls, unused, fails, promised, astray>>

\* main registers what the store holds by then, one by one.
ListItems ==
    /\ serving = "named"
    /\ serving' = "registering" /\ toServe' = Stored
    /\ UNCHANGED <<kept, storeKey, saved, objects, calls, unused, minted, fails, promised,
                   astray>>

ServeItem(i) ==
    /\ i \in toServe
    /\ toServe' = toServe \ {i} /\ objects' = objects \cup {i}
    /\ UNCHANGED <<serving, kept, storeKey, saved, calls, unused, minted, fails, promised,
                   astray>>

DaemonStops ==
    /\ serving # "down"
    /\ serving' = "down" /\ toServe' = {} /\ objects' = {} /\ astray' = {}
    /\ kept' = EmptyFile /\ storeKey' = NoKey
    /\ calls' = [c \in Callers |-> NoCall]
    /\ UNCHANGED <<saved, unused, minted, fails, promised>>

-----------------------------------------------------------------------------
(* Under the mutex. *)

WritesFirst(file, ok) ==
    /\ kept' = file
    /\ \/ ok /\ saved' = kept /\ UNCHANGED fails
       \/ ~ok /\ fails < MaxFails /\ fails' = fails + 1 /\ UNCHANGED saved

\* The file is changed in memory, and then written as a whole, or not.
Writes(file, ok) ==
    /\ kept' = file
    /\ \/ ok /\ saved' = file /\ UNCHANGED fails
       \/ ~ok /\ fails < MaxFails /\ fails' = fails + 1 /\ UNCHANGED saved

\* set.
Put(i, attributes, secret, ok) ==
    Writes([kept EXCEPT !.items[i] =
               [attributes |-> attributes, secret |-> secret, key |-> storeKey]], ok)

\* search: the empty set of attributes finds everything.
Found(attributes) ==
    {i \in Stored : attributes \in {NoAttributes, kept.items[i].attributes}}

Told(i, what, ok) == promised' = [promised EXCEPT ![i] = IF ok THEN what ELSE Unsure]

-----------------------------------------------------------------------------
(* Calls. *)

Starts(c, call) ==
    /\ serving # "down" /\ calls[c] = NoCall
    /\ calls' = [calls EXCEPT ![c] = call]
    /\ UNCHANGED <<serving, toServe, kept, storeKey, saved, objects, minted, fails,
                   promised, astray>>

Proceeds(c, pc) == calls' = [calls EXCEPT ![c].pc = pc]
Returns(c) == calls' = [calls EXCEPT ![c] = NoCall]

Untouched == UNCHANGED <<serving, toServe, storeKey, unused, minted>>

\* create_item: with replace, over an item with these attributes if there is one, else
\* under a new id (which one is all the same).
CreateItem(c, attributes, secret, replace) ==
    \E i \in Ids :
        LET over == replace /\ Found(attributes) # {} IN
        /\ over \/ unused # {}
        /\ i \in IF over THEN Found(attributes) ELSE {CHOOSE j \in unused : TRUE}
        /\ unused' = unused \ {i}
        /\ Starts(c, [pc |-> "create", id |-> i, attributes |-> attributes,
                      secret |-> secret, new |-> ~over])

\* The mutex is taken again.  An item that is new gets its object afterwards.
CreateStores(c, ok) ==
    LET i == calls[c].id IN
    /\ calls[c].pc = "create"
    /\ Put(i, calls[c].attributes, calls[c].secret, ok)
    /\ IF ok /\ calls[c].new THEN Proceeds(c, "serve") ELSE Returns(c)
    /\ Told(i, calls[c].secret, ok)
    /\ astray' = IF i \in Stored \/ (ok /\ calls[c].new) THEN astray ELSE astray \cup {i}
    /\ Untouched /\ UNCHANGED objects

CreateServes(c) ==
    /\ calls[c].pc = "serve"
    /\ objects' = objects \cup {calls[c].id}
    /\ Returns(c)
    /\ Untouched /\ UNCHANGED <<kept, saved, fails, promised, astray>>

\* A method of an item reaches it through its object.
OnItem(c, i, pc, attributes, secret) ==
    /\ i \in objects
    /\ Starts(c, [pc |-> pc, id |-> i, attributes |-> attributes, secret |-> secret,
                  new |-> FALSE])
    /\ UNCHANGED unused

\* set_secret asks nobody whether the item is still there.
SetSecret(c, ok) ==
    LET i == calls[c].id IN
    /\ calls[c].pc = "set"
    /\ Put(i, IF i \in Stored THEN kept.items[i].attributes ELSE NoAttributes,
           calls[c].secret, ok)
    /\ Returns(c)
    /\ Told(i, calls[c].secret, ok)
    /\ astray' = IF i \in Stored THEN astray ELSE astray \cup {i}
    /\ Untouched /\ UNCHANGED objects

\* set_attributes, set_label: only of an item that is, and whatever persist says.
Describe(c, ok) ==
    LET i == calls[c].id IN
    /\ calls[c].pc = "describe"
    /\ IF i \in Stored THEN Put(i, calls[c].attributes, kept.items[i].secret, ok)
                       ELSE UNCHANGED <<kept, saved, fails>>
    /\ Returns(c)
    /\ Untouched /\ UNCHANGED <<objects, promised, astray>>

\* delete: the object goes after the item.
DeleteItem(c, ok) ==
    LET i == calls[c].id IN
    /\ calls[c].pc = "delete"
    /\ Writes([kept EXCEPT !.items[i] = Absent], ok)
    /\ IF ok THEN Proceeds(c, "unserve") ELSE Returns(c)
    /\ Told(i, Absent, ok)
    /\ Untouched /\ UNCHANGED <<objects, astray>>

DeleteUnserves(c) ==
    /\ calls[c].pc = "unserve"
    /\ objects' = objects \ {calls[c].id}
    /\ Returns(c)
    /\ Untouched /\ UNCHANGED <<kept, saved, fails, promised, astray>>

\* set_passphrase: the store key is wrapped again, the items are not touched.
SetPassphrase(ok) ==
    /\ serving # "down"
    /\ Writes([kept EXCEPT !.passphrase = storeKey], ok)
    /\ Untouched /\ UNCHANGED <<objects, calls, promised, astray>>

-----------------------------------------------------------------------------

SecretInit ==
    /\ serving = "down" /\ toServe = {} /\ objects = {} /\ astray = {}
    /\ kept = EmptyFile /\ storeKey = NoKey /\ minted = 0 /\ fails = 0
    /\ saved \in {NoStore, Blank}
    /\ calls = [c \in Callers |-> NoCall]
    /\ unused = Ids
    /\ promised = [i \in Ids |-> Absent]

Call(c) ==
    \/ \E a \in Attributes, s \in Secrets :
         \/ \E replace \in BOOLEAN : CreateItem(c, a, s, replace)
         \/ \E i \in Ids : \/ OnItem(c, i, "set", NoAttributes, s)
                           \/ OnItem(c, i, "describe", a, Absent)
                           \/ OnItem(c, i, "delete", NoAttributes, Absent)
    \/ CreateServes(c) \/ DeleteUnserves(c)
    \/ \E ok \in BOOLEAN :
         CreateStores(c, ok) \/ SetSecret(c, ok) \/ Describe(c, ok) \/ DeleteItem(c, ok)

SecretNext ==
    \/ OpenStore \/ ListItems \/ DaemonStops
    \/ \E i \in Ids : ServeItem(i)
    \/ \E ok \in BOOLEAN : SetPassphrase(ok)
    \/ \E c \in Callers : Call(c)

SecretSpec == SecretInit /\ [][SecretNext]_secretVars

-----------------------------------------------------------------------------
(* Properties. *)

\* What a caller was told of an item is what a restart finds, unless the last word on it
\* was an error; changes of attributes that could not be written change no secret.
PromisesKept ==
    \A i \in Ids :
        promised[i] # Unsure =>
            promised[i] = IF saved \in {NoStore, Blank} \/ saved.items[i] = Absent
                            THEN Absent ELSE saved.items[i].secret

\* Whatever was written or lost in between, the key that either wrap gives opens every
\* item of the file, and the key in memory every item of memory.
SealsOpen ==
    /\ \A i \in Stored : kept.items[i].key = storeKey
    /\ saved \notin {NoStore, Blank} =>
         /\ saved.passphrase \in {NoKey, saved.machine}
         /\ \A i \in Ids : saved.items[i] # Absent => saved.items[i].key = saved.machine

\* Items that have to wait for their object.
Coming == {calls[c].id : c \in {d \in Callers : calls[d].pc = "serve"}}

\* An item without an object is on its way to one, or was written by a call that failed,
\* or after it was deleted.
ItemsServed ==
    serving = "registering" => Stored \ (objects \cup toServe \cup Coming) \subseteq astray

\* Callers that overlap, writes that fail and restarts leave what was promised, readable
\* and in reach.
SecretInv == SecretTypeOK /\ PromisesKept /\ SealsOpen /\ ItemsServed
=============================================================================
