------------------------------ MODULE WebStart ------------------------------
(***************************************************************************)
(* The page-wide slot of the browser SDK: start, shutdown, the identity    *)
(* calls and what they leave in storage (sdks/web/src/start/state.ts,      *)
(* fw.ts and identity.ts).                                                 *)
(*                                                                         *)
(* One thread. Each stretch between two awaits is an action; which of the  *)
(* stretches that are due runs next is left open. A client is known by the *)
(* generation of the start that built it, and what it decides by the key   *)
(* it was last told (WebRuntime has the prefetches under that key). The    *)
(* page has a DOM. Log lines, problems and reads are left out, and SETTLED *)
(* stands for the READY, STALE or ERROR a prefetch ended in.               *)
(***************************************************************************)
EXTENDS Naturals

CONSTANTS
    Calls,       \* the identity calls of a page, each made once
    Shutdowns,   \* its calls of shutdown
    Users,       \* keys to sign in with
    Minted,      \* the ids the SDK mints
    Earlier,     \* what an earlier page may have left in storage
    AppDevice,   \* an anonymous id the application supplies
    Device,      \* stands for whatever the device id is
    Options,     \* what its starts pass
    None

Modes     == {"local", "remote"}
Places    == {"localStorage", "memory"}
DeviceIds == Minted \cup {AppDevice}
Keys      == Users \cup DeviceIds

\* The identity of a page that started; durable when its id outlives the page.
Identities == [deviceId : DeviceIds, durable : BOOLEAN]

ASSUME UsersAssumption == Users \cap (DeviceIds \cup {Device, None}) = {}
ASSUME NoneAssumption == None \notin DeviceIds \cup {Device} \cup Nat \cup Identities
ASSUME AppDeviceAssumption == AppDevice \notin Minted
ASSUME DeviceAssumption == Device \notin DeviceIds

ASSUME OptionsAssumption ==
    Options \subseteq [mode : Modes, persistence : Places, deviceId : {AppDevice, None}]

\* What storage may hold.
Pages == [deviceId : Minted \cup {None}, identity : Keys \cup {None},
          registered : DeviceIds \cup {None}]

ASSUME EarlierAssumption == Earlier \subseteq Pages

VARIABLES
    \* the slot
    state, generation, mode, persistence, appDeviceId, identity, currentKey,
    client, ready, chain,
    told,          \* the key the client was last told
    boots,         \* starts whose first prefetch has not settled
    open,          \* clients nobody has shut down
    registrations, \* registrations of a device under way
    stored, storable,
    calls,         \* each identity call: where it is, and what it waits for
    stops,         \* each shutdown
    \* histories of a start: whom the last call signs in, if earlier calls were
    \* unfinished, and if it left a signed-in key unread in storage
    wanted, straddled, unread

ids     == <<identity, appDeviceId>>
config  == <<mode, persistence>>
slot    == <<state, generation, client, ready>>
keys    == <<currentKey, told>>
storage == <<stored, storable>>
ghosts  == <<wanted, straddled, unread>>
vars    == <<ids, config, slot, keys, chain, boots, open, registrations, storage,
             calls, stops, ghosts>>

\* identify(key), reset() and forget(). identify with a blank key changes
\* nothing and is left out.
Operations == [kind : {"identify"}, key : Users]
              \cup [kind : {"reset", "forget"}, key : {None}]

NoOperation == [kind |-> "none", key |-> None]

\* A call waits for the call after, then for the start of generation gate.
NotMade == [at |-> "idle", op |-> NoOperation, after |-> None, gate |-> 0]
Made    == [NotMade EXCEPT !.at = "done"]

NotStopped == [at |-> "idle", gate |-> 0]

Cleared == [deviceId |-> None, identity |-> None, registered |-> None]

Init ==
    /\ state = "NOT_STARTED"
    /\ generation = 0
    /\ mode = None
    /\ persistence = "localStorage"
    /\ appDeviceId = FALSE
    /\ identity = None
    /\ currentKey = None
    /\ client = None
    /\ ready = 0
    /\ chain = None
    /\ told = None
    /\ boots = {}
    /\ open = {}
    /\ registrations = {}
    /\ storable \in BOOLEAN
    /\ stored \in IF storable THEN Earlier ELSE {Cleared}
    /\ calls = [c \in Calls |-> NotMade]
    /\ stops = [x \in Shutdowns |-> NotStopped]
    /\ wanted = None
    /\ straddled = FALSE
    /\ unread = FALSE

-----------------------------------------------------------------------------
(* Storage: a write that throws is a write that did not happen.            *)

Write(name, value) == IF storable THEN [stored EXCEPT ![name] = value] ELSE stored

Stores == mode = "remote" /\ persistence = "localStorage"

\* rememberUser, None signing out
Remembered(user) == IF Stores THEN Write("identity", user) ELSE stored

NoStart == wanted' = None /\ straddled' = FALSE /\ unread' = FALSE

-----------------------------------------------------------------------------
(* start                                                                   *)

IsActive == state \in {"INITIALIZING", "SETTLED"}

\* A configuration fault: no start, and no harm to a running one.
StartRefused ==
    /\ ~IsActive
    /\ state' = "FAILED"
    /\ ready' = 0
    /\ UNCHANGED <<ids, config, generation, client, keys, chain, boots, open,
                   registrations, storage, calls, stops, ghosts>>

\* An id no part of the page still refers to.
InUse ==
    {stored.deviceId, stored.identity, stored.registered, currentKey, told, wanted}
    \cup {r.deviceId : r \in registrations} \cup {b.key : b \in boots}
    \cup IF identity = None THEN {} ELSE {identity.deviceId}

Fresh == CHOOSE id \in Minted \ InUse : TRUE

\* Minted is a bound: what would mint waits while all its ids are in use.
Mintable == Minted \ InUse # {}

Finished(c) == calls[c].at \in {"idle", "done"}

\* Mutant: a missing stored id is taken for one.
MintedForPage(o) == o.deviceId = None /\ (o.mode = "local" \/ o.persistence = "memory")

\* The identity a start boots under, with what it mints and writes for it.
MintedFor(o) ==
    /\ o.deviceId = None
    /\ o.mode = "local" \/ o.persistence = "memory" \/ stored.deviceId = None

LoadIdentity(o) ==
    [deviceId |-> IF o.deviceId # None THEN o.deviceId
                  ELSE IF MintedFor(o) THEN Fresh ELSE stored.deviceId,
     durable  |-> /\ o.mode = "remote"
                  /\ \/ o.deviceId # None
                     \/ o.persistence = "localStorage" /\ (storable \/ stored.deviceId # None)]

LoadUser(o) ==
    IF o.mode = "remote" /\ o.persistence = "localStorage" THEN stored.identity ELSE None

\* Of an active slot, start changes nothing.
Start(o) ==
    LET loaded == LoadIdentity(o)
        user   == LoadUser(o)
        key    == IF user # None THEN user ELSE loaded.deviceId
    IN /\ ~IsActive
       /\ MintedFor(o) => Mintable
       /\ generation' = generation + 1
       /\ mode' = o.mode
       /\ persistence' = o.persistence
       /\ appDeviceId' = (o.deviceId # None)
       /\ identity' = loaded
       /\ stored' = IF MintedFor(o) /\ o.mode = "remote" /\ o.persistence = "localStorage"
                      THEN Write("deviceId", Fresh) ELSE stored
       /\ currentKey' = key
       /\ told' = None
       /\ client' = None
       /\ chain' = None
       /\ boots' = boots \cup {[generation |-> generation + 1, key |-> key]}
       /\ ready' = generation + 1
       /\ state' = "INITIALIZING"
       /\ wanted' = IF user # None THEN user ELSE Device
       /\ straddled' = \E c \in Calls : ~Finished(c)
       /\ unread' = (user = None /\ stored.identity # None)
       /\ UNCHANGED <<open, registrations, storable, calls, stops>>

\* registerDevice, for the slot as it is about to be.
DeviceRegistration(c, id, place) ==
    IF c # None /\ mode = "remote" /\ id.durable /\ place.registered # id.deviceId
      THEN {[generation |-> generation, deviceId |-> id.deviceId]} ELSE {}

\* Mutant: a late client is dropped and not shut down.
SlotTakesLate(b) == open \cup {b.generation}

\* A late client is shut down on the spot.
AfterBoot(b) == IF b.generation = generation THEN open \cup {b.generation} ELSE open

\* The first prefetch settles, if only by its ceiling.
Boots(b) ==
    /\ b \in boots
    /\ boots' = boots \ {b}
    /\ open' = AfterBoot(b)
    /\ IF b.generation = generation
         THEN /\ client' = b.generation
              /\ told' = b.key
              /\ state' = "SETTLED"
              /\ registrations' =
                     registrations \cup DeviceRegistration(b.generation, identity, stored)
         ELSE UNCHANGED <<client, told, state, registrations>>
    /\ UNCHANGED <<ids, config, generation, ready, currentKey, chain, storage, calls,
                   stops, ghosts>>

\* The core refuses the configuration.
BootFails(b) ==
    /\ b \in boots
    /\ boots' = boots \ {b}
    /\ IF b.generation = generation THEN state' = "FAILED" /\ NoStart
                                    ELSE UNCHANGED <<state, ghosts>>
    /\ UNCHANGED <<ids, config, generation, client, ready, keys, chain, open,
                   registrations, storage, calls, stops>>

\* Mutant: wherever the answer arrives, it is written down.
MayRecordAlways(r) == TRUE

MayRecord(r) == r.generation = generation /\ persistence = "localStorage"

DeviceRegistered(r) ==
    /\ r \in registrations
    /\ registrations' = registrations \ {r}
    /\ stored' \in {stored} \cup IF MayRecord(r) THEN {Write("registered", r.deviceId)} ELSE {}
    /\ UNCHANGED <<ids, config, slot, keys, chain, boots, open, storable, calls,
                   stops, ghosts>>

-----------------------------------------------------------------------------
(* Identity calls: one after the other, each after the start has settled.  *)

Settled(g) == \A b \in boots : b.generation # g

Go(c, next) ==
    calls' = [calls EXCEPT ![c] = IF next = "done" THEN Made ELSE [@ EXCEPT !.at = next]]

Call(c, o) ==
    /\ calls[c].at = "idle"
    /\ calls' = [calls EXCEPT ![c] = [at |-> "queued", op |-> o, after |-> chain, gate |-> 0]]
    /\ chain' = c
    /\ wanted' = IF wanted = None THEN None ELSE IF o.key # None THEN o.key ELSE Device
    /\ UNCHANGED <<ids, config, slot, keys, boots, open, registrations, storage,
                   stops, straddled, unread>>

\* Mutant: calls do not wait for the one before.
MayLeaveAtOnce(c) == TRUE

MayLeave(c) == \A d \in Calls : d = calls[c].after => calls[d].at = "done"

LeaveChain(c) ==
    /\ calls[c].at = "queued"
    /\ MayLeave(c)
    /\ calls' = [calls EXCEPT ![c] = [at |-> "gated", op |-> @.op, after |-> None, gate |-> ready]]
    /\ UNCHANGED <<ids, config, slot, keys, chain, boots, open, registrations,
                   storage, stops, ghosts>>

Due(c, kind) ==
    calls[c].at = "gated" /\ Settled(calls[c].gate) /\ calls[c].op.kind = kind

\* switchTo up to its await, after which the call goes on at next.
SwitchTo(c, key, next) ==
    IF client = None \/ key = currentKey
      THEN Go(c, next) /\ UNCHANGED keys
      ELSE Go(c, "switching") /\ currentKey' = key /\ told' = key

IdentifyStart(c) ==
    /\ Due(c, "identify")
    /\ Go(c, IF client = None THEN "done" ELSE "registering")
    /\ UNCHANGED <<ids, config, slot, keys, chain, boots, open, registrations,
                   storage, stops, ghosts>>

\* However the registration went.
Identified(c) ==
    /\ calls[c].at = "registering"
    /\ SwitchTo(c, calls[c].op.key, "switched")
    /\ UNCHANGED <<ids, config, slot, chain, boots, open, registrations, storage,
                   stops, ghosts>>

Reset(c) ==
    /\ Due(c, "reset")
    /\ stored' = Remembered(None)
    /\ IF identity = None THEN Go(c, "done") /\ UNCHANGED keys
                          ELSE SwitchTo(c, identity.deviceId, "done")
    /\ UNCHANGED <<ids, config, slot, chain, boots, open, registrations, storable,
                   stops, ghosts>>

Forget(c) ==
    /\ Due(c, "forget")
    /\ persistence' = "memory"
    /\ stored' = Cleared
    /\ IF identity = None
         THEN Go(c, "done") /\ UNCHANGED <<ids, keys>>
         ELSE /\ Mintable
              /\ identity' = [deviceId |-> Fresh, durable |-> FALSE]
              /\ appDeviceId' = FALSE
              /\ SwitchTo(c, Fresh, "done")
    /\ UNCHANGED <<mode, slot, chain, boots, open, registrations, storable, stops,
                   ghosts>>

\* setContext has prefetched, or could not; the slot hears of it from the
\* client of its own generation, even when that was shut down meanwhile.
Switched(c) ==
    /\ calls[c].at = "switching"
    /\ Go(c, IF calls[c].op.kind = "identify" THEN "switched" ELSE "done")
    /\ state' \in {state} \cup IF client = generation THEN {"SETTLED"} ELSE {}
    /\ UNCHANGED <<ids, config, generation, client, ready, keys, chain, boots, open,
                   registrations, storage, stops, ghosts>>

\* Mutant: the user is remembered whatever was said of storage meanwhile.
StoredUserAlways(key) == Write("identity", key)

StoredUser(key) == Remembered(key)

RememberUser(c) ==
    /\ calls[c].at = "switched"
    /\ Go(c, "done")
    /\ stored' = StoredUser(calls[c].op.key)
    /\ UNCHANGED <<ids, config, slot, keys, chain, boots, open, registrations,
                   storable, stops, ghosts>>

-----------------------------------------------------------------------------
(* setPersistence, at once and not in the chain.                           *)

SetPersistence(place) ==
    /\ place # persistence
    /\ persistence' = place
    /\ IF identity = None \/ mode # "remote"
         THEN UNCHANGED <<stored, identity, registrations>>
         ELSE IF place = "memory"
         THEN stored' = Cleared /\ UNCHANGED <<identity, registrations>>
         ELSE LET user == IF currentKey # identity.deviceId THEN currentKey ELSE None
              IN /\ stored' = IF ~storable THEN stored
                              ELSE [stored EXCEPT
                                      !.identity = IF user # None THEN user ELSE @,
                                      !.deviceId = IF appDeviceId THEN @
                                                                  ELSE identity.deviceId]
                 /\ identity' = [identity EXCEPT !.durable = appDeviceId \/ storable]
                 /\ registrations' =
                        registrations \cup DeviceRegistration(client, identity', stored')
    /\ UNCHANGED <<mode, slot, keys, chain, boots, open, appDeviceId,
                   storable, calls, stops, ghosts>>

-----------------------------------------------------------------------------
(* shutdown                                                                *)

ShutdownCall(x) ==
    /\ stops[x].at = "idle"
    /\ stops' = [stops EXCEPT ![x] = [at |-> "gated", gate |-> ready]]
    /\ UNCHANGED <<ids, config, slot, keys, chain, boots, open, registrations,
                   storage, calls, ghosts>>

ShutdownSlot(x) ==
    /\ stops[x].at = "gated"
    /\ Settled(stops[x].gate)
    /\ stops' = [stops EXCEPT ![x] = [at |-> "done", gate |-> 0]]
    /\ generation' = generation + 1
    /\ client' = None
    /\ told' = None
    /\ open' = open \ {client}
    /\ ready' = 0
    /\ state' = "SHUTDOWN"
    /\ NoStart
    /\ UNCHANGED <<ids, config, currentKey, chain, boots, registrations, storage,
                   calls>>

\* The application shuts the core client down behind the slot, which hears
\* of it.
ClientShutdown ==
    /\ client \in open
    /\ open' = open \ {client}
    /\ state' = "SHUTDOWN"
    /\ UNCHANGED <<ids, config, generation, client, ready, keys, chain, boots,
                   registrations, storage, calls, stops, ghosts>>

-----------------------------------------------------------------------------
Task(c) ==
    \/ LeaveChain(c) \/ IdentifyStart(c) \/ Identified(c)
    \/ Reset(c) \/ Forget(c) \/ Switched(c) \/ RememberUser(c)

Next ==
    \/ StartRefused
    \/ \E o \in Options : Start(o)
    \/ \E b \in boots : Boots(b) \/ BootFails(b)
    \/ \E r \in registrations : DeviceRegistered(r)
    \/ \E c \in Calls : (\E o \in Operations : Call(c, o)) \/ Task(c)
    \/ \E place \in Places : SetPersistence(place)
    \/ \E x \in Shutdowns : ShutdownCall(x) \/ ShutdownSlot(x)
    \/ ClientShutdown

Spec == Init /\ [][Next]_vars

-----------------------------------------------------------------------------
(* Properties                                                              *)

States == {"NOT_STARTED", "INITIALIZING", "SETTLED", "FAILED", "SHUTDOWN"}

Generations == 0..generation

SlotTyped ==
    /\ state \in States
    /\ generation \in Nat
    /\ mode \in Modes \cup {None}
    /\ persistence \in Places
    /\ appDeviceId \in BOOLEAN
    /\ identity \in Identities \cup {None}
    /\ {currentKey, told} \subseteq Keys \cup {None}
    /\ client \in Generations \cup {None}
    /\ ready \in Generations
    /\ chain \in Calls \cup {None}

UnderWayTyped ==
    /\ boots \subseteq [generation : Generations, key : Keys]
    /\ open \subseteq Generations
    /\ registrations \subseteq [generation : Generations, deviceId : DeviceIds]

StorageTyped ==
    /\ stored \in Pages
    /\ storable \in BOOLEAN

Steps == {"idle", "queued", "gated", "registering", "switching", "switched", "done"}

CallRecords == [at : Steps, op : Operations \cup {NoOperation}, after : Calls \cup {None},
                gate : Generations]
StopRecords == [at : {"idle", "gated", "done"}, gate : Generations]

CallsTyped == calls \in [Calls -> CallRecords] /\ stops \in [Shutdowns -> StopRecords]

HistoriesTyped ==
    /\ wanted \in Keys \cup {Device, None}
    /\ straddled \in BOOLEAN
    /\ unread \in BOOLEAN

\* The slot, what is under way and what is in storage keep their types: in
\* particular only an id the SDK minted is stored as the device's.
TypeOK == SlotTyped /\ UnderWayTyped /\ StorageTyped /\ CallsTyped /\ HistoriesTyped

\* Every client that was not shut down is the slot's: overlapping shutdowns
\* and a start in between leave none behind that goes on talking.
NoClientForgotten == open \subseteq {client}

\* identify, reset and forget are serialized so that the last call wins:
\* once all of them are done, the client of this start decides for whom the
\* last one signed in, or for this device, and the next page load will find
\* the same in storage if it may. A call an earlier start left unfinished,
\* and a key this start left unread in storage, are exceptions.
Calm == \A c \in Calls : Finished(c)

Wanted == IF wanted = Device THEN identity.deviceId ELSE wanted

KeyOfNextPage ==
    IF stored.identity # None THEN stored.identity
    ELSE IF appDeviceId THEN identity.deviceId
    ELSE stored.deviceId

LastCallWins ==
    Calm /\ client # None /\ ~straddled =>
        /\ told = currentKey /\ told = Wanted
        /\ Stores /\ storable /\ ~unread => KeyOfNextPage = Wanted

\* Without consent nothing is written, by whatever was under way when it was
\* withdrawn.
MemoryStoresNothing ==
    [][persistence' = "memory" =>
         \A name \in DOMAIN stored : stored'[name] \in {stored[name], None}]_vars
=============================================================================
