--------------------------- MODULE WebStartProofs ---------------------------
(***************************************************************************)
(* Theorems about the page-wide slot, for any calls, users, options and    *)
(* storage: whatever starts and shutdowns overlap, no client is left open  *)
(* behind the slot's back; nothing is written without consent; and of the  *)
(* identity calls the last one wins.                                       *)
(***************************************************************************)
EXTENDS WebStart, TLAPS

-----------------------------------------------------------------------------
(* A boot pending for the present generation finds the slot without a      *)
(* client, is the only one of it, and none is open.                        *)

BootsDiffer ==
    /\ \A b \in boots : b.generation \in 0..generation
    /\ \A b, d \in boots : b.generation = d.generation => b = d

BootsFindNoClient == \A b \in boots : b.generation = generation => client = None

Closed ==
    /\ client = None => open = {}
    /\ ~IsActive => open = {}

ClientInv == generation \in Nat /\ BootsDiffer /\ BootsFindNoClient /\ Closed /\ NoClientForgotten

LEMMA ClientInit == Init => ClientInv
BY DEF Init, ClientInv, BootsDiffer, BootsFindNoClient, Closed, NoClientForgotten

LEMMA StartKeeps ==
    ASSUME ClientInv, NEW o \in Options, Start(o)
    PROVE  ClientInv'
<1> DEFINE key == IF LoadUser(o) # None THEN LoadUser(o) ELSE LoadIdentity(o).deviceId
           new == [generation |-> generation + 1, key |-> key]
<1>1. /\ generation' = generation + 1
      /\ boots' = boots \cup {new}
      /\ client' = None
      /\ open' = open
      /\ ~IsActive
  BY DEF Start
<1>2. generation \in Nat /\ open = {}
  BY <1>1 DEF ClientInv, Closed
<1>3. BootsDiffer'
  <2>1. new.generation = generation + 1
    OBVIOUS
  <2> HIDE DEF new
  <2> QED  BY <1>1, <1>2, <2>1 DEF ClientInv, BootsDiffer
<1>4. BootsFindNoClient' /\ Closed' /\ NoClientForgotten'
  BY <1>1, <1>2 DEF BootsFindNoClient, Closed, NoClientForgotten
<1> QED  BY <1>1, <1>2, <1>3, <1>4 DEF ClientInv

LEMMA BootEnds ==
    ASSUME ClientInv, NEW b \in boots, Boots(b) \/ BootFails(b)
    PROVE  ClientInv'
<1> USE DEF ClientInv, BootsDiffer, BootsFindNoClient, Closed, NoClientForgotten
<1>1. generation' = generation /\ boots' = boots \ {b}
  BY DEF Boots, BootFails
<1>2. CASE b.generation # generation
  BY <1>1, <1>2 DEF Boots, BootFails, AfterBoot, ghosts, IsActive
<1>3. CASE b.generation = generation
  <2>1. client = None /\ open = {}
    BY <1>3
  <2>2. \A d \in boots' : d.generation # generation
    BY <1>1, <1>3
  <2>3. CASE Boots(b)
    <3>1. client' = generation /\ open' = {generation} /\ state' = "SETTLED"
      BY <1>3, <2>1, <2>3 DEF Boots, AfterBoot
    <3> QED  BY <1>1, <2>2, <3>1, NoneAssumption DEF IsActive
  <2>4. CASE BootFails(b)
    BY <1>1, <1>3, <2>1, <2>2, <2>4 DEF BootFails
  <2> QED  BY <2>3, <2>4
<1> QED  BY <1>2, <1>3

LEMMA ShutdownKeeps ==
    ASSUME ClientInv, NEW x \in Shutdowns, ShutdownSlot(x)
    PROVE  ClientInv'
BY DEF ShutdownSlot, ClientInv, BootsDiffer, BootsFindNoClient, Closed, NoClientForgotten

LEMMA ClientNext == ClientInv /\ [Next]_vars => ClientInv'
<1> SUFFICES ASSUME ClientInv, [Next]_vars PROVE ClientInv'
  OBVIOUS
<1> DEFINE Same == UNCHANGED <<generation, boots, client, open>>
<1>1. ASSUME Same, IsActive' => IsActive \/ open = {} , ~IsActive' => ~IsActive \/ open = {}
      PROVE  ClientInv'
  BY <1>1 DEF ClientInv, BootsDiffer, BootsFindNoClient, Closed, NoClientForgotten
<1>2. CASE UNCHANGED vars
  BY <1>1, <1>2 DEF vars, slot, IsActive
<1>3. CASE StartRefused
  BY <1>1, <1>3 DEF StartRefused, IsActive
<1>4. CASE \E o \in Options : Start(o)
  BY <1>4, StartKeeps
<1>5. CASE \E b \in boots : Boots(b) \/ BootFails(b)
  BY <1>5, BootEnds
<1>6. CASE \E r \in registrations : DeviceRegistered(r)
  BY <1>1, <1>6 DEF DeviceRegistered, slot, IsActive
<1>7. ASSUME NEW c \in Calls, (\E o \in Operations : Call(c, o)) \/ Task(c)
      PROVE  ClientInv'
  <2>1. CASE Switched(c)
    BY <2>1 DEF Switched, ClientInv, BootsDiffer, BootsFindNoClient, Closed,
       NoClientForgotten, IsActive
  <2>2. CASE ~Switched(c)
    <3>1. UNCHANGED slot /\ UNCHANGED <<boots, open>>
      BY <1>7, <2>2 DEF Task, Call, LeaveChain, IdentifyStart, Identified, Reset, Forget,
         RememberUser
    <3> QED  BY <1>1, <3>1 DEF slot, IsActive
  <2> QED  BY <2>1, <2>2
<1>8. CASE \E place \in Places : SetPersistence(place)
  BY <1>1, <1>8 DEF SetPersistence, slot, IsActive
<1>9. ASSUME NEW x \in Shutdowns, ShutdownCall(x) \/ ShutdownSlot(x) PROVE ClientInv'
  <2>1. CASE ShutdownCall(x)
    BY <1>1, <2>1 DEF ShutdownCall, slot, IsActive
  <2> QED  BY <1>9, <2>1, ShutdownKeeps
<1>10. CASE ClientShutdown
  BY <1>10 DEF ClientShutdown, ClientInv, BootsDiffer, BootsFindNoClient, Closed,
     NoClientForgotten
<1> QED  BY <1>2, <1>3, <1>4, <1>5, <1>6, <1>7, <1>8, <1>9, <1>10 DEF Next

\* Overlapping starts, shutdowns and late boots leave no client open but the
\* one the slot has.
THEOREM LateClientsEnd == Spec => []NoClientForgotten
<1>1. ClientInv => NoClientForgotten
  BY DEF ClientInv
<1> QED  BY <1>1, ClientInit, ClientNext, PTL DEF Spec

-----------------------------------------------------------------------------
Names == {"deviceId", "identity", "registered"}

Shaped == stored = [name \in Names |-> stored[name]]

LEMMA ShapedInit == Init => Shaped
BY EarlierAssumption DEF Init, Shaped, Names, Cleared, Pages

\* A write changes one entry, and a clearing leaves none.
LEMMA WriteChanges ==
    ASSUME Shaped, NEW name \in Names, NEW value
    PROVE  LET place == Write(name, value)
           IN /\ place = [n \in Names |-> place[n]]
              /\ \A n \in Names \ {name} : place[n] = stored[n]
              /\ place[name] \in {stored[name], value}
BY DEF Shaped, Write

LEMMA ClearedShape == /\ Cleared = [n \in Names |-> Cleared[n]]
                      /\ \A n \in Names : Cleared[n] = None
BY DEF Cleared, Names

\* What is stored keeps its shape, and gains nothing in a step after which
\* there is no consent.
Gains == persistence' = "memory" => \A n \in Names : stored'[n] \in {stored[n], None}

LEMMA StorageStep ==
    ASSUME Shaped, [Next]_vars
    PROVE  Shaped' /\ Gains
<1>1. ASSUME UNCHANGED stored PROVE Shaped' /\ Gains
  BY <1>1 DEF Shaped, Gains
<1>2. ASSUME stored' = Cleared PROVE Shaped' /\ Gains
  BY <1>2, ClearedShape DEF Shaped, Gains
<1>3. ASSUME NEW name \in Names, NEW value, stored' = Write(name, value),
             persistence' = "localStorage" \/ value = None
      PROVE  Shaped' /\ Gains
  BY <1>3, WriteChanges DEF Shaped, Gains
<1>4. CASE UNCHANGED vars
  BY <1>1, <1>4 DEF vars, storage
<1>5. CASE StartRefused \/ ClientShutdown
  BY <1>1, <1>5 DEF StartRefused, ClientShutdown, storage
<1>6. ASSUME NEW o \in Options, Start(o) PROVE Shaped' /\ Gains
  <2>1. persistence' = o.persistence
    BY <1>6 DEF Start
  <2>2. CASE MintedFor(o) /\ o.mode = "remote" /\ o.persistence = "localStorage"
    <3>1. stored' = Write("deviceId", Fresh)
      BY <1>6, <2>2 DEF Start
    <3> QED  BY <1>3, <2>1, <2>2, <3>1 DEF Names
  <2>3. CASE ~(MintedFor(o) /\ o.mode = "remote" /\ o.persistence = "localStorage")
    BY <1>1, <1>6, <2>3 DEF Start
  <2> QED  BY <2>2, <2>3
<1>7. ASSUME NEW b \in boots, Boots(b) \/ BootFails(b) PROVE Shaped' /\ Gains
  BY <1>1, <1>7 DEF Boots, BootFails, storage
<1>8. ASSUME NEW r \in registrations, DeviceRegistered(r) PROVE Shaped' /\ Gains
  <2>1. stored' = stored \/ (MayRecord(r) /\ stored' = Write("registered", r.deviceId))
    BY <1>8 DEF DeviceRegistered
  <2>2. CASE MayRecord(r) /\ stored' = Write("registered", r.deviceId)
    <3>1. persistence' = "localStorage"
      BY <1>8, <2>2 DEF DeviceRegistered, MayRecord, config
    <3> QED  BY <1>3, <2>2, <3>1 DEF Names
  <2> QED  BY <1>1, <2>1, <2>2
<1>9. ASSUME NEW c \in Calls, (\E o \in Operations : Call(c, o)) \/ Task(c)
      PROVE  Shaped' /\ Gains
  <2>1. CASE Reset(c)
    <3>1. stored' = Write("identity", None) \/ UNCHANGED stored
      BY <2>1 DEF Reset, Remembered
    <3> QED  BY <1>1, <1>3, <3>1 DEF Names
  <2>2. CASE Forget(c)
    BY <1>2, <2>2 DEF Forget
  <2>3. CASE RememberUser(c)
    <3>1. \/ UNCHANGED stored
          \/ Stores /\ stored' = Write("identity", calls[c].op.key)
      BY <2>3 DEF RememberUser, StoredUser, Remembered
    <3>2. CASE Stores /\ stored' = Write("identity", calls[c].op.key)
      <4>1. persistence' = "localStorage"
        BY <2>3, <3>2 DEF RememberUser, Stores, config
      <4> QED  BY <1>3, <3>2, <4>1 DEF Names
    <3> QED  BY <1>1, <3>1, <3>2
  <2>4. CASE ~Reset(c) /\ ~Forget(c) /\ ~RememberUser(c)
    BY <1>1, <1>9, <2>4 DEF Task, Call, LeaveChain, IdentifyStart, Identified, Switched,
       storage
  <2> QED  BY <2>1, <2>2, <2>3, <2>4
<1>10. ASSUME NEW place \in Places, SetPersistence(place) PROVE Shaped' /\ Gains
  <2>1. persistence' = place
    BY <1>10 DEF SetPersistence
  <2>2. CASE identity = None \/ mode # "remote" \/ (~storable /\ place # "memory")
    BY <1>1, <1>10, <2>2 DEF SetPersistence
  <2>3. CASE identity # None /\ mode = "remote" /\ place = "memory"
    BY <1>2, <1>10, <2>3 DEF SetPersistence
  <2>4. CASE identity # None /\ mode = "remote" /\ place # "memory" /\ storable
    <3> DEFINE user == IF currentKey # identity.deviceId THEN currentKey ELSE None
               kept == IF user # None THEN user ELSE stored.identity
               id   == IF appDeviceId THEN stored.deviceId ELSE identity.deviceId
    <3>1. stored' = [stored EXCEPT !.identity = kept, !.deviceId = id]
      BY <1>10, <2>4 DEF SetPersistence
    <3> HIDE DEF kept, id
    <3> QED  BY <2>1, <2>4, <3>1 DEF Shaped, Gains, Names
  <2> QED  BY <2>2, <2>3, <2>4
<1>11. ASSUME NEW x \in Shutdowns, ShutdownCall(x) \/ ShutdownSlot(x) PROVE Shaped' /\ Gains
  BY <1>1, <1>11 DEF ShutdownCall, ShutdownSlot, storage
<1> QED  BY <1>4, <1>5, <1>6, <1>7, <1>8, <1>9, <1>10, <1>11 DEF Next

\* After consent was withdrawn nothing is written, by any call, registration
\* or start that was under way.
THEOREM NothingWithoutConsent == Spec => MemoryStoresNothing
<1>1. Shaped /\ [Next]_vars => Shaped'
  BY StorageStep
<1>2. Shaped => DOMAIN stored = Names
  BY DEF Shaped
<1>3. Shaped /\ [Next]_vars =>
        [persistence' = "memory" =>
           \A name \in DOMAIN stored : stored'[name] \in {stored[name], None}]_vars
  BY <1>2, StorageStep DEF Gains
<1> QED  BY ShapedInit, <1>1, <1>3, PTL DEF Spec, MemoryStoresNothing

-----------------------------------------------------------------------------
(* Types. Only what the SDK minted may be stored as the device's id, and   *)
(* it is, since an id the application supplied is known as such.           *)

MintedUnlessSupplied == identity # None /\ ~appDeviceId => identity.deviceId \in Minted

\* Whatever boots, and whatever was started, has been given an identity.
IdentityLoaded == boots # {} \/ wanted # None => identity # None

\* Only identify registers, and writes what it switched to.
OfItsKind ==
    \A c \in Calls :
        calls[c].at = "registering" \/ calls[c].at = "switched" => calls[c].op.kind = "identify"

TypeInv == TypeOK /\ MintedUnlessSupplied /\ IdentityLoaded

LEMMA TypeInit == Init => TypeInv
<1> SUFFICES ASSUME Init PROVE TypeInv
  OBVIOUS
<1>1. SlotTyped
  <2>1. generation \in Nat /\ ready \in Generations
    BY DEF Init, Generations
  <2> QED  BY <2>1 DEF Init, SlotTyped, States, Places
<1>2. UnderWayTyped /\ HistoriesTyped /\ MintedUnlessSupplied /\ IdentityLoaded
  BY DEF Init, UnderWayTyped, HistoriesTyped, MintedUnlessSupplied, IdentityLoaded
<1>3. StorageTyped
  BY EarlierAssumption DEF Init, StorageTyped, Pages, Cleared
<1>4. CallsTyped
  <2>1. NotMade \in CallRecords /\ NotStopped \in StopRecords
    BY DEF Init, NotMade, NoOperation, NotStopped, CallRecords, StopRecords, Steps,
       Generations
  <2> QED  BY <2>1 DEF Init, CallsTyped
<1> QED  BY <1>1, <1>2, <1>3, <1>4 DEF TypeInv, TypeOK

\* The generation only grows, and what was typed by it stays typed.
LEMMA GenerationsWiden ==
    ASSUME TypeInv, generation' \in {generation, generation + 1}
    PROVE  /\ generation' \in Nat
           /\ Generations \subseteq Generations'
           /\ UNCHANGED calls => calls' \in [Calls -> CallRecords']
           /\ UNCHANGED stops => stops' \in [Shutdowns -> StopRecords']
<1>1. generation' \in Nat /\ Generations \subseteq Generations'
  BY DEF TypeInv, TypeOK, SlotTyped, Generations
<1>2. CallRecords \subseteq CallRecords' /\ StopRecords \subseteq StopRecords'
  BY <1>1 DEF CallRecords, StopRecords
<1> QED  BY <1>1, <1>2 DEF TypeInv, TypeOK, CallsTyped

LEMMA WriteTyped ==
    ASSUME TypeInv
    PROVE  /\ \A v \in Minted \cup {None} : Write("deviceId", v) \in Pages
           /\ \A v \in Keys \cup {None} : Write("identity", v) \in Pages
           /\ \A v \in DeviceIds \cup {None} : Write("registered", v) \in Pages
           /\ Cleared \in Pages
BY DEF TypeInv, TypeOK, StorageTyped, Pages, Write, Cleared

LEMMA FreshMinted == Mintable => Fresh \in Minted
BY DEF Mintable, Fresh

LEMMA RegistrationTyped ==
    ASSUME TypeInv, NEW c, NEW id \in Identities, NEW page
    PROVE  DeviceRegistration(c, id, page)
             \subseteq [generation : Generations, deviceId : DeviceIds]
BY DEF TypeInv, TypeOK, SlotTyped, Generations, DeviceRegistration, Identities

LEMMA StartTyped ==
    ASSUME TypeInv, NEW o \in Options, Start(o)
    PROVE  TypeInv'
<1> DEFINE loaded == LoadIdentity(o)
           user == LoadUser(o)
           key == IF user # None THEN user ELSE loaded.deviceId
           new == [generation |-> generation + 1, key |-> key]
<1>1. o.mode \in Modes /\ o.persistence \in Places /\ o.deviceId \in {AppDevice, None}
  BY OptionsAssumption
<1>2. stored \in Pages
  BY DEF TypeInv, TypeOK, StorageTyped
<1>3. MintedFor(o) => Fresh \in Minted
  BY FreshMinted DEF Start
<1>4. /\ loaded \in Identities
      /\ o.deviceId = None => loaded.deviceId \in Minted
  <2>1. loaded.deviceId \in DeviceIds /\ (o.deviceId = None => loaded.deviceId \in Minted)
    BY <1>1, <1>2, <1>3 DEF LoadIdentity, MintedFor, DeviceIds, Pages, Modes, Places
  <2>2. loaded.durable \in BOOLEAN /\ loaded = [deviceId |-> loaded.deviceId, durable |-> loaded.durable]
    BY DEF LoadIdentity
  <2> QED  BY <2>1, <2>2 DEF Identities
<1>5. user \in Keys \cup {None}
  BY <1>2 DEF LoadUser, Pages
<1>6. key \in Keys /\ new.generation = generation + 1 /\ new.key = key
  BY <1>4, <1>5 DEF Keys, Identities
<1>7. generation' = generation + 1
  BY DEF Start
<1>8. SlotTyped'
  <2>1. /\ state' = "INITIALIZING" /\ mode' = o.mode /\ persistence' = o.persistence
        /\ appDeviceId' = (o.deviceId # None) /\ identity' = loaded /\ currentKey' = key
        /\ told' = None /\ client' = None /\ chain' = None /\ ready' = generation + 1
    BY DEF Start
  <2> HIDE DEF loaded, key
  <2>2. generation' \in Nat /\ ready' \in Generations'
    BY <1>7, <2>1 DEF TypeInv, TypeOK, SlotTyped, Generations
  <2> QED  BY <1>1, <1>4, <1>6, <2>1, <2>2 DEF SlotTyped, States
<1>9. UnderWayTyped'
  <2>1. boots' = boots \cup {new} /\ UNCHANGED <<open, registrations>>
    BY DEF Start
  <2>2. new \in [generation : Generations', key : Keys]
    BY <1>6, <1>7 DEF TypeInv, TypeOK, SlotTyped, Generations
  <2> HIDE DEF new
  <2> QED  BY <1>7, <2>1, <2>2, GenerationsWiden DEF TypeInv, TypeOK, UnderWayTyped
<1>10. StorageTyped'
  BY <1>3, WriteTyped DEF Start, TypeInv, TypeOK, StorageTyped
<1>11. CallsTyped'
  BY <1>7, GenerationsWiden DEF Start, CallsTyped
<1>12. HistoriesTyped'
  <2>1. wanted' = IF user # None THEN user ELSE Device
    BY DEF Start
  <2> HIDE DEF user
  <2>2. wanted' \in Keys \cup {Device, None}
    BY <1>5, <2>1
  <2>3. straddled' \in BOOLEAN /\ unread' \in BOOLEAN
    BY DEF Start
  <2> QED  BY <2>2, <2>3 DEF HistoriesTyped
<1>13. MintedUnlessSupplied' /\ IdentityLoaded'
  <2>1. identity' = loaded /\ appDeviceId' = (o.deviceId # None)
    BY DEF Start
  <2>2. loaded # None
    BY <1>4, NoneAssumption DEF LoadIdentity
  <2> HIDE DEF loaded
  <2> QED  BY <1>4, <2>1, <2>2 DEF MintedUnlessSupplied, IdentityLoaded
<1> QED  BY <1>8, <1>9, <1>10, <1>11, <1>12, <1>13 DEF TypeInv, TypeOK

LEMMA BootTyped ==
    ASSUME TypeInv, NEW b \in boots, Boots(b) \/ BootFails(b)
    PROVE  TypeInv'
<1> USE DEF TypeInv, TypeOK
<1>1. UNCHANGED <<ids, config, generation, ready, currentKey, chain, storage, calls, stops>>
  BY DEF Boots, BootFails, keys
<1>2. b.generation \in Generations /\ b.key \in Keys
  BY DEF UnderWayTyped
<1>3. Generations' = Generations
  BY <1>1 DEF Generations
<1>4. SlotTyped' /\ registrations' \subseteq [generation : Generations, deviceId : DeviceIds]
  <2>1. CASE Boots(b) /\ b.generation = generation
    <3>1. /\ client' = b.generation /\ told' = b.key /\ state' = "SETTLED"
          /\ registrations' =
               registrations \cup DeviceRegistration(b.generation, identity, stored)
      BY <2>1 DEF Boots
    <3>2. DeviceRegistration(b.generation, identity, stored)
            \subseteq [generation : Generations, deviceId : DeviceIds]
      <4>1. identity \in Identities
        BY DEF SlotTyped, IdentityLoaded
      <4> QED  BY <4>1, RegistrationTyped
    <3> QED  BY <1>1, <1>2, <1>3, <3>1, <3>2 DEF SlotTyped, UnderWayTyped, ids, config, States
  <2>2. CASE ~(Boots(b) /\ b.generation = generation)
    <3>1. UNCHANGED <<client, told, registrations>> /\ state' \in {state, "FAILED"}
      BY <2>2 DEF Boots, BootFails, slot, keys
    <3> QED  BY <1>1, <1>3, <3>1 DEF SlotTyped, UnderWayTyped, ids, config, States
  <2> QED  BY <2>1, <2>2
<1>5. UnderWayTyped'
  <2>1. boots' = boots \ {b} /\ open' \in {open, open \cup {b.generation}}
    BY DEF Boots, BootFails, AfterBoot
  <2> QED  BY <1>2, <1>3, <1>4, <2>1 DEF UnderWayTyped
<1>6. StorageTyped' /\ CallsTyped'
  BY <1>1, <1>3 DEF storage, StorageTyped, CallsTyped, CallRecords, StopRecords
<1>7. HistoriesTyped'
  BY DEF Boots, BootFails, NoStart, ghosts, HistoriesTyped
<1>8. MintedUnlessSupplied' /\ IdentityLoaded'
  <2>1. boots' \subseteq boots /\ wanted' \in {wanted, None}
    BY DEF Boots, BootFails, NoStart, ghosts
  <2> QED  BY <1>1, <2>1 DEF ids, MintedUnlessSupplied, IdentityLoaded
<1> QED  BY <1>4, <1>5, <1>6, <1>7, <1>8

\* A step of one identity call, which leaves the boots and shutdowns alone.
LEMMA CallTyped ==
    ASSUME TypeInv, NEW c \in Calls, NEW r \in CallRecords,
           generation' = generation, UNCHANGED stops, calls' = [calls EXCEPT ![c] = r]
    PROVE  CallsTyped'
BY DEF TypeInv, TypeOK, CallsTyped, CallRecords, StopRecords, Generations

LEMMA GoTyped ==
    ASSUME TypeInv, NEW c \in Calls, NEW next \in Steps, Go(c, next),
           generation' = generation, UNCHANGED stops
    PROVE  CallsTyped'
<1>1. calls[c] \in CallRecords
  BY DEF TypeInv, TypeOK, CallsTyped
<1>2. Made \in CallRecords
  BY DEF TypeInv, TypeOK, SlotTyped, Made, NotMade, NoOperation, CallRecords, Generations, Steps
<1>3. [calls[c] EXCEPT !.at = next] \in CallRecords
  BY <1>1 DEF CallRecords
<1>4. CASE next = "done"
  BY <1>2, <1>4, CallTyped DEF Go
<1>5. CASE next # "done"
  BY <1>3, <1>5, CallTyped DEF Go
<1> QED  BY <1>4, <1>5

LEMMA SwitchTyped ==
    ASSUME TypeInv, NEW c \in Calls, NEW key \in Keys, NEW next \in Steps,
           SwitchTo(c, key, next), generation' = generation, UNCHANGED stops
    PROVE  CallsTyped' /\ {currentKey', told'} \subseteq Keys \cup {None}
<1>1. "switching" \in Steps
  BY DEF Steps
<1> QED  BY <1>1, GoTyped DEF SwitchTo, keys, TypeInv, TypeOK, SlotTyped

\* An identity call changes nothing of what is under way for the slot.
LEMMA IdentityCallLeaves ==
    ASSUME NEW c \in Calls, (\E o \in Operations : Call(c, o)) \/ Task(c)
    PROVE  UNCHANGED <<mode, generation, client, ready, boots, open, registrations,
                       storable, stops, straddled, unread>>
BY DEF Call, Task, LeaveChain, IdentifyStart, Identified, Reset, Forget, Switched, RememberUser,
   slot, config, storage, ghosts

LEMMA MadeTyped ==
    ASSUME TypeInv, NEW c \in Calls, NEW o \in Operations, Call(c, o)
    PROVE  TypeInv'
<1> USE DEF TypeInv, TypeOK
<1>1. /\ UNCHANGED <<ids, config, slot, keys, boots, open, registrations, storage, stops,
                     straddled, unread>>
      /\ chain' = c
      /\ calls' = [calls EXCEPT ![c] = [at |-> "queued", op |-> o, after |-> chain, gate |-> 0]]
      /\ wanted' \in {None, o.key, Device}
      /\ wanted = None => wanted' = None
  BY DEF Call
<1>2. SlotTyped'
  BY <1>1 DEF SlotTyped, Generations, ids, config, slot, keys
<1>3. [at |-> "queued", op |-> o, after |-> chain, gate |-> 0] \in CallRecords
  BY DEF CallRecords, Steps, SlotTyped, Generations
<1>4. CallsTyped'
  BY <1>1, <1>3, CallTyped DEF slot
<1>5. HistoriesTyped'
  <2>1. o.key \in Users \cup {None}
    BY DEF Operations
  <2> QED  BY <1>1, <2>1 DEF HistoriesTyped, Keys
<1>6. UnderWayTyped' /\ StorageTyped' /\ MintedUnlessSupplied' /\ IdentityLoaded'
  BY <1>1 DEF UnderWayTyped, Generations, StorageTyped, storage, MintedUnlessSupplied,
     IdentityLoaded, ids, slot
<1> QED  BY <1>2, <1>4, <1>5, <1>6

\* What an identity call does to the slot's ids, keys and storage.
LEMMA IdentityCallTyped ==
    ASSUME TypeInv, OfItsKind, NEW c \in Calls, Task(c)
    PROVE  /\ {currentKey', told'} \subseteq Keys \cup {None}
           /\ CallsTyped'
           /\ stored' \in Pages
           /\ identity' \in Identities \cup {None} /\ (identity # None => identity' # None)
           /\ appDeviceId' \in BOOLEAN /\ persistence' \in Places
           /\ MintedUnlessSupplied'
           /\ state' \in States
           /\ UNCHANGED <<chain, wanted>>
<1> USE DEF TypeInv, TypeOK
<1>1. generation' = generation /\ UNCHANGED stops
  BY IdentityCallLeaves
<1>2. /\ {currentKey, told} \subseteq Keys \cup {None} /\ state \in States
      /\ stored \in Pages /\ appDeviceId \in BOOLEAN /\ persistence \in Places
      /\ identity \in Identities \cup {None}
      /\ ready \in Generations /\ generation \in Nat
  BY DEF SlotTyped, StorageTyped
<1>3. calls[c] \in CallRecords /\ Generations' = Generations
  BY <1>1 DEF CallsTyped, Generations
<1>4. calls[c].op \in Operations \cup {NoOperation}
  BY <1>3 DEF CallRecords
<1>5. calls[c].op.kind = "identify" => calls[c].op.key \in Users
  BY <1>4 DEF Operations, NoOperation
<1>6. CASE LeaveChain(c)
  <2>1. UNCHANGED <<ids, config, slot, keys, chain, storage, ghosts>>
    BY <1>6 DEF LeaveChain
  <2>2. DEFINE r == [at |-> "gated", op |-> calls[c].op, after |-> None, gate |-> ready]
  <2>3. r \in CallRecords
    BY <1>2, <1>4 DEF CallRecords, Steps
  <2>4. calls' = [calls EXCEPT ![c] = r]
    BY <1>6 DEF LeaveChain
  <2>5. CallsTyped'
    BY <1>1, <2>3, <2>4, CallTyped
  <2> QED  BY <1>2, <2>1, <2>5 DEF ids, config, slot, keys, storage, ghosts, MintedUnlessSupplied
<1>7. CASE IdentifyStart(c)
  <2>1. UNCHANGED <<ids, config, slot, keys, chain, storage, ghosts>>
    BY <1>7 DEF IdentifyStart
  <2>2. CallsTyped'
    <3>1. "done" \in Steps /\ "registering" \in Steps
      BY DEF Steps
    <3> QED  BY <1>1, <1>7, <3>1, GoTyped DEF IdentifyStart
  <2> QED  BY <1>2, <2>1, <2>2 DEF ids, config, slot, keys, storage, ghosts, MintedUnlessSupplied
<1>8. CASE Switched(c)
  <2>1. UNCHANGED <<ids, config, keys, chain, storage, ghosts>> /\ state' \in {state, "SETTLED"}
    BY <1>8 DEF Switched
  <2>2. CallsTyped'
    <3>1. "done" \in Steps /\ "switched" \in Steps
      BY DEF Steps
    <3> QED  BY <1>1, <1>8, <3>1, GoTyped DEF Switched
  <2> QED  BY <1>2, <2>1, <2>2 DEF ids, config, keys, storage, ghosts, MintedUnlessSupplied, States
<1>9. CASE Identified(c)
  <2>1. UNCHANGED <<ids, config, slot, chain, storage, ghosts>>
    BY <1>9 DEF Identified
  <2>2. calls[c].op.key \in Keys
    <3>1. calls[c].op.kind = "identify"
      BY <1>9 DEF Identified, OfItsKind
    <3> QED  BY <1>5, <3>1 DEF Keys
  <2>3. CallsTyped' /\ {currentKey', told'} \subseteq Keys \cup {None}
    <3>1. "switched" \in Steps
      BY DEF Steps
    <3> QED  BY <1>1, <1>9, <2>2, <3>1, SwitchTyped DEF Identified
  <2> QED  BY <1>2, <2>1, <2>3 DEF ids, config, slot, storage, ghosts, MintedUnlessSupplied
<1>10. CASE Reset(c)
  <2>1. UNCHANGED <<ids, config, slot, chain, ghosts>> /\ stored' = Remembered(None)
    BY <1>10 DEF Reset
  <2>2. stored' \in Pages
    BY <1>2, <2>1, WriteTyped DEF Remembered
  <2>3. "done" \in Steps
    BY DEF Steps
  <2>4. CallsTyped' /\ {currentKey', told'} \subseteq Keys \cup {None}
    <3>1. CASE identity = None
      BY <1>1, <1>2, <1>10, <2>3, <3>1, GoTyped DEF Reset, keys
    <3>2. CASE identity # None
      <4>1. identity.deviceId \in Keys
        BY <1>2, <3>2 DEF Identities, Keys
      <4> QED  BY <1>1, <1>10, <2>3, <3>2, <4>1, SwitchTyped DEF Reset
    <3> QED  BY <3>1, <3>2
  <2> QED  BY <1>2, <2>1, <2>2, <2>4 DEF ids, config, slot, ghosts, MintedUnlessSupplied
<1>11. CASE Forget(c)
  <2>1. /\ UNCHANGED <<slot, chain, ghosts>>
        /\ stored' = Cleared /\ persistence' = "memory"
    BY <1>11 DEF Forget
  <2>2. stored' \in Pages /\ "done" \in Steps /\ persistence' \in Places
    BY <2>1, WriteTyped DEF Steps, Places
  <2>3. CASE identity = None
    <3>1. UNCHANGED <<ids, keys>> /\ Go(c, "done")
      BY <1>11, <2>3 DEF Forget
    <3> QED  BY <1>1, <1>2, <2>1, <2>2, <2>3, <3>1, GoTyped
             DEF ids, keys, slot, ghosts, MintedUnlessSupplied
  <2>4. CASE identity # None
    <3>1. /\ Mintable /\ identity' = [deviceId |-> Fresh, durable |-> FALSE]
          /\ appDeviceId' = FALSE /\ SwitchTo(c, Fresh, "done")
      BY <1>11, <2>4 DEF Forget
    <3>2. Fresh \in Minted
      BY <3>1, FreshMinted
    <3>3. identity' \in Identities /\ identity'.deviceId \in Minted /\ Fresh \in Keys
      BY <3>1, <3>2 DEF Identities, DeviceIds, Keys
    <3>4. CallsTyped' /\ {currentKey', told'} \subseteq Keys \cup {None}
      BY <1>1, <2>2, <3>1, <3>3, SwitchTyped
    <3>5. identity' # None
      BY <3>3, NoneAssumption
    <3> QED  BY <1>2, <2>1, <2>2, <3>1, <3>3, <3>4, <3>5 DEF slot, ghosts, MintedUnlessSupplied
  <2> QED  BY <2>3, <2>4
<1>12. CASE RememberUser(c)
  <2>1. UNCHANGED <<ids, config, slot, keys, chain, ghosts>> /\ stored' = Remembered(calls[c].op.key)
    BY <1>12 DEF RememberUser, StoredUser
  <2>2. stored' \in Pages
    <3>1. calls[c].op.key \in Keys \cup {None}
      BY <1>4 DEF Operations, NoOperation, Keys
    <3> QED  BY <1>2, <2>1, <3>1, WriteTyped DEF Remembered
  <2>3. CallsTyped'
    <3>1. "done" \in Steps
      BY DEF Steps
    <3> QED  BY <1>1, <1>12, <3>1, GoTyped DEF RememberUser
  <2> QED  BY <1>2, <2>1, <2>2, <2>3 DEF ids, config, slot, keys, ghosts, MintedUnlessSupplied
<1> QED  BY <1>6, <1>7, <1>8, <1>9, <1>10, <1>11, <1>12 DEF Task

LEMMA SetPersistenceTyped ==
    ASSUME TypeInv, NEW place \in Places, SetPersistence(place)
    PROVE  TypeInv'
<1> USE DEF TypeInv, TypeOK
<1>1. /\ UNCHANGED <<mode, slot, keys, chain, boots, open, appDeviceId, storable, calls, stops, ghosts>>
      /\ persistence' = place
  BY DEF SetPersistence
<1>2. Generations' = Generations
  BY <1>1 DEF slot, Generations
<1>3. /\ identity' \in Identities \cup {None}
      /\ identity # None => identity' # None /\ identity'.deviceId = identity.deviceId
      /\ identity = None => identity' = None
      /\ stored' \in Pages
      /\ registrations' \subseteq [generation : Generations, deviceId : DeviceIds]
  <2>1. CASE identity = None \/ mode # "remote" \/ place = "memory"
    <3>1. UNCHANGED <<identity, registrations>> /\ stored' \in {stored, Cleared}
      BY <2>1 DEF SetPersistence
    <3> QED  BY <3>1, WriteTyped DEF SlotTyped, UnderWayTyped, StorageTyped
  <2>2. CASE ~(identity = None \/ mode # "remote" \/ place = "memory")
    <3> DEFINE user == IF currentKey # identity.deviceId THEN currentKey ELSE None
               kept == IF user # None THEN user ELSE stored.identity
               id   == IF appDeviceId THEN stored.deviceId ELSE identity.deviceId
               dur  == appDeviceId \/ storable
    <3>1. /\ stored' = IF ~storable THEN stored
                       ELSE [stored EXCEPT !.identity = kept, !.deviceId = id]
          /\ identity' = [identity EXCEPT !.durable = dur]
          /\ registrations' = registrations \cup DeviceRegistration(client, identity', stored')
      BY <2>2 DEF SetPersistence
    <3>2. identity \in Identities /\ stored \in Pages /\ currentKey \in Keys \cup {None}
      BY <2>2 DEF SlotTyped, StorageTyped
    <3>3. kept \in Keys \cup {None} /\ id \in Minted \cup {None}
      BY <2>2, <3>2 DEF Pages, MintedUnlessSupplied
    <3>4. dur \in BOOLEAN
      OBVIOUS
    <3> HIDE DEF kept, id, dur
    <3>5. stored' \in Pages
      BY <3>1, <3>2, <3>3 DEF Pages
    <3>6. identity' \in Identities /\ identity'.deviceId = identity.deviceId
      BY <3>1, <3>2, <3>4 DEF Identities
    <3>7. identity' # None
      BY <3>6, NoneAssumption
    <3> QED  BY <2>2, <3>1, <3>5, <3>6, <3>7, RegistrationTyped DEF UnderWayTyped
  <2> QED  BY <2>1, <2>2
<1>4. SlotTyped'
  BY <1>1, <1>2, <1>3 DEF slot, keys, SlotTyped
<1>5. UnderWayTyped'
  BY <1>1, <1>2, <1>3 DEF UnderWayTyped
<1>6. StorageTyped' /\ HistoriesTyped'
  BY <1>1, <1>3 DEF StorageTyped, HistoriesTyped, ghosts
<1>7. CallsTyped'
  BY <1>1, <1>2 DEF CallsTyped, CallRecords, StopRecords
<1>8. MintedUnlessSupplied' /\ IdentityLoaded'
  BY <1>1, <1>3 DEF MintedUnlessSupplied, IdentityLoaded, ghosts
<1> QED  BY <1>4, <1>5, <1>6, <1>7, <1>8

LEMMA ShutdownTyped ==
    ASSUME TypeInv, NEW x \in Shutdowns, ShutdownCall(x) \/ ShutdownSlot(x)
    PROVE  TypeInv'
<1> USE DEF TypeInv, TypeOK
<1>1. CASE ShutdownCall(x)
  <2>1. /\ UNCHANGED <<ids, config, slot, keys, chain, boots, open, registrations, storage,
                       calls, ghosts>>
        /\ stops' = [stops EXCEPT ![x] = [at |-> "gated", gate |-> ready]]
    BY <1>1 DEF ShutdownCall
  <2>2. [at |-> "gated", gate |-> ready] \in StopRecords
    BY DEF StopRecords, SlotTyped
  <2>3. Generations' = Generations
    BY <2>1 DEF slot, Generations
  <2>4. CallsTyped'
    BY <2>1, <2>2, <2>3 DEF CallsTyped, CallRecords, StopRecords
  <2> QED  BY <2>1, <2>3, <2>4 DEF ids, config, slot, keys, storage, ghosts, SlotTyped,
           UnderWayTyped, StorageTyped, HistoriesTyped, MintedUnlessSupplied, IdentityLoaded
<1>2. CASE ShutdownSlot(x)
  <2>1. /\ UNCHANGED <<ids, config, currentKey, chain, boots, registrations, storage, calls>>
        /\ stops' = [stops EXCEPT ![x] = [at |-> "done", gate |-> 0]]
        /\ generation' = generation + 1 /\ client' = None /\ told' = None
        /\ open' = open \ {client} /\ ready' = 0 /\ state' = "SHUTDOWN" /\ NoStart
    BY <1>2 DEF ShutdownSlot
  <2>2. generation' \in Nat /\ Generations \subseteq Generations' /\ 0 \in Generations'
    BY <2>1 DEF SlotTyped, Generations
  <2>3. CallsTyped'
    <3>1. [at |-> "done", gate |-> 0] \in StopRecords'
      BY <2>2 DEF StopRecords
    <3>2. StopRecords \subseteq StopRecords'
      BY <2>2 DEF StopRecords
    <3> QED  BY <2>1, <3>1, <3>2, GenerationsWiden DEF CallsTyped
  <2>4. SlotTyped'
    BY <2>1, <2>2 DEF SlotTyped, ids, config, States
  <2>5. UnderWayTyped'
    BY <2>1, <2>2 DEF UnderWayTyped
  <2> QED  BY <2>1, <2>3, <2>4, <2>5 DEF ids, storage, StorageTyped, HistoriesTyped,
           MintedUnlessSupplied, IdentityLoaded, NoStart
<1> QED  BY <1>1, <1>2

LEMMA OfItsKindNext ==
    ASSUME TypeInv, OfItsKind, [Next]_vars
    PROVE  OfItsKind'
<1>1. DOMAIN calls = Calls
  BY DEF TypeInv, TypeOK, CallsTyped
<1>2. ASSUME UNCHANGED calls PROVE OfItsKind'
  BY <1>2 DEF OfItsKind
<1>3. ASSUME NEW c \in Calls, (\E o \in Operations : Call(c, o)) \/ Task(c)
      PROVE  OfItsKind'
  <2>1. \E r : /\ calls' = [calls EXCEPT ![c] = r]
               /\ r.at = "registering" \/ r.at = "switched" => r.op.kind = "identify"
    <3>1. calls[c] \in CallRecords
      BY DEF TypeInv, TypeOK, CallsTyped
    <3>2. CASE \E o \in Operations : Call(c, o)
      BY <3>2 DEF Call
    <3>3. CASE LeaveChain(c)
      <4> DEFINE r == [at |-> "gated", op |-> calls[c].op, after |-> None, gate |-> ready]
      <4>1. calls' = [calls EXCEPT ![c] = r] /\ r.at = "gated"
        BY <3>3 DEF LeaveChain
      <4> QED  BY <4>1
    <3>4. ASSUME NEW next \in Steps, Go(c, next),
                 next = "registering" \/ next = "switched" => calls[c].op.kind = "identify"
          PROVE  \E r : /\ calls' = [calls EXCEPT ![c] = r]
                        /\ r.at = "registering" \/ r.at = "switched" => r.op.kind = "identify"
      <4>1. CASE next = "done"
        <5>1. calls' = [calls EXCEPT ![c] = Made] /\ Made.at = "done"
          BY <3>4, <4>1 DEF Go, Made, NotMade
        <5> QED  BY <5>1
      <4>2. CASE next # "done"
        <5> DEFINE r == [calls[c] EXCEPT !.at = next]
        <5>1. calls' = [calls EXCEPT ![c] = r]
          BY <3>4, <4>2 DEF Go
        <5>2. r.at = next /\ r.op = calls[c].op
          BY <3>1 DEF CallRecords
        <5> QED  BY <3>4, <5>1, <5>2
      <4> QED  BY <4>1, <4>2
    <3>5. CASE ~(\E o \in Operations : Call(c, o)) /\ ~LeaveChain(c)
      <4>1. \E next \in Steps :
              /\ Go(c, next)
              /\ next = "registering" \/ next = "switched" => calls[c].op.kind = "identify"
        BY <1>3, <3>5 DEF Task, IdentifyStart, Identified, Reset, Forget, Switched, RememberUser,
           SwitchTo, Due, OfItsKind, Steps
      <4> QED  BY <3>4, <4>1
    <3> QED  BY <3>2, <3>3, <3>5
  <2> QED  BY <1>1, <2>1 DEF OfItsKind
<1> QED  BY <1>2, <1>3 DEF Next, vars, StartRefused, Start, Boots, BootFails, DeviceRegistered,
         SetPersistence, ShutdownCall, ShutdownSlot, ClientShutdown

LEMMA TypeNext ==
    ASSUME TypeInv, OfItsKind, [Next]_vars
    PROVE  TypeInv'
<1> USE DEF TypeInv, TypeOK
<1>1. ASSUME UNCHANGED <<ids, config, generation, keys, chain, boots, registrations, storage,
                         calls, stops, ghosts, client>>,
             ready' \in {0, ready}, state' \in States, open' \subseteq open
      PROVE  TypeInv'
  <2>1. Generations' = Generations
    BY <1>1 DEF Generations
  <2>2. 0 \in Generations
    BY DEF SlotTyped, Generations
  <2> QED  BY <1>1, <2>1, <2>2 DEF ids, config, keys, storage, ghosts, SlotTyped, UnderWayTyped,
           StorageTyped, CallsTyped, CallRecords, StopRecords, HistoriesTyped,
           MintedUnlessSupplied, IdentityLoaded
<1>2. CASE UNCHANGED vars
  BY <1>1, <1>2 DEF vars, slot, SlotTyped
<1>3. CASE StartRefused
  BY <1>1, <1>3 DEF StartRefused, States
<1>4. CASE \E o \in Options : Start(o)
  BY <1>4, StartTyped
<1>5. CASE \E b \in boots : Boots(b) \/ BootFails(b)
  BY <1>5, BootTyped
<1>6. ASSUME NEW r \in registrations, DeviceRegistered(r) PROVE TypeInv'
  <2>1. /\ UNCHANGED <<ids, config, slot, keys, chain, boots, open, storable, calls, stops, ghosts>>
        /\ registrations' = registrations \ {r}
        /\ stored' \in {stored, Write("registered", r.deviceId)}
    BY <1>6 DEF DeviceRegistered
  <2>2. stored' \in Pages
    <3>1. r.deviceId \in DeviceIds
      BY <1>6 DEF UnderWayTyped
    <3> QED  BY <2>1, <3>1, WriteTyped DEF StorageTyped
  <2>3. Generations' = Generations
    BY <2>1 DEF Generations, slot
  <2> QED  BY <2>1, <2>2, <2>3 DEF ids, config, slot, keys, storage, ghosts, SlotTyped, UnderWayTyped,
           StorageTyped, CallsTyped, CallRecords, StopRecords, HistoriesTyped,
           MintedUnlessSupplied, IdentityLoaded
<1>7. ASSUME NEW c \in Calls, (\E o \in Operations : Call(c, o)) \/ Task(c)
      PROVE  TypeInv'
  <2>1. CASE \E o \in Operations : Call(c, o)
    BY <2>1, MadeTyped
  <2>2. CASE Task(c)
    <3>1. UNCHANGED <<mode, generation, client, ready, boots, open, registrations,
                       storable, stops, straddled, unread>>
      BY <2>2, IdentityCallLeaves
    <3>2. Generations' = Generations
      BY <3>1 DEF Generations
    <3>3. SlotTyped' /\ MintedUnlessSupplied' /\ CallsTyped' /\ StorageTyped'
      BY <2>2, <3>1, <3>2, IdentityCallTyped DEF SlotTyped, StorageTyped
    <3>4. UnderWayTyped' /\ HistoriesTyped' /\ IdentityLoaded'
      BY <2>2, <3>1, <3>2, IdentityCallTyped DEF UnderWayTyped, HistoriesTyped, IdentityLoaded
    <3> QED  BY <3>3, <3>4
  <2> QED  BY <1>7, <2>1, <2>2
<1>8. CASE \E place \in Places : SetPersistence(place)
  BY <1>8, SetPersistenceTyped
<1>9. CASE \E x \in Shutdowns : ShutdownCall(x) \/ ShutdownSlot(x)
  BY <1>9, ShutdownTyped
<1>10. CASE ClientShutdown
  BY <1>1, <1>10 DEF ClientShutdown, States, SlotTyped
<1> QED  BY <1>2, <1>3, <1>4, <1>5, <1>6, <1>7, <1>8, <1>9, <1>10 DEF Next

LEMMA Typed == Spec => [](TypeInv /\ OfItsKind)
<1>1. Init => OfItsKind
  BY DEF Init, OfItsKind, NotMade
<1> QED  BY <1>1, TypeInit, TypeNext, OfItsKindNext, PTL DEF Spec

\* The slot, the calls, what is under way and what is stored keep their types,
\* whatever the application does with the page and whatever it found in storage.
THEOREM TypeCorrect == Spec => []TypeOK
<1>1. TypeInv => TypeOK
  BY DEF TypeInv
<1> QED  BY <1>1, Typed, PTL

-----------------------------------------------------------------------------
(* The last call wins. A start that found every earlier call finished is   *)
(* in force until it fails or is shut down; the calls made under it form   *)
(* one line behind each other, of which only the first may run.            *)

InForce == wanted # None /\ ~straddled

Unfinished(c) == ~Finished(c)

\* A start in force has a client that was told the current key, or its boot
\* is still pending under that key and readiness waits for it.
StartOrClient ==
    /\ client # None => wanted # None /\ client = generation /\ told = currentKey
    /\ \A b \in boots : b.generation = generation => wanted # None /\ b.key = currentKey
    /\ wanted # None => currentKey # None
    /\ wanted # None /\ client = None =>
         /\ state = "INITIALIZING"
         /\ ready = generation
         /\ \E b \in boots : b.generation = generation

\* What runs has the client of this start.
Gated ==
    InForce => \A c \in Calls :
        /\ calls[c].at = "gated" => calls[c].gate = generation \/ client # None
        /\ calls[c].at \in {"registering", "switching", "switched"} => client # None

\* A place in the line for each unfinished call: the chain is its last, and
\* one that is not its first is queued behind the one before.
Line(rank) ==
    /\ \A c, d \in Calls : Unfinished(c) /\ Unfinished(d) /\ c # d => rank[c] # rank[d]
    /\ \A c \in Calls : Unfinished(c) =>
         chain \in Calls /\ Unfinished(chain) /\ rank[c] <= rank[chain]
    /\ \A c, d \in Calls : Unfinished(c) /\ Unfinished(d) /\ rank[d] < rank[c] =>
         /\ calls[c].at = "queued"
         /\ calls[c].after \in Calls
         /\ Unfinished(calls[c].after)
         /\ rank[d] <= rank[calls[c].after]

Serialized == InForce => \E rank \in [Calls -> Nat] : Line(rank)

KeyOf(op) == IF op.key # None THEN op.key ELSE Device

\* A call that switched has its key in force; the wanted key is the last
\* call's; and when none is left, the current key is the wanted one.
Follows ==
    InForce =>
        /\ \A c \in Calls : calls[c].at = "switching" \/ calls[c].at = "switched" =>
             currentKey = IF calls[c].op.kind = "identify" THEN calls[c].op.key
                                                           ELSE identity.deviceId
        /\ \A c \in Calls : Unfinished(c) /\ c = chain => wanted = KeyOf(calls[c].op)
        /\ Calm => currentKey = Wanted

\* An identify between its switch and its write.
Storing(c) ==
    calls[c].op.kind = "identify" /\ (calls[c].at = "switching" \/ calls[c].at = "switched")

\* What the next page will find follows the current key, but for an identify
\* that has yet to write.
Persisted ==
    InForce =>
        /\ Stores /\ storable => appDeviceId \/ stored.deviceId = identity.deviceId
        /\ mode = "remote" /\ persistence = "memory" /\ ~unread => stored.identity = None
        /\ Stores /\ storable /\ ~unread /\ (\A c \in Calls : ~Storing(c)) =>
             KeyOfNextPage = currentKey

CallInv ==
    /\ TypeInv /\ OfItsKind /\ ClientInv
    /\ StartOrClient /\ Gated /\ Serialized /\ Follows /\ Persisted

LEMMA NoKeyIsNone == None \notin Keys /\ Device \notin Keys /\ Device # None
BY UsersAssumption, NoneAssumption, DeviceAssumption DEF Keys

LEMMA CallInvInit == Init => CallInv
<1> SUFFICES ASSUME Init PROVE CallInv
  OBVIOUS
<1>1. TypeInv /\ ClientInv
  BY TypeInit, ClientInit
<1>2. OfItsKind
  BY DEF Init, OfItsKind, NotMade
<1>3. StartOrClient
  BY DEF Init, StartOrClient
<1>4. ~InForce
  BY DEF Init, InForce
<1> QED  BY <1>1, <1>2, <1>3, <1>4 DEF CallInv, Gated, Serialized, Follows, Persisted

\* A task moves its call on, which was the first of the line, and no other.
LEMMA TaskMoves ==
    ASSUME TypeInv, OfItsKind, NEW c \in Calls, Task(c)
    PROVE  /\ \A d \in Calls \ {c} : calls'[d] = calls[d]
           /\ Unfinished(c)
           /\ calls[c].at = "queued" => MayLeave(c)
           /\ calls'[c].at \in Steps \ {"idle", "queued"}
           /\ calls'[c].at # "done" => calls'[c].op = calls[c].op
           /\ calls[c].at # "queued" => calls'[c].at # "gated"
           /\ chain' = chain
<1>1. calls \in [Calls -> CallRecords] /\ calls[c] \in CallRecords
  BY DEF TypeInv, TypeOK, CallsTyped
<1>2. CASE LeaveChain(c)
  BY <1>1, <1>2 DEF LeaveChain, Unfinished, Finished, Steps
<1>3. ASSUME NEW next \in Steps \ {"idle", "queued", "gated"}, Go(c, next)
      PROVE  /\ \A d \in Calls \ {c} : calls'[d] = calls[d]
             /\ calls'[c].at \in Steps \ {"idle", "queued", "gated"}
             /\ calls'[c].at # "done" => calls'[c].op = calls[c].op
  <2>1. CASE next = "done"
    <3>1. calls' = [calls EXCEPT ![c] = Made] /\ Made.at = "done"
      BY <1>3, <2>1 DEF Go, Made, NotMade
    <3> QED  BY <1>1, <3>1 DEF Steps
  <2>2. CASE next # "done"
    <3> DEFINE r == [calls[c] EXCEPT !.at = next]
    <3>1. calls' = [calls EXCEPT ![c] = r]
      BY <1>3, <2>2 DEF Go
    <3>2. r.at = next /\ r.op = calls[c].op
      BY <1>1 DEF CallRecords
    <3> QED  BY <1>1, <1>3, <3>1, <3>2
  <2> QED  BY <2>1, <2>2
<1>4. CASE ~LeaveChain(c)
  <2>1. /\ \E next \in Steps \ {"idle", "queued", "gated"} : Go(c, next)
        /\ calls[c].at \in {"gated", "registering", "switching", "switched"}
        /\ chain' = chain
    BY <1>4 DEF Task, IdentifyStart, Identified, Reset, Forget, Switched, RememberUser, SwitchTo,
       Due, Steps
  <2> QED  BY <1>3, <2>1 DEF Unfinished, Finished
<1> QED  BY <1>2, <1>4

\* Of the line, only its first has left the queue.
LEMMA OnlyRunner ==
    ASSUME Serialized, InForce, NEW c \in Calls, Unfinished(c),
           calls[c].at = "queued" => MayLeave(c)
    PROVE  /\ \A d \in Calls \ {c} : Unfinished(d) => calls[d].at = "queued"
           /\ chain \in Calls /\ Unfinished(chain)
<1>1. PICK rank \in [Calls -> Nat] : Line(rank)
  BY DEF Serialized
<1>2. \A d \in Calls : Unfinished(d) => ~(rank[d] < rank[c])
  BY <1>1 DEF Line, MayLeave, Unfinished, Finished
<1>3. \A d \in Calls \ {c} : Unfinished(d) => rank[c] < rank[d]
  BY <1>1, <1>2 DEF Line
<1> QED  BY <1>1, <1>3 DEF Line

LEMMA KeysMove ==
    ASSUME TypeInv, OfItsKind, NEW c \in Calls, Task(c)
    PROVE  /\ client = None => UNCHANGED keys
           /\ UNCHANGED keys \/ (currentKey' \in Keys /\ told' = currentKey')
<1>1. ASSUME NEW key \in Keys, NEW next, SwitchTo(c, key, next)
      PROVE  /\ client = None => UNCHANGED keys
             /\ UNCHANGED keys \/ (currentKey' \in Keys /\ told' = currentKey')
  BY <1>1 DEF SwitchTo
<1>2. CASE Identified(c)
  <2>1. calls[c].op.key \in Keys
    <3>1. calls[c].op \in Operations \cup {NoOperation} /\ calls[c].op.kind = "identify"
      BY <1>2 DEF Identified, OfItsKind, TypeInv, TypeOK, CallsTyped, CallRecords
    <3> QED  BY <3>1 DEF Operations, NoOperation, Keys
  <2> QED  BY <1>1, <1>2, <2>1 DEF Identified
<1>3. CASE Reset(c)
  <2>1. identity # None => identity.deviceId \in Keys
    BY DEF TypeInv, TypeOK, SlotTyped, Identities, Keys
  <2> QED  BY <1>1, <1>3, <2>1 DEF Reset
<1>4. CASE Forget(c)
  <2>1. identity # None => Fresh \in Keys
    BY <1>4, FreshMinted DEF Forget, Keys, DeviceIds
  <2> QED  BY <1>1, <1>4, <2>1 DEF Forget
<1>5. CASE ~Identified(c) /\ ~Reset(c) /\ ~Forget(c)
  BY <1>5 DEF Task, LeaveChain, IdentifyStart, Switched, RememberUser
<1> QED  BY <1>2, <1>3, <1>4, <1>5

LEMMA StartOrClientNext ==
    ASSUME TypeInv, OfItsKind, ClientInv, StartOrClient, [Next]_vars
    PROVE  StartOrClient'
<1> USE DEF StartOrClient
<1>1. ASSUME UNCHANGED <<client, boots, generation, keys, state, ready>>,
             wanted' = None <=> wanted = None
      PROVE  StartOrClient'
  BY <1>1 DEF keys
<1>2. generation \in Nat /\ None \notin Nat
  BY NoneAssumption DEF TypeInv, TypeOK, SlotTyped
<1>3. CASE UNCHANGED vars
  BY <1>1, <1>3 DEF vars, slot, ghosts
<1>4. CASE StartRefused
  BY <1>4 DEF StartRefused, IsActive, ghosts, keys
<1>5. ASSUME NEW o \in Options, Start(o) PROVE StartOrClient'
  <2> DEFINE key == IF LoadUser(o) # None THEN LoadUser(o) ELSE LoadIdentity(o).deviceId
             new == [generation |-> generation + 1, key |-> key]
  <2>1. /\ boots' = boots \cup {new} /\ generation' = generation + 1 /\ client' = None
        /\ currentKey' = key /\ ready' = generation + 1 /\ state' = "INITIALIZING"
        /\ wanted' \in {LoadUser(o), Device} /\ (wanted' = LoadUser(o) => LoadUser(o) # None)
    BY <1>5, NoKeyIsNone DEF Start
  <2>2. new.generation = generation + 1 /\ new.key = key
    OBVIOUS
  <2>3. \A b \in boots : b.generation # generation + 1
    BY <1>2 DEF ClientInv, BootsDiffer
  <2>4. currentKey' # None
    <3>1. currentKey' \in Keys \cup {None}
      BY <1>5, StartTyped DEF TypeInv, TypeOK, SlotTyped
    <3>2. LoadUser(o) = None => key \in DeviceIds
      <4>1. identity' \in Identities \/ identity' = None
        BY <1>5, StartTyped DEF TypeInv, TypeOK, SlotTyped
      <4>2. identity' # None
        <5>1. wanted' # None
          BY <2>1, NoKeyIsNone
        <5> QED  BY <1>5, <5>1, StartTyped DEF TypeInv, IdentityLoaded
      <4>3. identity' = LoadIdentity(o)
        BY <1>5 DEF Start
      <4> QED  BY <4>1, <4>2, <4>3 DEF Identities
    <3> QED  BY <2>1, <3>2, NoKeyIsNone DEF Keys
  <2> HIDE DEF key, new
  <2> QED  BY <2>1, <2>2, <2>3, <2>4, NoKeyIsNone
<1>6. ASSUME NEW b \in boots, Boots(b) \/ BootFails(b) PROVE StartOrClient'
  <2>1. boots' = boots \ {b} /\ UNCHANGED <<generation, currentKey, ready>>
    BY <1>6 DEF Boots, BootFails, keys
  <2>2. CASE b.generation # generation
    BY <1>6, <2>1, <2>2 DEF Boots, BootFails, keys, ghosts
  <2>3. CASE b.generation = generation
    <3>1. wanted # None /\ b.key = currentKey /\ client = None
      BY <2>3 DEF ClientInv, BootsFindNoClient
    <3>2. \A d \in boots' : d.generation # generation
      BY <2>1, <2>3 DEF ClientInv, BootsDiffer
    <3>3. CASE Boots(b)
      <4>1. client' = generation /\ told' = currentKey /\ wanted' = wanted
        BY <2>3, <3>1, <3>3 DEF Boots, ghosts
      <4> QED  BY <1>2, <2>1, <3>1, <3>2, <4>1
    <3>4. CASE BootFails(b)
      BY <2>1, <2>3, <3>1, <3>2, <3>4 DEF BootFails, NoStart, keys
    <3> QED  BY <1>6, <3>3, <3>4
  <2> QED  BY <2>2, <2>3
<1>7. CASE \E r \in registrations : DeviceRegistered(r)
  BY <1>1, <1>7 DEF DeviceRegistered, slot, ghosts
<1>8. ASSUME NEW c \in Calls, (\E o \in Operations : Call(c, o)) \/ Task(c)
      PROVE  StartOrClient'
  <2>1. CASE \E o \in Operations : Call(c, o)
    <3>1. PICK o \in Operations : Call(c, o)
      BY <2>1
    <3>2. wanted' = None <=> wanted = None
      BY <3>1, NoKeyIsNone DEF Call
    <3> QED  BY <1>1, <3>1, <3>2 DEF Call, slot
  <2>2. CASE Task(c)
    <3>1. UNCHANGED <<client, boots, generation, ready>>
      BY <2>2, IdentityCallLeaves
    <3>2. /\ client = None => UNCHANGED keys
          /\ UNCHANGED keys \/ (currentKey' \in Keys /\ told' = currentKey')
      BY <2>2, KeysMove
    <3>3. wanted' = wanted
      BY <2>2, IdentityCallTyped
    <3>4. client = None => state' = state
      BY <1>2, <2>2 DEF Task, LeaveChain, IdentifyStart, Identified, Reset, Forget, Switched,
         RememberUser, slot
    <3>5. client # None => \A b \in boots : b.generation # generation
      BY DEF ClientInv, BootsFindNoClient
    <3> QED  BY <3>1, <3>2, <3>3, <3>4, <3>5, NoKeyIsNone DEF keys
  <2> QED  BY <1>8, <2>1, <2>2
<1>9. CASE \E place \in Places : SetPersistence(place)
  BY <1>1, <1>9 DEF SetPersistence, slot, ghosts
<1>10. ASSUME NEW x \in Shutdowns, ShutdownCall(x) \/ ShutdownSlot(x) PROVE StartOrClient'
  <2>1. CASE ShutdownCall(x)
    BY <1>1, <2>1 DEF ShutdownCall, slot, ghosts
  <2>2. CASE ShutdownSlot(x)
    <3>1. \A b \in boots : b.generation # generation + 1
      BY <1>2 DEF ClientInv, BootsDiffer
    <3> QED  BY <2>2, <3>1 DEF ShutdownSlot, NoStart
  <2> QED  BY <1>10, <2>1, <2>2
<1>11. CASE ClientShutdown
  <2>1. client # None
    BY <1>11, NoneAssumption DEF ClientShutdown, TypeInv, TypeOK, UnderWayTyped, Generations
  <2> QED  BY <1>11, <2>1 DEF ClientShutdown, ghosts, keys
<1> QED  BY <1>3, <1>4, <1>5, <1>6, <1>7, <1>8, <1>9, <1>10, <1>11 DEF Next

\* A start in force is a new one, or was in force before; it keeps its client.
LEMMA StaysInForce ==
    ASSUME TypeInv, ClientInv, [Next]_vars, InForce', ~(\E o \in Options : Start(o))
    PROVE  /\ InForce
           /\ client # None => client' = client
           /\ UNCHANGED <<generation, mode, unread>>
<1>1. wanted' # None /\ ~straddled'
  BY DEF InForce
<1>2. CASE UNCHANGED vars \/ StartRefused \/ ClientShutdown
  BY <1>1, <1>2 DEF vars, StartRefused, ClientShutdown, slot, config, ghosts, InForce
<1>3. ASSUME NEW b \in boots, Boots(b) \/ BootFails(b)
      PROVE  /\ InForce
             /\ client # None => client' = client
             /\ UNCHANGED <<generation, mode, unread>>
  <2>1. b.generation = generation => client = None
    BY DEF ClientInv, BootsFindNoClient
  <2> QED  BY <1>1, <1>3, <2>1 DEF Boots, BootFails, NoStart, config, ghosts, InForce
<1>4. CASE \E r \in registrations : DeviceRegistered(r)
  BY <1>1, <1>4 DEF DeviceRegistered, slot, config, ghosts, InForce
<1>5. ASSUME NEW c \in Calls, (\E o \in Operations : Call(c, o)) \/ Task(c)
      PROVE  /\ InForce
             /\ client # None => client' = client
             /\ UNCHANGED <<generation, mode, unread>>
  <2>1. wanted # None
    BY <1>1, <1>5 DEF Call, Task, LeaveChain, IdentifyStart, Identified, Reset, Forget, Switched,
       RememberUser, ghosts
  <2> QED  BY <1>1, <1>5, <2>1, IdentityCallLeaves DEF InForce
<1>6. CASE \E place \in Places : SetPersistence(place)
  BY <1>1, <1>6 DEF SetPersistence, slot, ghosts, InForce
<1>7. CASE \E x \in Shutdowns : ShutdownCall(x) \/ ShutdownSlot(x)
  BY <1>1, <1>7 DEF ShutdownCall, ShutdownSlot, NoStart, slot, config, ghosts, InForce
<1> QED  BY <1>2, <1>3, <1>4, <1>5, <1>6, <1>7 DEF Next

LEMMA StartsInForce ==
    ASSUME NEW o \in Options, Start(o), InForce'
    PROVE  UNCHANGED calls /\ \A c \in Calls : calls[c].at = "idle" \/ calls[c].at = "done"
BY DEF Start, InForce, Finished

\* Only identity calls move the line.
LEMMA LineStays ==
    ASSUME [Next]_vars, ~(\E o \in Options : Start(o)),
           ~(\E c \in Calls : (\E o \in Operations : Call(c, o)) \/ Task(c))
    PROVE  UNCHANGED <<calls, chain, currentKey>> /\ (InForce' => wanted' = wanted)
BY DEF Next, vars, StartRefused, Boots, BootFails, DeviceRegistered, SetPersistence, ShutdownCall,
   ShutdownSlot, ClientShutdown, NoStart, InForce, keys, ghosts

\* A call that passed its gate under a start in force finds a client.
LEMMA RunsWithClient ==
    ASSUME StartOrClient, Gated, InForce, NEW c \in Calls, Task(c), ~LeaveChain(c)
    PROVE  client # None
<1>1. \/ calls[c].at = "gated" /\ Settled(calls[c].gate)
      \/ calls[c].at \in {"registering", "switching", "switched"}
  BY DEF Task, IdentifyStart, Identified, Reset, Forget, Switched, RememberUser, Due
<1>2. Settled(generation) => client # None
  BY DEF Settled, StartOrClient, InForce
<1> QED  BY <1>1, <1>2 DEF Gated

LEMMA GatedNext ==
    ASSUME TypeInv, OfItsKind, ClientInv, StartOrClient, Gated, [Next]_vars
    PROVE  Gated'
<1> SUFFICES ASSUME InForce', NEW d \in Calls
             PROVE  /\ calls'[d].at = "gated" => calls'[d].gate = generation' \/ client' # None
                    /\ calls'[d].at \in {"registering", "switching", "switched"} => client' # None
  BY DEF Gated
<1>1. CASE \E o \in Options : Start(o)
  BY <1>1, StartsInForce
<1>2. CASE ~(\E o \in Options : Start(o))
  <2>1. InForce /\ (client # None => client' = client) /\ generation' = generation
    BY <1>2, StaysInForce
  <2>2. CASE calls'[d] = calls[d]
    BY <2>1, <2>2 DEF Gated
  <2>3. CASE \E o \in Operations : Call(d, o)
    <3>1. calls'[d].at = "queued"
      BY <2>3 DEF Call, TypeInv, TypeOK, CallsTyped
    <3> QED  BY <3>1
  <2>4. CASE LeaveChain(d)
    <3>1. calls'[d].at = "gated" /\ calls'[d].gate = ready
      BY <2>4 DEF LeaveChain, TypeInv, TypeOK, CallsTyped
    <3>2. ready = generation \/ client # None
      BY <2>1 DEF StartOrClient, InForce
    <3> QED  BY <2>1, <3>1, <3>2
  <2>5. CASE Task(d) /\ ~LeaveChain(d)
    <3>1. client # None
      BY <2>1, <2>5, RunsWithClient
    <3>2. calls'[d].at # "gated"
      <4>1. calls[d].at # "queued"
        BY <2>5 DEF Task, IdentifyStart, Identified, Reset, Forget, Switched, RememberUser, Due
      <4> QED  BY <2>5, <4>1, TaskMoves
    <3> QED  BY <2>1, <3>1, <3>2
  <2>6. CASE calls'[d] # calls[d]
    <3>1. \E c \in Calls : (\E o \in Operations : Call(c, o)) \/ Task(c)
      BY <1>2, <2>6, LineStays
    <3>2. PICK c \in Calls : (\E o \in Operations : Call(c, o)) \/ Task(c)
      BY <3>1
    <3>3. c = d
      BY <2>6, <3>2, TaskMoves DEF Call, TypeInv, TypeOK, CallsTyped
    <3> QED  BY <2>3, <2>4, <2>5, <3>2, <3>3
  <2> QED  BY <2>2, <2>6
<1> QED  BY <1>1, <1>2

LEMMA SerializedNext ==
    ASSUME TypeInv, OfItsKind, ClientInv, Serialized, [Next]_vars
    PROVE  Serialized'
<1> SUFFICES ASSUME InForce' PROVE \E rank \in [Calls -> Nat] : Line(rank)'
  BY DEF Serialized
<1>1. CASE \E o \in Options : Start(o)
  <2>1. \A c \in Calls : ~Unfinished(c)'
    BY <1>1, StartsInForce DEF Unfinished, Finished
  <2>2. [c \in Calls |-> 0] \in [Calls -> Nat]
    OBVIOUS
  <2>3. \A rank : Line(rank)'
    BY <2>1 DEF Line
  <2> QED  BY <2>2, <2>3
<1>2. CASE ~(\E o \in Options : Start(o))
  <2>1. InForce
    BY <1>2, StaysInForce
  <2>2. PICK rank \in [Calls -> Nat] : Line(rank)
    BY <2>1 DEF Serialized
  <2>3. CASE UNCHANGED <<calls, chain>>
    <3>1. Line(rank)'
      BY <2>2, <2>3 DEF Line, Unfinished, Finished
    <3> QED  BY <3>1
  <2>4. ASSUME NEW c \in Calls, NEW o \in Operations, Call(c, o)
        PROVE  \E place \in [Calls -> Nat] : Line(place)'
    <3> DEFINE last == IF chain \in Calls THEN rank[chain] ELSE 0
               place == [rank EXCEPT ![c] = last + 1]
    <3>1. /\ \A d \in Calls \ {c} : calls'[d] = calls[d]
          /\ calls'[c].at = "queued" /\ calls'[c].after = chain
          /\ calls[c].at = "idle" /\ chain' = c
      BY <2>4 DEF Call, TypeInv, TypeOK, CallsTyped
    <3>2. last \in Nat /\ place \in [Calls -> Nat]
      OBVIOUS
    <3>3. place[c] = last + 1 /\ \A d \in Calls \ {c} : place[d] = rank[d]
      OBVIOUS
    <3>4. ~Unfinished(c) /\ Unfinished(c)' /\ \A d \in Calls \ {c} : Unfinished(d)' <=> Unfinished(d)
      BY <3>1 DEF Unfinished, Finished
    <3>5. \A d \in Calls : Unfinished(d) =>
             chain \in Calls \ {c} /\ Unfinished(chain) /\ rank[d] <= last
      BY <2>2, <3>4 DEF Line
    <3>6. chain \in Calls => last = rank[chain]
      OBVIOUS
    <3> HIDE DEF place, last
    <3>7. \A d, e \in Calls : Unfinished(d)' /\ Unfinished(e)' /\ d # e => place[d] # place[e]
      BY <2>2, <3>2, <3>3, <3>4, <3>5 DEF Line
    <3>8. \A d \in Calls : Unfinished(d)' => place[d] <= place[c]
      BY <3>2, <3>3, <3>4, <3>5
    <3>9. ASSUME NEW d \in Calls, NEW e \in Calls, Unfinished(d)', Unfinished(e)', place[e] < place[d]
          PROVE  /\ calls'[d].at = "queued" /\ calls'[d].after \in Calls
                 /\ Unfinished(calls[d].after)' /\ place[e] <= place[calls'[d].after]
      <4>1. e # c /\ Unfinished(e)
        BY <3>2, <3>4, <3>8, <3>9
      <4>2. CASE d = c
        BY <3>1, <3>3, <3>4, <3>5, <3>6, <4>1, <4>2
      <4>3. CASE d # c
        <5>1. /\ calls[d].at = "queued" /\ calls[d].after \in Calls
              /\ Unfinished(calls[d].after) /\ rank[e] <= rank[calls[d].after]
          BY <2>2, <3>3, <3>4, <3>9, <4>1, <4>3 DEF Line
        <5>2. calls[d].after \in Calls \ {c} /\ calls'[d] = calls[d]
          BY <3>1, <3>4, <4>3, <5>1
        <5> QED  BY <3>3, <3>4, <4>1, <5>1, <5>2
      <4> QED  BY <4>2, <4>3
    <3> QED  BY <3>1, <3>2, <3>4, <3>7, <3>8, <3>9 DEF Line
  <2>5. ASSUME NEW c \in Calls, Task(c)
        PROVE  \E place \in [Calls -> Nat] : Line(place)'
    <3>1. /\ \A d \in Calls \ {c} : calls'[d] = calls[d]
          /\ Unfinished(c) /\ calls'[c].at # "idle" /\ chain' = chain
          /\ calls[c].at = "queued" => MayLeave(c)
      BY <2>5, TaskMoves
    <3>2. \A d \in Calls : Unfinished(d)' => Unfinished(d)
      BY <3>1 DEF Unfinished, Finished
    <3>3. \A d \in Calls \ {c} : Unfinished(d)' <=> Unfinished(d)
      BY <3>1 DEF Unfinished, Finished
    <3>4. \A d \in Calls : Unfinished(d) => ~(rank[d] < rank[c])
      BY <2>2, <3>1 DEF Line, MayLeave, Unfinished, Finished
    <3>5. \A d \in Calls \ {c} : Unfinished(d) => rank[c] < rank[d]
      BY <2>2, <3>1, <3>4 DEF Line
    <3>6. ASSUME NEW d \in Calls, Unfinished(d)'
          PROVE  chain' \in Calls /\ Unfinished(chain)' /\ rank[d] <= rank[chain']
      <4>1. chain \in Calls /\ Unfinished(chain) /\ rank[d] <= rank[chain]
        BY <2>2, <3>2, <3>6 DEF Line
      <4>2. d = c \/ chain # c
        BY <3>2, <3>5, <3>6, <4>1
      <4> QED  BY <3>1, <3>3, <3>6, <4>1, <4>2
    <3>7. ASSUME NEW d \in Calls, NEW e \in Calls, Unfinished(d)', Unfinished(e)', rank[e] < rank[d]
          PROVE  /\ calls'[d].at = "queued" /\ calls'[d].after \in Calls
                 /\ Unfinished(calls[d].after)' /\ rank[e] <= rank[calls'[d].after]
      <4>1. /\ calls[d].at = "queued" /\ calls[d].after \in Calls
            /\ Unfinished(calls[d].after) /\ rank[e] <= rank[calls[d].after]
        BY <2>2, <3>2, <3>7 DEF Line
      <4>2. d # c /\ calls'[d] = calls[d]
        BY <3>1, <3>2, <3>4, <3>7
      <4>3. e = c \/ calls[d].after # c
        BY <3>2, <3>5, <3>7, <4>1
      <4>4. Unfinished(calls[d].after)'
        BY <3>1, <3>3, <3>7, <4>1, <4>2, <4>3
      <4> QED  BY <4>1, <4>2, <4>4
    <3>8. \A d, e \in Calls : Unfinished(d)' /\ Unfinished(e)' /\ d # e => rank[d] # rank[e]
      BY <2>2, <3>2 DEF Line
    <3>9. Line(rank)'
      BY <3>6, <3>7, <3>8 DEF Line
    <3> QED  BY <3>9
  <2>6. CASE ~(\E c \in Calls : (\E o \in Operations : Call(c, o)) \/ Task(c))
    BY <1>2, <2>3, <2>6, LineStays
  <2> QED  BY <2>4, <2>5, <2>6
<1> QED  BY <1>1, <1>2

Target(op, device) == IF op.kind = "identify" THEN op.key ELSE device

\* A task that switches its call, or ends it, leaves the call's key in force.
LEMMA TaskTargets ==
    ASSUME TypeInv, OfItsKind, StartOrClient, Gated, Follows, InForce, NEW c \in Calls, Task(c),
           calls'[c].at \in {"switching", "switched", "done"}
    PROVE  currentKey' = Target(calls[c].op, identity'.deviceId)
<1>1. identity # None /\ DOMAIN calls = Calls
  BY DEF TypeInv, TypeOK, CallsTyped, IdentityLoaded, InForce
<1>2. ~LeaveChain(c)
  BY <1>1 DEF LeaveChain
<1>3. client # None
  BY <1>2, RunsWithClient
<1>4. ASSUME NEW key, NEW next, SwitchTo(c, key, next) PROVE currentKey' = key
  BY <1>3, <1>4 DEF SwitchTo, keys
<1>5. ~IdentifyStart(c)
  BY <1>1, <1>3 DEF IdentifyStart, Go, TypeInv, TypeOK, CallsTyped, CallRecords
<1>6. CASE Identified(c)
  BY <1>4, <1>6 DEF Identified, OfItsKind, Target
<1>7. CASE Reset(c)
  BY <1>1, <1>4, <1>7 DEF Reset, Due, ids, Target
<1>8. CASE Forget(c)
  BY <1>1, <1>4, <1>8 DEF Forget, Due, Target
<1>9. CASE Switched(c) \/ RememberUser(c)
  BY <1>9 DEF Switched, RememberUser, Follows, keys, ids, Target
<1> QED  BY <1>2, <1>5, <1>6, <1>7, <1>8, <1>9 DEF Task

LEMMA TaskFollows ==
    ASSUME CallInv, InForce, NEW c \in Calls, Task(c)
    PROVE  Follows'
<1> USE DEF CallInv
<1>1. /\ \A d \in Calls \ {c} : calls'[d] = calls[d]
      /\ Unfinished(c) /\ calls'[c].at \in Steps \ {"idle", "queued"} /\ chain' = chain
      /\ calls[c].at = "queued" => MayLeave(c)
      /\ calls'[c].at # "done" => calls'[c].op = calls[c].op
  BY TaskMoves
<1>2. /\ \A d \in Calls \ {c} : Unfinished(d) => calls[d].at = "queued"
      /\ chain \in Calls /\ Unfinished(chain)
  BY <1>1, OnlyRunner
<1>3. calls'[c].at \in {"switching", "switched", "done"} =>
        currentKey' = Target(calls[c].op, identity'.deviceId)
  BY TaskTargets
<1>4. wanted' = wanted
  BY IdentityCallTyped
<1>5. ASSUME NEW d \in Calls, calls'[d].at = "switching" \/ calls'[d].at = "switched"
      PROVE  currentKey' = Target(calls'[d].op, identity'.deviceId)
  <2>1. d = c
    BY <1>1, <1>2, <1>5 DEF Unfinished, Finished
  <2> QED  BY <1>1, <1>3, <1>5, <2>1
<1>6. ASSUME NEW d \in Calls, Unfinished(d)', d = chain'
      PROVE  wanted' = KeyOf(calls'[d].op)
  <2>1. calls'[d].op = calls[d].op /\ Unfinished(d)
    BY <1>1, <1>6 DEF Unfinished, Finished
  <2> QED  BY <1>1, <1>4, <1>6, <2>1 DEF Follows, KeyOf
<1>7. ASSUME Calm' PROVE currentKey' = Wanted'
  <2>1. c = chain /\ calls'[c].at = "done"
    BY <1>1, <1>2, <1>7 DEF Calm, Unfinished, Finished
  <2>2. wanted' = KeyOf(calls[c].op)
    BY <1>1, <1>4, <2>1 DEF Follows
  <2>3. /\ calls[c].op.kind = "identify" => calls[c].op.key \in Users
        /\ calls[c].op.kind # "identify" => calls[c].op.key = None
    BY DEF TypeInv, TypeOK, CallsTyped, CallRecords, Operations, NoOperation
  <2>4. calls[c].op.kind = "identify" => calls[c].op.key # None /\ calls[c].op.key # Device
    BY <2>3, UsersAssumption
  <2> QED  BY <1>3, <2>1, <2>2, <2>3, <2>4 DEF Target, KeyOf, Wanted
<1> QED  BY <1>5, <1>6, <1>7 DEF Follows, Target

\* Without a task, a start in force keeps its device id.
LEMMA DeviceStays ==
    ASSUME TypeInv, [Next]_vars, InForce, ~(\E o \in Options : Start(o)),
           ~(\E c \in Calls : Task(c))
    PROVE  identity'.deviceId = identity.deviceId /\ appDeviceId' = appDeviceId
<1>1. ASSUME NEW place \in Places, SetPersistence(place)
      PROVE  identity'.deviceId = identity.deviceId /\ appDeviceId' = appDeviceId
  <2>1. identity \in Identities
    BY DEF TypeInv, TypeOK, SlotTyped, IdentityLoaded, InForce
  <2>2. \/ identity' = identity
        \/ \E dur : identity' = [identity EXCEPT !.durable = dur]
    BY <1>1 DEF SetPersistence
  <2> QED  BY <1>1, <2>1, <2>2 DEF SetPersistence, Identities
<1> QED  BY <1>1 DEF Next, vars, StartRefused, Boots, BootFails, DeviceRegistered, Call,
         ShutdownCall, ShutdownSlot, ClientShutdown, ids

LEMMA FollowsNext ==
    ASSUME CallInv, [Next]_vars
    PROVE  Follows'
<1> SUFFICES ASSUME InForce' PROVE Follows'
  BY DEF Follows
<1> USE DEF CallInv
<1>1. ASSUME NEW o \in Options, Start(o) PROVE Follows'
  <2>1. \A c \in Calls : calls'[c].at = "idle" \/ calls'[c].at = "done"
    BY <1>1, StartsInForce
  <2>2. currentKey' = Wanted'
    <3>1. LoadUser(o) \in Keys \cup {None}
      BY DEF TypeInv, TypeOK, StorageTyped, Pages, LoadUser
    <3>2. /\ identity' = LoadIdentity(o)
          /\ currentKey' = IF LoadUser(o) # None THEN LoadUser(o) ELSE LoadIdentity(o).deviceId
          /\ wanted' = IF LoadUser(o) # None THEN LoadUser(o) ELSE Device
      BY <1>1 DEF Start
    <3> QED  BY <3>1, <3>2, NoKeyIsNone DEF Wanted
  <2> QED  BY <2>1, <2>2 DEF Follows, Unfinished, Finished
<1>2. CASE ~(\E o \in Options : Start(o))
  <2>1. InForce
    BY <1>2, StaysInForce
  <2>2. ASSUME NEW c \in Calls, Task(c) PROVE Follows'
    BY <2>1, <2>2, TaskFollows
  <2>3. CASE ~(\E c \in Calls : Task(c))
    <3>1. identity'.deviceId = identity.deviceId
      BY <1>2, <2>1, <2>3, DeviceStays
    <3>2. ASSUME NEW c \in Calls, NEW o \in Operations, Call(c, o) PROVE Follows'
      <4>1. /\ \A d \in Calls \ {c} : calls'[d] = calls[d]
            /\ calls'[c].at = "queued" /\ calls'[c].op = o
            /\ chain' = c /\ currentKey' = currentKey
        BY <3>2 DEF Call, TypeInv, TypeOK, CallsTyped, keys
      <4>2. wanted' = KeyOf(o)
        BY <2>1, <3>2 DEF Call, KeyOf, InForce
      <4>3. ~Calm'
        BY <4>1 DEF Calm, Finished
      <4> QED  BY <2>1, <3>1, <4>1, <4>2, <4>3 DEF Follows, Unfinished, Finished
    <3>3. CASE ~(\E c \in Calls : \E o \in Operations : Call(c, o))
      <4>1. UNCHANGED <<calls, chain, currentKey, wanted>>
        BY <1>2, <2>3, <3>3, LineStays
      <4> QED  BY <2>1, <3>1, <4>1 DEF Follows, Unfinished, Finished, Calm, Wanted
    <3> QED  BY <3>2, <3>3
  <2> QED  BY <2>2, <2>3
<1> QED  BY <1>1, <1>2

LEMMA StartPersists ==
    ASSUME TypeInv, NEW o \in Options, Start(o)
    PROVE  Persisted'
<1>1. o.mode \in Modes /\ o.persistence \in Places /\ o.deviceId \in {AppDevice, None}
  BY OptionsAssumption
<1>2. stored \in Pages /\ None \notin DeviceIds /\ AppDevice # None
  BY NoneAssumption DEF TypeInv, TypeOK, StorageTyped, DeviceIds
<1> DEFINE user == LoadUser(o)
           loaded == LoadIdentity(o)
           mints == MintedFor(o) /\ o.mode = "remote" /\ o.persistence = "localStorage"
<1>3. /\ mode' = o.mode /\ persistence' = o.persistence /\ storable' = storable
      /\ appDeviceId' = (o.deviceId # None) /\ identity' = loaded
      /\ stored' = IF mints THEN Write("deviceId", Fresh) ELSE stored
      /\ currentKey' = IF user # None THEN user ELSE loaded.deviceId
      /\ unread' = (user = None /\ stored.identity # None)
  BY DEF Start
<1>4. stored'.identity = stored.identity
  BY <1>2, <1>3 DEF Write, Pages
<1>5. CASE mode' = "remote" /\ persistence' = "localStorage" /\ storable
  <2>1. user = stored.identity
    BY <1>3, <1>5 DEF LoadUser
  <2>2. mints <=> o.deviceId = None /\ stored.deviceId = None
    BY <1>3, <1>5 DEF MintedFor
  <2>3. o.deviceId = None => stored'.deviceId = loaded.deviceId
    <3>1. CASE mints
      <4>1. stored' = [stored EXCEPT !["deviceId"] = Fresh]
        BY <1>3, <1>5, <3>1 DEF Write
      <4> QED  BY <1>2, <3>1, <4>1 DEF LoadIdentity, Pages
    <3>2. CASE ~mints
      <4>1. stored' = stored
        BY <1>3, <3>2
      <4> QED  BY <1>3, <1>5, <2>2, <3>2, <4>1 DEF LoadIdentity, MintedFor
    <3> QED  BY <3>1, <3>2
  <2> HIDE DEF user, loaded, mints
  <2> QED  BY <1>3, <1>4, <1>5, <2>1, <2>3 DEF Persisted, Stores, KeyOfNextPage
<1>6. CASE ~(mode' = "remote" /\ persistence' = "localStorage" /\ storable)
  <2>1. mode' = "remote" /\ persistence' = "memory" => user = None
    BY <1>3 DEF LoadUser
  <2> HIDE DEF user, loaded, mints
  <2> QED  BY <1>3, <1>4, <1>6, <2>1 DEF Persisted, Stores
<1> QED  BY <1>5, <1>6

LEMMA TaskPersists ==
    ASSUME CallInv, InForce, NEW c \in Calls, Task(c)
    PROVE  Persisted'
<1> USE DEF CallInv
<1>1. /\ \A d \in Calls \ {c} : calls'[d] = calls[d]
      /\ Unfinished(c) /\ calls'[c].at \in Steps \ {"idle", "queued"}
      /\ calls[c].at = "queued" => MayLeave(c)
      /\ calls'[c].at # "done" => calls'[c].op = calls[c].op
  BY TaskMoves
<1>2. \A d \in Calls \ {c} : ~Storing(d) /\ ~Storing(d)'
  <2>1. \A d \in Calls \ {c} : Unfinished(d) => calls[d].at = "queued"
    BY <1>1, OnlyRunner
  <2> QED  BY <1>1, <2>1 DEF Storing, Unfinished, Finished
<1>3. /\ stored \in Pages /\ identity \in Identities /\ currentKey \in Keys
      /\ UNCHANGED <<mode, storable, unread>> /\ persistence \in Places
  BY IdentityCallLeaves
     DEF TypeInv, TypeOK, SlotTyped, StorageTyped, IdentityLoaded, StartOrClient, InForce
<1>4. calls'[c].at \in {"switching", "switched", "done"} =>
        currentKey' = Target(calls[c].op, identity'.deviceId)
  BY TaskTargets
<1>5. calls \in [Calls -> CallRecords] /\ calls[c] \in CallRecords
  BY DEF TypeInv, TypeOK, CallsTyped
<1>6. CASE LeaveChain(c) \/ IdentifyStart(c)
  <2>1. UNCHANGED <<ids, config, keys, storage>> /\ ~Storing(c)
    BY <1>6 DEF LeaveChain, IdentifyStart, Due, Storing
  <2> QED  BY <1>2, <1>3, <2>1
           DEF Persisted, Stores, KeyOfNextPage, ids, config, keys, storage
<1>7. CASE Identified(c)
  <2>1. UNCHANGED <<ids, config, storage>>
    BY <1>7 DEF Identified
  <2>2. Storing(c)'
    <3>1. calls'[c].at \in {"switching", "switched"}
      BY <1>5, <1>7 DEF Identified, SwitchTo, Go, CallRecords
    <3> QED  BY <1>1, <1>7, <3>1 DEF Storing, Identified, OfItsKind
  <2> QED  BY <1>3, <2>1, <2>2 DEF Persisted, Stores, ids, config, storage
<1>8. CASE Reset(c)
  <2>1. UNCHANGED <<ids, config, storable>> /\ stored' = Remembered(None)
    BY <1>8 DEF Reset
  <2>2. currentKey' = identity.deviceId
    <3>1. ~LeaveChain(c)
      BY <1>8 DEF Reset, Due, LeaveChain
    <3>2. calls'[c].at \in {"switching", "done"} /\ calls[c].op.kind = "reset"
      BY <1>5, <1>8 DEF Reset, Due, SwitchTo, Go, Made, NotMade, CallRecords
    <3> QED  BY <1>4, <2>1, <3>2 DEF Target, ids
  <2>3. CASE Stores /\ storable
    <3>1. stored' = [stored EXCEPT !["identity"] = None]
      BY <2>1, <2>3 DEF Remembered, Write
    <3>2. stored'.identity = None /\ stored'.deviceId = stored.deviceId
      BY <1>3, <3>1 DEF Pages
    <3> QED  BY <1>3, <2>1, <2>2, <2>3, <3>2 DEF Persisted, Stores, KeyOfNextPage, ids, config
  <2>4. CASE ~(Stores /\ storable)
    <3>1. stored' = stored
      BY <2>1, <2>4 DEF Remembered, Write
    <3> QED  BY <1>3, <2>1, <2>4, <3>1 DEF Persisted, Stores, ids, config
  <2> QED  BY <2>3, <2>4
<1>9. CASE Forget(c)
  <2>1. persistence' = "memory" /\ stored' = Cleared
    BY <1>9 DEF Forget
  <2> QED  BY <2>1 DEF Persisted, Stores, Cleared
<1>10. CASE Switched(c)
  <2>1. UNCHANGED <<ids, config, keys, storage>>
    BY <1>10 DEF Switched
  <2>2. Storing(c)' <=> Storing(c)
    <3>1. CASE calls[c].op.kind = "identify"
      <4>1. calls'[c].at = "switched"
        BY <1>5, <1>10, <3>1 DEF Switched, Go, CallRecords
      <4> QED  BY <1>1, <1>10, <3>1, <4>1 DEF Switched, Storing
    <3>2. CASE calls[c].op.kind # "identify"
      <4>1. calls'[c].at = "done"
        BY <1>5, <1>10, <3>2 DEF Switched, Go, Made, NotMade
      <4> QED  BY <3>2, <4>1 DEF Storing
    <3> QED  BY <3>1, <3>2
  <2> QED  BY <1>2, <1>3, <2>1, <2>2
           DEF Persisted, Stores, KeyOfNextPage, ids, config, keys, storage
<1>11. CASE RememberUser(c)
  <2>1. UNCHANGED <<ids, config, keys, storable>> /\ stored' = Remembered(calls[c].op.key)
    BY <1>11 DEF RememberUser, StoredUser
  <2>2. currentKey' = calls[c].op.key
    BY <1>11, <2>1 DEF RememberUser, OfItsKind, Follows, keys
  <2>3. CASE Stores /\ storable
    <3>1. stored' = [stored EXCEPT !["identity"] = calls[c].op.key]
      BY <2>1, <2>3 DEF Remembered, Write
    <3>2. stored'.identity = currentKey' /\ stored'.deviceId = stored.deviceId
      BY <1>3, <2>2, <3>1 DEF Pages
    <3>3. currentKey' # None
      BY <1>3, <2>1, NoKeyIsNone DEF keys
    <3> QED  BY <1>3, <2>1, <2>3, <3>2, <3>3 DEF Persisted, Stores, KeyOfNextPage, ids, config
  <2>4. CASE ~(Stores /\ storable)
    <3>1. stored' = stored
      BY <2>1, <2>4 DEF Remembered, Write
    <3> QED  BY <1>3, <2>1, <2>4, <3>1 DEF Persisted, Stores, ids, config
  <2> QED  BY <2>3, <2>4
<1> QED  BY <1>6, <1>7, <1>8, <1>9, <1>10, <1>11 DEF Task

LEMMA SetPersistencePersists ==
    ASSUME CallInv, InForce, NEW place \in Places, SetPersistence(place)
    PROVE  Persisted'
<1> USE DEF CallInv
<1>1. /\ UNCHANGED <<mode, currentKey, appDeviceId, storable, calls, unread>>
      /\ persistence' = place /\ persistence \in Places /\ place # persistence
  BY DEF SetPersistence, keys, ghosts, TypeInv, TypeOK, SlotTyped
<1>2. /\ identity \in Identities /\ identity # None /\ stored \in Pages
      /\ currentKey \in Keys /\ currentKey # None
  BY DEF TypeInv, TypeOK, SlotTyped, StorageTyped, IdentityLoaded, StartOrClient, InForce
<1>3. CASE mode # "remote" \/ (~storable /\ place # "memory")
  BY <1>1, <1>3 DEF Persisted, Stores, Places
<1>4. CASE mode = "remote" /\ place = "memory"
  <2>1. stored' = Cleared
    BY <1>2, <1>4 DEF SetPersistence
  <2> QED  BY <1>1, <1>4, <2>1 DEF Persisted, Stores, Cleared
<1>5. CASE mode = "remote" /\ place # "memory" /\ storable
  <2> DEFINE user == IF currentKey # identity.deviceId THEN currentKey ELSE None
             kept == IF user # None THEN user ELSE stored.identity
             id   == IF appDeviceId THEN stored.deviceId ELSE identity.deviceId
             dur  == appDeviceId \/ storable
  <2>1. /\ stored' = [stored EXCEPT !.identity = kept, !.deviceId = id]
        /\ identity' = [identity EXCEPT !.durable = dur]
    BY <1>2, <1>5 DEF SetPersistence
  <2>2. stored'.identity = kept /\ stored'.deviceId = id /\ identity'.deviceId = identity.deviceId
    <3> HIDE DEF kept, id, dur
    <3> QED  BY <1>2, <2>1 DEF Pages, Identities
  <2>3. persistence = "memory" /\ place = "localStorage"
    BY <1>1, <1>5 DEF Places
  <2>4. ~unread => stored.identity = None
    BY <1>5, <2>3 DEF Persisted
  <2> QED  BY <1>1, <1>2, <1>5, <2>2, <2>3, <2>4 DEF Persisted, Stores, KeyOfNextPage
<1> QED  BY <1>3, <1>4, <1>5

LEMMA PersistedNext ==
    ASSUME CallInv, [Next]_vars
    PROVE  Persisted'
<1> SUFFICES ASSUME InForce' PROVE Persisted'
  BY DEF Persisted
<1> USE DEF CallInv
<1>1. CASE \E o \in Options : Start(o)
  BY <1>1, StartPersists
<1>2. CASE ~(\E o \in Options : Start(o))
  <2>1. InForce /\ UNCHANGED <<mode, unread>>
    BY <1>2, StaysInForce
  <2>2. CASE \E c \in Calls : Task(c)
    BY <2>1, <2>2, TaskPersists
  <2>3. CASE \E place \in Places : SetPersistence(place)
    BY <2>1, <2>3, SetPersistencePersists
  <2>4. CASE ~(\E c \in Calls : Task(c)) /\ ~(\E place \in Places : SetPersistence(place))
    <3>1. /\ UNCHANGED <<identity, appDeviceId, currentKey, persistence, storable>>
          /\ stored'.identity = stored.identity /\ stored'.deviceId = stored.deviceId
      <4>1. ASSUME NEW r \in registrations, DeviceRegistered(r)
            PROVE  stored'.identity = stored.identity /\ stored'.deviceId = stored.deviceId
        BY <4>1 DEF DeviceRegistered, Write, TypeInv, TypeOK, StorageTyped, Pages
      <4> QED  BY <1>2, <2>4, <4>1 DEF Next, vars, StartRefused, Boots, BootFails, DeviceRegistered,
               Call, ShutdownCall, ShutdownSlot, ClientShutdown, ids, config, keys, storage
    <3>2. \A c \in Calls : Storing(c)' <=> Storing(c)
      <4>1. CASE \E c \in Calls : \E o \in Operations : Call(c, o)
        <5>1. PICK c \in Calls, o \in Operations : Call(c, o)
          BY <4>1
        <5> QED  BY <5>1 DEF Call, Storing, TypeInv, TypeOK, CallsTyped
      <4>2. CASE ~(\E c \in Calls : \E o \in Operations : Call(c, o))
        BY <1>2, <2>4, <4>2, LineStays DEF Storing
      <4> QED  BY <4>1, <4>2
    <3> QED  BY <2>1, <3>1, <3>2 DEF Persisted, Stores, KeyOfNextPage
  <2> QED  BY <2>2, <2>3, <2>4
<1> QED  BY <1>1, <1>2

\* identify, reset and forget are serialized, and the last one made wins: when
\* all are done the client decides for whom it signed in, or for the device,
\* and the next page load finds the same in storage.
THEOREM TheLastCallWins == Spec => []LastCallWins
<1>1. Init => CallInv
  BY CallInvInit
<1>2. CallInv /\ [Next]_vars => CallInv'
  BY TypeNext, OfItsKindNext, ClientNext, StartOrClientNext, GatedNext, SerializedNext,
     FollowsNext, PersistedNext DEF CallInv
<1>3. CallInv => LastCallWins
  <2> SUFFICES ASSUME CallInv, Calm, client # None, ~straddled
               PROVE  /\ told = currentKey /\ told = Wanted
                      /\ Stores /\ storable /\ ~unread => KeyOfNextPage = Wanted
    BY DEF LastCallWins
  <2>1. InForce /\ told = currentKey
    BY DEF CallInv, StartOrClient, InForce
  <2>2. currentKey = Wanted
    BY <2>1 DEF CallInv, Follows
  <2>3. \A c \in Calls : ~Storing(c)
    BY DEF Storing, Calm, Finished
  <2> QED  BY <2>1, <2>2, <2>3 DEF CallInv, Persisted
<1> QED  BY <1>1, <1>2, <1>3, PTL DEF Spec
=============================================================================
