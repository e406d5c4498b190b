------------------------------- MODULE Simulator ------------------------------
(***************************************************************************)
(* The SNMP simulator: the control plane that creates devices and changes  *)
(* their OIDs, the store of each device with its withheld OIDs, and the    *)
(* three ways to read it: a GET, a walk, and the exported recording.       *)
(***************************************************************************)
EXTENDS Integers, Sequences, FiniteSets

CONSTANTS
    Profiles,
    PlainOids,     \* OIDs of a profile besides the status of its interface
    Numbers,       \* values a PATCH sends
    MaxDevices,    \* bound on devices created, for model checking
    MaxCalls       \* bound on calls of the control plane, for model checking


\* One interface stands for all; its status is 1 for up and 2 for down.
Oids == PlainOids \cup {"ifAdminStatus", "ifOperStatus"}

\* JSON that names no value sets one that is undefined; "unset" is an OID the
\* profile does not have.
Values == Numbers \cup {1, 2}
NoValue == -1
Undefined == -2
Kept == Values \cup {NoValue, Undefined}

ASSUME SimulatorAssumption ==
    /\ NoValue \notin Numbers /\ Undefined \notin Numbers
    /\ MaxDevices \in Nat /\ MaxCalls \in Nat

Modes == {"noSuchObject", "noSuchInstance", "timeout", "omit"}

\* A mode the store does not know is kept as it came.
AnyMode == Modes \cup {"unknown"}

Device == [profile : Profiles, values : [Oids -> Kept],
           withheld : [Oids -> AnyMode \cup {"no"}],
           reachable : BOOLEAN, silent : BOOLEAN]

VARIABLES
    devices,    \* a sequence: the n-th device has the number n in its id
    calls,
    last,       \* the last call, as [device, status]; device 0 is none
    \* History, read by the properties only:
    hidden,     \* <<device, OID>> withheld and not restored since
    latest      \* the value last set, per device and OID

simVars == <<devices, calls, last, hidden, latest>>

Ids == 1..Len(devices)

SimTypeOK ==
    /\ devices \in Seq(Device) /\ latest \in Seq([Oids -> Kept])
    /\ Len(latest) = Len(devices)
    /\ calls \in Nat
    /\ last \in [device : Nat, status : {200, 201, 404, 500}]
    /\ hidden \subseteq (Nat \X Oids)

-------------------------------------------------------------------------------
(* The OID store                                                           *)

Answer(kind, value) == [kind |-> kind, value |-> value]

\* get: the mode decides, and a mode that is none of the four does not.
Get(device, oid) ==
    LET mode == device.withheld[oid]
        value == device.values[oid]
    IN  IF mode \in Modes
        THEN Answer(IF mode = "omit" THEN "absent" ELSE mode, NoValue)
        ELSE IF value \in {NoValue, Undefined} THEN Answer("absent", NoValue)
        ELSE Answer("value", value)

\* Mutant: the walk does not look at the withheld OIDs.
WalkAll(device) ==
    {<<oid, device.values[oid]>> : oid \in {o \in Oids : device.values[o] # NoValue}}

\* walk: whatever has an entry and is not withheld, in whatever mode.
Walk(device) ==
    {<<oid, device.values[oid]>> :
        oid \in {o \in Oids : device.values[o] # NoValue /\ device.withheld[o] = "no"}}

\* toSnmprec: the walk; an undefined value becomes the text "undefined".
Snmprec(device) == Walk(device)

\* A profile's OIDs, copied; every interface starts up.
BuildOidStore(profile) == [oid \in Oids |-> 1]

-------------------------------------------------------------------------------
(* The control plane, one call of its HTTP surface at a time               *)

Call == calls < MaxCalls /\ calls' = calls + 1

Done(id, status) == last' = [device |-> id, status |-> status]

\* A bad profile, count or JSON, or a device that is not there, throws before
\* anything is changed, and the server answers 500; other routes are 404.
Refused(status) ==
    /\ Call
    /\ Done(0, status)
    /\ UNCHANGED <<devices, hidden, latest>>

CreateDevices(profile, count) ==
    /\ Call
    /\ Len(devices) + count <= MaxDevices
    /\ devices' = devices \o
         [n \in 1..count |-> [profile |-> profile, values |-> BuildOidStore(profile),
                              withheld |-> [oid \in Oids |-> "no"],
                              reachable |-> TRUE, silent |-> FALSE]]
    /\ latest' = latest \o [n \in 1..count |-> BuildOidStore(profile)]
    /\ Done(0, 201)
    /\ UNCHANGED hidden

\* Mutant: the devices of a profile share its map.
StoreSharedSet(id, oid, value) ==
    devices' = [n \in Ids |-> IF devices[n].profile = devices[id].profile
                              THEN [devices[n] EXCEPT !.values[oid] = value] ELSE devices[n]]

\* store.set leaves the mode alone.
StoreSet(id, oid, value) ==
    devices' = [devices EXCEPT ![id].values[oid] = value]

SetOid(id, oid, value) ==
    /\ Call
    /\ StoreSet(id, oid, value)
    /\ latest' = [latest EXCEPT ![id][oid] = value]
    /\ Done(id, 200)
    /\ UNCHANGED hidden

\* An odd number of transitions ends down.
Flap(id, transitions) ==
    LET oper == IF transitions % 2 = 1 THEN 2 ELSE 1
    IN  /\ Call
        /\ devices' = [devices EXCEPT ![id].values["ifAdminStatus"] = 1,
                                      ![id].values["ifOperStatus"] = oper]
        /\ latest' = [latest EXCEPT ![id]["ifAdminStatus"] = 1, ![id]["ifOperStatus"] = oper]
        /\ Done(id, 200)
        /\ UNCHANGED hidden

\* Mutant: the value of a withheld OID is thrown away.
WithholdForgets(id, oid, mode) ==
    /\ Call
    /\ devices' = [devices EXCEPT ![id].withheld[oid] = mode, ![id].values[oid] = NoValue]
    /\ hidden' = hidden \cup {<<id, oid>>}
    /\ Done(id, 200)
    /\ UNCHANGED latest

\* The mode of the request is not validated.
Withhold(id, oid, mode) ==
    /\ Call
    /\ devices' = [devices EXCEPT ![id].withheld[oid] = mode]
    /\ hidden' = hidden \cup {<<id, oid>>}
    /\ Done(id, 200)
    /\ UNCHANGED latest

Restore(id, oid) ==
    /\ Call
    /\ devices' = [devices EXCEPT ![id].withheld[oid] = "no"]
    /\ hidden' = hidden \ {<<id, oid>>}
    /\ Done(id, 200)
    /\ UNCHANGED latest

SetReachability(id, on) ==
    /\ Call
    /\ devices' = [devices EXCEPT ![id].reachable = on]
    /\ Done(id, 200)
    /\ UNCHANGED <<hidden, latest>>

SetTr069Tolerant(id, on) ==
    /\ Call
    /\ devices' = [devices EXCEPT ![id].silent = on]
    /\ Done(id, 200)
    /\ UNCHANGED <<hidden, latest>>

SimInit ==
    /\ devices = <<>> /\ latest = <<>> /\ calls = 0 /\ hidden = {}
    /\ last = [device |-> 0, status |-> 200]

SimNext ==
    \/ \E status \in {404, 500} : Refused(status)
    \/ \E profile \in Profiles, count \in 1..MaxDevices : CreateDevices(profile, count)
    \/ \E id \in Ids :
         \/ \E oid \in Oids :
              \/ \E value \in Numbers \cup {Undefined} : SetOid(id, oid, value)
              \/ \E mode \in AnyMode : Withhold(id, oid, mode)
              \/ Restore(id, oid)
         \/ \E transitions \in 1..2 : Flap(id, transitions)
         \/ \E on \in BOOLEAN : SetReachability(id, on) \/ SetTr069Tolerant(id, on)

SimSpec == SimInit /\ [][SimNext]_simVars

-------------------------------------------------------------------------------
(* What holds of the store of each device, and carries the properties       *)

StoreInv(id, oid) ==
    /\ <<id, oid>> \in hidden <=> devices[id].withheld[oid] # "no"
    /\ devices[id].values[oid] = latest[id][oid]
    /\ latest[id][oid] # NoValue

SimInv ==
    /\ SimTypeOK
    /\ hidden \subseteq Ids \X Oids
    /\ \A id \in Ids, oid \in Oids : StoreInv(id, oid)

-------------------------------------------------------------------------------
(* Properties                                                              *)

\* oidStore.ts:4-10: whatever is set or flapped meanwhile, a withheld OID is in
\* no walk and no recording, and a GET returns it as a value only when the mode
\* it was withheld in is none the store knows.
WithheldStaysAbsent ==
    \A id \in Ids, oid \in Oids : <<id, oid>> \in hidden =>
        /\ \A entry \in Walk(devices[id]) \cup Snmprec(devices[id]) : entry[1] # oid
        /\ Get(devices[id], oid).kind = "value" => devices[id].withheld[oid] = "unknown"

\* oidStore.ts:68-70: what is not withheld is read with the value set last,
\* before it was withheld or while it was, by a GET and a walk alike; only an
\* undefined value is one that a walk lists and a GET does not have.
RestoredReadsLatest ==
    \A id \in Ids, oid \in Oids : <<id, oid>> \notin hidden =>
        /\ <<oid, latest[id][oid]>> \in Walk(devices[id])
        /\ Get(devices[id], oid) = IF latest[id][oid] = Undefined THEN Answer("absent", NoValue)
                                   ELSE Answer("value", latest[id][oid])

\* api.ts:57-61 and profiles/index.ts:202-205: a call changes the device it
\* names and no other, however many share a profile, and one that is refused
\* changes none.
OnlyTheNamedChanges ==
    [][\A id \in Ids : devices'[id] # devices[id] =>
            last'.device = id /\ last'.status = 200]_simVars
===============================================================================
