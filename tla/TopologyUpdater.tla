----------------------------- MODULE TopologyUpdater -----------------------------
(***************************************************************************)
(* How the tree of UsbDeviceImps follows the devices that are plugged in:  *)
(* updateTopology and checkUsbDeviceImp of LinuxUsbServices.java with the  *)
(* native updater that walks the buses (JavaxUsbTopologyUpdater.c).  The   *)
(* thread of topologyUpdateManager runs one update after the other; the    *)
(* kernel adds and removes devices and buses at any time, during a scan    *)
(* too.                                                                    *)
(*                                                                         *)
(* All buses have the same ports.  A device is plugged in at a port of a   *)
(* bus, <<bus, port>>.  The tree has it at a place <<slot, port>>: slot is *)
(* the port of the virtual root hub that the bus has now, and that is its  *)
(* position among the bus directories.  A kind is what UsbDeviceImp.equals *)
(* compares; any number of devices may be of one kind.                     *)
(***************************************************************************)
EXTENDS Integers, FiniteSets

CONSTANTS
  Buses,     \* the numbers of bus directories
  Ports,     \* the ports of a bus, in the order of a walk; 0 has the host controller
  Up,        \* Up[p]: where the hub that has port p is plugged in
  Kinds,     \* the kinds of device, as equals tells them apart
  Hubs,      \* those kinds that are hubs
  Empty,     \* no device
  MaxQueue   \* bound on the queue of topologyUpdateManager

ASSUME BusesAssumption == IsFiniteSet(Buses) /\ Buses \subseteq Nat \ {0}

ASSUME PortsAssumption ==
  /\ 0 \in Ports /\ Ports \subseteq Nat
  /\ Up \in [Ports \ {0} -> Ports]
  /\ \A p \in Ports \ {0} : Up[p] < p

ASSUME KindsAssumption == Hubs \subseteq Kinds /\ Empty \notin Kinds

ASSUME QueueAssumption == MaxQueue \in Nat \ {0}

Slots == 1 .. Cardinality(Buses)
Places == Slots \X Ports
RootPlaces == Slots \X {0}
Parent == [q \in Places \ RootPlaces |-> <<q[1], Up[q[2]]>>]
PortsOf(q) == {r \in Places \ RootPlaces : Parent[r] = q}

\* The port p and those of the hubs it is behind; and the same for a place.
Above == [p \in Ports |->
           {r \in Ports : \A S \in SUBSET Ports :
              p \in S /\ (\A x \in S \ {0} : Up[x] \in S) => r \in S}]
Path == [q \in Places |-> {<<q[1], p>> : p \in Above[q[2]]}]

\* fillDeviceList and the scan go through the places in this order.
AtOrBefore(q, r) == q[1] < r[1] \/ (q[1] = r[1] /\ q[2] <= r[2])

VARIABLES
  buses,          \* the buses that have a directory
  phys,           \* the kind of device the kernel has at every port of every bus
  event,          \* a change that poll has not reported yet
  queue,          \* how many updates topologyUpdateManager has to run
  updater,        \* where the queue's thread is in updateTopology
  updateResult,   \* topologyUpdateResult
  buslist,        \* nativeTopologyUpdater: the bus at every slot, when it was listed
  toBuild,        \* places nativeTopologyUpdater has still to build
  connected,      \* connectedDevices
  disconnected,   \* disconnectedDevices, as the places they are at
  unread,         \* history: the last scan could not read all it found
  mistaken,       \* history: the last scan took another device off disconnectedDevices
  tree            \* the UsbDeviceImp attached at every place

kernelVars == <<buses, phys>>
listVars == <<connected, disconnected, mistaken>>
scanVars == <<buslist, toBuild, unread, listVars>>
topologyVars == <<kernelVars, event, queue, updater, updateResult, scanVars, tree>>

NoDevices == [q \in Places |-> Empty]
Occupied(t) == {q \in Places : t[q] # Empty}
\* The port q is there: it is the root hub's, or there is a hub where its hub should be.
HasHub(t, q) == q \notin RootPlaces => t[Parent[q]] \in Hubs
Closed(t) == \A q \in Occupied(t) : HasHub(t, q)

NoBus == 0
NoBuses == [s \in Slots |-> NoBus]

\* scandir with alphasort: the slot of a bus is its position in the listing, so that
\* it changes when one before it comes or goes.
Listing ==
  [B \in SUBSET Buses |->
     [s \in Slots |->
        LET sth == {b \in B : Cardinality({c \in B : c <= b}) = s}
        IN  IF sth = {} THEN NoBus ELSE CHOOSE b \in sth : TRUE]]

\* What is plugged in where the tree has place q, if the buses are listed so.
Device(listing, q) ==
  IF listing[q[1]] = NoBus THEN Empty ELSE phys[listing[q[1]]][q[2]]

PluggedIn == [q \in Places |-> Device(Listing[buses], q)]

Error == -1  \* any error number

TopologyInit ==
  /\ buses = {} /\ phys = [b \in Buses |-> [p \in Ports |-> Empty]] /\ event = FALSE
  /\ queue = 0 /\ updater = "idle" /\ updateResult = 0
  /\ buslist = NoBuses /\ toBuild = {}
  /\ connected = NoDevices /\ disconnected = {}
  /\ unread = FALSE /\ mistaken = FALSE
  /\ tree = NoDevices

(***************************************************************************)
(* The kernel.  Devices come one at a time and go one at a time, those     *)
(* below a hub before the hub, and a bus before and after its devices.     *)
(***************************************************************************)
Changed ==
  /\ event' = TRUE
  /\ UNCHANGED <<queue, updater, updateResult, scanVars, tree>>

BusComes(b) == b \notin buses /\ buses' = buses \cup {b} /\ phys' = phys /\ Changed

BusGoes(b) ==
  /\ b \in buses /\ phys[b][0] = Empty
  /\ buses' = buses \ {b} /\ phys' = phys
  /\ Changed

Plug(b, p, k) ==
  /\ phys[b][p] = Empty
  /\ IF p = 0 THEN b \in buses ELSE phys[b][Up[p]] \in Hubs
  /\ phys' = [phys EXCEPT ![b][p] = k] /\ buses' = buses
  /\ Changed

Unplug(b, p) ==
  /\ phys[b][p] # Empty
  /\ \A r \in Ports \ {0} : Up[r] = p => phys[b][r] = Empty
  /\ phys' = [phys EXCEPT ![b][p] = Empty] /\ buses' = buses
  /\ Changed

Kernel ==
  \E b \in Buses :
    \/ BusComes(b) \/ BusGoes(b)
    \/ \E p \in Ports : Unplug(b, p) \/ \E k \in Kinds : Plug(b, p, k)

(***************************************************************************)
(* The listener, as far as updates are concerned.  A file of devices that  *)
(* has just been opened reports a change at once.                          *)
(***************************************************************************)
Opened ==
  /\ event' = TRUE
  /\ UNCHANGED <<kernelVars, queue, updater, updateResult, scanVars, tree>>

\* Mutant: no update is queued while one runs.
topologyChangeDropped ==
  /\ event /\ queue < MaxQueue
  /\ event' = FALSE
  /\ queue' = IF updater = "idle" THEN queue + 1 ELSE queue
  /\ UNCHANGED <<kernelVars, updater, updateResult, scanVars, tree>>

\* poll reports POLLIN: topologyChange queues an update.
topologyChange ==
  /\ event /\ queue < MaxQueue
  /\ event' = FALSE
  /\ queue' = queue + 1
  /\ UNCHANGED <<kernelVars, updater, updateResult, scanVars, tree>>

(***************************************************************************)
(* updateTopology.                                                         *)
(***************************************************************************)
UpdaterGoes(from, to) == updater = from /\ updater' = to

\* All devices are taken for disconnected, and the buses are listed, or cannot be.
updateTopology ==
  /\ queue > 0 /\ queue' = queue - 1
  /\ disconnected' = Occupied(tree) /\ connected' = NoDevices /\ mistaken' = FALSE
  /\ \/ /\ UpdaterGoes("idle", "scan")
        /\ buslist' = Listing[buses]
        /\ toBuild' = {q \in RootPlaces : buslist'[q[1]] # NoBus}
        /\ unread' = FALSE /\ updateResult' = updateResult
     \/ /\ UpdaterGoes("idle", "disconnect")
        /\ unread' = TRUE /\ updateResult' = Error
        /\ UNCHANGED <<buslist, toBuild>>
  /\ UNCHANGED <<kernelVars, event, tree>>

\* The device or hub that this scan found at place q is new.
New(q) == connected[q] # Empty

\* Mutant: the list loses its last equal device.
LastEqual(k) ==
  {q \in disconnected : tree[q] = k /\ \A r \in disconnected : tree[r] = k => AtOrBefore(r, q)}

\* disconnected.remove(existingDevice), which is List.remove(Object): the first
\* device in the list that equals the existing one goes, wherever it is.
FirstEqual(k) ==
  {q \in disconnected : tree[q] = k /\ \A r \in disconnected : tree[r] = k => AtOrBefore(q, r)}

\* Mutants: a replaced device is not disconnected; nothing equals what was there.
checkForgetsOld(q, k) ==
  /\ disconnected' = disconnected \ {q}
  /\ connected' = IF tree[q] = k THEN connected ELSE [connected EXCEPT ![q] = k]
  /\ mistaken' = mistaken

checkNeverEqual(q, k) ==
  connected' = [connected EXCEPT ![q] = k] /\ UNCHANGED <<disconnected, mistaken>>

\* A port of a new hub has no device yet.
checkUsbDeviceImp(q, k) ==
  IF tree[q] = k /\ (q \in RootPlaces \/ ~ New(Parent[q]))
  THEN /\ disconnected' = disconnected \ FirstEqual(k)
       /\ mistaken' = (mistaken \/ q \notin FirstEqual(k))
       /\ connected' = connected
  ELSE /\ connected' = [connected EXCEPT ![q] = k]
       /\ UNCHANGED <<disconnected, mistaken>>

\* build_device: the device at q, and the ports of the hub that have one.
Built(q) ==
  LET k == Device(buslist, q)
  IN  /\ k # Empty
      /\ checkUsbDeviceImp(q, k)
      /\ toBuild' = (toBuild \ {q}) \cup
                    {r \in PortsOf(q) : k \in Hubs /\ Device(buslist, r) # Empty}
      /\ unread' = unread

\* It is gone (or there never was one: a bus without devices), or something
\* fails: this device and all below it are left out.
NotBuilt(q) ==
  /\ toBuild' = toBuild \ {q}
  /\ unread' = (unread \/ Device(buslist, q) # Empty)
  /\ UNCHANGED listVars

\* The walk goes by port, and below a hub before its next sibling.
build_device(q) ==
  /\ updater = "scan" /\ q \in toBuild /\ \A r \in toBuild : AtOrBefore(q, r)
  /\ Built(q) \/ NotBuilt(q)
  /\ UNCHANGED <<kernelVars, event, queue, updater, updateResult, buslist, tree>>

ScanEnds ==
  /\ UpdaterGoes("scan", "disconnect") /\ toBuild = {}
  /\ updateResult' = 0 /\ buslist' = NoBuses
  /\ UNCHANGED <<kernelVars, event, queue, toBuild, unread, listVars, tree>>

\* The first loop of updateTopology: disconnect() takes a device off its port, and
\* with a hub goes what is still attached below it.
Cut(q) == \E r \in Path[q] : r \in disconnected

disconnect ==
  /\ UpdaterGoes("disconnect", "attach")
  /\ tree' = [q \in Places |-> IF Cut(q) THEN Empty ELSE tree[q]]
  /\ UNCHANGED <<kernelVars, event, queue, updateResult, scanVars>>

\* The second loop: a device is attached to the port it was found at, be it taken or
\* not.  It is in the tree if the hubs above it are, the new and the existing ones.
Arrives(q) == New(q) /\ \A r \in Path[q] : ~ New(r) => r \notin disconnected

attachUsbDeviceImp ==
  /\ UpdaterGoes("attach", "fire")
  /\ tree' = [q \in Places |-> IF Arrives(q) THEN connected[q]
                               ELSE IF \E r \in Path[q] : New(r) THEN Empty ELSE tree[q]]
  /\ UNCHANGED <<kernelVars, event, queue, updateResult, scanVars>>

\* After the events, and the notification.
UpdateEnds ==
  /\ UpdaterGoes("fire", "idle")
  /\ connected' = NoDevices /\ disconnected' = {}
  /\ UNCHANGED <<kernelVars, event, queue, updateResult, buslist, toBuild, unread, mistaken, tree>>

UpdaterStep ==
  \/ updateTopology \/ (\E q \in Places : build_device(q)) \/ ScanEnds
  \/ disconnect \/ attachUsbDeviceImp \/ UpdateEnds

TopologyNext == Kernel \/ Opened \/ topologyChange \/ UpdaterStep

TopologySpec == TopologyInit /\ [][TopologyNext]_topologyVars

--------------------------------------------------------------------------------
(***************************************************************************)
(* Correctness.                                                            *)
(***************************************************************************)
Devices == [Places -> Kinds \cup {Empty}]

\* The values the variables take.
TopologyTypeOK ==
  /\ buses \subseteq Buses /\ phys \in [Buses -> [Ports -> Kinds \cup {Empty}]]
  /\ tree \in Devices /\ connected \in Devices
  /\ event \in BOOLEAN /\ unread \in BOOLEAN /\ mistaken \in BOOLEAN
  /\ updateResult \in {0, Error}
  /\ queue \in 0 .. MaxQueue
  /\ updater \in {"idle", "scan", "disconnect", "attach", "fire"}
  /\ buslist \in [Slots -> Buses \cup {NoBus}]
  /\ toBuild \subseteq Places /\ disconnected \subseteq Places

\* No change is on its way to an update, and the last one could read all it found.
Steady == ~ event /\ queue = 0 /\ ~ unread

\* The tree mirrors the devices that are plugged in, however changes, polls,
\* scans and queued updates interleave, and whatever earlier updates did to it:
\* when all is steady, and the last update took no device for another that equals
\* it, they are the same.
Mirrored == Steady /\ ~ mistaken /\ updater = "idle" => tree = PluggedIn

\* The tree an application walks changes as DeviceTree.tla says.
PromisedTree == INSTANCE DeviceTree
ImplementsDeviceTree == PromisedTree!TreeChanges

\* The device at q, and every hub above it, is what is plugged in there.  When a
\* bus before theirs comes or goes, that is no longer so of those that stay
\* plugged in: their bus has another slot.
InPlace(q) == \A r \in Path[q] : tree[r] # Empty /\ tree[r] = PluggedIn[r]

\* It and all that equal it and come before it in the list are in place.
Certain(q) ==
  \A p \in Occupied(tree) : tree[p] = tree[q] /\ AtOrBefore(p, q) => InPlace(p)

\* An application that uses a device is not disturbed by what happens at other
\* ports: if nothing changed since the scan began, a device leaves the tree only if
\* it or a hub above it is gone, replaced or moved to another slot, or equals one
\* before it that is.
UndisturbedDevices ==
  [][disconnect /\ Steady =>
       \A q \in Occupied(tree) : tree'[q] = Empty => \E r \in Path[q] : ~ Certain(r)]_topologyVars

\* "If the device exists, the existing device is removed from the disconnected list"
\* (LinuxUsbServices.java:182): what is in place is not disconnected, if the scan
\* could read it and nothing changed meanwhile.
ExistingKept ==
  updater = "disconnect" /\ Steady => \A q \in disconnected : ~ InPlace(q)

(***************************************************************************)
(* Why these hold, for any buses and ports.                                *)
(***************************************************************************)
PhysClosed ==
  \A b \in Buses, p \in Ports : phys[b][p] # Empty =>
    IF p = 0 THEN b \in buses ELSE phys[b][Up[p]] \in Hubs

\* The scan has still to come to q, or to a hub that it is behind.
Pending(q) == \E r \in Path[q] : r \in toBuild

\* What the updater found at the hub of q is a hub, a new one or one that was there,
\* and what was there is not behind something new.
OnHub(q) ==
  q \notin RootPlaces =>
    IF New(Parent[q]) THEN connected[Parent[q]] \in Hubs
    ELSE tree[Parent[q]] \in Hubs /\ \A r \in Path[Parent[q]] : ~ New(r)

\* The walk and its lists, whatever changes meanwhile.
WalkInv ==
  /\ disconnected \subseteq Occupied(tree)
  /\ \A q \in toBuild : OnHub(q) /\ \A r \in Path[q] : r \in toBuild => r = q
  /\ \A q \in Places :
       /\ New(q) => OnHub(q) /\ ~ Pending(q)
       /\ ~ mistaken /\ tree[q] # Empty /\ (New(q) \/ Pending(q)) => q \in disconnected

\* What has been scanned, if nothing changes: new is what is plugged in and not in
\* place, and the list keeps what is not in place, for certain of what is certain.
ScanInv ==
  /\ \A q \in toBuild \ RootPlaces : PluggedIn[Parent[q]] \in Hubs /\ ~ Pending(Parent[q])
  /\ \A q \in Places :
       connected[q] =
         IF ~ InPlace(q) /\ ~ Pending(q) THEN PluggedIn[q] ELSE Empty
  /\ \A q \in Occupied(tree) :
       /\ Certain(q) => (q \in disconnected <=> Pending(q))
       /\ ~ mistaken => (q \in disconnected <=> Pending(q) \/ ~ InPlace(q))

\* A device is taken for another only if the two are equal and the one that is
\* earlier in the list is gone or replaced, or behind a hub that is.
MistakenTwins ==
  mistaken => \E p, q \in Occupied(tree) :
    p # q /\ AtOrBefore(p, q) /\ tree[p] = tree[q] /\ ~ InPlace(p)

\* Between the two loops.
AttachInv ==
  /\ \A q \in Places : Arrives(q) => OnHub(q)
  /\ Occupied(tree) \cap disconnected = {}
  /\ ~ mistaken => \A q \in Occupied(tree) : ~ New(q)
  /\ Steady /\ ~ mistaken =>
       \A q \in Places : PluggedIn[q] = IF New(q) THEN connected[q] ELSE tree[q]

TopologyInv ==
  /\ TopologyTypeOK /\ PhysClosed /\ Closed(tree)
  /\ updater # "scan" => toBuild = {}
  /\ updater = "idle" => connected = NoDevices /\ disconnected = {}
  /\ updater = "scan" /\ Steady => buslist = Listing[buses]
  /\ updater \in {"scan", "disconnect"} =>
       WalkInv /\ (Steady => ScanInv /\ MistakenTwins)
  /\ updater = "attach" => AttachInv
  /\ updater \in {"idle", "fire"} /\ Steady /\ ~ mistaken => tree = PluggedIn
================================================================================
