-------------------------- MODULE TopologyUpdater_proofs --------------------------
(***************************************************************************)
(* Proofs about TopologyUpdater, for any number of buses, any ports behind *)
(* any hubs, and any kinds of device.                                      *)
(***************************************************************************)
EXTENDS TopologyUpdater, FiniteSetTheorems, WellFoundedInduction, TLAPS

(***************************************************************************)
(* Ports and places: what is above what, and what comes first.             *)
(***************************************************************************)
\* Above[p] is the least set of ports that has p and the port above every port.
LEMMA AboveLeast ==
  ASSUME NEW p \in Ports
  PROVE  /\ p \in Above[p] /\ Above[p] \subseteq Ports
         /\ \A x \in Above[p] \ {0} : Up[x] \in Above[p]
         /\ \A S \in SUBSET Ports :
              p \in S /\ (\A x \in S \ {0} : Up[x] \in S) => Above[p] \subseteq S
BY PortsAssumption DEF Above

\* The root port of a bus is above all of its ports: going up ends.
LEMMA AboveRoot ==
  ASSUME NEW p \in Ports
  PROVE  0 \in Above[p]
<1>. DEFINE Less == {s \in Nat \X Nat : s[1] < s[2]}
<1>1. IsWellFoundedOn(Less, Nat)
  BY NatLessThanWellFounded DEF OpToRel
<1>2. Above[p] \subseteq Nat /\ Above[p] # {}
  BY AboveLeast, PortsAssumption
<1>. HIDE DEF Less
<1>3. PICK x \in Above[p] : \A y \in Above[p] : <<y, x>> \notin Less
  BY <1>1, <1>2, WFMin
<1>4. x = 0
  <2>. SUFFICES ASSUME x # 0 PROVE FALSE
    OBVIOUS
  <2>1. Up[x] \in Above[p] /\ Up[x] < x
    BY AboveLeast, PortsAssumption
  <2>2. <<Up[x], x>> \in Less
    BY <1>2, <2>1 DEF Less
  <2>. QED BY <1>3, <2>1, <2>2
<1>. QED BY <1>4

\* Nothing above a port comes after it.
LEMMA AboveFirst ==
  ASSUME NEW p \in Ports, NEW x \in Above[p]
  PROVE  x <= p
<1>. DEFINE S == {y \in Ports : y <= p}
<1>1. ASSUME NEW y \in S \ {0} PROVE Up[y] \in S
  <2>1. y \in Ports \ {0} /\ y <= p /\ y \in Nat /\ p \in Nat
    BY PortsAssumption
  <2>2. Up[y] \in Ports /\ Up[y] < y /\ Up[y] \in Nat
    BY <2>1, PortsAssumption
  <2>. QED BY <2>1, <2>2
<1>2. p \in S /\ S \subseteq Ports
  BY PortsAssumption
<1>3. Above[p] \subseteq S
  <2>. HIDE DEF S
  <2>. QED BY <1>1, <1>2, AboveLeast
<1>. QED BY <1>3

\* Places are pairs of numbers.
LEMMA PlacesAreNumbers ==
  ASSUME NEW q \in Places
  PROVE  q[1] \in Slots /\ q[1] \in Int /\ q[2] \in Ports /\ q[2] \in Int /\ q = <<q[1], q[2]>>
<1>1. q[1] \in Slots /\ q[2] \in Ports /\ q = <<q[1], q[2]>>
  BY DEF Places
<1>2. Slots \subseteq Int
  BY BusesAssumption, FS_CardinalityType DEF Slots
<1>. QED BY <1>1, <1>2, PortsAssumption

\* The order of the walk is a total order.
LEMMA WalkOrder ==
  ASSUME NEW q \in Places, NEW r \in Places
  PROVE  /\ AtOrBefore(q, q)
         /\ AtOrBefore(q, r) \/ AtOrBefore(r, q)
         /\ AtOrBefore(q, r) /\ AtOrBefore(r, q) => q = r
         /\ \A x \in Places : AtOrBefore(q, r) /\ AtOrBefore(r, x) => AtOrBefore(q, x)
BY PlacesAreNumbers DEF AtOrBefore

\* The hub of a place that is not at the root hub comes before it.
LEMMA ParentFirst ==
  ASSUME NEW q \in Places \ RootPlaces
  PROVE  /\ Parent[q] \in Places /\ Parent[q] # q /\ AtOrBefore(Parent[q], q)
         /\ Parent[q] = <<q[1], Up[q[2]]>> /\ q[2] \in Ports \ {0}
<1>1. q[2] # 0
  BY PlacesAreNumbers DEF RootPlaces
<1>2. Up[q[2]] \in Ports /\ Up[q[2]] < q[2] /\ Up[q[2]] \in Int
  BY <1>1, PlacesAreNumbers, PortsAssumption
<1>3. Parent[q] = <<q[1], Up[q[2]]>>
  BY DEF Parent
<1>4. Parent[q] \in Places
  BY <1>2, <1>3, PlacesAreNumbers DEF Places
<1>. QED BY <1>1, <1>2, <1>3, <1>4, PlacesAreNumbers DEF AtOrBefore

\* The path of a place goes up to the root hub, and is the least that does.
LEMMA PathLeast ==
  ASSUME NEW q \in Places
  PROVE  /\ q \in Path[q] /\ Path[q] \subseteq Places
         /\ \A r \in Path[q] \ RootPlaces : Parent[r] \in Path[q]
         /\ \A S \in SUBSET Places :
              q \in S /\ (\A x \in S \ RootPlaces : Parent[x] \in S) => Path[q] \subseteq S
<1>. DEFINE s == q[1]
            p == q[2]
<1>1. p \in Ports /\ s \in Slots /\ q = <<s, p>>
  BY PlacesAreNumbers
<1>2. Path[q] = {<<s, x>> : x \in Above[p]}
  BY DEF Path
<1>. HIDE DEF s, p
<1>3. q \in Path[q] /\ Path[q] \subseteq Places
  BY <1>1, <1>2, AboveLeast DEF Places
<1>4. ASSUME NEW r \in Path[q] \ RootPlaces PROVE Parent[r] \in Path[q]
  <2>1. PICK x \in Above[p] : r = <<s, x>>
    BY <1>2, <1>4
  <2>2. Parent[r] = <<s, Up[x]>> /\ x \in Ports \ {0}
    BY <1>3, <1>4, <2>1, ParentFirst
  <2>. QED BY <1>1, <1>2, <2>1, <2>2, AboveLeast
<1>5. ASSUME NEW S \in SUBSET Places, q \in S, \A x \in S \ RootPlaces : Parent[x] \in S
      PROVE  Path[q] \subseteq S
  <2>. DEFINE T == {x \in Ports : <<s, x>> \in S}
  <2>1. p \in T
    BY <1>1, <1>5
  <2>2. ASSUME NEW x \in T \ {0} PROVE Up[x] \in T
    <3>1. <<s, x>> \in S \ RootPlaces
      BY <2>2 DEF RootPlaces
    <3>2. Parent[<<s, x>>] = <<s, Up[x]>> /\ Parent[<<s, x>>] \in S
      BY <1>5, <3>1, ParentFirst
    <3>3. Up[x] \in Ports
      BY <2>2, PortsAssumption
    <3>. QED BY <3>2, <3>3
  <2>3. Above[p] \subseteq T
    BY <1>1, <2>1, <2>2, AboveLeast
  <2>. QED BY <1>2, <2>3
<1>. QED BY <1>3, <1>4, <1>5

\* Nothing on the path comes after the place, and the root port is on it.
LEMMA PathFirst ==
  ASSUME NEW q \in Places
  PROVE  /\ \A r \in Path[q] : AtOrBefore(r, q)
         /\ <<q[1], 0>> \in Path[q]
<1>1. q[2] \in Ports /\ q[1] \in Int /\ Path[q] = {<<q[1], x>> : x \in Above[q[2]]}
  BY PlacesAreNumbers DEF Path
<1>2. ASSUME NEW r \in Path[q] PROVE AtOrBefore(r, q)
  <2>1. PICK x \in Above[q[2]] : r = <<q[1], x>>
    BY <1>1
  <2>2. x <= q[2]
    BY <1>1, AboveFirst
  <2>. QED BY <2>1, <2>2 DEF AtOrBefore
<1>. QED BY <1>1, <1>2, AboveRoot

\* The path of a place on the path is part of it.
LEMMA PathTransitive ==
  ASSUME NEW q \in Places, NEW r \in Path[q]
  PROVE  Path[r] \subseteq Path[q]
BY PathLeast

\* The path of a place is the place and the path of its hub.
LEMMA PathStep ==
  ASSUME NEW q \in Places
  PROVE  Path[q] = IF q \in RootPlaces THEN {q} ELSE {q} \cup Path[Parent[q]]
<1>1. CASE q \in RootPlaces
  <2>1. {q} \in SUBSET Places /\ \A x \in {q} \ RootPlaces : Parent[x] \in {q}
    BY <1>1
  <2>2. q \in Path[q] /\ Path[q] \subseteq {q}
    <3>. DEFINE S == {q}
    <3>1. S \in SUBSET Places /\ q \in S /\ \A x \in S \ RootPlaces : Parent[x] \in S
      BY <2>1
    <3>. HIDE DEF S
    <3>2. q \in Path[q] /\ Path[q] \subseteq S
      BY <3>1, PathLeast
    <3>. QED BY <3>2 DEF S
  <2>. QED BY <1>1, <2>2
<1>2. CASE q \notin RootPlaces
  <2>. DEFINE S == {q} \cup Path[Parent[q]]
  <2>1. Parent[q] \in Places /\ Parent[q] \in Path[q]
    BY <1>2, ParentFirst, PathLeast
  <2>2. S \in SUBSET Places /\ q \in S /\ \A x \in S \ RootPlaces : Parent[x] \in S
    BY <1>2, <2>1, PathLeast
  <2>3. Path[q] \subseteq S
    <3>. HIDE DEF S
    <3>. QED BY <2>2, PathLeast
  <2>4. S \subseteq Path[q]
    BY <2>1, PathTransitive, PathLeast
  <2>. QED BY <1>2, <2>3, <2>4
<1>. QED BY <1>1, <1>2

\* Who is behind a hub is behind one of its ports.
LEMMA PathPort ==
  ASSUME NEW q \in Places, NEW r \in Path[q], r # q
  PROVE  \E c \in Path[q] \ RootPlaces : Parent[c] = r
<1>. SUFFICES ASSUME \A c \in Path[q] \ RootPlaces : Parent[c] # r PROVE FALSE
  OBVIOUS
<1>. DEFINE S == Path[q] \ {r}
<1>1. S \subseteq Places /\ q \in S /\ \A x \in S \ RootPlaces : Parent[x] \in S
  BY PathLeast
<1>2. Path[q] \subseteq S
  BY <1>1, PathLeast
<1>. QED BY <1>2

\* In a tree without gaps, all that is above a device is there.
LEMMA PathOccupied ==
  ASSUME NEW t \in Devices, Closed(t), NEW q \in Places, t[q] # Empty
  PROVE  Path[q] \subseteq Occupied(t)
<1>1. ASSUME NEW x \in Occupied(t) \ RootPlaces PROVE Parent[x] \in Occupied(t)
  BY <1>1, ParentFirst, KindsAssumption DEF Closed, HasHub, Occupied
<1>2. q \in Occupied(t) /\ Occupied(t) \subseteq Places
  BY DEF Occupied
<1>. QED BY <1>1, <1>2, PathLeast

(***************************************************************************)
(* What is plugged in, in place and pending.                               *)
(***************************************************************************)
\* A slot has a bus or none.
LEMMA ListingType == Listing \in [SUBSET Buses -> [Slots -> Buses \cup {NoBus}]]
<1>1. ASSUME NEW B \in SUBSET Buses, NEW s \in Slots
      PROVE  Listing[B][s] \in Buses \cup {NoBus}
  <2>. DEFINE sth == {b \in B : Cardinality({c \in B : c <= b}) = s}
  <2>1. Listing[B][s] = IF sth = {} THEN NoBus ELSE CHOOSE b \in sth : TRUE
    BY DEF Listing
  <2>2. sth # {} => (CHOOSE b \in sth : TRUE) \in Buses
    BY <1>1
  <2>. QED BY <2>1, <2>2
<1>. DEFINE L(B) == [s \in Slots |->
              LET sth == {b \in B : Cardinality({c \in B : c <= b}) = s}
              IN  IF sth = {} THEN NoBus ELSE CHOOSE b \in sth : TRUE]
<1>2. Listing = [B \in SUBSET Buses |-> L(B)]
  BY DEF Listing
<1>3. ASSUME NEW B \in SUBSET Buses PROVE L(B) \in [Slots -> Buses \cup {NoBus}]
  <2>1. Listing[B] = L(B)
    BY <1>2
  <2>. QED BY <1>1, <2>1
<1>. HIDE DEF L
<1>. QED BY <1>2, <1>3

\* What is plugged in, by place.
LEMMA PluggedInType ==
  ASSUME TopologyTypeOK
  PROVE  PluggedIn \in Devices
<1>1. Listing[buses] \in [Slots -> Buses \cup {NoBus}]
  BY ListingType DEF TopologyTypeOK
<1>2. ASSUME NEW q \in Places PROVE Device(Listing[buses], q) \in Kinds \cup {Empty}
  BY <1>1, PlacesAreNumbers DEF Device, TopologyTypeOK
<1>. QED BY <1>2 DEF PluggedIn, Devices

\* It has no gaps.
LEMMA PluggedInClosed ==
  ASSUME TopologyTypeOK, PhysClosed
  PROVE  Closed(PluggedIn)
<1>. SUFFICES ASSUME NEW q \in Places \ RootPlaces, PluggedIn[q] # Empty
              PROVE  PluggedIn[Parent[q]] \in Hubs
  BY DEF Closed, HasHub, Occupied
<1>1. Listing[buses] \in [Slots -> Buses \cup {NoBus}] /\ q[1] \in Slots
  BY ListingType, PlacesAreNumbers DEF TopologyTypeOK
<1>2. Parent[q] \in Places /\ Parent[q] = <<q[1], Up[q[2]]>> /\ q[2] \in Ports \ {0}
  BY ParentFirst
<1>. DEFINE b == Listing[buses][q[1]]
<1>3. b # NoBus /\ phys[b][q[2]] # Empty
  BY DEF PluggedIn, Device
<1>4. b \in Buses
  BY <1>1, <1>3
<1>5. phys[b][Up[q[2]]] \in Hubs
  BY <1>2, <1>3, <1>4 DEF PhysClosed
<1>6. PluggedIn[Parent[q]] = phys[b][Up[q[2]]]
  BY <1>2, <1>3 DEF PluggedIn, Device
<1>. QED BY <1>5, <1>6

\* Where no bus is listed, nothing is plugged in.
LEMMA NoBusNoDevice ==
  ASSUME NEW q \in Places, PluggedIn[q] # Empty
  PROVE  Listing[buses][q[1]] # NoBus
BY DEF PluggedIn, Device

\* A device is in place if it is what is plugged in and its hub is in place.
LEMMA InPlaceStep ==
  ASSUME NEW q \in Places
  PROVE  /\ InPlace(q) <=> /\ tree[q] # Empty /\ tree[q] = PluggedIn[q]
                           /\ q \notin RootPlaces => InPlace(Parent[q])
         /\ InPlace(q) => \A r \in Path[q] : InPlace(r)
<1>1. CASE q \in RootPlaces
  <2>1. Path[q] = {q}
    BY <1>1, PathStep
  <2>. QED BY <1>1, <2>1 DEF InPlace
<1>2. CASE q \notin RootPlaces
  <2>1. Path[q] = {q} \cup Path[Parent[q]]
    BY <1>2, PathStep
  <2>2. InPlace(q) => \A r \in Path[q] : InPlace(r)
    BY PathTransitive DEF InPlace
  <2>. QED BY <1>2, <2>1, <2>2 DEF InPlace
<1>. QED BY <1>1, <1>2

\* What is certain is in place, and what equals it and comes before is certain.
LEMMA CertainBefore ==
  ASSUME NEW q \in Occupied(tree), Certain(q)
  PROVE  /\ InPlace(q)
         /\ \A r \in Occupied(tree) : tree[r] = tree[q] /\ AtOrBefore(r, q) => Certain(r)
<1>1. Occupied(tree) \subseteq Places
  BY DEF Occupied
<1>. QED BY <1>1, WalkOrder DEF Certain

\* What is behind something pending is pending.
LEMMA PendingPath ==
  ASSUME NEW q \in Places, NEW r \in Path[q], Pending(r)
  PROVE  Pending(q)
BY PathTransitive DEF Pending

(***************************************************************************)
(* The invariant.                                                          *)
(***************************************************************************)
LEMMA InvInit == TopologyInit => TopologyInv
<1>. SUFFICES ASSUME TopologyInit PROVE TopologyInv
  OBVIOUS
<1>. USE DEF TopologyInit
<1>1. TopologyTypeOK
  <2>1. phys \in [Buses -> [Ports -> Kinds \cup {Empty}]]
    OBVIOUS
  <2>2. NoDevices \in Devices /\ NoBuses \in [Slots -> Buses \cup {NoBus}]
    BY DEF Devices, NoDevices, NoBuses
  <2>3. queue \in 0 .. MaxQueue
    BY QueueAssumption
  <2>. QED BY <2>1, <2>2, <2>3 DEF TopologyTypeOK
<1>2. PluggedIn = NoDevices
  <2>1. Listing[buses] \in [Slots -> Buses \cup {NoBus}]
    BY <1>1, ListingType DEF TopologyTypeOK
  <2>2. \A q \in Places : Device(Listing[buses], q) = Empty
    BY <2>1, PlacesAreNumbers DEF Device
  <2>. QED BY <2>2 DEF PluggedIn, NoDevices
<1>3. PhysClosed /\ Closed(tree)
  BY DEF PhysClosed, Closed, Occupied, NoDevices
<1>. QED BY <1>1, <1>2, <1>3 DEF TopologyInv

\* A change that the updater does not see leaves alone what must hold when all is
\* not steady.
LEMMA UnsteadyInv ==
  ASSUME TopologyInv, TopologyTypeOK', PhysClosed', ~ Steady',
         UNCHANGED <<updater, scanVars, tree>>
  PROVE  TopologyInv'
<1>1. Closed(tree)'
  BY DEF TopologyInv, Closed, HasHub, Occupied
<1>2. updater \in {"scan", "disconnect"} => WalkInv'
  BY DEF TopologyInv, WalkInv, OnHub, New, Pending, Occupied, scanVars, listVars
<1>3. updater = "attach" => AttachInv'
  BY DEF TopologyInv, AttachInv, Arrives, OnHub, New, Occupied, scanVars, listVars
<1>. QED BY <1>1, <1>2, <1>3 DEF TopologyInv, scanVars, listVars

LEMMA KernelInv ==
  ASSUME TopologyInv, Kernel
  PROVE  TopologyInv'
<1>. USE DEF TopologyInv, Changed, scanVars, listVars
<1>1. PICK b \in Buses : \/ BusComes(b) \/ BusGoes(b)
                         \/ \E p \in Ports : Unplug(b, p) \/ \E k \in Kinds : Plug(b, p, k)
  BY DEF Kernel
<1>2. Changed
  BY <1>1 DEF BusComes, BusGoes, Unplug, Plug
<1>3. ~ Steady'
  BY <1>2 DEF Steady
<1>4. TopologyTypeOK' /\ PhysClosed'
  <2>. USE DEF TopologyTypeOK, PhysClosed
  <2>1. CASE BusComes(b)
    BY <2>1 DEF BusComes
  <2>2. CASE BusGoes(b)
    BY <2>2, PortsAssumption DEF BusGoes
  <2>3. ASSUME NEW p \in Ports, Unplug(b, p) PROVE TopologyTypeOK' /\ PhysClosed'
    <3>1. TopologyTypeOK'
      BY <2>3 DEF Unplug
    <3>2. phys' = [phys EXCEPT ![b] = [phys[b] EXCEPT ![p] = Empty]]
      BY <2>3 DEF Unplug
    <3>3. ASSUME NEW c \in Buses, NEW r \in Ports, phys'[c][r] # Empty
          PROVE  IF r = 0 THEN c \in buses' ELSE phys'[c][Up[r]] \in Hubs
      <4>1. phys[c][r] # Empty /\ (c = b => r # p) /\ buses' = buses
        BY <2>3, <3>2, <3>3 DEF Unplug
      <4>2. r # 0 /\ c = b => Up[r] # p
        BY <2>3, <4>1 DEF Unplug
      <4>. QED BY <3>2, <4>1, <4>2, PortsAssumption
    <3>. QED BY <3>1, <3>3
  <2>4. ASSUME NEW p \in Ports, NEW k \in Kinds, Plug(b, p, k) PROVE TopologyTypeOK' /\ PhysClosed'
    <3>1. TopologyTypeOK'
      BY <2>4 DEF Plug
    <3>2. phys' = [phys EXCEPT ![b] = [phys[b] EXCEPT ![p] = k]]
      BY <2>4 DEF Plug
    <3>3. ASSUME NEW c \in Buses, NEW r \in Ports, phys'[c][r] # Empty
          PROVE  IF r = 0 THEN c \in buses' ELSE phys'[c][Up[r]] \in Hubs
      <4>1. buses' = buses /\ phys[b][p] = Empty
        BY <2>4 DEF Plug
      <4>2. CASE c = b /\ r = p
        BY <2>4, <3>2, <4>1, <4>2, PortsAssumption DEF Plug
      <4>3. CASE ~ (c = b /\ r = p)
        <5>1. phys[c][r] # Empty
          BY <3>2, <3>3, <4>3
        <5>. QED BY <3>2, <4>1, <5>1, PortsAssumption, KindsAssumption
      <4>. QED BY <4>2, <4>3
    <3>. QED BY <3>1, <3>3
  <2>. QED BY <1>1, <2>1, <2>2, <2>3, <2>4
<1>. QED BY <1>2, <1>3, <1>4, UnsteadyInv

LEMMA ListenerInv ==
  ASSUME TopologyInv, Opened \/ topologyChange
  PROVE  TopologyInv'
<1>1. queue' \in 0 .. MaxQueue /\ (event' \/ queue' # 0) /\ event' \in BOOLEAN
  <2>1. queue \in 0 .. MaxQueue
    BY DEF TopologyInv, TopologyTypeOK
  <2>2. CASE Opened
    BY <2>1, <2>2 DEF Opened
  <2>3. CASE topologyChange
    <3>1. queue < MaxQueue /\ queue' = queue + 1 /\ event' = FALSE
      BY <2>3 DEF topologyChange
    <3>2. queue + 1 \in 0 .. MaxQueue /\ queue + 1 # 0
      BY <2>1, <3>1, QueueAssumption
    <3>. QED BY <3>1, <3>2, Zenon
  <2>. QED BY <2>2, <2>3
<1>2. UNCHANGED <<kernelVars, updater, updateResult, scanVars, tree>>
  BY DEF Opened, topologyChange
<1>3. TopologyTypeOK' /\ ~ Steady'
  BY <1>1, <1>2 DEF TopologyInv, TopologyTypeOK, Steady, kernelVars, scanVars, listVars
<1>4. PhysClosed'
  BY <1>2 DEF TopologyInv, PhysClosed, kernelVars
<1>. QED BY <1>2, <1>3, <1>4, UnsteadyInv

\* The types that a step of the updater keeps.
LEMMA UpdaterFrame ==
  ASSUME TopologyTypeOK, PhysClosed, kernelVars' = kernelVars
  PROVE  PhysClosed' /\ PluggedIn' = PluggedIn
BY DEF PhysClosed, PluggedIn, Device, kernelVars

\* An update begins: all devices are taken for disconnected, and what is plugged in
\* is behind a bus that the updater has still to come to.
LEMMA UpdateBegins ==
  ASSUME TopologyInv, updateTopology
  PROVE  TopologyInv'
<1>. USE DEF updateTopology, UpdaterGoes
<1>1. TopologyTypeOK /\ PhysClosed /\ Closed(tree) /\ updater = "idle" /\ toBuild = {}
  BY DEF TopologyInv
<1>2. /\ disconnected' = Occupied(tree) /\ connected' = NoDevices /\ mistaken' = FALSE
      /\ kernelVars' = kernelVars /\ tree' = tree /\ event' = event
      /\ queue > 0 /\ queue' = queue - 1
  OBVIOUS
<1>3. PhysClosed' /\ PluggedIn' = PluggedIn /\ Closed(tree)' /\ Occupied(tree)' = Occupied(tree)
  BY <1>1, <1>2, UpdaterFrame DEF Closed, HasHub, Occupied
<1>4. TopologyTypeOK'
  <2>1. queue' \in 0 .. MaxQueue
    <3>1. queue \in 0 .. MaxQueue
      BY <1>1 DEF TopologyTypeOK
    <3>. QED BY <1>2, <3>1, QueueAssumption
  <2>2. NoDevices \in Devices /\ Occupied(tree) \subseteq Places /\ RootPlaces \subseteq Places
    BY PortsAssumption DEF Devices, NoDevices, Occupied, RootPlaces, Places
  <2>3. Listing[buses] \in [Slots -> Buses \cup {NoBus}]
    BY <1>1, ListingType DEF TopologyTypeOK
  <2>4. toBuild' \subseteq Places /\ buslist' \in [Slots -> Buses \cup {NoBus}]
        /\ updater' \in {"scan", "disconnect"} /\ updateResult' \in {0, Error} /\ unread' \in BOOLEAN
    BY <1>1, <2>2, <2>3 DEF TopologyTypeOK
  <2>. QED BY <1>1, <1>2, <2>1, <2>2, <2>4 DEF TopologyTypeOK, kernelVars
<1>5. \A q \in Places : ~ New(q)'
  BY <1>2 DEF New, NoDevices
<1>6. ASSUME NEW q \in toBuild' PROVE q \in RootPlaces /\ q \in Places
  BY <1>1, <1>4 DEF TopologyTypeOK
<1>7. WalkInv'
  <2>1. \A q \in toBuild' : Path[q] = {q}
    BY <1>6, PathStep
  <2>2. \A q \in Places : tree'[q] # Empty => q \in disconnected'
    BY <1>2 DEF Occupied
  <2>3. \A q \in toBuild' : OnHub(q)' /\ \A r \in Path[q] : r \in toBuild' => r = q
    BY <1>6, <2>1 DEF OnHub
  <2>4. disconnected' \subseteq Occupied(tree)'
    BY <1>2, <1>3
  <2>. QED BY <1>5, <2>2, <2>3, <2>4 DEF WalkInv
<1>8. CASE updater' = "disconnect"
  BY <1>1, <1>3, <1>4, <1>7, <1>8 DEF TopologyInv, Steady
<1>9. CASE updater' = "scan"
  <2>1. /\ buslist' = Listing[buses]
        /\ toBuild' = {q \in RootPlaces : buslist'[q[1]] # NoBus}
    BY <1>9
  <2>2. ASSUME NEW q \in Places, PluggedIn[q] # Empty PROVE Pending(q)'
    <3>1. Listing[buses][q[1]] # NoBus
      BY <2>2, NoBusNoDevice
    <3>2. <<q[1], 0>> \in Path[q] /\ <<q[1], 0>> \in RootPlaces
      BY PathFirst, PlacesAreNumbers DEF RootPlaces
    <3>3. <<q[1], 0>> \in toBuild'
      BY <2>1, <3>1, <3>2
    <3>. QED BY <3>2, <3>3 DEF Pending
  <2>3. \A q \in Occupied(tree) : q \in Places /\ (InPlace(q)' => Pending(q)')
    <3>1. \A q \in Places : InPlace(q)' => tree[q] # Empty /\ tree[q] = PluggedIn[q]
      BY <1>2, <1>3, PathLeast DEF InPlace
    <3>. QED BY <2>2, <3>1 DEF Occupied
  <2>4. ASSUME NEW q \in Occupied(tree), Certain(q)' PROVE InPlace(q)'
    BY <1>2, <1>3, <2>3, <2>4, WalkOrder DEF Certain
  <2>5. ScanInv'
    <3>1. toBuild' \ RootPlaces = {}
      BY <2>1
    <3>2. \A q \in Places :
            connected'[q] = IF ~ InPlace(q)' /\ ~ Pending(q)' THEN PluggedIn'[q] ELSE Empty
      BY <1>2, <1>3, <2>2 DEF NoDevices
    <3>3. \A q \in Occupied(tree)' :
            /\ Certain(q)' => (q \in disconnected' <=> Pending(q)')
            /\ ~ mistaken' => (q \in disconnected' <=> Pending(q)' \/ ~ InPlace(q)')
      BY <1>2, <1>3, <2>3, <2>4
    <3>. QED BY <3>1, <3>2, <3>3 DEF ScanInv
  <2>6. MistakenTwins'
    BY <1>2 DEF MistakenTwins
  <2>. QED BY <1>2, <1>3, <1>4, <1>7, <1>9, <2>1, <2>5, <2>6 DEF TopologyInv, kernelVars
<1>. QED BY <1>8, <1>9

(***************************************************************************)
(* build_device: the walk is at its next place x.                          *)
(***************************************************************************)
Kids(x) == {r \in PortsOf(x) : Device(buslist, x) \in Hubs /\ Device(buslist, r) # Empty}
AtNext(x) == x \in toBuild /\ \A r \in toBuild : AtOrBefore(x, r)
Existing(x) == tree[x] = Device(buslist, x) /\ (x \in RootPlaces \/ ~ New(Parent[x]))

\* What building the device at x does, with a device that was there and without.
LEMMA BuiltCases ==
  ASSUME NEW x \in Places, Built(x)
  PROVE  /\ Device(buslist, x) # Empty /\ unread' = unread
         /\ toBuild' = (toBuild \ {x}) \cup Kids(x)
         /\ Existing(x) => /\ disconnected' = disconnected \ FirstEqual(tree[x])
                           /\ mistaken' = (mistaken \/ x \notin FirstEqual(tree[x]))
                           /\ connected' = connected
         /\ ~ Existing(x) => /\ connected' = [connected EXCEPT ![x] = Device(buslist, x)]
                             /\ disconnected' = disconnected /\ mistaken' = mistaken
BY DEF Built, checkUsbDeviceImp, Kids, Existing

\* A port of x is behind x, and after it.
LEMMA KidsBehind ==
  ASSUME NEW x \in Places, NEW r \in Kids(x)
  PROVE  /\ r \in Places \ RootPlaces /\ Parent[r] = x /\ r # x
         /\ x \in Path[r] /\ r \notin Path[x]
<1>1. r \in Places \ RootPlaces /\ Parent[r] = x
  BY DEF Kids, PortsOf
<1>2. r # x /\ AtOrBefore(x, r)
  BY <1>1, ParentFirst
<1>3. x \in Path[r]
  BY <1>1, PathLeast
<1>4. r \notin Path[x]
  BY <1>1, <1>2, PathFirst, WalkOrder
<1>. QED BY <1>1, <1>2, <1>3, <1>4

\* What was not pending is not, and x is not any more.
LEMMA BuiltPending ==
  ASSUME TopologyTypeOK, WalkInv, NEW x \in Places, x \in toBuild,
         toBuild' = (toBuild \ {x}) \cup Kids(x) \/ toBuild' = toBuild \ {x}
  PROVE  /\ Pending(x) /\ ~ Pending(x)'
         /\ \A q \in Places : Pending(q)' => Pending(q)
         /\ \A q \in Places : x \notin Path[q] => (Pending(q)' <=> Pending(q))
<1>1. Pending(x)
  BY PathLeast DEF Pending
<1>2. ~ Pending(x)'
  BY KidsBehind DEF Pending, WalkInv
<1>3. ASSUME NEW q \in Places, Pending(q)' PROVE Pending(q)
  <2>1. PICK r \in Path[q] : r \in toBuild'
    BY <1>3 DEF Pending
  <2>2. CASE r \in toBuild
    BY <2>1, <2>2 DEF Pending
  <2>3. CASE r \in Kids(x)
    <3>1. r \in Places /\ x \in Path[r]
      BY <2>3, KidsBehind
    <3>2. x \in Path[q]
      BY <2>1, <3>1, PathTransitive
    <3>. QED BY <1>1, <3>2, PendingPath
  <2>. QED BY <2>1, <2>2, <2>3
<1>4. ASSUME NEW q \in Places, x \notin Path[q], Pending(q) PROVE Pending(q)'
  BY <1>4 DEF Pending
<1>. QED BY <1>1, <1>2, <1>3, <1>4

\* A place that is new, or has still to be built, is on a hub that was found.
LEMMA BuiltWalk ==
  ASSUME TopologyTypeOK, WalkInv, NEW x \in Places, AtNext(x), tree' = tree, buslist' = buslist,
         Built(x) \/ NotBuilt(x)
  PROVE  WalkInv'
<1>. DEFINE k == Device(buslist, x)
<1>1. x \in toBuild /\ \A q \in toBuild : q \in Places
  BY DEF AtNext, TopologyTypeOK
<1>2. toBuild' = (toBuild \ {x}) \cup Kids(x) \/ toBuild' = toBuild \ {x}
  BY BuiltCases DEF NotBuilt
<1>3. /\ Pending(x) /\ ~ Pending(x)' /\ ~ New(x)
      /\ \A q \in Places : Pending(q)' => Pending(q)
  BY <1>1, <1>2, BuiltPending DEF WalkInv
<1>4. \/ connected' = connected
      \/ connected' = [connected EXCEPT ![x] = k] /\ k # Empty /\ ~ Existing(x)
         /\ disconnected' = disconnected /\ mistaken' = mistaken
         /\ toBuild' = (toBuild \ {x}) \cup Kids(x)
  BY BuiltCases DEF NotBuilt, listVars
<1>5. /\ x \in DOMAIN connected
      /\ \A q \in Places : q # x => (New(q)' <=> New(q)) /\ connected'[q] = connected[q]
  BY <1>4 DEF New, TopologyTypeOK, Devices
<1>6. disconnected' \subseteq Occupied(tree)'
  BY BuiltCases DEF WalkInv, Occupied, NotBuilt, listVars
\* What is on a hub stays on it, unless it is behind x.
<1>7. ASSUME NEW q \in Places, OnHub(q), q \notin RootPlaces => x \notin Path[Parent[q]]
      PROVE  OnHub(q)'
  <2>1. CASE q \in RootPlaces
    BY <2>1 DEF OnHub
  <2>2. CASE q \notin RootPlaces
    <3>1. Parent[q] \in Places /\ Path[Parent[q]] \subseteq Places /\ Parent[q] # x
      BY <1>7, <2>2, ParentFirst, PathLeast
    <3>2. \A r \in Path[Parent[q]] : New(r)' <=> New(r)
      BY <1>5, <1>7, <2>2, <3>1
    <3>. QED BY <1>5, <1>7, <2>2, <3>1, <3>2 DEF OnHub
  <2>. QED BY <2>1, <2>2
<1>8. ASSUME NEW q \in toBuild \ {x} PROVE x \notin Path[q]
  BY <1>1 DEF WalkInv
<1>9. ASSUME NEW q \in toBuild \ {x} PROVE OnHub(q)'
  <2>1. q \in Places /\ OnHub(q)
    BY <1>1 DEF WalkInv
  <2>2. q \notin RootPlaces => x \notin Path[Parent[q]]
    BY <1>8, <2>1, PathStep
  <2>. QED BY <1>7, <2>1, <2>2
<1>10. ASSUME NEW q \in Kids(x), toBuild' = (toBuild \ {x}) \cup Kids(x), Built(x) PROVE OnHub(q)'
  <2>1. q \in Places \ RootPlaces /\ Parent[q] = x /\ k \in Hubs
    BY KidsBehind DEF Kids
  <2>2. CASE Existing(x)
    <3>1. connected' = connected /\ ~ New(x)' /\ tree'[x] \in Hubs
      BY <1>3, <1>10, <2>1, <2>2, BuiltCases DEF Existing, New
    <3>2. \A r \in Path[x] : ~ New(r)
      <4>1. CASE x \in RootPlaces
        BY <1>3, <4>1, PathStep
      <4>2. CASE x \notin RootPlaces
        <5>1. \A r \in Path[Parent[x]] : ~ New(r)
          BY <1>1, <2>2, <4>2 DEF WalkInv, OnHub, Existing
        <5>. QED BY <1>3, <4>2, <5>1, PathStep
      <4>. QED BY <4>1, <4>2
    <3>. QED BY <2>1, <3>1, <3>2 DEF OnHub, New
  <2>3. CASE ~ Existing(x)
    <3>1. connected'[x] = k /\ New(x)'
      BY <1>5, <1>10, <2>3, BuiltCases DEF New
    <3>. QED BY <2>1, <3>1 DEF OnHub
  <2>. QED BY <2>2, <2>3
<1>11. ASSUME NEW q \in toBuild' PROVE OnHub(q)'
  <2>1. CASE q \in toBuild \ {x}
    BY <1>9, <2>1
  <2>2. CASE q \in Kids(x) /\ q \notin toBuild \ {x}
    BY <1>10, <1>11, <2>2, BuiltCases DEF NotBuilt
  <2>. QED BY <1>2, <2>1, <2>2
<1>12. ASSUME NEW q \in toBuild', NEW r \in Path[q], r \in toBuild' PROVE r = q
  <2>1. CASE q \in toBuild \ {x}
    <3>1. r \in Kids(x) => x \in Path[q]
      BY <1>1, <2>1, KidsBehind, PathTransitive
    <3>. QED BY <1>2, <1>8, <1>12, <2>1, <3>1 DEF WalkInv
  <2>2. CASE q \in Kids(x)
    <3>1. q \in Places \ RootPlaces /\ Path[q] = {q} \cup Path[x]
      BY <2>2, KidsBehind, PathStep
    <3>2. r \in Path[x] => r \notin Kids(x) /\ r \notin toBuild \ {x}
      BY <1>1, KidsBehind DEF WalkInv
    <3>. QED BY <1>2, <1>12, <3>1, <3>2
  <2>. QED BY <1>2, <2>1, <2>2
<1>13. ASSUME NEW q \in Places, New(q)' PROVE OnHub(q)' /\ ~ Pending(q)'
  <2>1. CASE q = x
    <3>1. OnHub(x)
      BY <1>1 DEF WalkInv
    <3>2. x \notin RootPlaces => x \notin Path[Parent[x]]
      BY ParentFirst, PathFirst, WalkOrder
    <3>. QED BY <1>3, <1>7, <2>1, <3>1, <3>2
  <2>2. CASE q # x
    <3>1. New(q) /\ OnHub(q) /\ ~ Pending(q)
      BY <1>5, <1>13, <2>2 DEF WalkInv
    <3>2. x \notin Path[q]
      BY <1>3, <3>1, PendingPath
    <3>3. q \notin RootPlaces => x \notin Path[Parent[q]]
      BY <3>2, PathStep
    <3>. QED BY <1>3, <1>7, <3>1, <3>3
  <2>. QED BY <2>1, <2>2
<1>14. ASSUME NEW q \in Places, ~ mistaken', tree'[q] # Empty, New(q)' \/ Pending(q)'
       PROVE  q \in disconnected'
  <2>1. ~ mistaken
    BY <1>14, BuiltCases DEF NotBuilt, listVars
  <2>2. New(q) \/ Pending(q)
    BY <1>3, <1>5, <1>14
  <2>3. q \in disconnected
    BY <1>14, <2>1, <2>2 DEF WalkInv
  <2>4. CASE disconnected' = disconnected
    BY <2>3, <2>4
  <2>5. CASE disconnected' # disconnected
    <3>1. Existing(x) /\ Built(x) /\ x \in FirstEqual(tree[x]) /\ connected' = connected
          /\ disconnected' = disconnected \ FirstEqual(tree[x])
      BY <1>14, <2>5, BuiltCases DEF NotBuilt, listVars
    <3>2. q \in FirstEqual(tree[x]) => q = x
      BY <3>1, WalkOrder DEF FirstEqual
    <3>3. q # x
      BY <1>3, <1>14, <3>1 DEF New
    <3>. QED BY <2>3, <3>1, <3>2, <3>3
  <2>. QED BY <2>4, <2>5
<1>. QED BY <1>6, <1>11, <1>12, <1>13, <1>14 DEF WalkInv

\* When nothing changes during the scan: what the walk does at x depends on whether
\* x is in place.
LEMMA ExistingInPlace ==
  ASSUME WalkInv, ScanInv, NEW x \in Places, x \in toBuild, buslist = Listing[buses],
         PluggedIn[x] # Empty
  PROVE  Existing(x) <=> InPlace(x)
<1>1. Device(buslist, x) = PluggedIn[x]
  BY DEF PluggedIn
<1>2. CASE x \in RootPlaces
  BY <1>1, <1>2, InPlaceStep DEF Existing
<1>3. CASE x \notin RootPlaces
  <2>1. Parent[x] \in Places /\ PluggedIn[Parent[x]] # Empty /\ ~ Pending(Parent[x])
    BY <1>3, ParentFirst, KindsAssumption DEF ScanInv
  <2>2. New(Parent[x]) <=> ~ InPlace(Parent[x])
    BY <2>1 DEF ScanInv, New
  <2>. QED BY <1>1, <1>3, <2>2, InPlaceStep DEF Existing
<1>. QED BY <1>2, <1>3

\* A device that is certain, or in no doubt at all, is first in the list of its
\* equals when the walk comes to it: those before it are behind it, or in place.
LEMMA FirstIsCertain ==
  ASSUME TopologyTypeOK, WalkInv, ScanInv, NEW x \in Places, AtNext(x), InPlace(x),
         NEW q \in Occupied(tree), Certain(q), q \in disconnected
  PROVE  q \in FirstEqual(tree[x]) <=> q = x
<1>1. x \in toBuild /\ Pending(x) /\ x \in Occupied(tree) /\ q \in Places
  BY PathLeast, InPlaceStep DEF AtNext, Pending, Occupied
\* What is pending and in the list is not before x.
<1>2. ASSUME NEW r \in Places, Pending(r) PROVE AtOrBefore(x, r)
  <2>1. PICK b \in Path[r] : b \in toBuild
    BY <1>2 DEF Pending
  <2>2. AtOrBefore(x, b) /\ AtOrBefore(b, r) /\ b \in Places
    BY <2>1, PathFirst, PathLeast DEF AtNext
  <2>. QED BY <2>2, WalkOrder
<1>3. AtOrBefore(x, q)
  BY <1>1, <1>2 DEF ScanInv
<1>4. CASE q = x
  <2>1. ASSUME NEW r \in disconnected, tree[r] = tree[x] PROVE AtOrBefore(x, r)
    <3>1. r \in Occupied(tree) /\ r \in Places
      BY DEF WalkInv, Occupied
    <3>2. AtOrBefore(r, x) => Certain(r)
      BY <1>4, <2>1, <3>1, CertainBefore
    <3>3. AtOrBefore(r, x) => Pending(r)
      BY <3>1, <3>2 DEF ScanInv
    <3>. QED BY <1>2, <3>1, <3>3, WalkOrder
  <2>. QED BY <1>4, <2>1 DEF FirstEqual
<1>5. CASE q # x
  <2>. SUFFICES ASSUME q \in FirstEqual(tree[x]) PROVE FALSE
    BY <1>5
  <2>1. tree[q] = tree[x]
    BY DEF FirstEqual
  <2>2. Certain(x)
    BY <1>1, <1>3, <2>1, CertainBefore
  <2>3. x \in disconnected
    BY <1>1, <2>2 DEF ScanInv
  <2>4. AtOrBefore(q, x)
    BY <2>3 DEF FirstEqual
  <2>. QED BY <1>1, <1>3, <1>5, <2>4, WalkOrder
<1>. QED BY <1>4, <1>5

\* The list of disconnected devices keeps what it should; an equal device was taken
\* for another only if it is one that is not in place.
LEMMA BuiltScan ==
  ASSUME TopologyTypeOK, PhysClosed, Closed(tree), WalkInv, ScanInv, MistakenTwins,
         NEW x \in Places, AtNext(x), buslist = Listing[buses], Built(x),
         tree' = tree, PluggedIn' = PluggedIn
  PROVE  ScanInv' /\ MistakenTwins'
<1>1. x \in toBuild /\ (\A q \in toBuild : q \in Places)
  BY DEF AtNext, TopologyTypeOK
<1>2. /\ PluggedIn[x] # Empty /\ Device(buslist, x) = PluggedIn[x]
      /\ toBuild' = (toBuild \ {x}) \cup Kids(x)
  BY BuiltCases DEF PluggedIn
<1>3. /\ Pending(x) /\ ~ Pending(x)'
      /\ \A q \in Places : Pending(q)' => Pending(q)
      /\ \A q \in Places : x \notin Path[q] => (Pending(q)' <=> Pending(q))
  BY <1>1, <1>2, BuiltPending
<1>4. Existing(x) <=> InPlace(x)
  BY <1>1, <1>2, ExistingInPlace
<1>5. PluggedIn \in Devices /\ Closed(PluggedIn)
  BY PluggedInType, PluggedInClosed
<1>6. \A q \in Places : InPlace(q)' <=> InPlace(q)
  BY DEF InPlace
<1>7. Occupied(tree)' = Occupied(tree) /\ \A q \in Occupied(tree) : q \in Places
  BY DEF Occupied
<1>8. \A q \in Occupied(tree) : Certain(q)' <=> Certain(q)
  BY <1>6, <1>7 DEF Certain
\* All that is plugged in behind x is still to be built.
<1>9. ASSUME NEW q \in Places, x \in Path[q], q # x
      PROVE  Pending(q) /\ (PluggedIn[q] # Empty => Pending(q)')
  <2>1. Pending(q)
    BY <1>3, <1>9, PendingPath
  <2>2. ASSUME PluggedIn[q] # Empty PROVE Pending(q)'
    <3>1. PICK c \in Path[q] \ RootPlaces : Parent[c] = x
      BY <1>9, PathPort
    <3>2. c \in Places /\ PluggedIn[c] # Empty
      BY <1>5, <2>2, <3>1, PathOccupied DEF Occupied
    <3>3. PluggedIn[x] \in Hubs
      BY <1>5, <3>1, <3>2 DEF Closed, HasHub, Occupied
    <3>4. c \in Kids(x)
      BY <1>2, <3>1, <3>2, <3>3 DEF Kids, PortsOf, PluggedIn
    <3>. QED BY <1>2, <3>1, <3>4 DEF Pending
  <2>. QED BY <2>1, <2>2
\* What is new.
<1>10. ASSUME NEW q \in Places
       PROVE  connected'[q] = IF ~ InPlace(q) /\ ~ Pending(q)' THEN PluggedIn[q] ELSE Empty
  <2>1. x \in DOMAIN connected /\ connected[q] = IF ~ InPlace(q) /\ ~ Pending(q) THEN PluggedIn[q] ELSE Empty
    BY DEF ScanInv, TopologyTypeOK, Devices
  <2>2. CASE q = x
    BY <1>2, <1>3, <1>4, <2>1, <2>2, BuiltCases
  <2>3. CASE q # x
    <3>1. connected'[q] = connected[q]
      <4>1. connected' = connected \/ connected' = [connected EXCEPT ![x] = Device(buslist, x)]
        BY BuiltCases
      <4>. QED BY <2>3, <4>1 DEF TopologyTypeOK, Devices
    <3>2. CASE x \in Path[q]
      BY <1>9, <2>1, <2>3, <3>1, <3>2
    <3>3. CASE x \notin Path[q]
      BY <1>3, <2>1, <3>1, <3>3
    <3>. QED BY <3>2, <3>3
  <2>. QED BY <2>2, <2>3
\* What the scan still has to come to is on a hub that it has come to.
<1>11. ASSUME NEW q \in toBuild' \ RootPlaces
       PROVE  PluggedIn[Parent[q]] \in Hubs /\ ~ Pending(Parent[q])'
  <2>1. CASE q \in toBuild
    BY <1>1, <1>3, <1>11, <2>1, ParentFirst DEF ScanInv
  <2>2. CASE q \in Kids(x)
    BY <1>2, <1>3, <2>2, KidsBehind DEF Kids
  <2>. QED BY <1>2, <2>1, <2>2
<1>12. ASSUME NEW q \in Occupied(tree), InPlace(q)
       PROVE  Pending(q)' <=> Pending(q) /\ q # x
  <2>1. PluggedIn[q] # Empty
    BY <1>7, <1>12, InPlaceStep
  <2>. QED BY <1>3, <1>7, <1>9, <2>1
\* The list, for what is certain.
<1>13. ASSUME NEW q \in Occupied(tree), Certain(q)
       PROVE  q \in disconnected' <=> Pending(q)'
  <2>1. InPlace(q) /\ q \in Places /\ (q \in disconnected <=> Pending(q))
    BY <1>7, <1>13, CertainBefore DEF ScanInv
  <2>2. CASE Existing(x)
    <3>1. q \in disconnected => (q \in FirstEqual(tree[x]) <=> q = x)
      BY <1>4, <1>13, <2>2, FirstIsCertain
    <3>. QED BY <1>3, <1>12, <2>1, <2>2, <3>1, BuiltCases
  <2>3. CASE ~ Existing(x)
    <3>1. q # x
      BY <1>4, <2>1, <2>3
    <3>. QED BY <1>12, <2>1, <2>3, <3>1, BuiltCases
  <2>. QED BY <2>2, <2>3
\* The list, when no device was taken for another.
<1>14. ASSUME NEW q \in Occupied(tree), ~ mistaken'
       PROVE  q \in disconnected' <=> Pending(q)' \/ ~ InPlace(q)
  <2>1. ~ mistaken /\ (q \in disconnected <=> Pending(q) \/ ~ InPlace(q)) /\ q \in Places
    BY <1>7, <1>14, BuiltCases DEF ScanInv
  <2>2. CASE Existing(x)
    <3>1. x \in FirstEqual(tree[x]) /\ disconnected' = disconnected \ FirstEqual(tree[x])
      BY <1>14, <2>2, BuiltCases
    <3>2. FirstEqual(tree[x]) = {x}
      BY <3>1, WalkOrder DEF FirstEqual, TopologyTypeOK
    <3>. QED BY <1>4, <1>12, <2>1, <2>2, <3>1, <3>2
  <2>3. CASE ~ Existing(x)
    <3>1. ~ InPlace(x) /\ disconnected' = disconnected
      BY <1>4, <2>3, BuiltCases
    <3>. QED BY <1>12, <2>1, <3>1
  <2>. QED BY <2>2, <2>3
<1>15. ScanInv'
  BY <1>6, <1>7, <1>8, <1>10, <1>11, <1>13, <1>14 DEF ScanInv
<1>16. MistakenTwins'
  <2>1. CASE mistaken \/ ~ mistaken'
    BY <1>6, <1>7, <2>1 DEF MistakenTwins
  <2>2. CASE ~ mistaken /\ mistaken'
    <3>1. Existing(x) /\ x \notin FirstEqual(tree[x])
      BY <2>2, BuiltCases
    <3>2. InPlace(x) /\ x \in Occupied(tree)
      BY <1>4, <3>1, InPlaceStep DEF Occupied
    <3>3. x \in disconnected
      BY <1>3, <2>2, <3>2 DEF ScanInv
    <3>4. PICK r \in disconnected : tree[r] = tree[x] /\ ~ AtOrBefore(x, r)
      BY <3>1, <3>3 DEF FirstEqual
    <3>5. r \in Occupied(tree) /\ r \in Places
      BY <1>7 DEF WalkInv
    <3>6. AtOrBefore(r, x) /\ r # x
      BY <3>4, <3>5, WalkOrder
    <3>7. ~ Pending(r)
      <4>. SUFFICES ASSUME Pending(r) PROVE FALSE
        OBVIOUS
      <4>1. PICK b \in Path[r] : b \in toBuild
        BY DEF Pending
      <4>2. AtOrBefore(x, b) /\ AtOrBefore(b, r) /\ b \in Places
        BY <3>5, <4>1, PathFirst, PathLeast DEF AtNext
      <4>. QED BY <3>4, <3>5, <4>2, WalkOrder
    <3>8. ~ InPlace(r)
      BY <2>2, <3>5, <3>7 DEF ScanInv
    <3>. QED BY <1>6, <1>7, <3>2, <3>4, <3>5, <3>6, <3>8 DEF MistakenTwins
  <2>. QED BY <2>1, <2>2
<1>. QED BY <1>15, <1>16

\* What is gone is left out, and all that was behind it.
LEMMA GoneScan ==
  ASSUME TopologyTypeOK, PhysClosed, WalkInv, ScanInv, MistakenTwins,
         NEW x \in Places, AtNext(x), PluggedIn[x] = Empty, NotBuilt(x),
         tree' = tree, PluggedIn' = PluggedIn
  PROVE  ScanInv' /\ MistakenTwins'
<1>1. /\ x \in toBuild /\ (\A q \in toBuild : q \in Places)
      /\ toBuild' = toBuild \ {x} /\ UNCHANGED listVars
  BY DEF AtNext, TopologyTypeOK, NotBuilt
<1>2. /\ Pending(x)
      /\ \A q \in Places : Pending(q)' => Pending(q)
      /\ \A q \in Places : x \notin Path[q] => (Pending(q)' <=> Pending(q))
  BY <1>1, BuiltPending
<1>3. PluggedIn \in Devices /\ Closed(PluggedIn)
  BY PluggedInType, PluggedInClosed
<1>4. ASSUME NEW q \in Places, x \in Path[q]
      PROVE  Pending(q) /\ PluggedIn[q] = Empty /\ ~ InPlace(q)
  BY <1>2, <1>3, <1>4, PendingPath, PathOccupied, InPlaceStep DEF Occupied
<1>5. \A q \in Places : InPlace(q)' <=> InPlace(q)
  BY DEF InPlace
<1>6. Occupied(tree)' = Occupied(tree) /\ \A q \in Occupied(tree) : q \in Places
  BY DEF Occupied
<1>7. \A q \in Occupied(tree) : (Certain(q)' <=> Certain(q)) /\ (Certain(q) => InPlace(q))
  BY <1>5, <1>6, CertainBefore DEF Certain
<1>8. \A q \in Places :
        connected'[q] = IF ~ InPlace(q) /\ ~ Pending(q)' THEN PluggedIn[q] ELSE Empty
  BY <1>1, <1>2, <1>4 DEF ScanInv, listVars
<1>9. \A q \in toBuild' \ RootPlaces : PluggedIn[Parent[q]] \in Hubs /\ ~ Pending(Parent[q])'
  BY <1>1, <1>2, ParentFirst DEF ScanInv
<1>10. \A q \in Occupied(tree) :
         /\ Certain(q) => (q \in disconnected' <=> Pending(q)')
         /\ ~ mistaken' => (q \in disconnected' <=> Pending(q)' \/ ~ InPlace(q))
  BY <1>1, <1>2, <1>4, <1>6, <1>7 DEF ScanInv, listVars
<1>11. ScanInv'
  BY <1>5, <1>6, <1>7, <1>8, <1>9, <1>10 DEF ScanInv
<1>12. MistakenTwins'
  BY <1>1, <1>5, <1>6 DEF MistakenTwins, listVars
<1>. QED BY <1>11, <1>12

\* The updater builds, or leaves out, what the walk comes to next.
LEMMA BuildDeviceInv ==
  ASSUME TopologyInv, NEW x \in Places, build_device(x)
  PROVE  TopologyInv'
<1>1. /\ updater = "scan" /\ AtNext(x) /\ (Built(x) \/ NotBuilt(x))
      /\ UNCHANGED <<kernelVars, event, queue, updater, updateResult, buslist, tree>>
  BY DEF build_device, AtNext
<1>2. TopologyTypeOK /\ PhysClosed /\ Closed(tree) /\ WalkInv
  BY <1>1 DEF TopologyInv
<1>3. PhysClosed' /\ PluggedIn' = PluggedIn /\ Closed(tree)'
  BY <1>1, <1>2, UpdaterFrame DEF Closed, HasHub, Occupied
<1>4. TopologyTypeOK'
  <2>1. Built(x) => Device(buslist, x) \in Kinds
    BY <1>2, BuiltCases, PlacesAreNumbers DEF Device, TopologyTypeOK
  <2>2. connected' \in Devices
    BY <1>1, <1>2, <2>1, BuiltCases DEF TopologyTypeOK, Devices, NotBuilt, listVars
  <2>3. toBuild' \subseteq Places /\ disconnected' \subseteq Places
    <3>1. Kids(x) \subseteq Places
      BY KidsBehind
    <3>. QED BY <1>1, <1>2, <3>1, BuiltCases DEF TopologyTypeOK, NotBuilt, listVars
  <2>4. mistaken' \in BOOLEAN
    BY <1>1, <1>2, BuiltCases DEF TopologyTypeOK, NotBuilt, listVars
  <2>5. unread' \in BOOLEAN
    BY <1>1, <1>2, BuiltCases DEF TopologyTypeOK, NotBuilt
  <2>. QED BY <1>1, <1>2, <2>2, <2>3, <2>4, <2>5 DEF TopologyTypeOK, kernelVars
<1>5. WalkInv'
  BY <1>1, <1>2, BuiltWalk
<1>6. ASSUME Steady' PROVE buslist' = Listing[buses]' /\ ScanInv' /\ MistakenTwins'
  <2>1. unread = FALSE \/ ~ unread
    BY <1>1, <1>6, BuiltCases DEF Steady, NotBuilt
  <2>2. Steady
    BY <1>1, <1>6, <2>1 DEF Steady
  <2>3. buslist = Listing[buses] /\ ScanInv /\ MistakenTwins
    BY <1>1, <2>2 DEF TopologyInv
  <2>4. CASE Built(x)
    BY <1>1, <1>2, <1>3, <2>3, <2>4, BuiltScan DEF kernelVars
  <2>5. CASE NotBuilt(x)
    <3>1. PluggedIn[x] = Empty
      BY <1>6, <2>3, <2>5 DEF Steady, NotBuilt, PluggedIn
    <3>. QED BY <1>1, <1>2, <1>3, <2>3, <2>5, <3>1, GoneScan DEF kernelVars
  <2>. QED BY <1>1, <2>4, <2>5
<1>. QED BY <1>1, <1>3, <1>4, <1>5, <1>6 DEF TopologyInv

LEMMA ScanEndsInv ==
  ASSUME TopologyInv, ScanEnds
  PROVE  TopologyInv'
<1>1. /\ updater = "scan" /\ updater' = "disconnect" /\ updateResult' = 0 /\ buslist' = NoBuses
      /\ UNCHANGED <<kernelVars, event, queue, toBuild, unread, listVars, tree>> /\ toBuild = {}
  BY DEF ScanEnds, UpdaterGoes
<1>2. PhysClosed' /\ PluggedIn' = PluggedIn /\ Closed(tree)'
  BY <1>1, UpdaterFrame DEF TopologyInv, Closed, HasHub, Occupied
<1>3. TopologyTypeOK'
  BY <1>1 DEF TopologyInv, TopologyTypeOK, NoBuses, kernelVars, listVars
<1>4. WalkInv'
  BY <1>1 DEF TopologyInv, WalkInv, OnHub, New, Pending, Occupied, listVars
<1>5. \A q \in Places : InPlace(q)' <=> InPlace(q)
  BY <1>1, <1>2 DEF InPlace
<1>6. Steady' => ScanInv' /\ MistakenTwins'
  <2>. SUFFICES ASSUME Steady' PROVE ScanInv' /\ MistakenTwins'
    OBVIOUS
  <2>1. ScanInv /\ MistakenTwins
    BY <1>1 DEF TopologyInv, Steady
  <2>2. \A q \in Occupied(tree) : q \in Places /\ (Certain(q)' <=> Certain(q))
    BY <1>1, <1>5 DEF Certain, Occupied
  <2>3. ScanInv'
    BY <1>1, <1>2, <1>5, <2>1, <2>2 DEF ScanInv, Pending, Occupied, listVars
  <2>4. MistakenTwins'
    BY <1>1, <1>5, <2>1, <2>2 DEF MistakenTwins, Occupied, listVars
  <2>. QED BY <2>3, <2>4
<1>. QED BY <1>1, <1>2, <1>3, <1>4, <1>6 DEF TopologyInv

(***************************************************************************)
(* The two loops.                                                          *)
(***************************************************************************)
\* What a disconnected hub takes along leaves no gap.
LEMMA DisconnectInv ==
  ASSUME TopologyInv, disconnect
  PROVE  TopologyInv'
<1>1. /\ updater = "disconnect" /\ updater' = "attach"
      /\ tree' = [q \in Places |-> IF Cut(q) THEN Empty ELSE tree[q]]
      /\ UNCHANGED <<kernelVars, event, queue, updateResult, scanVars>>
  BY DEF disconnect, UpdaterGoes
<1>2. TopologyTypeOK /\ PhysClosed /\ Closed(tree) /\ WalkInv /\ toBuild = {}
  BY <1>1 DEF TopologyInv
<1>3. PhysClosed' /\ PluggedIn' = PluggedIn
  BY <1>1, <1>2, UpdaterFrame
<1>4. TopologyTypeOK'
  BY <1>1, <1>2 DEF TopologyTypeOK, Devices, kernelVars, scanVars, listVars
<1>5. \A q \in Places : tree'[q] = IF Cut(q) THEN Empty ELSE tree[q]
  BY <1>1
<1>6. \A q \in Places \ RootPlaces : ~ Cut(q) => ~ Cut(Parent[q])
  BY PathStep DEF Cut
<1>7. Closed(tree)'
  BY <1>2, <1>5, <1>6, ParentFirst DEF Closed, HasHub, Occupied
<1>8. /\ connected' = connected /\ disconnected' = disconnected /\ mistaken' = mistaken
      /\ \A q \in Places : New(q)' <=> New(q)
  BY <1>1 DEF scanVars, listVars, New
<1>9. ASSUME NEW q \in Places, Arrives(q)' PROVE OnHub(q)'
  <2>1. New(q) /\ OnHub(q) /\ \A r \in Path[q] : ~ New(r) => r \notin disconnected
    BY <1>2, <1>8, <1>9, PathLeast DEF Arrives, WalkInv
  <2>2. CASE q \in RootPlaces
    BY <2>2 DEF OnHub
  <2>3. CASE q \notin RootPlaces
    <3>1. Parent[q] \in Places /\ Path[Parent[q]] \subseteq Path[q] /\ Path[Parent[q]] \subseteq Places
      BY <2>3, ParentFirst, PathLeast, PathStep
    <3>2. CASE New(Parent[q])
      BY <1>8, <2>1, <2>3, <3>1, <3>2 DEF OnHub
    <3>3. CASE ~ New(Parent[q])
      <4>1. ~ Cut(Parent[q])
        BY <2>1, <2>3, <3>1, <3>3 DEF OnHub, Cut
      <4>. QED BY <1>5, <1>8, <2>1, <2>3, <3>1, <3>3, <4>1 DEF OnHub
    <3>. QED BY <3>2, <3>3
  <2>. QED BY <2>2, <2>3
<1>10. \A q \in Places : q \in disconnected => Cut(q)
  BY PathLeast DEF Cut
<1>11. Occupied(tree)' \cap disconnected' = {}
  BY <1>5, <1>8, <1>10 DEF Occupied
<1>12. ASSUME ~ mistaken', NEW q \in Occupied(tree)' PROVE ~ New(q)'
  <2>1. q \in Places /\ tree[q] # Empty /\ q \notin disconnected
    BY <1>5, <1>10, <1>12 DEF Occupied
  <2>. QED BY <1>2, <1>8, <1>12, <2>1 DEF WalkInv
<1>13. ASSUME Steady', ~ mistaken', NEW q \in Places
       PROVE  PluggedIn'[q] = IF New(q)' THEN connected'[q] ELSE tree'[q]
  <2>1. ScanInv
    BY <1>1, <1>13 DEF TopologyInv, Steady, scanVars
  <2>2. ~ Pending(q) /\ \A r \in Places : ~ Pending(r)
    BY <1>2 DEF Pending
  <2>3. connected[q] = IF ~ InPlace(q) THEN PluggedIn[q] ELSE Empty
    BY <2>1, <2>2 DEF ScanInv
  <2>4. \A r \in Occupied(tree) : r \in Places /\ (r \in disconnected <=> ~ InPlace(r))
    BY <1>8, <1>13, <2>1, <2>2 DEF ScanInv, Occupied
  <2>5. CASE InPlace(q)
    <3>1. \A r \in Path[q] : InPlace(r) /\ r \in Places /\ tree[r] # Empty
      BY <2>5, InPlaceStep, PathLeast
    <3>2. ~ Cut(q)
      BY <2>4, <3>1 DEF Cut, Occupied
    <3>. QED BY <1>3, <1>5, <1>8, <2>3, <2>5, <3>2, InPlaceStep DEF New
  <2>6. CASE ~ InPlace(q)
    <3>1. tree'[q] = Empty
      BY <1>5, <1>10, <2>4, <2>6 DEF Occupied
    <3>. QED BY <1>3, <1>8, <2>3, <2>6, <3>1 DEF New
  <2>. QED BY <2>5, <2>6
<1>14. AttachInv'
  BY <1>9, <1>11, <1>12, <1>13 DEF AttachInv
<1>. QED BY <1>1, <1>2, <1>3, <1>4, <1>7, <1>14 DEF TopologyInv, scanVars

\* What arrives finds its hub in the tree, and what it displaces takes along what was
\* behind it.
LEMMA AttachStep ==
  ASSUME TopologyInv, attachUsbDeviceImp
  PROVE  TopologyInv'
<1>1. /\ updater = "attach" /\ updater' = "fire"
      /\ tree' = [q \in Places |-> IF Arrives(q) THEN connected[q]
                                   ELSE IF \E r \in Path[q] : New(r) THEN Empty ELSE tree[q]]
      /\ UNCHANGED <<kernelVars, event, queue, updateResult, scanVars>>
  BY DEF attachUsbDeviceImp, UpdaterGoes
<1>2. TopologyTypeOK /\ PhysClosed /\ Closed(tree) /\ AttachInv /\ toBuild = {}
  BY <1>1 DEF TopologyInv
<1>3. PhysClosed' /\ PluggedIn' = PluggedIn
  BY <1>1, <1>2, UpdaterFrame
<1>4. TopologyTypeOK'
  BY <1>1, <1>2 DEF TopologyTypeOK, Devices, kernelVars, scanVars, listVars
<1>5. \A q \in Places : tree'[q] = IF Arrives(q) THEN connected[q]
                                   ELSE IF \E r \in Path[q] : New(r) THEN Empty ELSE tree[q]
  BY <1>1
<1>6. ASSUME NEW q \in Places \ RootPlaces, tree'[q] # Empty PROVE tree'[Parent[q]] \in Hubs
  <2>1. Parent[q] \in Places /\ Path[Parent[q]] \subseteq Path[q] /\ Parent[q] \in Path[Parent[q]]
    BY ParentFirst, PathLeast, PathStep
  <2>2. CASE Arrives(q) /\ New(Parent[q])
    <3>1. Arrives(Parent[q])
      BY <2>1, <2>2 DEF Arrives
    <3>. QED BY <1>2, <1>5, <2>1, <2>2, <3>1 DEF AttachInv, OnHub
  <2>3. CASE Arrives(q) /\ ~ New(Parent[q])
    <3>1. tree[Parent[q]] \in Hubs /\ \A r \in Path[Parent[q]] : ~ New(r)
      BY <1>2, <2>3 DEF AttachInv, OnHub
    <3>2. ~ Arrives(Parent[q])
      BY <2>3 DEF Arrives
    <3>. QED BY <1>5, <2>1, <3>1, <3>2
  <2>4. CASE ~ Arrives(q)
    <3>1. tree[q] # Empty /\ \A r \in Path[q] : ~ New(r)
      BY <1>5, <1>6, <2>4
    <3>2. tree[Parent[q]] \in Hubs
      BY <1>2, <3>1 DEF Closed, HasHub, Occupied
    <3>3. ~ Arrives(Parent[q])
      BY <2>1, <3>1 DEF Arrives
    <3>. QED BY <1>5, <2>1, <3>1, <3>2, <3>3
  <2>. QED BY <2>2, <2>3, <2>4
<1>7. Closed(tree)'
  BY <1>6 DEF Closed, HasHub, Occupied
<1>8. ASSUME Steady', ~ mistaken', NEW q \in Places PROVE tree'[q] = PluggedIn[q]
  <2>1. \A r \in Places : PluggedIn[r] = IF New(r) THEN connected[r] ELSE tree[r]
    BY <1>1, <1>2, <1>8 DEF AttachInv, Steady, scanVars, listVars
  <2>2. \A r \in Occupied(tree) : r \notin disconnected /\ ~ New(r)
    BY <1>1, <1>2, <1>8 DEF AttachInv, scanVars, listVars
  <2>3. PluggedIn \in Devices /\ Closed(PluggedIn) /\ tree \in Devices
    BY <1>2, PluggedInType, PluggedInClosed DEF TopologyTypeOK
  <2>4. CASE New(q)
    <3>1. PluggedIn[q] = connected[q] /\ PluggedIn[q] # Empty
      BY <2>1, <2>4 DEF New
    <3>2. Path[q] \subseteq Occupied(PluggedIn)
      BY <2>3, <3>1, PathOccupied
    <3>3. Arrives(q)
      BY <2>1, <2>2, <2>4, <3>2 DEF Arrives, Occupied
    <3>. QED BY <1>5, <3>1, <3>3
  <2>5. CASE ~ New(q)
    <3>1. ~ Arrives(q) /\ PluggedIn[q] = tree[q]
      BY <2>1, <2>5 DEF Arrives
    <3>2. tree[q] # Empty => \A r \in Path[q] : ~ New(r)
      BY <1>2, <2>2, <2>3, PathOccupied
    <3>. QED BY <1>5, <3>1, <3>2
  <2>. QED BY <2>4, <2>5
<1>9. Steady' /\ ~ mistaken' => tree' = PluggedIn'
  BY <1>1, <1>3, <1>8 DEF PluggedIn
<1>. QED BY <1>1, <1>2, <1>3, <1>4, <1>7, <1>9 DEF TopologyInv, scanVars

LEMMA UpdateEndsInv ==
  ASSUME TopologyInv, UpdateEnds
  PROVE  TopologyInv'
<1>1. /\ updater = "fire" /\ updater' = "idle" /\ connected' = NoDevices /\ disconnected' = {}
      /\ UNCHANGED <<kernelVars, event, queue, updateResult, buslist, toBuild, unread, mistaken, tree>>
  BY DEF UpdateEnds, UpdaterGoes
<1>2. PhysClosed' /\ PluggedIn' = PluggedIn /\ Closed(tree)'
  BY <1>1, UpdaterFrame DEF TopologyInv, Closed, HasHub, Occupied
<1>3. TopologyTypeOK'
  BY <1>1 DEF TopologyInv, TopologyTypeOK, Devices, NoDevices, kernelVars
<1>. QED BY <1>1, <1>2, <1>3 DEF TopologyInv, Steady

LEMMA InvNext == TopologyInv /\ [TopologyNext]_topologyVars => TopologyInv'
<1>. SUFFICES ASSUME TopologyInv, [TopologyNext]_topologyVars PROVE TopologyInv'
  OBVIOUS
<1>1. CASE UNCHANGED topologyVars
  <2>1. UNCHANGED <<buses, phys, event, queue, updater, updateResult, buslist, toBuild, unread,
                    connected, disconnected, mistaken, tree>>
    BY <1>1 DEF topologyVars, kernelVars, scanVars, listVars
  <2>2. TopologyTypeOK' /\ PhysClosed' /\ Closed(tree)' /\ PluggedIn' = PluggedIn /\ Listing[buses]' = Listing[buses]
    BY <2>1 DEF TopologyInv, TopologyTypeOK, PhysClosed, Closed, HasHub, Occupied, PluggedIn, Device
  <2>3. WalkInv => WalkInv'
    BY <2>1 DEF WalkInv, OnHub, New, Pending, Occupied
  <2>4. \A q \in Places : InPlace(q)' <=> InPlace(q)
    BY <2>1, <2>2 DEF InPlace
  <2>5. Occupied(tree)' = Occupied(tree) /\ \A q \in Occupied(tree) : q \in Places
    BY <2>1 DEF Occupied
  <2>6. \A q \in Occupied(tree) : Certain(q)' <=> Certain(q)
    BY <2>1, <2>4, <2>5 DEF Certain
  <2>7. (ScanInv => ScanInv') /\ (MistakenTwins => MistakenTwins')
    BY <2>1, <2>2, <2>4, <2>5, <2>6 DEF ScanInv, MistakenTwins, Pending
  <2>8. (Steady' <=> Steady) /\ (AttachInv => AttachInv')
    BY <2>1, <2>2 DEF AttachInv, Arrives, OnHub, New, Occupied, Steady
  <2>. QED BY <2>1, <2>2, <2>3, <2>7, <2>8 DEF TopologyInv
<1>2. CASE \E q \in Places : build_device(q)
  BY <1>2, BuildDeviceInv
<1>. QED BY <1>1, <1>2, KernelInv, ListenerInv, UpdateBegins, ScanEndsInv, DisconnectInv,
     AttachStep, UpdateEndsInv DEF TopologyNext, UpdaterStep

\* The whole invariant of an update, from which the others follow.
THEOREM TopologyInvariance == TopologySpec => []TopologyInv
BY InvInit, InvNext, PTL DEF TopologySpec

\* The variables have the values they should.
THEOREM TopologyTypeCorrect == TopologySpec => []TopologyTypeOK
<1>1. TopologyInv => TopologyTypeOK
  BY DEF TopologyInv
<1>. QED BY <1>1, TopologyInvariance, PTL

\* The tree is what is plugged in, once an update has seen the last change, has read
\* all it found and has taken no device for another.
THEOREM MirroredHolds == TopologySpec => []Mirrored
<1>1. TopologyInv => Mirrored
  BY DEF TopologyInv, Mirrored
<1>. QED BY <1>1, TopologyInvariance, PTL

\* If nothing changed since the scan began, a device was taken for another only if
\* the tree has its equal before it, and that one is not in place.
MistakesHaveTwins ==
  Steady /\ updater \in {"scan", "disconnect"} => MistakenTwins

THEOREM MistakesHaveTwinsHolds == TopologySpec => []MistakesHaveTwins
<1>1. TopologyInv => MistakesHaveTwins
  BY DEF TopologyInv, MistakesHaveTwins
<1>. QED BY <1>1, TopologyInvariance, PTL

\* A device that is certain, and whose hubs all are, stays in the tree when an update
\* sees no change, whatever else it disconnects.
THEOREM UndisturbedDevicesHolds == TopologySpec => UndisturbedDevices
<1>1. ASSUME TopologyInv, disconnect, Steady, NEW q \in Occupied(tree), tree'[q] = Empty
      PROVE  \E r \in Path[q] : ~ Certain(r)
  <2>1. /\ updater = "disconnect" /\ q \in Places /\ tree[q] # Empty
        /\ tree'[q] = IF Cut(q) THEN Empty ELSE tree[q]
    BY <1>1 DEF disconnect, UpdaterGoes, Occupied
  <2>2. WalkInv /\ ScanInv /\ toBuild = {}
    BY <1>1, <2>1 DEF TopologyInv
  <2>3. PICK r \in Path[q] : r \in disconnected
    BY <1>1, <2>1 DEF Cut
  <2>4. r \in Occupied(tree) /\ ~ Pending(r)
    BY <2>2, <2>3 DEF WalkInv, Pending
  <2>. QED BY <2>2, <2>3, <2>4 DEF ScanInv
<1>2. TopologyInv /\ [TopologyNext]_topologyVars =>
        [disconnect /\ Steady =>
           \A q \in Occupied(tree) : tree'[q] = Empty => \E r \in Path[q] : ~ Certain(r)]_topologyVars
  BY <1>1
<1>. QED BY <1>2, TopologyInvariance, PTL DEF TopologySpec, UndisturbedDevices

(***************************************************************************)
(* The tree that an application sees.                                      *)
(***************************************************************************)
LEMMA TreeRooted == TopologyTypeOK /\ Closed(tree) => PromisedTree!Rooted(tree)
BY DEF TopologyTypeOK, Devices, Closed, HasHub, Occupied, PromisedTree!Rooted

\* The tree changes only in the two loops.
LEMMA TreeStep ==
  ASSUME TopologyNext, ~ disconnect, ~ attachUsbDeviceImp
  PROVE  tree' = tree
BY DEF TopologyNext, Kernel, BusComes, BusGoes, Unplug, Plug, Changed, Opened, topologyChange,
   UpdaterStep, updateTopology, build_device, ScanEnds, UpdateEnds

\* The first loop only takes devices away.
LEMMA DisconnectDeparts ==
  ASSUME TopologyInv, TopologyInv', disconnect
  PROVE  PromisedTree!Depart
<1>1. PromisedTree!Rooted(tree)'
  BY TreeRooted DEF TopologyInv, TopologyTypeOK, Devices, Closed, HasHub, Occupied, PromisedTree!Rooted
<1>2. \A q \in Places : tree'[q] \in {tree[q], Empty}
  BY DEF disconnect
<1>. QED BY <1>1, <1>2 DEF PromisedTree!Depart, PromisedTree!Rooted

\* The second only adds devices, if none was taken for another: then a port that is
\* attached to is free, and nothing is attached above a device that stays.
LEMMA AttachArrives ==
  ASSUME TopologyInv, TopologyInv', attachUsbDeviceImp
  PROVE  PromisedTree!Arrive \/ PromisedTree!Displace
<1>1. PromisedTree!Rooted(tree)'
  BY DEF TopologyInv, TopologyTypeOK, Devices, Closed, HasHub, Occupied, PromisedTree!Rooted
<1>2. CASE mistaken
  BY <1>1, <1>2 DEF PromisedTree!Displace, PromisedTree!Rooted
<1>3. CASE ~ mistaken
  <2>1. AttachInv /\ tree \in Devices /\ Closed(tree)
    BY DEF TopologyInv, TopologyTypeOK, attachUsbDeviceImp, UpdaterGoes
  <2>2. ASSUME NEW q \in Places, tree[q] # Empty PROVE tree'[q] = tree[q]
    <3>1. Path[q] \subseteq Occupied(tree) /\ q \in Path[q]
      BY <2>1, <2>2, PathOccupied, PathLeast
    <3>2. \A r \in Path[q] : ~ New(r)
      BY <1>3, <2>1, <3>1 DEF AttachInv
    <3>3. ~ Arrives(q)
      BY <3>1, <3>2 DEF Arrives
    <3>. QED BY <3>2, <3>3 DEF attachUsbDeviceImp
  <2>. QED BY <1>1, <2>2 DEF PromisedTree!Arrive, PromisedTree!Rooted
<1>. QED BY <1>2, <1>3

\* TopologyUpdater implements DeviceTree.
THEOREM DeviceTreeRefinement == TopologySpec => ImplementsDeviceTree
<1>1. TopologyInit => PromisedTree!NoneAttached
  BY DEF TopologyInit, NoDevices, PromisedTree!NoneAttached
<1>2. TopologyInv /\ TopologyInv' /\ [TopologyNext]_topologyVars =>
        [PromisedTree!Depart \/ PromisedTree!Arrive \/ PromisedTree!Displace]_tree
  BY TreeStep, DisconnectDeparts, AttachArrives DEF topologyVars
<1>. QED BY <1>1, <1>2, TopologyInvariance, PTL
     DEF TopologySpec, ImplementsDeviceTree, PromisedTree!TreeChanges
==================================================================================
