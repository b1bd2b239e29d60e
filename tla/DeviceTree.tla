------------------------------- MODULE DeviceTree -------------------------------
(***************************************************************************)
(* What an application may rely on about the tree of UsbDevices that       *)
(* UsbServices.getRootUsbHub leads to, whatever the bus does: a device     *)
(* leaves together with everything below it, comes only to a free port of  *)
(* a hub that is there, and never changes into another in one step, unless *)
(* the implementation has taken one of two equal devices for the other.    *)
(***************************************************************************)
CONSTANTS
  Places,      \* every port that can have a device
  RootPlaces,  \* ports of the root hub
  Parent,      \* Parent[q]: where the hub that has port q is plugged in
  Kinds,       \* the kinds of device
  Hubs,        \* those kinds that are hubs
  Empty        \* no device

VARIABLES
  tree,        \* the device attached at every place
  mistaken     \* the last update took a device for another that equals it

\* Every device is on a port of a hub of the tree.
Rooted(t) ==
  /\ t \in [Places -> Kinds \cup {Empty}]
  /\ \A q \in Places \ RootPlaces : t[q] # Empty => t[Parent[q]] \in Hubs

NoneAttached == tree = [q \in Places |-> Empty]

\* UsbDevice.disconnect: devices go, and with a hub all that is below it.
Depart ==
  /\ Rooted(tree')
  /\ \A q \in Places : tree'[q] \in {tree[q], Empty}

\* Devices are attached, and those that are there stay as they are.
Arrive ==
  /\ Rooted(tree')
  /\ \A q \in Places : tree[q] # Empty => tree'[q] = tree[q]

\* Devices are attached to ports that are taken.
Displace == mistaken /\ Rooted(tree')

TreeChanges == NoneAttached /\ [][Depart \/ Arrive \/ Displace]_tree
================================================================================
