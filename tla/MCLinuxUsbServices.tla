--------------------------- MODULE MCLinuxUsbServices ---------------------------
(***************************************************************************)
(* A small instance of LinuxUsbServices for TLC: one bus, with a port for  *)
(* a device below the one on it if there is a port 1.                      *)
(***************************************************************************)
EXTENDS LinuxUsbServices
MCUp == [p \in Ports \ {0} |-> 0]
================================================================================
