--------------------------- MODULE MCLinuxPipeOsImp ---------------------------
(***************************************************************************)
(* Small instances of LinuxPipeOsImp for TLC.                              *)
(***************************************************************************)
EXTENDS LinuxPipeOsImp, TLC
PipeSymmetry == Permutations(PipeRequests) \cup Permutations(Urbs) \cup Permutations(Clients)
================================================================================
