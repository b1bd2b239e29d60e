-------------------------- MODULE MCLinuxRequestProxy --------------------------
(***************************************************************************)
(* Small instances of LinuxRequestProxy for TLC.                           *)
(***************************************************************************)
EXTENDS LinuxRequestProxy, TLC
Symmetry == Permutations(PipeRequests) \cup Permutations(Urbs) \cup Permutations(Clients)
            \cup Permutations(Proxies)
================================================================================
