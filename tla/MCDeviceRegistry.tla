-------------------------- MODULE MCDeviceRegistry ---------------------------
(* Instances of DeviceRegistry for TLC: both WebApps on one of the devices *)
(* compete for its lock.                                                   *)
EXTENDS DeviceRegistry, TLC

CONSTANTS d1, p1, p2

BothOnOne == (p1 :> d1) @@ (p2 :> d1)

Symmetry == Permutations(Client) \cup Permutations(App) \cup Permutations(AppHost)
=============================================================================
