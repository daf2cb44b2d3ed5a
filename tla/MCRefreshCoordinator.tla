------------------------ MODULE MCRefreshCoordinator ------------------------
(***************************************************************************)
(* Instances of RefreshCoordinator for TLC: a hub with a device that only  *)
(* its site shows and one that is only bound, or with a site that lists    *)
(* two devices and none that is bound.                                     *)
(***************************************************************************)
EXTENDS RefreshCoordinator

CONSTANTS d1, d2

OneListed == <<d1>>
TwoListed == <<d1, d2>>
=============================================================================
