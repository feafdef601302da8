------------------------------ MODULE MCLeaser ------------------------------
(***************************************************************************)
(* An instance of module Leaser for TLC: leases of a legacy code, a code   *)
(* that may replace it, another of the same release that may not because   *)
(* of its storage, and void.                                               *)
(***************************************************************************)
EXTENDS Leaser

Lease(version, storage, id) ==
    [name |-> "lease", version |-> version, storage |-> storage,
     release |-> [software |-> id, protocol |-> id]]

MCCodes == {"old", "new", "other", "void"}

MCPackage ==
    [c \in MCCodes |->
        CASE c = "old"   -> Lease(<<0, 7, 6>>, 8, "r1")
          [] c = "new"   -> Lease(<<0, 8, 0>>, 8, "r2")
          [] c = "other" -> Lease(<<0, 8, 0>>, 9, "r2")
          [] c = "void"  -> Lease(<<0, 1, 0>>, 0, "r2")]

MCReleaseIds == {Package["new"].release, VOID}
=============================================================================
