--------------------------- MODULE MCLeaseContract ---------------------------
(* The instance of LeaseContract that TLC checks *)
EXTENDS LeaseContract
=============================================================================
