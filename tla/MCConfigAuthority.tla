---------------------------- MODULE MCConfigAuthority --------------------------
(* An instance of ConfigAuthority for TLC. *)
EXTENDS ConfigAuthority

BothKinds == <<"assets", "ems">>

================================================================================
