---------------------------- MODULE MCPermission ----------------------------
(***************************************************************************)
(* The instance of PermissionProtocol that TLC checks.                     *)
(***************************************************************************)
EXTENDS PermissionProtocol
=============================================================================
