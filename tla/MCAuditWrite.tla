---------------------------- MODULE MCAuditWrite ----------------------------
(* Instances of AuditWrite for TLC. *)
EXTENDS AuditWrite
=============================================================================
