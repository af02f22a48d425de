--------------------------- MODULE MCStampOutbox ----------------------------
(* Instances of StampOutbox for TLC. *)
EXTENDS StampOutbox
=============================================================================
