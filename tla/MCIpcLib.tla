------------------------------ MODULE MCIpcLib ------------------------------
(* IpcLib for TLC. *)
EXTENDS IpcLib

ASSUME Programs == ProgramsFit
=============================================================================
