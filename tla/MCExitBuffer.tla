---------------------------- MODULE MCExitBuffer -----------------------------
(***************************************************************************)
(* Small instances of ExitBuffer.                                          *)
(***************************************************************************)
EXTENDS ExitBuffer, TLC
=============================================================================
