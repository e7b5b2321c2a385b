----------------------------- MODULE MCSnapshot -----------------------------
(***************************************************************************)
(* Instances of Snapshot for TLC.                                          *)
(***************************************************************************)
EXTENDS Snapshot

KeepOne == [mode |-> "on", retention |-> 1, source |-> NoSource]

KeepTwo == [mode |-> "on", retention |-> 2, source |-> NoSource]

OnlyOn == {"on"}

AllModes == Mode
=============================================================================
