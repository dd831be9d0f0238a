------------------------------ MODULE MCRunWaits ------------------------------
(***************************************************************************)
(* Small instances of RunWaits for TLC.                                    *)
(***************************************************************************)
EXTENDS RunWaits
=============================================================================
