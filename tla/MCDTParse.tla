------------------------------- MODULE MCDTParse -------------------------------
(***************************************************************************)
(* Small instances of DTParse: up to three nodes and two properties, every *)
(* buffer size up to past the largest tree they can make, the limits of    *)
(* the header scaled down to 2.                                            *)
(***************************************************************************)
EXTENDS DTParse

MCSize == 0..106
=============================================================================
