----------------------------- MODULE MCAuxHwDrv -----------------------------
(***************************************************************************)
(* A small instance of AuxHwDrv: 3 bit readings, a filter of two and a     *)
(* table of four entries at the uneven distances of a real one.  The input *)
(* range 1 .. 6 leaves readings outside it on both sides and is not a      *)
(* multiple of the number of intervals.  Both thresholds lie inside the    *)
(* table.                                                                  *)
(***************************************************************************)
EXTENDS AuxHwDrv

MCLut == <<-5, -1, 1, 6>>
=============================================================================
