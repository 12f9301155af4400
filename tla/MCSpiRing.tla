------------------------------ MODULE MCSpiRing ------------------------------
(***************************************************************************)
(* SpiRing for TLC: a whole frame of two cells and a spoilt one of a single *)
(* cell, which looks like a header; with headers and trailers five and four *)
(* cells in a ring whose size is no multiple of either, so that they lie    *)
(* across its end.                                                         *)
(***************************************************************************)
EXTENDS SpiRing

TwoFrames == {<<Header>>, <<2, Trailer>>}
=============================================================================
