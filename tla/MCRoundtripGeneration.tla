------------------------- MODULE MCRoundtripGeneration -------------------------
(***************************************************************************)
(* Three rows and three workers of one row each, in a group of two and one  *)
(* of one.                                                                  *)
(***************************************************************************)
EXTENDS RoundtripGeneration
=============================================================================
