------------------------------- MODULE MCPage -------------------------------
(* Three runs, so that a third may overlap a second that overlaps a first; *)
(* one walk over any of their results, at one height or two.               *)
EXTENDS Page
=============================================================================
