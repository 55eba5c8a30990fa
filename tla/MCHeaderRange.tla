---------------------------- MODULE MCHeaderRange ----------------------------
(* Five heights fetched by three lanes from a node whose tip moves between *)
(* 3, 4 and 6: below, inside and at the end of the range.                  *)
EXTENDS HeaderRange
CONSTANTS a, b
=============================================================================
