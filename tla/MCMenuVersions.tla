--------------------------- MODULE MCMenuVersions ---------------------------
(* Two publishers and one customer over four versions. *)
EXTENDS MenuVersions, TLC

CONSTANTS p1, p2, c1

const_Publishers == { p1, p2 }
const_Customers  == { c1 }
=============================================================================
