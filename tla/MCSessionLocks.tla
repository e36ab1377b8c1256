--------------------------- MODULE MCSessionLocks ---------------------------
(* Instance of SessionLocks: two tasks of one session and one of each of two *)
(* others, over a table of MaxLocks records.                                 *)
EXTENDS SessionLocks

MCSessions == { "s1", "s2", "s3" }
MCCalls == { "m1", "m2", "m3", "m4" }
MCSessionOf == [ c \in MCCalls |-> CASE c = "m3" -> "s2" [] c = "m4" -> "s3" [] OTHER -> "s1" ]
MCLocks == 1 .. 7
=============================================================================
