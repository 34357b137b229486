---------------------------- MODULE MCLinuxEvents ----------------------------
(* TLC instances of LinuxEvents. *)
EXTENDS LinuxEvents

CONSTANTS task, p1, p2

OneCaller  == {p1}
TwoCallers == {p1, p2}
=============================================================================
