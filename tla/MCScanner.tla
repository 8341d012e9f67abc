----------------------------- MODULE MCScanner ------------------------------
(* Small instances of Scanner for TLC. *)
EXTENDS Scanner

CONSTANTS p1, p2, p3

SweepOnly == {<<p1, p2>>}
SweepThree == {<<p1, p2, p3>>}
=============================================================================
