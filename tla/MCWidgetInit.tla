---------------------------- MODULE MCWidgetInit ----------------------------
(* Values of DevCount for TLC: every row boundary up to four rows, and      *)
(* counts below zero on both sides of a multiple of four.                   *)
EXTENDS WidgetInit

SomeCounts == -9..17
SomeGarbage == {-7, 0, 3}
=============================================================================
