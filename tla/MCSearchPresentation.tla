------------------------ MODULE MCSearchPresentation ------------------------
(* SearchPresentation for TLC: the constants are all the configurations     *)
(* set.                                                                     *)
EXTENDS SearchPresentation
=============================================================================
