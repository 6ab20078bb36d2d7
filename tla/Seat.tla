-------------------------------- MODULE Seat --------------------------------
(* What the components of a seat have in common: the clients it serves, and  *)
(* the absence of a focus, a grab or an object (None of Option).             *)
CONSTANTS Client, None

ASSUME SeatConstants == None \notin Client
=============================================================================
