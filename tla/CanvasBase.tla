------------------------------ MODULE CanvasBase ------------------------------
(* What the surfaces of the canvas have in common.                         *)
EXTENDS Naturals, ClientBase

CONSTANT MaxMoves    \* what the user or the server does of itself, per surface

ASSUME CanvasAssumption == MaxMoves \in Nat
=============================================================================
