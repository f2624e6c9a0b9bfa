------------------------------ MODULE ClientBase ------------------------------
(* What the models of the browser's parts have in common.                  *)

CONSTANT None    \* null
=============================================================================
