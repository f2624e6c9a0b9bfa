--------------------------- MODULE MCEnvironments ---------------------------
(* Two tools, two ports: a port exposed twice, and one beside another.    *)
EXTENDS Environments
=============================================================================
