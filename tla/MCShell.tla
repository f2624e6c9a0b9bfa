------------------------------ MODULE MCShell ------------------------------
(* Two organisations with a project each, and room for a third project.    *)
EXTENDS Shell

CONSTANTS home, other, mine, theirs, later
MCHad == mine :> home @@ theirs :> other @@ later :> None
=============================================================================
