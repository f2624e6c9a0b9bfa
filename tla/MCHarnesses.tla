---------------------------- MODULE MCHarnesses ----------------------------
(* One run of each adapter; usage up to 3 in any steps, two tools queued. *)
EXTENDS Harnesses
=============================================================================
