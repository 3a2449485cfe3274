---------------------------- MODULE MCGeminiChain ----------------------------
(***************************************************************************)
(* GeminiChain with the program's own limits.  Every request takes all of  *)
(* its time: no choice of shorter ones makes a call longer.                *)
(***************************************************************************)
EXTENDS GeminiChain

Slow == {RequestTimeout}

=============================================================================
