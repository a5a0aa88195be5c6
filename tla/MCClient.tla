------------------------------ MODULE MCClient ------------------------------
(* The instance of AjaxClient: two tabs with two requests each. *)
EXTENDS AjaxClient
=============================================================================
