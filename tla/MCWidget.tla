------------------------------ MODULE MCWidget ------------------------------
(* The two integrations are reconciled in a fixed order: no symmetry there. *)
EXTENDS WidgetController
=============================================================================
