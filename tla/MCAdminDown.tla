----------------------------- MODULE MCAdminDown -----------------------------
(* The instances of AdminDown.  The setting is curated with every role, or *)
(* left empty.                                                             *)
EXTENDS AdminDown, TLC

AllOrNone == {{}, Roles}
=============================================================================
