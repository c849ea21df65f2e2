------------------------------ MODULE MCAddon ------------------------------
(* Instance of AddonLifecycle for TLC.                                     *)
EXTENDS AddonLifecycle

CONSTANTS c1, c2
=============================================================================
