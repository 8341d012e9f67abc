---------------------------- MODULE MCPresetHop -----------------------------
(* Small instances of PresetHop for TLC: every constant is given in the .cfg. *)
EXTENDS PresetHop
=============================================================================
