----------------------------- MODULE MCBehavior -----------------------------
(***************************************************************************)
(* The behaviour engine for TLC.  Every MCBehavior_*.cfg gives the         *)
(* CONSTANTS their values: how many actions one execution constructs,      *)
(* which event results arrive, with which priorities and inside which      *)
(* callbacks, and when the bot may be reset.                               *)
(***************************************************************************)
EXTENDS Behavior
=============================================================================
