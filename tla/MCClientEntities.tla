--------------------------- MODULE MCClientEntities ---------------------------
(***************************************************************************)
(* The client entity manager for TLC: every callback may create and delete *)
(* entities, and listeners come and go.                                    *)
(***************************************************************************)
EXTENDS ClientEntities

Everything == Callbacks \X {"create", "delete", "listen"}
=============================================================================
