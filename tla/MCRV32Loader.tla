--------------------------- MODULE MCRV32Loader ---------------------------
(***************************************************************************)
(* The loader has one main thread and starts the machine once; a second    *)
(* thread identity shows that it starts it no second time.                 *)
(***************************************************************************)
EXTENDS RV32Loader

MCClients == {Main}
=============================================================================
