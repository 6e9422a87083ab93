---------------------------- MODULE MCAppServer ----------------------------
(* AppServer on a small instance, with the inductive invariant its theorems   *)
(* rest on.                                                                  *)
EXTENDS AppServerProofs
=============================================================================
