------------------------------ MODULE MCNetPlay -----------------------------
(* A small instance of NetPlay for TLC.                                     *)
EXTENDS NetPlay

(* A state after a message overtook a start is checked but not followed: of *)
(* what comes after it, only the type invariant says anything.              *)
NotOvertaken == ~overtaken

=============================================================================
