---------------------------- MODULE MCDVDThread -----------------------------
(* A small instance of DVDThread for TLC.                                   *)
EXTENDS DVDThread

(* A state after a race is checked but not followed: of what comes after    *)
(* it, only the type invariant says anything.                               *)
NotRaced == ~ raced

=============================================================================
