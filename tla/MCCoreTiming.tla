---------------------------- MODULE MCCoreTiming ----------------------------
(***************************************************************************)
(* Constants of CoreTiming that a configuration file cannot write down: a  *)
(* late callback schedules its next event in the past.  The other threads  *)
(* are interchangeable, and no property tells them apart.                  *)
(***************************************************************************)
EXTENDS CoreTiming, TLC

PastAndFuture == {-1, 2, 5}

OtherThreads == Permutations(Others)

=============================================================================
