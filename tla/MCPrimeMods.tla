---------------------------- MODULE MCPrimeMods ----------------------------
(***************************************************************************)
(* Tables of code changes for PrimeMods.  view is the shape of             *)
(* fov_modifier (ViewModifier.cpp), which is always on: in Metroid Prime   *)
(* its "culling" group begins with the first change, in Metroid Prime 2 it *)
(* comes after a change of no group.     noclip is out while the player    *)
(* has no control.                                                         *)
(***************************************************************************)
EXTENDS PrimeMods

CONSTANTS prime1, prime2, view, noclip

Change(a) == [address |-> a, grouped |-> FALSE]
GroupChange(a) == [address |-> a, grouped |-> TRUE]

ModTables ==
  [m \in {view, noclip} |-> [g \in {prime1, prime2} |->
     IF m = noclip THEN <<Change(1)>>
     ELSE IF g = prime1 THEN <<GroupChange(1)>>
                        ELSE <<Change(1), GroupChange(2)>>]]

OneChange == {[address |-> 2, var |-> prime1]}

(* A disturbed state is checked but not followed: of what comes after it,   *)
(* only the type invariant says anything.                                   *)
Undisturbed == ~ disturbed

=============================================================================
