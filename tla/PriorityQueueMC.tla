-------------------------- MODULE PriorityQueueMC --------------------------
(***************************************************************************)
(* Instances of PriorityQueue for TLC.                                     *)
(***************************************************************************)
EXTENDS PriorityQueue

CONSTANTS p, f, g

\* One call that is never shed and two of one tier that is; one of each kind.
TwoFlex         == (p :> "priority") @@ (f :> "flex") @@ (g :> "flex")
PriorityAndFlex == (p :> "priority") @@ (f :> "flex")
=============================================================================
