------------------------ MODULE MCExpectationManager ------------------------
(***************************************************************************)
(* Instances of ExpectationManager for TLC.                                *)
(***************************************************************************)
EXTENDS ExpectationManager, TLC

CONSTANTS e1, w1

NoLinks == [e \in Exp |-> {}]
=============================================================================
