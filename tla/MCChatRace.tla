------------------------------ MODULE MCChatRace ------------------------------
(***************************************************************************)
(* TLC instances of Delegation: a verdict on the screen while the gate may *)
(* record its next one, and cards of steps that have no target.            *)
(***************************************************************************)
EXTENDS Delegation, DelegationScenarios

MCPasts == {AtGate}
MCTwoCards == {[TwoCards EXCEPT !.wanted = Delegate({"ajuste-pontual"}), !.new = 6]}
=============================================================================
