---------------------------- MODULE MCController ----------------------------
(* Model values for checking Controller with TLC. *)
EXTENDS ControllerInv, TLC

CONSTANTS b1, b2, p1, s1

MCBroker == {b1, b2}
MCPublisher == {p1}
MCSubscriber == {s1}
BrokerSymmetry == Permutations(MCBroker)

=============================================================================
