---------------------------- MODULE MCHandshake ----------------------------
(* Instances of the connection set-up for TLC. *)
EXTENDS Handshake, TLC

CONSTANTS h1, h2, h3

\* Two hosts that both call connect: they are interchangeable.
TwoHosts == {h1, h2}
BothWays == {<< h1, h2 >>, << h2, h1 >>}
Swap == Permutations(TwoHosts)

\* Bound: what happens while more datagrams are in flight is not explored.
MaxInFlight == 2
FewInFlight == Cardinality(net) <= MaxInFlight

\* Only one of them does.
ThereOnly == {<< h1, h2 >>}

\* A server with two clients, one of which serves the other.
ThreeHosts == {h1, h2, h3}
OneWay == {<< h1, h3 >>, << h2, h3 >>, << h1, h2 >>}
=============================================================================
