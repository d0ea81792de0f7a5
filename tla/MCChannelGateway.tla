-------------------------- MODULE MCChannelGateway --------------------------
(* Model values for checking ChannelGateway. *)
EXTENDS ChannelGateway

CONSTANTS g1, g2, d1, hook, r1, r2

TwoGateways == {g1, g2}
OneDelivery == {d1}
\* A text that is too long, and a file.
LongWithFile == [d \in OneDelivery |-> {"head", "tail", "media"}]
OneEvent == {hook}
TwoRequests == {r1, r2}
=============================================================================
