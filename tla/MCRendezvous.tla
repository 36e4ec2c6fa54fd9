----------------------------- MODULE MCRendezvous -----------------------------
(* Small instances of the rendezvous server: h1 and h2 are connections of  *)
(* hosts, v is a viewer's connection.                                      *)
EXTENDS Rendezvous, TLC

CONSTANTS h1, h2, v, desk, k1, k2

\* One host that reconnects, or two clients that claim one id.
SameDevice == h1 :> {desk} @@ h2 :> {desk} @@ v :> {}

\* One host and two viewers.
OneHost == h1 :> {desk} @@ h2 :> {} @@ v :> {}

AllSigned == h1 :> k1 @@ h2 :> k1 @@ v :> k2

OneShard == [d \in Devices |-> 1]

\* The host registers twice, as SignalClient does.
HostTwice == h1 :> 2 @@ h2 :> 1 @@ v :> 1
Once == [c \in Conns |-> 1]
=============================================================================
