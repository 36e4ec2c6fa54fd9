---------------------------- MODULE MCRelayServer ----------------------------
(* A small instance of the relay: host h and viewer v hold token 1; a second *)
(* host g holds token 2.                                                     *)
EXTENDS RelayServer, TLC

CONSTANTS h, v, g

TokenOf3 == h :> 1 @@ v :> 1 @@ g :> 2
RoleOf3 == h :> "host" @@ v :> "viewer" @@ g :> "host"
Frames3 == h :> 2 @@ v :> 1 @@ g :> 0
=============================================================================
