---------------------------- MODULE MCFileTransfer ----------------------------
(* Three transfers: two of one session, one of another.                     *)
EXTENDS FileTransfer, TLC

CONSTANTS s1, s2, f1, f2, f3

Owner == f1 :> s1 @@ f2 :> s1 @@ f3 :> s2
=============================================================================
