---------------------------- MODULE MCRemoteTable ----------------------------
(* RemoteTable on a small instance: two servers, a client that uses the    *)
(* table and another that also moves it and stops servers.                 *)
EXTENDS RemoteTableProofs, TLC

CONSTANTS user, operator

Using     == {"search", "into"}
WhoCalls  == user :> Using @@ operator :> AllKinds \ Using
HowOften  == user :> 2 @@ operator :> 1
=============================================================================
