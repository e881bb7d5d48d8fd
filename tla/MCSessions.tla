----------------------------- MODULE MCSessions -----------------------------
(* A small instance of Sessions: which tab makes which call.               *)
EXTENDS Sessions, TLC
CONSTANTS b1, me1, poll1
MCOneTab == me1 :> b1 @@ poll1 :> b1

=============================================================================
