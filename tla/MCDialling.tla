----------------------------- MODULE MCDialling -----------------------------
(***************************************************************************)
(* Instances of Dialling for TLC, and what the documents say of the        *)
(* daemons that they do not do.                                            *)
(***************************************************************************)
EXTENDS Dialling

CONSTANT Connections

MCConns == 1 .. Connections

-----------------------------------------------------------------------------
(* README.md:67 and PLAN.html:584: two running daemons find each other and *)
(* connect, and connect again when the connection was lost.                *)
Reconnects ==
    (\A n \in Nodes : ActiveOn(n) = {}) ~> (\E n \in Nodes : ActiveOn(n) # {})
=============================================================================
