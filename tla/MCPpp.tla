------------------------------- MODULE MCPpp --------------------------------
(* Small instances of Ppp for TLC.                                          *)
EXTENDS Ppp

RefusesNothing == {}
RefusesChap == {"chap"}
=============================================================================
