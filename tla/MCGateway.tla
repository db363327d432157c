------------------------------- MODULE MCGateway -------------------------------
(* Gateway on a small instance: one client asks for videos, one for images.   *)
EXTENDS Gateway
=============================================================================
