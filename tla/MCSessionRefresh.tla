-------------------------- MODULE MCSessionRefresh --------------------------
(* A small instance of SessionRefresh for TLC.  Without symmetry, because  *)
(* one of its properties is a liveness property.                           *)
EXTENDS SessionRefresh
=============================================================================
