---------------------------- MODULE MCHttpProxy ----------------------------
(* Instances of HttpProxy.                                                   *)
EXTENDS HttpProxy
=============================================================================
