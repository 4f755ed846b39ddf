---------------------------- MODULE MCFrontEnds ----------------------------
(***************************************************************************)
(* Every request, with every fault of the output and of the transport.     *)
(***************************************************************************)
EXTENDS FrontEnds
=============================================================================
