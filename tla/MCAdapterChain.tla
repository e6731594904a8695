--------------------------- MODULE MCAdapterChain ---------------------------
(* Instances of AdapterChain. *)
EXTENDS AdapterChain
=============================================================================
