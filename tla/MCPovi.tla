------------------------------- MODULE MCPovi -------------------------------
(* An instance of module Povi for the model checker. *)
EXTENDS Povi

SmallFiles == {<< >>, <<"x">>, <<"i", NL, NL>>}

=============================================================================
