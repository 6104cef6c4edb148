-------------------------- MODULE MCRequestBuilding --------------------------
(* RequestBuilding with a parameter called "type" and its aliases. *)
EXTENDS RequestBuilding

MCAliases == <<"_fcc_arg_type", "_fcc_arg_type_2", "_fcc_arg_type_3">>
=============================================================================
