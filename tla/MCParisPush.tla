---------------------------- MODULE MCParisPush ----------------------------
(* Instances of ParisPush for TLC: the constants are numbers and truth     *)
(* values, given in the configurations.                                    *)
EXTENDS ParisPush
=============================================================================
