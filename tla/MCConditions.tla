---------------------------- MODULE MCConditions ----------------------------
(***************************************************************************)
(* An instance of Conditions: three-bit registers, of which one holds an    *)
(* argument and one is printed by its name.                                 *)
(***************************************************************************)
EXTENDS Conditions

MCSources == {[kind |-> "register", of |-> r] : r \in Registers}
             \cup {[kind |-> "value", of |-> Value(n)] : n \in {0, 1, 4}}
=============================================================================
