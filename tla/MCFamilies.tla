----------------------------- MODULE MCFamilies -----------------------------
(***************************************************************************)
(* Instances of Families for TLC: the four slugs and five selections of    *)
(* the code, families of both sizes the process table can and cannot hold. *)
(***************************************************************************)
EXTENDS Families

MCPids == 1 .. 5

MCRoot == 1

\* Codes 50, 1 and 6.
MCNumbers == {49, 50, 255}

MCSizes == [slugrace   |-> {4},
            generation |-> {3, 7},
            prolific   |-> {10},
            explorer   |-> {5}]
=============================================================================
