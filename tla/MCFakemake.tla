---------------------------- MODULE MCFakemake ----------------------------
(* Instances of Fakemake for TLC: a program of two .c files and a header. *)
EXTENDS Fakemake

CONSTANTS c1, c2, h

Line(key, names) == [key |-> key, names |-> names]
C == Line("C", <<c1, c2>>)
H == Line("H", <<h>>)
E == Line("E", <<"prog">>)

Program == <<C, H, E>>
\* One source less, in lines of another order.
OneSource == <<E, H, Line("C", <<c2>>), Line("C", <<>>)>>
NoExecutable == <<C, H>>
TwoExecutables == <<C, E, H, E>>

Descriptions == {Program, OneSource, NoExecutable, TwoExecutables}
OneDescription == {Program}
============================================================================
