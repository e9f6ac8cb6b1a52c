--------------------------- MODULE MCSendBracket ---------------------------
(***************************************************************************)
(* Instances of SendBracket for TLC: which conversation each send is for   *)
(* and what it says.                                                       *)
(***************************************************************************)
EXTENDS SendBracket

CONSTANTS t1, i1, i2, x1, x2

\* Every send is for the one conversation t1.
SameThread == [i \in Intent |-> t1]

\* Each send has words of its own.
OwnWords == [i \in Intent |-> IF i = i1 THEN x1 ELSE x2]
=============================================================================
