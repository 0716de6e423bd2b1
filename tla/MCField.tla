------------------------------- MODULE MCField -------------------------------
(***************************************************************************)
(* A small instance of Field for TLC.                                      *)
(***************************************************************************)
EXTENDS Field

(* OthersAreLetIn says something for a PLC that may stay silent, CyclesEnd *)
(* for one that does not.                                                  *)
Setup(f, a, answers) == [family |-> f, abi |-> a, answers |-> answers]
MCSetups ==
    {Setup("fenet", "v4", FALSE), Setup("melsec", "v4", TRUE), Setup("fenet", "v3", FALSE)}

(* No input, two with a gap, all in a row, and one that is unmapped.       *)
MCCommands ==
    {<<>>, [i \in {1, 3} |-> i = 1], <<FALSE, TRUE, TRUE>>, <<TRUE, TRUE, TRUE, TRUE>>}
=============================================================================
