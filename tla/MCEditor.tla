------------------------------ MODULE MCEditor --------------------------------
(* Files for Editor: short ones, one with a tab, one too large to open.      *)
EXTENDS Editor

CONSTANTS a

SomeFiles == {<<>>, <<a, NL, Tab>>, <<a, a, a, a, a>>}
===============================================================================
