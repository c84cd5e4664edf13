----------------------------- MODULE MCTerminal -------------------------------
(* Outputs for Terminal: one that fills a row, one that needs two.           *)
EXTENDS Terminal

SomeOutputs == {<<"x", "x">>, <<"x", "x", "x">>}
===============================================================================
