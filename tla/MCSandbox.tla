------------------------------ MODULE MCSandbox ------------------------------
(* The texts of Sandbox for TLC: with OutputCap = 3, an output that is just read
   whole, a wrong one, one that is right but whose end is not read, and one that
   is wrong only after what is read. *)
EXTENDS Sandbox

MCAnswer  == <<"x", "x">>
MCOutputs == {<<"x", "x", "LF">>, <<"SP", "x", "x">>, <<"CR", "CR", "x", "x">>, <<"x", "x", "LF", "x">>}
=============================================================================
