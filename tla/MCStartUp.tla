------------------------------ MODULE MCStartUp ------------------------------
(***************************************************************************)
(* The start-up with the last bytes of the chip as its block: a good EUI,  *)
(* the two blank ones, and one that differs from a blank one only in the   *)
(* top bit of a byte.                                                      *)
(***************************************************************************)
EXTENDS StartUp

Block(s) == [j \in Index |-> s[j + 1]]
SomeEUIs == {Block(<<216, 128, 85>>), Block(<<255, 255, 255>>), Block(<<0, 0, 0>>),
             Block(<<0, 128, 0>>)}
=============================================================================
