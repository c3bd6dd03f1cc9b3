---------------------------- MODULE MCServerTCP ----------------------------
(* Instances of ServerTCP for TLC. *)
EXTENDS ServerTCP

Whole == [len |-> 1, total |-> 1]        \* a short message in one piece
First == [len |-> 1, total |-> 2]        \* the first piece of a long message
Noise == [len |-> 1, total |-> NoHeader] \* a first piece with no size in it

AllChunks == {Whole, First, Noise}
=============================================================================
