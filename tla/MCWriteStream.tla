---------------------------- MODULE MCWriteStream ----------------------------
(* Instances of WriteStream: the writes are numbers, so that the order they  *)
(* are made in is kept; the server refuses the third of them.                 *)
EXTENDS WriteStream

RefusesThird == {3}

==============================================================================
