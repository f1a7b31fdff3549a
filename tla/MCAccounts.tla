----------------------------- MODULE MCAccounts -----------------------------
(***************************************************************************)
(* Names, numbers and keys whose joined bytes nearly meet: <<1>> is both a  *)
(* name and the first byte of either number, 257 is two such bytes, and a  *)
(* key is as long as a number and may consist of the same bytes.           *)
(***************************************************************************)
EXTENDS OneQueue

SomeNames == {<<>>, <<1>>}

SomePubkeys == {<<1, 1, 0, 0, 0, 0, 0, 0>>}
=============================================================================
