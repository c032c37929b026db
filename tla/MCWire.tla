------------------------------- MODULE MCWire -------------------------------
(***************************************************************************)
(* Wire with texts over the characters the protocol gives a meaning and a  *)
(* letter that is part of an escape.                                       *)
(***************************************************************************)
EXTENDS Wire

MCAlphabet == {" ", ":", ";", "\\", "s", "@", "CR", "LF"}
=============================================================================
