----------------------------- MODULE MCSerialRx -----------------------------
(***************************************************************************)
(* SerialRx for TLC: the request {}, a nested one, and one with blanks     *)
(* inside and outside a quotation.                                         *)
(***************************************************************************)
EXTENDS SerialRx

Flat   == <<"open", "close">>
Nested == <<"open", "open", "close", "close">>
Quoted == <<"open", "blank", "quote", "blank", "quote", "close">>

TwoDepths  == {Flat, Nested}

OnlyQuoted == {Quoted}
=============================================================================
