---------------------------- MODULE MCCardSelect ----------------------------
(* CardSelect for TLC: two cards with short numbers and two with long ones  *)
(* that begin alike.                                                        *)
EXTENDS CardSelect

CONSTANTS short1, short2, long1, long2, prefix

MCCards  == {short1, short2, long1, long2}
MCDouble == {long1, long2}
MCPrefix == [c \in MCDouble |-> prefix]
=============================================================================
