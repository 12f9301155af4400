---------------------------- MODULE MCWhiteList ----------------------------
(* The white list with three positions and identities that can be torn into *)
(* one another; as the count and as the position of the oldest each reads 1, *)
(* which is in the table, or 257, which is not.                             *)
EXTENDS WhiteList

Ids == {<<1, low, 1, high>> : low, high \in {0, 1}}

\* States are told apart by what some step or property reads: what stands at a
\* position not in use, in RAM or in the flash, is written before it is read.
InUse(t, used) == [p \in Pos |-> IF p \in used THEN t[p] ELSE NoUid]
WhatIsRead ==
  <<use, InUse(uids, use), len, first, [flash EXCEPT !.uids = InUse(@, flash.use)],
    pc, args, past>>
=============================================================================
