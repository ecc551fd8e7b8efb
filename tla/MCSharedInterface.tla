------------------------- MODULE MCSharedInterface -------------------------
(* SharedInterface with two processes: the text of address a1 is a part of *)
(* the text of a10, as 10.1.1.1 is of 10.1.1.10.                            *)
EXTENDS SharedInterface, TLC

CONSTANTS p1, p2, a1, a10

MCAddressOf == p1 :> a1 @@ p2 :> a10
MCWithin    == {<<a1, a10>>}
=============================================================================
