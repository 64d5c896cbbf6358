------------------------------- MODULE MCRooms -------------------------------
(***************************************************************************)
(* An instance of Rooms for TLC: two rooms and a third id to be created.   *)
(* Both devices are filed under their addresses, one among the stars too.  *)
(* That one is found where it was, or at the address of the other.         *)
(***************************************************************************)
EXTENDS Rooms, TLC

CONSTANTS d1, d2, r1, r2

MCFile == [rooms |-> (r1 :> {Ip(d1), Ip(d2)}) @@ (r2 :> {}),
           favs |-> {Ip(d1)}]
MCHosts == {(d1 :> Ip(d1)) @@ (d2 :> Ip(d2)),
            (d1 :> Ip(d2)) @@ (d2 :> Elsewhere)}
TabSymmetry == Permutations(Tab)
=============================================================================
