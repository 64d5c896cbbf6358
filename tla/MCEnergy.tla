------------------------------ MODULE MCEnergy ------------------------------
(***************************************************************************)
(* An instance of Energy for TLC: two and a half days of two ticks, one    *)
(* plug in a room, a strip of one outlet in none, a user and the recorder. *)
(* The first day's use is at its start and the second's at its end, so a   *)
(* reading filed under the wrong day shows.  The strip's clock is half a   *)
(* day ahead at first and half a day behind later.                         *)
(***************************************************************************)
EXTENDS Energy

CONSTANTS o1, p1, s1, kitchen

MCLoad == [m \in {o1, p1} |-> [t \in 0..(Horizon - 1) |->
  IF t = 3 \/ (m = o1 /\ t = 0) THEN 1 ELSE 0]]
MCSkew == [t \in Time |-> IF t < 2 THEN Drift ELSE -Drift]
MCRoomOf == [r \in {kitchen} |-> {p1}]
=============================================================================
