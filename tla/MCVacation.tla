------------------------------ MODULE MCVacation ------------------------------
(***************************************************************************)
(* A small instance of Vacation for TLC: an early window of all devices, a *)
(* later one of a single device, and the simulation switched off.          *)
(***************************************************************************)
EXTENDS Vacation

CONSTANTS One, Start, End

Evening(on, D, s, least) ==
  [enabled |-> on, devices |-> D, start |-> s, end |-> End,
   min |-> least, max |-> MaxGap]

MCConfigs == {Evening(TRUE, Device, 0, 2), Evening(TRUE, {One}, Start, 1),
              Evening(FALSE, Device, 0, 1)}

=============================================================================
