----------------------------- MODULE SharedRead -----------------------------
(***************************************************************************)
(* What an object that stands for a cloud strip promises the account: its  *)
(* full-table read bursts never overlap, and the next one starts only when *)
(* the previous result is at least TTL old. Once it has been replaced and  *)
(* its last call has returned it reads no more; a restart of the server    *)
(* begins anew.                                                            *)
(***************************************************************************)
EXTENDS Integers

CONSTANTS TTL,       \* how long a result is shared
          Horizon    \* bound on the clock

VARIABLES now,       \* the monotonic clock
          reading,   \* is a burst under way?
          stamp,     \* when the last burst ended, or Never
          gone       \* is the object out of use?

vars == <<now, reading, stamp, gone>>

Never == -TTL

Init == now = 0 /\ ~reading /\ stamp = Never /\ ~gone

StartBurst == /\ ~gone /\ ~reading /\ now - stamp >= TTL
              /\ reading' = TRUE
              /\ UNCHANGED <<now, stamp, gone>>

\* The end of a burst, with which the object may go out of use.
EndBurst == /\ reading
            /\ reading' = FALSE
            /\ \/ stamp' = now /\ UNCHANGED gone
               \/ stamp' = Never /\ gone' = TRUE
            /\ UNCHANGED now

Discard == /\ ~gone /\ ~reading
           /\ gone' = TRUE /\ stamp' = Never
           /\ UNCHANGED <<now, reading>>

Tick == now < Horizon /\ now' = now + 1 /\ UNCHANGED <<reading, stamp, gone>>

Restart == /\ now < Horizon /\ now' = now + 1
           /\ reading' = FALSE /\ stamp' = Never /\ gone' = FALSE

Next == StartBurst \/ EndBurst \/ Discard \/ Tick \/ Restart

Spec == Init /\ [][Next]_vars
=============================================================================
