----------------------------- MODULE RemoteCall -----------------------------
(***************************************************************************)
(* What a caller of the cloud RPC layer may rely on, whatever the tokens,  *)
(* the logins and the retries underneath do: the command a call carries    *)
(* takes effect at most once, a call reported as successful has had its    *)
(* effect, and a call reported as failed may have had it, even later.      *)
(***************************************************************************)
EXTENDS Naturals

CONSTANT Call        \* the calls, each made once

VARIABLES outcome,   \* outcome[c]: "open", "ok" or "error", as reported
          effects    \* effects[c]: how often the command of c was executed

vars == <<outcome, effects>>

Init == /\ outcome = [c \in Call |-> "open"]
        /\ effects = [c \in Call |-> 0]

\* The command takes effect. The caller may have given up by then.
Execute(c) == /\ effects[c] = 0
              /\ effects' = [effects EXCEPT ![c] = 1]
              /\ UNCHANGED outcome

Succeed(c) == /\ outcome[c] = "open" /\ effects[c] = 1
              /\ outcome' = [outcome EXCEPT ![c] = "ok"]
              /\ UNCHANGED effects

Fail(c) == /\ outcome[c] = "open"
           /\ outcome' = [outcome EXCEPT ![c] = "error"]
           /\ UNCHANGED effects

Next == \E c \in Call : Execute(c) \/ Succeed(c) \/ Fail(c)

Spec == Init /\ [][Next]_vars
=============================================================================
