---------------------------- MODULE CloudSession ----------------------------
(***************************************************************************)
(* The session layer of the TP-Link cloud client (api/cloud_service.py,    *)
(* KasaCloudClient): calls that share one cached token, a login lock that  *)
(* orders the logins, and one retry after a rejected token.                *)
(*                                                                         *)
(* A call is an _call(): it logs in when no token is cached, posts its     *)
(* command with the token in the URL, and when the cloud says the token is *)
(* stale it drops the cached token, logs in again and posts once more.     *)
(* Every await is a gap: requests reach the cloud, and answers come back,  *)
(* as steps of their own, and the session timeout can end the wait at any  *)
(* moment while the request is still under way.                            *)
(*                                                                         *)
(* Tokens are numbered in the order the cloud issues them; 0 is None.      *)
(***************************************************************************)
EXTENDS Naturals, Sequences

CONSTANTS Call,        \* the calls made on the client, each once
          MaxToken,    \* bound: how many tokens the cloud issues
          Exclusive    \* does a login end the account's other sessions?

ASSUME MaxTokenAssumption == MaxToken \in Nat
ASSUME ExclusiveAssumption == Exclusive \in BOOLEAN

VARIABLES
  token,      \* the client's _token
  waiters,    \* the calls waiting for _login_lock, first come first served
  stage,      \* stage[c]: where the coroutine of c is suspended
  attempt,    \* attempt[c]: the loop variable of _call
  wire,       \* wire[c]: the request or the answer of c on the network
  carried,    \* carried[c]: the token inside that request or answer
  issued,     \* the cloud: the newest token it has issued
  valid,      \* the cloud: the tokens it accepts
  effects,    \* the cloud: how often the command of c was executed
  held,       \* history: the newest token the client has ever cached
  rejected    \* history: the token the first attempt of c was refused with

vars == <<token, waiters, stage, attempt, wire, carried, issued, valid,
          effects, held, rejected>>

cloud == <<issued, valid, effects>>

None == 0
Token == 1..MaxToken
Stage == {"new", "queued", "login", "post", "ok", "error"}
Wire == {"none", "login", "post",                            \* requests
         "granted", "refused", "done", "stale", "failed"}    \* answers

TypeOK ==
  /\ token \in 0..MaxToken
  /\ waiters \in Seq(Call)
  /\ stage \in [Call -> Stage]
  /\ attempt \in [Call -> {1, 2}]
  /\ wire \in [Call -> Wire]
  /\ carried \in [Call -> 0..MaxToken]
  /\ issued \in 0..MaxToken
  /\ valid \subseteq Token
  /\ effects \in [Call -> Nat]
  /\ held \in 0..MaxToken
  /\ rejected \in [Call -> 0..MaxToken]

Init ==
  /\ token = None
  /\ waiters = <<>>
  /\ stage = [c \in Call |-> "new"]
  /\ attempt = [c \in Call |-> 1]
  /\ wire = [c \in Call |-> "none"]
  /\ carried = [c \in Call |-> None]
  /\ issued = 0
  /\ valid = {}
  /\ effects = [c \in Call |-> 0]
  /\ held = None
  /\ rejected = [c \in Call |-> None]

-----------------------------------------------------------------------------
(* The client                                                              *)

LoginLocked == \E c \in Call : stage[c] = "login"

\* Mutant: _login without its lock.
EnterLoginUnlocked(c) ==
  /\ stage' = [stage EXCEPT ![c] = "login"]
  /\ wire' = [wire EXCEPT ![c] = "login"]
  /\ UNCHANGED waiters

\* _login up to its first suspension: take the lock and send the login, or
\* join the waiters. The cached token is not looked at again inside.
EnterLogin(c) ==
  \/ /\ ~LoginLocked /\ waiters = <<>>
     /\ stage' = [stage EXCEPT ![c] = "login"]
     /\ wire' = [wire EXCEPT ![c] = "login"]
     /\ UNCHANGED waiters
  \/ /\ LoginLocked \/ waiters # <<>>
     /\ stage' = [stage EXCEPT ![c] = "queued"]
     /\ wire' = [wire EXCEPT ![c] = "none"]
     /\ waiters' = Append(waiters, c)

\* One turn of the loop of _call: the URL is built from the token cached at
\* that moment and the request leaves.
Post(c, t) ==
  /\ stage' = [stage EXCEPT ![c] = "post"]
  /\ wire' = [wire EXCEPT ![c] = "post"]
  /\ carried' = [carried EXCEPT ![c] = t]

EndCall(c, how) ==
  /\ stage' = [stage EXCEPT ![c] = how]
  /\ wire' = [wire EXCEPT ![c] = "none"]

\* _call begins.
Begin(c) ==
  /\ stage[c] = "new"
  /\ \/ token = None /\ EnterLogin(c) /\ UNCHANGED carried
     \/ token # None /\ Post(c, token) /\ UNCHANGED waiters
  /\ UNCHANGED <<token, attempt, held, rejected, cloud>>

\* The lock is free again and wakes its first waiter.
LockHandover(c) ==
  /\ ~LoginLocked
  /\ waiters # <<>> /\ c = Head(waiters)
  /\ waiters' = Tail(waiters)
  /\ stage' = [stage EXCEPT ![c] = "login"]
  /\ wire' = [wire EXCEPT ![c] = "login"]
  /\ UNCHANGED <<token, attempt, carried, held, rejected, cloud>>

\* The login is answered: the token is cached, the lock is released, and the
\* coroutine goes on to its post without suspending in between.
LoginGranted(c) ==
  /\ stage[c] = "login" /\ wire[c] = "granted"
  /\ token' = carried[c]
  /\ held' = IF carried[c] > held THEN carried[c] ELSE held
  /\ Post(c, token')
  /\ UNCHANGED <<waiters, attempt, rejected, cloud>>

LoginRefused(c) ==
  /\ stage[c] = "login" /\ wire[c] = "refused"
  /\ EndCall(c, "error")
  /\ UNCHANGED <<token, waiters, attempt, carried, held, rejected, cloud>>

PostAnswered(c) ==
  /\ stage[c] = "post" /\ wire[c] \in {"done", "failed"}
  /\ EndCall(c, IF wire[c] = "done" THEN "ok" ELSE "error")
  /\ UNCHANGED <<token, waiters, attempt, carried, held, rejected, cloud>>

\* Mutant: the retry is not counted down: every rejection logs in again.
TokenRejectedAgain(c) ==
  /\ stage[c] = "post" /\ wire[c] = "stale"
  /\ token' = None
  /\ attempt' = [attempt EXCEPT ![c] = @ + 1]
  /\ rejected' = [rejected EXCEPT ![c] = carried[c]]
  /\ EnterLogin(c)
  /\ UNCHANGED <<carried, held, cloud>>

\* A token error: the first attempt drops whatever token is cached by now,
\* which may be a newer one than the rejected, and logs in again.
TokenRejected(c) ==
  /\ stage[c] = "post" /\ wire[c] = "stale"
  /\ \/ /\ attempt[c] = 1
        /\ token' = None
        /\ attempt' = [attempt EXCEPT ![c] = 2]
        /\ rejected' = [rejected EXCEPT ![c] = carried[c]]
        /\ EnterLogin(c)
     \/ /\ attempt[c] = 2
        /\ EndCall(c, "error")
        /\ UNCHANGED <<token, attempt, rejected, waiters>>
  /\ UNCHANGED <<carried, held, cloud>>

\* Mutant: a timed-out post is retried like a rejected one.
TimeoutRetried(c) ==
  /\ stage[c] = "post" /\ attempt[c] = 1
  /\ attempt' = [attempt EXCEPT ![c] = 2]
  /\ Post(c, token)
  /\ UNCHANGED <<token, waiters, held, rejected, cloud>>

\* Mutant: the timeout covers the commands and not the logins.
TimeoutPostOnly(c) ==
  /\ stage[c] = "post"
  /\ stage' = [stage EXCEPT ![c] = "error"]
  /\ wire' = [wire EXCEPT ![c] = IF @ \in {"login", "post"} THEN @ ELSE "none"]
  /\ UNCHANGED <<token, waiters, attempt, carried, held, rejected, cloud>>

\* ClientTimeout: the wait ends with an exception. An answer is lost; a
\* request that has left stays under way.
Timeout(c) ==
  /\ stage[c] \in {"login", "post"}
  /\ stage' = [stage EXCEPT ![c] = "error"]
  /\ wire' = [wire EXCEPT ![c] = IF @ \in {"login", "post"} THEN @ ELSE "none"]
  /\ UNCHANGED <<token, waiters, attempt, carried, held, rejected, cloud>>

-----------------------------------------------------------------------------
(* The cloud, as the client depends on it                                  *)

\* The answer to a request whose caller has given up goes nowhere.
Answer(c, answer) ==
  wire' = [wire EXCEPT ![c] =
             IF stage[c] \in {"login", "post"} THEN answer ELSE "none"]

IssueToken(c) ==
  /\ wire[c] = "login" /\ issued < MaxToken
  /\ issued' = issued + 1
  /\ valid' = (IF Exclusive THEN {} ELSE valid) \cup {issued + 1}
  /\ Answer(c, "granted")
  /\ carried' = [carried EXCEPT ![c] = issued + 1]
  /\ UNCHANGED <<token, waiters, stage, attempt, effects, held, rejected>>

RefuseLogin(c) ==
  /\ wire[c] = "login"
  /\ Answer(c, "refused")
  /\ UNCHANGED <<token, waiters, stage, attempt, carried, cloud, held,
                 rejected>>

\* A command with a token the cloud accepts is executed, or fails for a
\* reason of its own; with any other token it is rejected.
Execute(c) ==
  /\ wire[c] = "post" /\ carried[c] \in valid
  /\ \/ Answer(c, "done") /\ effects' = [effects EXCEPT ![c] = @ + 1]
     \/ Answer(c, "failed") /\ UNCHANGED effects
  /\ UNCHANGED <<token, waiters, stage, attempt, carried, issued, valid,
                 held, rejected>>

RejectToken(c) ==
  /\ wire[c] = "post" /\ carried[c] \notin valid
  /\ Answer(c, "stale")
  /\ UNCHANGED <<token, waiters, stage, attempt, carried, cloud, held,
                 rejected>>

Expire(t) ==
  /\ t \in valid
  /\ valid' = valid \ {t}
  /\ UNCHANGED <<token, waiters, stage, attempt, wire, carried, issued,
                 effects, held, rejected>>

-----------------------------------------------------------------------------
Client(c) == Begin(c) \/ LockHandover(c) \/ LoginGranted(c) \/ LoginRefused(c)
             \/ PostAnswered(c) \/ TokenRejected(c) \/ Timeout(c)

Cloud(c) == IssueToken(c) \/ RefuseLogin(c) \/ Execute(c) \/ RejectToken(c)

Next == \/ \E c \in Call : Client(c) \/ Cloud(c)
        \/ \E t \in valid : Expire(t)

\* What ends every wait: the lock wakes its waiter, an answer that arrives
\* is handled, and the session timeout fires when none does. Nothing is
\* assumed of the cloud.
Resumes(c) == LockHandover(c) \/ LoginGranted(c) \/ LoginRefused(c)
              \/ PostAnswered(c) \/ TokenRejected(c) \/ Timeout(c)

Spec == Init /\ [][Next]_vars /\ \A c \in Call : WF_vars(Resumes(c))

-----------------------------------------------------------------------------
(* Properties                                                              *)

\* The cached token is none or the newest this client was ever given, though
\* any number of calls may be logging in: the login lock keeps the answer of
\* an earlier login from overwriting that of a later one, which would leave
\* every caller with a token the cloud may have retired.
TokenNewest == token \in {None, held}

\* A second attempt carries a token issued after the one it was refused
\* with, though other calls drop and replace the cached token meanwhile.
RetryIsFresh ==
  \A c \in Call :
    stage[c] = "post" /\ attempt[c] = 2 => carried[c] > rejected[c]

\* Every call ends: no lost answer, failed login or expired token leaves the
\* login lock taken or a waiter behind.
CallEnds == \A c \in Call : stage[c] # "new" ~> stage[c] \in {"ok", "error"}

\* Logins and retries are invisible above: a command is executed at most
\* once, a success is reported only for one that was. The retry is sound
\* because a rejected token means that the command was not executed.
outcome == [c \in Call |->
              IF stage[c] \in {"ok", "error"} THEN stage[c] ELSE "open"]
Remote == INSTANCE RemoteCall WITH outcome <- outcome, effects <- effects
AtMostOnce == Remote!Spec

=============================================================================
