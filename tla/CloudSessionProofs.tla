------------------------- MODULE CloudSessionProofs -------------------------
(***************************************************************************)
(* Proofs about CloudSession for every set of calls, every number of       *)
(* tokens and both kinds of account.                                       *)
(***************************************************************************)
EXTENDS CloudSession, TLAPS

-----------------------------------------------------------------------------
(* The inductive invariant                                                 *)

\* _login_lock admits one coroutine at a time.
OneLogin == \A c, d \in Call : stage[c] = "login" /\ stage[d] = "login" => c = d

\* The waiters are the suspended coroutines, each waiting once.
QueueOK ==
  /\ \A i \in 1..Len(waiters) : stage[waiters[i]] = "queued"
  /\ \A i, j \in 1..Len(waiters) : waiters[i] = waiters[j] => i = j

\* Which requests and answers a coroutine can have, by where it is suspended.
WireOK ==
  \A c \in Call :
    /\ stage[c] \in {"new", "queued"} => wire[c] = "none"
    /\ stage[c] = "login" => wire[c] \in {"login", "granted", "refused"}
    /\ stage[c] = "post" => wire[c] \in {"post", "done", "stale", "failed"}
    /\ stage[c] \in {"ok", "error"} => wire[c] \in {"none", "login", "post"}

\* What is known about the numbers of the tokens.
TokensOK ==
  /\ token \in {None, held}
  /\ held <= issued
  /\ \A c \in Call : /\ carried[c] <= issued
                     /\ rejected[c] <= held
                     /\ stage[c] = "new" => attempt[c] = 1
                     /\ wire[c] = "granted" => carried[c] > held
                     /\ stage[c] = "post" => carried[c] <= held
                     /\ stage[c] = "post" /\ attempt[c] = 2
                          => carried[c] > rejected[c]

\* A command is executed while its request is on the way, and only then.
EffectsOK ==
  \A c \in Call :
    /\ effects[c] \in {0, 1}
    /\ wire[c] \in {"post", "stale"} => effects[c] = 0
    /\ wire[c] = "done" \/ stage[c] = "ok" => effects[c] = 1
    /\ stage[c] \in {"new", "queued", "login"} => effects[c] = 0

\* At most one coroutine is inside _login, and every waiter waits once.
LockOK == OneLogin /\ QueueOK

IInv == TypeOK /\ LockOK /\ WireOK /\ TokensOK /\ EffectsOK

-----------------------------------------------------------------------------
(* The waiters as a sequence                                               *)

\* Joining the waiters keeps them a sequence of calls.
LEMMA AppendWaiter ==
  ASSUME NEW c \in Call, waiters \in Seq(Call)
  PROVE  /\ Append(waiters, c) \in Seq(Call)
         /\ Len(Append(waiters, c)) = Len(waiters) + 1
         /\ \A i \in 1..Len(waiters) : Append(waiters, c)[i] = waiters[i]
         /\ Append(waiters, c)[Len(waiters) + 1] = c
         /\ Len(waiters) \in Nat
  OBVIOUS

\* Waking the first waiter keeps the others in their order.
LEMMA WakeWaiter ==
  ASSUME waiters \in Seq(Call), waiters # <<>>
  PROVE  /\ Head(waiters) = waiters[1] /\ Head(waiters) \in Call
         /\ Tail(waiters) \in Seq(Call)
         /\ Len(Tail(waiters)) = Len(waiters) - 1
         /\ \A i \in 1..Len(Tail(waiters)) : Tail(waiters)[i] = waiters[i + 1]
         /\ Len(waiters) \in Nat /\ Len(waiters) >= 1
  OBVIOUS

-----------------------------------------------------------------------------
(* Type correctness                                                        *)

LEMMA Names ==
  /\ {"new", "queued", "login", "post", "ok", "error"} \subseteq Stage
  /\ {"none", "login", "post", "granted", "refused", "done", "stale",
      "failed"} \subseteq Wire
  BY DEF Stage, Wire

LEMMA TypeInit == Init => TypeOK
  BY MaxTokenAssumption DEF Init, TypeOK, None, Token, Stage, Wire

LEMMA TypeEnter ==
  ASSUME TypeOK, NEW c \in Call, EnterLogin(c)
  PROVE  /\ stage' \in [Call -> Stage]
         /\ wire' \in [Call -> Wire]
         /\ waiters' \in Seq(Call)
  BY AppendWaiter DEF EnterLogin, TypeOK, Stage, Wire

LEMMA TypeStep == TypeOK /\ [Next]_vars => TypeOK'
<1> SUFFICES ASSUME TypeOK, [Next]_vars PROVE TypeOK'
  OBVIOUS
<1> USE MaxTokenAssumption, Names
<1>1. ASSUME NEW c \in Call, Begin(c) PROVE TypeOK'
  <2>1. CASE token = None
    BY <1>1, <2>1, TypeEnter DEF Begin, TypeOK, cloud
  <2>2. CASE token # None
    <3>1. Post(c, token) /\ UNCHANGED waiters
      BY <1>1, <2>2 DEF Begin
    <3>2. /\ stage' \in [Call -> Stage]
          /\ wire' \in [Call -> Wire]
          /\ carried' \in [Call -> 0..MaxToken]
      BY <3>1 DEF Post, TypeOK
    <3> QED BY <1>1, <3>1, <3>2 DEF Begin, TypeOK, cloud
  <2> QED BY <2>1, <2>2
<1>2. ASSUME NEW c \in Call, LockHandover(c) PROVE TypeOK'
  BY <1>2, WakeWaiter DEF LockHandover, TypeOK, cloud
<1>3. ASSUME NEW c \in Call, LoginGranted(c) PROVE TypeOK'
  BY <1>3 DEF LoginGranted, Post, TypeOK, cloud
<1>4. ASSUME NEW c \in Call, LoginRefused(c) PROVE TypeOK'
  BY <1>4 DEF LoginRefused, EndCall, TypeOK, cloud
<1>5. ASSUME NEW c \in Call, PostAnswered(c) PROVE TypeOK'
  BY <1>5 DEF PostAnswered, EndCall, TypeOK, cloud
<1>6. ASSUME NEW c \in Call, TokenRejected(c) PROVE TypeOK'
  <2>1. CASE attempt[c] = 1
    <3>1. EnterLogin(c) /\ token' = None
      BY <1>6, <2>1 DEF TokenRejected
    <3>2. /\ attempt' \in [Call -> {1, 2}]
          /\ rejected' \in [Call -> 0..MaxToken]
      BY <1>6, <2>1 DEF TokenRejected, TypeOK
    <3> QED BY <1>6, <3>1, <3>2, TypeEnter DEF TokenRejected, TypeOK, cloud,
               None
  <2>2. CASE attempt[c] = 2
    <3>1. /\ EndCall(c, "error")
          /\ UNCHANGED <<token, attempt, rejected, waiters>>
      BY <1>6, <2>2 DEF TokenRejected
    <3>2. stage' \in [Call -> Stage] /\ wire' \in [Call -> Wire]
      BY <3>1 DEF EndCall, TypeOK
    <3> QED BY <1>6, <3>1, <3>2 DEF TokenRejected, TypeOK, cloud
  <2> QED BY <1>6, <2>1, <2>2 DEF TypeOK
<1>7. ASSUME NEW c \in Call, Timeout(c) PROVE TypeOK'
  BY <1>7 DEF Timeout, TypeOK, cloud
<1>8. ASSUME NEW c \in Call, IssueToken(c) PROVE TypeOK'
  <2>1. issued' \in 0..MaxToken /\ issued + 1 \in Token
    BY <1>8 DEF IssueToken, TypeOK, Token
  <2>2. valid' \subseteq Token
    BY <1>8, <2>1 DEF IssueToken, TypeOK
  <2>3. wire' \in [Call -> Wire]
    BY <1>8 DEF IssueToken, Answer, TypeOK
  <2>4. carried' \in [Call -> 0..MaxToken]
    BY <1>8, <2>1 DEF IssueToken, TypeOK
  <2> QED BY <1>8, <2>1, <2>2, <2>3, <2>4 DEF IssueToken, TypeOK
<1>9. ASSUME NEW c \in Call, RefuseLogin(c) PROVE TypeOK'
  BY <1>9 DEF RefuseLogin, Answer, TypeOK, cloud
<1>10. ASSUME NEW c \in Call, Execute(c) PROVE TypeOK'
  <2>1. wire' \in [Call -> Wire]
    BY <1>10 DEF Execute, Answer, TypeOK
  <2>2. effects' \in [Call -> Nat]
    <3>1. \/ effects' = effects
          \/ effects' = [effects EXCEPT ![c] = effects[c] + 1]
      BY <1>10 DEF Execute
    <3> QED BY <3>1 DEF TypeOK
  <2> QED BY <1>10, <2>1, <2>2 DEF Execute, TypeOK
<1>11. ASSUME NEW c \in Call, RejectToken(c) PROVE TypeOK'
  BY <1>11 DEF RejectToken, Answer, TypeOK, cloud
<1>12. ASSUME NEW t \in valid, Expire(t) PROVE TypeOK'
  BY <1>12 DEF Expire, TypeOK
<1>13. CASE UNCHANGED vars
  BY <1>13 DEF vars, TypeOK
<1> QED
  BY <1>1, <1>2, <1>3, <1>4, <1>5, <1>6, <1>7, <1>8, <1>9, <1>10, <1>11,
     <1>12, <1>13 DEF Next, Client, Cloud

\* Every variable keeps its type.
THEOREM TypeCorrect == Spec => []TypeOK
<1>1. Init => TypeOK BY TypeInit
<1>2. TypeOK /\ [Next]_vars => TypeOK' BY TypeStep
<1> QED BY <1>1, <1>2, PTL DEF Spec

-----------------------------------------------------------------------------
(* The lock and its waiters                                                *)

LEMMA LockEnter ==
  ASSUME TypeOK, LockOK, NEW c \in Call, stage[c] # "queued", EnterLogin(c)
  PROVE  LockOK'
<1>1. CASE /\ ~LoginLocked /\ waiters = <<>>
           /\ stage' = [stage EXCEPT ![c] = "login"]
           /\ UNCHANGED waiters
  <2>1. OneLogin'
    BY <1>1 DEF OneLogin, LoginLocked, TypeOK
  <2>2. QueueOK'
    BY <1>1 DEF QueueOK, LockOK, TypeOK
  <2> QED BY <2>1, <2>2 DEF LockOK
<1>2. CASE /\ stage' = [stage EXCEPT ![c] = "queued"]
           /\ waiters' = Append(waiters, c)
  <2>1. OneLogin'
    BY <1>2 DEF OneLogin, LockOK, TypeOK
  <2>2. \A i \in 1..Len(waiters) : waiters[i] # c
    BY DEF QueueOK, LockOK
  <2>3. QueueOK'
    <3>1. ASSUME NEW i \in 1..Len(waiters') PROVE stage'[waiters'[i]] = "queued"
      <4>1. CASE i \in 1..Len(waiters)
        <5>1. waiters'[i] = waiters[i] /\ stage[waiters[i]] = "queued"
          BY <1>2, <4>1, AppendWaiter DEF TypeOK, QueueOK, LockOK
        <5>2. waiters[i] \in Call
          BY <4>1 DEF TypeOK
        <5> QED BY <5>1, <5>2, <1>2 DEF TypeOK
      <4>2. CASE i = Len(waiters) + 1
        BY <1>2, <4>2, AppendWaiter DEF TypeOK
      <4> QED BY <3>1, <4>1, <4>2, <1>2, AppendWaiter DEF TypeOK
    <3>2. ASSUME NEW i \in 1..Len(waiters'), NEW j \in 1..Len(waiters'),
                 waiters'[i] = waiters'[j]
          PROVE i = j
      BY <3>2, <2>2, <1>2, AppendWaiter DEF TypeOK, QueueOK, LockOK
    <3> QED BY <3>1, <3>2 DEF QueueOK
  <2> QED BY <2>1, <2>3 DEF LockOK
<1> QED BY <1>1, <1>2 DEF EnterLogin

\* A coroutine that is neither waiting nor starts to wait or log in leaves
\* the lock as it is.
LEMMA LockElsewhere ==
  ASSUME TypeOK, LockOK, NEW c \in Call, stage[c] # "queued",
         NEW s \in {"post", "ok", "error"},
         stage' = [stage EXCEPT ![c] = s], UNCHANGED waiters
  PROVE  LockOK'
<1>1. OneLogin'
  BY DEF OneLogin, LockOK, TypeOK
<1>2. QueueOK'
  <2>1. \A i \in 1..Len(waiters) : waiters[i] # c /\ waiters[i] \in Call
    BY DEF QueueOK, LockOK, TypeOK
  <2> QED BY <2>1 DEF QueueOK, LockOK, TypeOK
<1> QED BY <1>1, <1>2 DEF LockOK

LEMMA LockStill ==
  ASSUME LockOK, UNCHANGED <<stage, waiters>>
  PROVE  LockOK'
  BY DEF LockOK, OneLogin, QueueOK

LEMMA LockStep == TypeOK /\ LockOK /\ [Next]_vars => LockOK'
<1> SUFFICES ASSUME TypeOK, LockOK, [Next]_vars PROVE LockOK'
  OBVIOUS
<1>1. ASSUME NEW c \in Call, Begin(c) PROVE LockOK'
  BY <1>1, LockEnter, LockElsewhere DEF Begin, Post
<1>2. ASSUME NEW c \in Call, LockHandover(c) PROVE LockOK'
  <2>1. OneLogin'
    BY <1>2 DEF LockHandover, LoginLocked, OneLogin, TypeOK
  <2>2. c = waiters[1]
    BY <1>2, WakeWaiter DEF LockHandover, TypeOK
  <2>3. \A i \in 1..Len(waiters') :
          /\ waiters'[i] = waiters[i + 1] /\ i + 1 \in 1..Len(waiters)
          /\ waiters'[i] \in Call
    BY <1>2, WakeWaiter DEF LockHandover, TypeOK
  <2>4. \A i \in 1..Len(waiters') : waiters'[i] # c
    <3> SUFFICES ASSUME NEW i \in 1..Len(waiters'), waiters'[i] = c
                 PROVE FALSE
      OBVIOUS
    <3>1. 1 \in 1..Len(waiters) /\ i + 1 \in 1..Len(waiters) /\ i + 1 # 1
      BY <1>2, <2>3, WakeWaiter DEF LockHandover, TypeOK
    <3>2. waiters[i + 1] = waiters[1]
      BY <2>2, <2>3
    <3> QED BY <3>1, <3>2 DEF LockOK, QueueOK
  <2>5. QueueOK'
    <3>1. ASSUME NEW i \in 1..Len(waiters') PROVE stage'[waiters'[i]] = "queued"
      <4>1. stage[waiters'[i]] = "queued"
        BY <2>3 DEF LockOK, QueueOK
      <4> QED BY <1>2, <2>3, <2>4, <4>1 DEF LockHandover, TypeOK
    <3>2. ASSUME NEW i \in 1..Len(waiters'), NEW j \in 1..Len(waiters'),
                 waiters'[i] = waiters'[j]
          PROVE i = j
      <4>1. i + 1 = j + 1
        BY <3>2, <2>3 DEF LockOK, QueueOK
      <4> QED BY <4>1
    <3> QED BY <3>1, <3>2 DEF QueueOK
  <2> QED BY <2>1, <2>5 DEF LockOK
<1>3. ASSUME NEW c \in Call, LoginGranted(c) \/ LoginRefused(c)
                             \/ PostAnswered(c) \/ Timeout(c)
      PROVE LockOK'
  BY <1>3, LockElsewhere DEF LoginGranted, LoginRefused, PostAnswered, Timeout,
     Post, EndCall
<1>4. ASSUME NEW c \in Call, TokenRejected(c) PROVE LockOK'
  BY <1>4, LockEnter, LockElsewhere DEF TokenRejected, EndCall
<1>5. ASSUME NEW c \in Call, Cloud(c) PROVE LockOK'
  BY <1>5, LockStill DEF Cloud, IssueToken, RefuseLogin, Execute, RejectToken
<1>6. ASSUME NEW t \in valid, Expire(t) PROVE LockOK'
  BY <1>6, LockStill DEF Expire
<1>7. CASE UNCHANGED vars
  BY <1>7, LockStill DEF vars
<1> QED
  BY <1>1, <1>2, <1>3, <1>4, <1>5, <1>6, <1>7 DEF Next, Client

-----------------------------------------------------------------------------
(* Requests, tokens and effects                                            *)

\* The waiter that is woken was suspended in the queue.
LEMMA Woken ==
  ASSUME TypeOK, LockOK, NEW c \in Call, LockHandover(c)
  PROVE  stage[c] = "queued"
  BY WakeWaiter DEF LockHandover, LockOK, QueueOK, TypeOK

\* What entering _login changes, whether the lock is free or not.
LEMMA Entered ==
  ASSUME TypeOK, NEW c \in Call, EnterLogin(c)
  PROVE  /\ stage'[c] \in {"login", "queued"}
         /\ wire'[c] \in {"login", "none"}
         /\ \A d \in Call \ {c} : stage'[d] = stage[d] /\ wire'[d] = wire[d]
  BY DEF EnterLogin, TypeOK

\* What an answer of the cloud changes.
LEMMA Answered ==
  ASSUME TypeOK, NEW c \in Call, NEW a, Answer(c, a)
  PROVE  /\ wire'[c] \in {a, "none"}
         /\ stage[c] \notin {"login", "post"} => wire'[c] = "none"
         /\ \A d \in Call \ {c} : wire'[d] = wire[d]
  BY DEF Answer, TypeOK

LEMMA WireStep == TypeOK /\ WireOK /\ [Next]_vars => WireOK'
<1> SUFFICES ASSUME TypeOK, WireOK, [Next]_vars PROVE WireOK'
  OBVIOUS
<1>1. ASSUME NEW c \in Call, Begin(c) PROVE WireOK'
  BY <1>1 DEF Begin, EnterLogin, Post, WireOK, TypeOK
<1>2. ASSUME NEW c \in Call, LockHandover(c) PROVE WireOK'
  BY <1>2 DEF LockHandover, WireOK, TypeOK
<1>3. ASSUME NEW c \in Call, LoginGranted(c) PROVE WireOK'
  BY <1>3 DEF LoginGranted, Post, WireOK, TypeOK
<1>4. ASSUME NEW c \in Call, LoginRefused(c) \/ PostAnswered(c) PROVE WireOK'
  BY <1>4 DEF LoginRefused, PostAnswered, EndCall, WireOK, TypeOK
<1>5. ASSUME NEW c \in Call, TokenRejected(c) PROVE WireOK'
  BY <1>5 DEF TokenRejected, EnterLogin, EndCall, WireOK, TypeOK
<1>6. ASSUME NEW c \in Call, Timeout(c) PROVE WireOK'
  BY <1>6 DEF Timeout, WireOK, TypeOK
<1>7. ASSUME NEW c \in Call, IssueToken(c) \/ RefuseLogin(c) PROVE WireOK'
  BY <1>7 DEF IssueToken, RefuseLogin, Answer, WireOK, TypeOK, Stage
<1>8. ASSUME NEW c \in Call, Execute(c) \/ RejectToken(c) PROVE WireOK'
  BY <1>8 DEF Execute, RejectToken, Answer, WireOK, TypeOK, Stage
<1>9. ASSUME NEW t \in valid, Expire(t) PROVE WireOK'
  BY <1>9 DEF Expire, WireOK
<1>10. CASE UNCHANGED vars
  BY <1>10 DEF vars, WireOK
<1> QED
  BY <1>1, <1>2, <1>3, <1>4, <1>5, <1>6, <1>7, <1>8, <1>9, <1>10
     DEF Next, Client, Cloud

LEMMA TokensStep ==
  TypeOK /\ LockOK /\ WireOK /\ TokensOK /\ [Next]_vars => TokensOK'
<1> SUFFICES ASSUME TypeOK, LockOK, WireOK, TokensOK, [Next]_vars
             PROVE TokensOK'
  OBVIOUS
<1> USE MaxTokenAssumption DEF None
<1>1. ASSUME NEW c \in Call, Begin(c) PROVE TokensOK'
  BY <1>1 DEF Begin, EnterLogin, Post, TokensOK, TypeOK, cloud
<1>2. ASSUME NEW c \in Call, LockHandover(c) PROVE TokensOK'
  BY <1>2 DEF LockHandover, TokensOK, TypeOK, cloud
<1>3. ASSUME NEW c \in Call, LoginGranted(c) PROVE TokensOK'
  <2>1. held' = carried[c] /\ token' = held' /\ held < held'
        /\ held' <= issued' /\ held' \in Nat /\ held \in Nat
    BY <1>3 DEF LoginGranted, TokensOK, TypeOK, cloud
  <2>2. ASSUME NEW d \in Call
        PROVE  /\ carried'[d] <= issued'
               /\ rejected'[d] <= held'
               /\ stage'[d] = "new" => attempt'[d] = 1
               /\ wire'[d] = "granted" => carried'[d] > held'
               /\ stage'[d] = "post" => carried'[d] <= held'
               /\ stage'[d] = "post" /\ attempt'[d] = 2
                    => carried'[d] > rejected'[d]
    <3>1. CASE d = c
      BY <1>3, <2>1, <3>1 DEF LoginGranted, Post, TokensOK, TypeOK, cloud
    <3>2. CASE d # c
      <4>1. wire[d] # "granted"
        BY <1>3, <3>2 DEF LoginGranted, WireOK, LockOK, OneLogin, TypeOK, Stage
      <4> QED
        BY <1>3, <2>1, <3>2, <4>1 DEF LoginGranted, Post, TokensOK, TypeOK,
           cloud
    <3> QED BY <3>1, <3>2
  <2> QED BY <2>1, <2>2 DEF TokensOK
<1>4. ASSUME NEW c \in Call, LoginRefused(c) \/ PostAnswered(c)
      PROVE TokensOK'
  BY <1>4 DEF LoginRefused, PostAnswered, EndCall, TokensOK, TypeOK, cloud
<1>5. ASSUME NEW c \in Call, TokenRejected(c) PROVE TokensOK'
  <2>1. CASE attempt[c] = 1
    <3>1. token' = None /\ carried[c] <= held /\ EnterLogin(c)
      BY <1>5, <2>1 DEF TokenRejected, TokensOK
    <3>2. /\ rejected' = [rejected EXCEPT ![c] = carried[c]]
          /\ attempt' = [attempt EXCEPT ![c] = 2]
          /\ UNCHANGED <<carried, held, issued>>
      BY <1>5, <2>1 DEF TokenRejected, cloud
    <3> QED BY <3>1, <3>2, Entered DEF TokensOK, TypeOK
  <2>2. CASE attempt[c] = 2
    BY <1>5, <2>2 DEF TokenRejected, EndCall, TokensOK, TypeOK, cloud
  <2> QED BY <2>1, <2>2 DEF TypeOK
<1>6. ASSUME NEW c \in Call, Timeout(c) PROVE TokensOK'
  <2>1. /\ \A d \in Call : wire'[d] \in {wire[d], "none"}
        /\ stage'[c] = "error" /\ \A d \in Call \ {c} : stage'[d] = stage[d]
    BY <1>6 DEF Timeout, TypeOK
  <2> QED BY <1>6, <2>1 DEF Timeout, TokensOK, TypeOK, cloud
<1>7. ASSUME NEW c \in Call, IssueToken(c) PROVE TokensOK'
  <2>1. /\ issued \in Nat /\ held \in Nat /\ issued' = issued + 1
        /\ held <= issued
    BY <1>7 DEF IssueToken, TokensOK, TypeOK
  <2>2. /\ carried'[c] = issued'
        /\ \A d \in Call \ {c} : carried'[d] = carried[d]
    BY <1>7, <2>1 DEF IssueToken, TypeOK
  <2>3. stage[c] # "post"
    BY <1>7 DEF IssueToken, WireOK
  <2>4. /\ \A d \in Call \ {c} : wire'[d] = wire[d]
        /\ UNCHANGED <<token, stage, attempt, held, rejected>>
    BY <1>7, Answered DEF IssueToken
  <2>5. \A d \in Call : carried[d] \in Nat
    BY DEF TypeOK
  <2>6. ASSUME NEW d \in Call
        PROVE  /\ carried'[d] <= issued'
               /\ rejected'[d] <= held'
               /\ stage'[d] = "new" => attempt'[d] = 1
               /\ wire'[d] = "granted" => carried'[d] > held'
               /\ stage'[d] = "post" => carried'[d] <= held'
               /\ stage'[d] = "post" /\ attempt'[d] = 2
                    => carried'[d] > rejected'[d]
    <3>1. CASE d = c
      BY <2>1, <2>2, <2>3, <2>4, <3>1 DEF TokensOK
    <3>2. CASE d # c
      <4>1. carried'[d] = carried[d] /\ wire'[d] = wire[d]
        BY <2>2, <2>4, <3>2
      <4>2. carried'[d] <= issued'
        BY <2>1, <2>5, <4>1 DEF TokensOK
      <4> QED BY <2>4, <4>1, <4>2 DEF TokensOK
    <3> QED BY <3>1, <3>2
  <2> QED BY <2>1, <2>4, <2>6 DEF TokensOK
<1>8. ASSUME NEW c \in Call, RefuseLogin(c) \/ Execute(c) \/ RejectToken(c)
      PROVE TokensOK'
  BY <1>8 DEF RefuseLogin, Execute, RejectToken, Answer, TokensOK, TypeOK,
     cloud
<1>9. ASSUME NEW t \in valid, Expire(t) PROVE TokensOK'
  BY <1>9 DEF Expire, TokensOK
<1>10. CASE UNCHANGED vars
  BY <1>10 DEF vars, TokensOK
<1> QED
  BY <1>1, <1>2, <1>3, <1>4, <1>5, <1>6, <1>7, <1>8, <1>9, <1>10
     DEF Next, Client, Cloud

LEMMA EffectsStep ==
  TypeOK /\ LockOK /\ WireOK /\ EffectsOK /\ [Next]_vars => EffectsOK'
<1> SUFFICES ASSUME TypeOK, LockOK, WireOK, EffectsOK, [Next]_vars
             PROVE EffectsOK'
  OBVIOUS
<1>1. ASSUME NEW c \in Call, Begin(c) PROVE EffectsOK'
  BY <1>1 DEF Begin, EnterLogin, Post, EffectsOK, TypeOK, cloud
<1>2. ASSUME NEW c \in Call, LockHandover(c) PROVE EffectsOK'
  BY <1>2, Woken DEF LockHandover, EffectsOK, TypeOK, cloud
<1>3. ASSUME NEW c \in Call, LoginGranted(c) PROVE EffectsOK'
  BY <1>3 DEF LoginGranted, Post, EffectsOK, TypeOK, cloud
<1>4. ASSUME NEW c \in Call, LoginRefused(c) \/ PostAnswered(c)
      PROVE EffectsOK'
  BY <1>4 DEF LoginRefused, PostAnswered, EndCall, EffectsOK, TypeOK, cloud
<1>5. ASSUME NEW c \in Call, TokenRejected(c) PROVE EffectsOK'
  BY <1>5 DEF TokenRejected, EnterLogin, EndCall, EffectsOK, TypeOK, cloud
<1>6. ASSUME NEW c \in Call, Timeout(c) PROVE EffectsOK'
  BY <1>6 DEF Timeout, EffectsOK, TypeOK, cloud
<1>7. ASSUME NEW c \in Call, IssueToken(c) \/ RefuseLogin(c) PROVE EffectsOK'
  BY <1>7 DEF IssueToken, RefuseLogin, Answer, EffectsOK, TypeOK, cloud
<1>8. ASSUME NEW c \in Call, Execute(c) PROVE EffectsOK'
  <2>1. CASE Answer(c, "done") /\ effects' = [effects EXCEPT ![c] = @ + 1]
    <3>1. effects[c] = 0 /\ stage[c] \notin {"new", "queued", "login"}
      BY <1>8 DEF Execute, EffectsOK, WireOK
    <3>2. effects'[c] = 1 /\ \A d \in Call \ {c} : effects'[d] = effects[d]
      BY <2>1, <3>1 DEF TypeOK
    <3> QED BY <1>8, <2>1, <3>1, <3>2, Answered DEF Execute, EffectsOK, TypeOK
  <2>2. CASE Answer(c, "failed") /\ UNCHANGED effects
    BY <1>8, <2>2, Answered DEF Execute, EffectsOK, TypeOK
  <2> QED BY <1>8, <2>1, <2>2 DEF Execute
<1>9. ASSUME NEW c \in Call, RejectToken(c) PROVE EffectsOK'
  BY <1>9 DEF RejectToken, Answer, EffectsOK, TypeOK, cloud
<1>10. ASSUME NEW t \in valid, Expire(t) PROVE EffectsOK'
  BY <1>10 DEF Expire, EffectsOK
<1>11. CASE UNCHANGED vars
  BY <1>11 DEF vars, EffectsOK
<1> QED
  BY <1>1, <1>2, <1>3, <1>4, <1>5, <1>6, <1>7, <1>8, <1>9, <1>10, <1>11
     DEF Next, Client, Cloud

LEMMA InvInit == Init => IInv
  BY TypeInit DEF Init, IInv, LockOK, OneLogin, QueueOK, WireOK, TokensOK,
     EffectsOK, None

LEMMA InvStep == IInv /\ [Next]_vars => IInv'
  BY TypeStep, LockStep, WireStep, TokensStep, EffectsStep DEF IInv

LEMMA Invariance == Spec => []IInv
  BY InvInit, InvStep, PTL DEF Spec

-----------------------------------------------------------------------------
(* The results                                                             *)

\* The cached token is none or the newest the client was given, however many
\* calls log in at once: logins are ordered by the lock.
THEOREM TokenStaysNewest == Spec => []TokenNewest
<1>1. IInv => TokenNewest BY DEF IInv, TokensOK, TokenNewest
<1> QED BY <1>1, Invariance, PTL

\* A retry carries a token issued after the one that was rejected.
THEOREM RetryStaysFresh == Spec => []RetryIsFresh
<1>1. IInv => RetryIsFresh BY DEF IInv, TokensOK, RetryIsFresh
<1> QED BY <1>1, Invariance, PTL

LEMMA RemoteInit == Init => Remote!Init
  BY DEF Init, Remote!Init, outcome

\* A step of the session is a step of the remote call or invisible.
LEMMA RemoteStep ==
  IInv /\ [Next]_vars => [Remote!Next]_(Remote!vars)
<1> SUFFICES ASSUME IInv, [Next]_vars
             PROVE Remote!Next \/ UNCHANGED <<outcome, effects>>
  BY DEF Remote!vars
<1> USE DEF IInv
<1>1. ASSUME NEW c \in Call, Begin(c) \/ LockHandover(c) \/ LoginGranted(c)
      PROVE UNCHANGED <<outcome, effects>>
  <2>1. /\ stage[c] \notin {"ok", "error"} /\ stage'[c] \notin {"ok", "error"}
        /\ \A d \in Call \ {c} : stage'[d] = stage[d]
    BY <1>1, Woken DEF Begin, LockHandover, LoginGranted, EnterLogin, Post,
       TypeOK
  <2> QED BY <1>1, <2>1 DEF outcome, Begin, LockHandover, LoginGranted, cloud
<1>2. ASSUME NEW c \in Call, UNCHANGED effects, stage[c] \in {"login", "post"},
             stage' = [stage EXCEPT ![c] = "error"]
      PROVE Remote!Fail(c)
  BY <1>2 DEF outcome, Remote!Fail, TypeOK
<1>3. ASSUME NEW c \in Call, PostAnswered(c)
      PROVE Remote!Succeed(c) \/ Remote!Fail(c)
  <2>1. CASE wire[c] = "done"
    BY <1>3, <2>1 DEF PostAnswered, EndCall, outcome, Remote!Succeed, TypeOK,
       EffectsOK, cloud
  <2>2. CASE wire[c] = "failed"
    BY <1>2, <1>3, <2>2 DEF PostAnswered, EndCall, cloud
  <2> QED BY <1>3, <2>1, <2>2 DEF PostAnswered
<1>4. ASSUME NEW c \in Call, TokenRejected(c)
      PROVE Remote!Fail(c) \/ UNCHANGED <<outcome, effects>>
  <2>1. CASE attempt[c] = 1
    <3>1. /\ stage[c] \notin {"ok", "error"}
          /\ stage'[c] \notin {"ok", "error"}
          /\ \A d \in Call \ {c} : stage'[d] = stage[d]
      BY <1>4, <2>1 DEF TokenRejected, EnterLogin, TypeOK
    <3> QED BY <1>4, <3>1 DEF outcome, TokenRejected, cloud
  <2>2. CASE attempt[c] = 2
    BY <1>2, <1>4, <2>2 DEF TokenRejected, EndCall, cloud
  <2> QED BY <2>1, <2>2 DEF TypeOK
<1>5. ASSUME NEW c \in Call, LoginRefused(c) \/ Timeout(c) PROVE Remote!Fail(c)
  BY <1>2, <1>5 DEF LoginRefused, Timeout, EndCall, cloud
<1>6. ASSUME NEW c \in Call, Execute(c)
      PROVE Remote!Execute(c) \/ UNCHANGED <<outcome, effects>>
  <2>1. effects[c] = 0
    BY <1>6 DEF Execute, EffectsOK
  <2>2. UNCHANGED outcome
    BY <1>6 DEF Execute, outcome
  <2> QED BY <1>6, <2>1, <2>2 DEF Execute, Remote!Execute, TypeOK
<1>7. ASSUME NEW c \in Call, IssueToken(c) \/ RefuseLogin(c) \/ RejectToken(c)
      PROVE UNCHANGED <<outcome, effects>>
  BY <1>7 DEF IssueToken, RefuseLogin, RejectToken, outcome, cloud
<1>8. ASSUME NEW t \in valid, Expire(t) PROVE UNCHANGED <<outcome, effects>>
  BY <1>8 DEF Expire, outcome
<1>9. CASE UNCHANGED vars
  BY <1>9 DEF vars, outcome
<1> QED
  BY <1>1, <1>3, <1>4, <1>5, <1>6, <1>7, <1>8, <1>9
     DEF Next, Client, Cloud, Remote!Next

\* The session layer is an at-most-once remote call: no interleaving of
\* logins, retries, expiries and timeouts executes a command twice or
\* reports a success for a command that was not executed.
THEOREM CallsAtMostOnce == Spec => AtMostOnce
<1>1. Spec => []IInv BY Invariance
<1> QED BY <1>1, RemoteInit, RemoteStep, PTL DEF Spec, AtMostOnce, Remote!Spec
=============================================================================
