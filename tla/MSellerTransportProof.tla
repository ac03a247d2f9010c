------------------------ MODULE MSellerTransportProof ------------------------
(* Theorems about MSellerTransport: type correctness, one delivery of every   *)
(* call, what a call that ends as unauthorized has tried, and the spacing of  *)
(* the calls.                                                                 *)
EXTENDS MSellerTransport, TLAPS

-----------------------------------------------------------------------------
(* Type correctness *)

LEMMA IdleType == Idle \in Call
  BY TimersAssumption DEF Idle, Call, NoToken, Result

\* The calls that the steps make of a call.
LEMMA SleepType ==
    ASSUME NEW l \in Call, NEW n \in 0..Interval
    PROVE  [l EXCEPT !.pc = "sleep", !.left = n] \in Call /\ [l EXCEPT !.pc = "sleep", !.left = n].token = l.token
  BY DEF Call, Result

LEMMA LoginType ==
    ASSUME NEW l \in Call, NEW t \in Nat
    PROVE  [l EXCEPT !.token = t, !.pc = "login"] \in Call /\ [l EXCEPT !.token = t, !.pc = "login"].token = t
  BY DEF Call, Result

LEMMA CachedType ==
    ASSUME NEW l \in Call, NEW t \in Nat
    PROVE  [l EXCEPT !.token = t, !.pc = "request"] \in Call /\ [l EXCEPT !.token = t, !.pc = "request"].token = t
  BY DEF Call, Result

LEMMA FreshType ==
    ASSUME NEW l \in Call, NEW t \in Nat
    PROVE  [l EXCEPT !.pc = "request", !.token = t, !.fresh = TRUE] \in Call /\ [l EXCEPT !.pc = "request", !.token = t, !.fresh = TRUE].token = t
  BY DEF Call, Result

LEMMA EndType ==
    ASSUME NEW l \in Call, NEW r \in Result
    PROVE  [l EXCEPT !.pc = "persist", !.result = r] \in Call /\ [l EXCEPT !.pc = "persist", !.result = r].token = l.token
  BY DEF Call, Result

LEMMA AgainType ==
    ASSUME NEW l \in Call
    PROVE  [l EXCEPT !.pc = "login", !.attempt = 2] \in Call /\ [l EXCEPT !.pc = "login", !.attempt = 2].token = l.token
  BY DEF Call, Result

LEMMA EndsType ==
    ASSUME TypeOK, NEW c \in Callers, NEW r \in Result, Ends(c, r)
    PROVE  /\ call' \in [Callers -> Call]
           /\ call'[c].token = call[c].token
           /\ \A d \in Callers \ {c} : call'[d] = call[d]
<1> DEFINE l == [call[c] EXCEPT !.pc = "persist", !.result = r]
<1>1. l \in Call /\ l.token = call[c].token
  BY EndType DEF TypeOK
<1>2. call' = [call EXCEPT ![c] = l]
  BY DEF Ends
<1> HIDE DEF l
<1> QED
  BY <1>1, <1>2 DEF TypeOK

LEMMA InitType == Init => TypeOK
  BY IdleType, TimersAssumption DEF Init, TypeOK, Free, Empty, NoToken, Idle

\* A step that leaves the tokens as they are, and the calls with tokens they may have.
LEMMA SameTokens ==
    ASSUME TypeOK, tokens' = tokens, NEW c \in Callers, NEW l \in Call,
           call' = [call EXCEPT ![c] = l], l.token <= Len(tokens)
    PROVE  /\ call' \in [Callers -> Call]
           /\ tokens' \in Seq(Age)
           /\ \A d \in Callers : call'[d].token <= Len(tokens')
<1>1. call' \in [Callers -> Call]
  BY DEF TypeOK
<1>2. ASSUME NEW d \in Callers PROVE call'[d] = IF d = c THEN l ELSE call[d]
  BY DEF TypeOK
<1> QED
  BY <1>1, <1>2 DEF TypeOK

LEMMA StepType ==
    ASSUME TypeOK, NEW c \in Callers, Begin(c) \/ Step(c) \/ Crash(c)
    PROVE  TypeOK'
<1>0. /\ call[c] \in Call /\ call[c].token \in Nat /\ call[c].token <= Len(tokens)
      /\ Idle \in Call /\ Idle.token = 0 /\ Len(tokens) \in Nat /\ cache.token \in 0..Len(tokens)
      /\ faults + 1 \in Nat
  BY IdleType DEF TypeOK, Call, Idle, NoToken
<1>a. /\ cache.token \in Nat /\ cache.token <= Len(tokens)
      /\ Len(tokens) + 1 \in Nat /\ 0 <= Len(tokens) /\ Idle.token <= Len(tokens)
  BY <1>0
<1>1. CASE Begin(c)
  <2> DEFINE l == [Idle EXCEPT !.pc = "wait"]
  <2>1. l \in Call /\ l.token = 0
    BY <1>0 DEF Call, Idle
  <2>2. call' = [call EXCEPT ![c] = l] /\ tokens' = tokens
    BY <1>1 DEF Begin, login
  <2> HIDE DEF l
  <2>3. /\ call' \in [Callers -> Call] /\ tokens' \in Seq(Age)
        /\ \A d \in Callers : call'[d].token <= Len(tokens')
    BY <1>0, <1>a, <2>1, <2>2, SameTokens
  <2> QED
    BY <1>1, <2>3 DEF Begin, TypeOK, limiter, login
<1>2. CASE EnterLimiter(c)
  <2>1. RestOfInterval \in 0..Interval
    BY TimersAssumption DEF RestOfInterval, TypeOK
  <2> DEFINE l == [call[c] EXCEPT !.pc = "sleep", !.left = RestOfInterval]
  <2>2. l \in Call /\ l.token = call[c].token
    BY <1>0, <2>1, SleepType
  <2>3. call' = [call EXCEPT ![c] = l] /\ tokens' = tokens
    BY <1>2 DEF EnterLimiter, login
  <2> HIDE DEF l
  <2>4. /\ call' \in [Callers -> Call] /\ tokens' \in Seq(Age)
        /\ \A d \in Callers : call'[d].token <= Len(tokens')
    BY <1>0, <2>2, <2>3, SameTokens
  <2> QED
    BY <1>2, <2>4, TimersAssumption DEF EnterLimiter, TypeOK, login
<1>3. CASE WaitTimesOut(c) \/ Crash(c)
  <2>1. call' = [call EXCEPT ![c] = Idle] /\ tokens' = tokens
    BY <1>3 DEF WaitTimesOut, Crash, login
  <2>2. /\ call' \in [Callers -> Call] /\ tokens' \in Seq(Age)
        /\ \A d \in Callers : call'[d].token <= Len(tokens')
    BY <1>0, <1>a, <2>1, SameTokens
  <2> QED
    BY <1>0, <1>3, <2>2 DEF WaitTimesOut, Crash, Fault, TypeOK, limiter, login
<1>4. CASE LeaveLimiter(c)
  <2> DEFINE l == [Idle EXCEPT !.pc = "client"]
  <2>1. l \in Call /\ l.token = 0
    BY <1>0 DEF Call, Idle
  <2>2. (call' = [call EXCEPT ![c] = l] \/ call' = [call EXCEPT ![c] = Idle]) /\ tokens' = tokens
    BY <1>4 DEF LeaveLimiter, login
  <2> HIDE DEF l
  <2>3. /\ call' \in [Callers -> Call] /\ tokens' \in Seq(Age)
        /\ \A d \in Callers : call'[d].token <= Len(tokens')
    BY <1>0, <1>a, <2>1, <2>2, SameTokens
  <2>4. mutex' \in [holder : Callers \cup {Nobody}, age : 0..Lease] /\ stamp' \in 0..StampTTL
        /\ quiet' \in 0..Interval
    BY <1>4, TimersAssumption DEF LeaveLimiter, TypeOK, Free
  <2> QED
    BY <1>4, <2>3, <2>4 DEF LeaveLimiter, TypeOK, login
<1>5. CASE MakeClient(c)
  <2> DEFINE a == [call[c] EXCEPT !.token = cache.token, !.pc = "login"]
             b == [call[c] EXCEPT !.token = cache.token, !.pc = "request"]
  <2>1. /\ a \in Call /\ a.token = cache.token
        /\ b \in Call /\ b.token = cache.token
    BY <1>0, <1>a, LoginType, CachedType
  <2>2. (call' = [call EXCEPT ![c] = a] \/ call' = [call EXCEPT ![c] = b]) /\ tokens' = tokens
    BY <1>5 DEF MakeClient, login
  <2> HIDE DEF a, b
  <2>3. /\ call' \in [Callers -> Call] /\ tokens' \in Seq(Age)
        /\ \A d \in Callers : call'[d].token <= Len(tokens')
    BY <1>0, <1>a, <2>1, <2>2, SameTokens
  <2> QED
    BY <1>5, <2>3 DEF MakeClient, TypeOK, limiter, login
<1>6. CASE LogIn(c)
  <2>1. /\ call' \in [Callers -> Call]
        /\ tokens' \in Seq(Age)
        /\ Len(tokens) <= Len(tokens')
        /\ \A d \in Callers : call'[d].token <= Len(tokens')
        /\ faults' \in Nat
    <3>1. CASE /\ tokens' = Append(tokens, "young")
               /\ call' = [call EXCEPT ![c].pc = "request", ![c].token = Len(tokens) + 1,
                                       ![c].fresh = TRUE]
               /\ UNCHANGED faults
      <4> DEFINE l == [call[c] EXCEPT !.pc = "request", !.token = Len(tokens) + 1,
                                      !.fresh = TRUE]
      <4>1. l \in Call /\ l.token = Len(tokens) + 1
        BY <1>0, <1>a, FreshType
      <4>2. call' = [call EXCEPT ![c] = l]
        BY <3>1
      <4>3. tokens' \in Seq(Age) /\ Len(tokens') = Len(tokens) + 1
        BY <3>1 DEF TypeOK, Age
      <4> HIDE DEF l
      <4>4. call' \in [Callers -> Call]
        BY <4>1, <4>2 DEF TypeOK
      <4>5. ASSUME NEW d \in Callers PROVE call'[d].token <= Len(tokens')
        <5>1. call'[d] = (IF d = c THEN l ELSE call[d]) /\ call[d].token <= Len(tokens)
              /\ call[d].token \in Nat
          BY <4>2 DEF TypeOK, Call
        <5> QED
          BY <1>0, <4>1, <4>3, <5>1
      <4> QED
        BY <1>0, <3>1, <4>3, <4>4, <4>5 DEF TypeOK
    <3>2. ASSUME NEW k \in {"lost", "refused"}, Fault(k), Ends(c, k), UNCHANGED tokens
          PROVE  /\ call' \in [Callers -> Call]
                 /\ tokens' \in Seq(Age)
                 /\ Len(tokens) <= Len(tokens')
                 /\ \A d \in Callers : call'[d].token <= Len(tokens')
                 /\ faults' \in Nat
      <4>1. k \in Result
        BY DEF Result
      <4>2. /\ call' \in [Callers -> Call] /\ call'[c].token = call[c].token
            /\ \A d \in Callers \ {c} : call'[d] = call[d]
        BY <3>2, <4>1, EndsType
      <4> QED
        BY <1>0, <3>2, <4>2 DEF Fault, TypeOK
    <3> QED
      BY <1>6, <3>1, <3>2 DEF LogIn
  <2>2. cache \in [token : 0..Len(tokens'), timely : BOOLEAN]
    BY <1>0, <2>1 DEF TypeOK
  <2> QED
    BY <1>6, <2>1, <2>2 DEF LogIn, TypeOK, limiter
<1>7. CASE Request(c)
  <2>1. /\ call' \in [Callers -> Call]
        /\ tokens' = tokens
        /\ \A d \in Callers : call'[d].token <= Len(tokens)
        /\ faults' \in Nat
        /\ taken' \in [Callers -> Nat]
    <3>1. tokens' = tokens
      BY <1>7 DEF Request, login
    <3>2. faults' \in Nat /\ taken' \in [Callers -> Nat]
      <4>1. CASE Answer(c)
        BY <1>0, <4>1 DEF Answer, Takes, Fault, TypeOK
      <4>2. CASE Unauthorized(c)
        BY <1>0, <4>2 DEF Unauthorized, Fault, TypeOK
      <4> QED
        BY <1>7, <4>1, <4>2 DEF Request
    <3>3. \/ \E r \in Result : Ends(c, r)
          \/ call' = [call EXCEPT ![c] = [call[c] EXCEPT !.pc = "login", !.attempt = 2]]
      BY <1>7 DEF Request, Answer, Unauthorized, Result
    <3>4. ASSUME NEW r \in Result, Ends(c, r)
          PROVE  /\ call' \in [Callers -> Call]
                 /\ \A d \in Callers : call'[d].token <= Len(tokens)
      <4>1. /\ call' \in [Callers -> Call] /\ call'[c].token = call[c].token
            /\ \A d \in Callers \ {c} : call'[d] = call[d]
        BY <3>4, EndsType
      <4> QED
        BY <1>0, <4>1 DEF TypeOK
    <3>5. CASE call' = [call EXCEPT ![c] = [call[c] EXCEPT !.pc = "login", !.attempt = 2]]
      <4> DEFINE l == [call[c] EXCEPT !.pc = "login", !.attempt = 2]
      <4>1. l \in Call /\ l.token = call[c].token
        BY <1>0, AgainType
      <4>2. call' = [call EXCEPT ![c] = l]
        BY <3>5
      <4> HIDE DEF l
      <4> QED
        <5>1. l.token <= Len(tokens)
          BY <1>0, <4>1
        <5>2. /\ call' \in [Callers -> Call]
              /\ \A d \in Callers : call'[d].token <= Len(tokens')
          BY <3>1, <4>1, <4>2, <5>1, SameTokens
        <5> QED
          BY <3>1, <3>2, <5>2
    <3> QED
      BY <3>1, <3>2, <3>3, <3>4, <3>5
  <2> QED
    BY <1>7, <2>1 DEF Request, TypeOK, limiter, login
<1>8. CASE Persist(c)
  <2>1. call' = [call EXCEPT ![c] = Idle] /\ tokens' = tokens
    BY <1>8 DEF Persist
  <2>2. /\ call' \in [Callers -> Call] /\ tokens' \in Seq(Age)
        /\ \A d \in Callers : call'[d].token <= Len(tokens')
    BY <1>0, <1>a, <2>1, SameTokens
  <2>3. cache' \in [token : 0..Len(tokens), timely : BOOLEAN]
    BY <1>0, <1>8 DEF Persist, TypeOK, Call
  <2> QED
    BY <1>8, <2>1, <2>2, <2>3 DEF Persist, TypeOK, limiter
<1> QED
  BY <1>1, <1>2, <1>3, <1>4, <1>5, <1>6, <1>7, <1>8 DEF Step

LEMMA TickType ==
    ASSUME TypeOK, Tick
    PROVE  TypeOK'
<1>1. ASSUME NEW c \in Callers
      PROVE  /\ call'[c] \in Call /\ call'[c].token = call[c].token
  <2>0. call[c] \in Call
    BY DEF TypeOK
  <2>1. CASE ~Ticking(c)
    BY <2>0, <2>1 DEF Tick
  <2>2. CASE call[c].pc = "wait" /\ call[c].waited < Wait
    <3>1. call'[c] = [call[c] EXCEPT !.waited = call[c].waited + 1]
      BY <2>2 DEF Tick, Ticking
    <3>2. call[c].waited + 1 \in 0..Wait
      BY <2>0, <2>2, TimersAssumption DEF Call
    <3> QED
      BY <2>0, <3>1, <3>2 DEF Call
  <2>3. CASE call[c].pc = "sleep" /\ call[c].left > 0
    <3>1. call'[c] = [call[c] EXCEPT !.left = call[c].left - 1]
      BY <2>3 DEF Tick, Ticking
    <3>2. call[c].left - 1 \in 0..Interval
      BY <2>0, <2>3, TimersAssumption DEF Call
    <3> QED
      BY <2>0, <3>1, <3>2 DEF Call
  <2> QED
    BY <2>1, <2>2, <2>3 DEF Ticking
<1>2. call' \in [Callers -> Call]
  BY <1>1 DEF Tick
<1>3. mutex' \in [holder : Callers \cup {Nobody}, age : 0..Lease]
  <2>1. CASE mutex' = Free
    BY <2>1, TimersAssumption DEF Free
  <2>2. CASE mutex' = [mutex EXCEPT !.age = mutex.age + 1] /\ ~(mutex.age + 1 >= Lease)
    <3>1. mutex \in [holder : Callers \cup {Nobody}, age : 0..Lease]
      BY DEF TypeOK
    <3>2. mutex.age + 1 \in 0..Lease
      BY <2>2, <3>1, TimersAssumption
    <3> QED
      BY <2>2, <3>1, <3>2
  <2> QED
    BY <2>1, <2>2 DEF Tick
<1>4. stamp' \in 0..StampTTL /\ quiet' \in 0..Interval
  <2>1. /\ stamp \in 0..StampTTL /\ quiet \in 0..Interval
        /\ StampTTL \in Nat /\ Interval \in Nat
    BY TimersAssumption DEF TypeOK
  <2>2. stamp' = AtMost(stamp + 1, StampTTL) /\ quiet' = AtMost(quiet + 1, Interval)
    BY DEF Tick
  <2> QED
    BY <2>1, <2>2 DEF AtMost
<1> QED
  BY <1>1, <1>2, <1>3, <1>4 DEF Tick, TypeOK, login

LEMMA TokenType ==
    ASSUME TypeOK, (\E t \in DOMAIN tokens : TokenAges(t)) \/ EntryExpires
    PROVE  TypeOK'
<1>1. CASE EntryExpires
  BY <1>1 DEF EntryExpires, TypeOK, Empty, NoToken, limiter
<1>2. ASSUME NEW t \in DOMAIN tokens, TokenAges(t)
      PROVE  TypeOK'
  <2>1. tokens' \in Seq(Age) /\ Len(tokens') = Len(tokens)
    BY <1>2 DEF TokenAges, TypeOK, Age
  <2>2. cache' \in [token : 0..Len(tokens'), timely : BOOLEAN]
    BY <1>2, <2>1 DEF TokenAges, TypeOK, Empty, NoToken
  <2> QED
    BY <1>2, <2>1, <2>2 DEF TokenAges, TypeOK, limiter
<1> QED
  BY <1>1, <1>2

LEMMA NextType == TypeOK /\ [Next]_vars => TypeOK'
<1> SUFFICES ASSUME TypeOK, [Next]_vars PROVE TypeOK'
  OBVIOUS
<1>1. CASE UNCHANGED vars
  BY <1>1 DEF vars, TypeOK
<1> QED
  BY <1>1, StepType, TickType, TokenType DEF Next

\* For any callers, timers, faults and bounds every call, timer and token keeps its
\* type: the sleep of the limiter is never negative, no call has a token that was
\* not issued.
THEOREM TypeCorrect == Spec => []TypeOK
  BY InitType, NextType, PTL DEF Spec

-----------------------------------------------------------------------------
(* One delivery, and what an unauthorized call has tried *)

\* The provider has nothing of a call before its request is answered, and a request
\* that is repeated has a token of its own login.
Attempted ==
    /\ OneDelivery
    /\ OldTokensAreReplaced
    /\ \A c \in Callers :
          /\ call[c].pc \in {"wait", "sleep", "client", "login", "request"} => taken[c] = 0
          /\ call[c].pc = "request" /\ call[c].attempt = 2 => call[c].fresh
          /\ call[c].pc \in {"wait", "sleep", "client"} => call[c].attempt = 1

LEMMA AttemptedStep ==
    ASSUME TypeOK, Attempted, NEW c \in Callers, Begin(c) \/ Step(c) \/ Crash(c)
    PROVE  Attempted'
<1>0. /\ call \in [Callers -> Call] /\ call[c] \in Call /\ taken \in [Callers -> Nat]
      /\ Idle.pc = "idle" /\ Idle.result = "none" /\ Idle.attempt = 1
  BY DEF TypeOK, Idle
<1>1. \* it is enough to look at the call that takes the step
      ASSUME NEW l, call' = [call EXCEPT ![c] = l],
             \A d \in Callers \ {c} : taken'[d] = taken[d],
             taken'[c] <= 1,
             l.result = "unauthorized" => l.fresh,
             l.pc \in {"wait", "sleep", "client", "login", "request"} => taken'[c] = 0,
             l.pc = "request" /\ l.attempt = 2 => l.fresh,
             l.pc \in {"wait", "sleep", "client"} => l.attempt = 1
      PROVE  Attempted'
  <2>1. \A d \in Callers : call'[d] = IF d = c THEN l ELSE call[d]
    BY <1>0, <1>1
  <2> QED
    BY <1>1, <2>1 DEF Attempted, OneDelivery, OldTokensAreReplaced
<1>2. CASE Begin(c)
  <2> DEFINE l == [Idle EXCEPT !.pc = "wait"]
  <2>1. l.pc = "wait" /\ l.result = "none" /\ l.attempt = 1
    BY DEF Idle
  <2>2. call' = [call EXCEPT ![c] = l] /\ taken' = [taken EXCEPT ![c] = 0]
    BY <1>2 DEF Begin
  <2>3. taken'[c] = 0 /\ taken'[c] <= 1 /\ \A d \in Callers \ {c} : taken'[d] = taken[d]
    BY <1>0, <2>2
  <2> HIDE DEF l
  <2> QED
    BY <1>1, <2>1, <2>2, <2>3
<1>3. ASSUME taken' = taken, NEW l, call' = [call EXCEPT ![c] = l],
             l.result = "unauthorized" => l.fresh,
             l.pc \in {"wait", "sleep", "client", "login", "request"} => taken[c] = 0,
             l.pc = "request" /\ l.attempt = 2 => l.fresh,
             l.pc \in {"wait", "sleep", "client"} => l.attempt = 1
      PROVE  Attempted'
  BY <1>1, <1>3 DEF Attempted, OneDelivery
<1>4. CASE EnterLimiter(c)
  <2> DEFINE l == [call[c] EXCEPT !.pc = "sleep", !.left = RestOfInterval]
  <2>1. /\ l.pc = "sleep" /\ l.attempt = call[c].attempt /\ l.result = call[c].result
        /\ l.fresh = call[c].fresh
    BY <1>0 DEF Call
  <2>2. call' = [call EXCEPT ![c] = l] /\ taken' = taken /\ call[c].pc = "wait"
    BY <1>4 DEF EnterLimiter
  <2>3. taken[c] = 0 /\ call[c].attempt = 1 /\ (call[c].result = "unauthorized" => call[c].fresh)
    BY <2>2 DEF Attempted, OldTokensAreReplaced
  <2> HIDE DEF l
  <2> QED
    BY <1>3, <2>1, <2>2, <2>3
<1>5. CASE WaitTimesOut(c) \/ Crash(c) \/ Persist(c)
  <2>1. call' = [call EXCEPT ![c] = Idle] /\ taken' = taken
    BY <1>5 DEF WaitTimesOut, Crash, Persist
  <2> QED
    BY <1>0, <1>3, <2>1
<1>6. CASE LeaveLimiter(c)
  <2> DEFINE l == [Idle EXCEPT !.pc = "client"]
  <2>1. l.pc = "client" /\ l.result = "none" /\ l.attempt = 1
    BY DEF Idle
  <2>2. /\ call' = [call EXCEPT ![c] = l] \/ call' = [call EXCEPT ![c] = Idle]
        /\ taken' = taken /\ call[c].pc = "sleep"
    BY <1>6 DEF LeaveLimiter
  <2>3. taken[c] = 0
    BY <2>2 DEF Attempted
  <2> HIDE DEF l
  <2> QED
    BY <1>0, <1>3, <2>1, <2>2, <2>3
<1>7. CASE MakeClient(c)
  <2>1. PICK pc \in {"login", "request"} :
           call' = [call EXCEPT ![c] = [call[c] EXCEPT !.token = cache.token, !.pc = pc]]
    BY <1>7 DEF MakeClient
  <2> DEFINE l == [call[c] EXCEPT !.token = cache.token, !.pc = pc]
  <2>2. /\ l.attempt = call[c].attempt /\ l.result = call[c].result
        /\ l.fresh = call[c].fresh /\ l.pc = pc
    BY <1>0 DEF Call
  <2>3. call' = [call EXCEPT ![c] = l] /\ taken' = taken /\ call[c].pc = "client"
    BY <1>7, <2>1 DEF MakeClient
  <2>4. taken[c] = 0 /\ call[c].attempt = 1 /\ (call[c].result = "unauthorized" => call[c].fresh)
    BY <2>3 DEF Attempted, OldTokensAreReplaced
  <2>5. /\ l.result = "unauthorized" => l.fresh
        /\ l.attempt = 1 /\ l.attempt # 2
    BY <2>2, <2>4
  <2> HIDE DEF l
  <2> QED
    BY <1>3, <2>3, <2>4, <2>5
<1>8. ASSUME NEW r, Ends(c, r), taken' = taken \/ (Takes(c) /\ taken[c] = 0),
             r = "unauthorized" => call[c].fresh
      PROVE  Attempted'
  <2> DEFINE l == [call[c] EXCEPT !.pc = "persist", !.result = r]
  <2>1. l.pc = "persist" /\ l.result = r /\ l.fresh = call[c].fresh
    BY <1>0 DEF Call
  <2>2. call' = [call EXCEPT ![c] = l]
    BY <1>8 DEF Ends
  <2>3. taken'[c] <= 1 /\ \A d \in Callers \ {c} : taken'[d] = taken[d]
    BY <1>0, <1>8 DEF Takes, Attempted, OneDelivery
  <2> HIDE DEF l
  <2> QED
    BY <1>1, <1>8, <2>1, <2>2, <2>3
<1>9. CASE LogIn(c)
  <2>1. CASE call' = [call EXCEPT ![c].pc = "request", ![c].token = Len(tokens) + 1,
                                  ![c].fresh = TRUE]
    <3> DEFINE l == [call[c] EXCEPT !.pc = "request", !.token = Len(tokens) + 1, !.fresh = TRUE]
    <3>1. l.pc = "request" /\ l.fresh = TRUE
      BY <1>0 DEF Call
    <3>2. call' = [call EXCEPT ![c] = l] /\ taken' = taken /\ taken[c] = 0
      BY <1>9, <2>1 DEF LogIn, Attempted
    <3> HIDE DEF l
    <3> QED
      BY <1>3, <3>1, <3>2
  <2>2. CASE \E k \in {"lost", "refused"} : Ends(c, k)
    BY <1>8, <1>9, <2>2 DEF LogIn
  <2> QED
    BY <1>9, <2>1, <2>2 DEF LogIn
<1>10. CASE Request(c)
  <2>1. call[c].pc = "request" /\ taken[c] = 0
    BY <1>10 DEF Request, Attempted
  <2>2. CASE Answer(c)
    BY <1>8, <2>1, <2>2 DEF Answer
  <2>3. CASE Unauthorized(c) /\ call[c].attempt = 1
    <3> DEFINE l == [call[c] EXCEPT !.pc = "login", !.attempt = 2]
    <3>1. l.pc = "login" /\ l.result = call[c].result /\ l.fresh = call[c].fresh
      BY <1>0 DEF Call
    <3>2. call' = [call EXCEPT ![c] = l] /\ taken' = taken
      <4>1. ~(call[c].attempt = 2)
        BY <2>3
      <4>2. /\ call' = [call EXCEPT ![c].pc = "login", ![c].attempt = 2]
            /\ taken' = taken
        BY <2>3, <4>1 DEF Unauthorized
      <4> QED
        BY <4>2
    <3>3. call[c].result = "unauthorized" => call[c].fresh
      BY DEF Attempted, OldTokensAreReplaced
    <3> HIDE DEF l
    <3> QED
      BY <1>3, <2>1, <3>1, <3>2, <3>3
  <2>4. CASE Unauthorized(c) /\ call[c].attempt # 1
    <3>1. call[c].attempt = 2 /\ Ends(c, "unauthorized") /\ taken' = taken
      BY <2>4 DEF Unauthorized
    <3>2. call[c].fresh
      BY <2>1, <3>1 DEF Attempted
    <3> QED
      BY <1>8, <3>1, <3>2
  <2> QED
    BY <1>10, <2>2, <2>3, <2>4 DEF Request
<1> QED
  BY <1>2, <1>4, <1>5, <1>6, <1>7, <1>9, <1>10 DEF Step

LEMMA AttemptedNext ==
    ASSUME TypeOK, Attempted, [Next]_vars
    PROVE  Attempted'
<1>1. ASSUME taken' = taken,
             \A c \in Callers : /\ call'[c].pc = call[c].pc /\ call'[c].fresh = call[c].fresh
                                /\ call'[c].attempt = call[c].attempt
                                /\ call'[c].result = call[c].result
      PROVE  Attempted'
  BY <1>1 DEF Attempted, OneDelivery, OldTokensAreReplaced
<1>2. CASE UNCHANGED vars
  BY <1>1, <1>2 DEF vars
<1>3. CASE Tick
  <2>1. ASSUME NEW c \in Callers
        PROVE  /\ call'[c].pc = call[c].pc /\ call'[c].fresh = call[c].fresh
               /\ call'[c].attempt = call[c].attempt /\ call'[c].result = call[c].result
    <3>1. call[c] \in Call
      BY DEF TypeOK
    <3>2. \/ call'[c] = call[c]
          \/ call'[c] = [call[c] EXCEPT !.waited = @ + 1]
          \/ call'[c] = [call[c] EXCEPT !.left = @ - 1]
      BY <1>3 DEF Tick
    <3> QED
      BY <3>1, <3>2 DEF Call
  <2> QED
    BY <1>1, <1>3, <2>1 DEF Tick
<1>4. CASE (\E t \in DOMAIN tokens : TokenAges(t)) \/ EntryExpires
  BY <1>1, <1>4 DEF TokenAges, EntryExpires
<1> QED
  BY <1>2, <1>3, <1>4, AttemptedStep DEF Next

LEMMA AttemptedInit == Init => Attempted
  BY DEF Init, Attempted, OneDelivery, OldTokensAreReplaced, Idle

\* A call delivers its document at most once, whatever connections break and tokens
\* die: only a refused request is repeated.
THEOREM DeliveredOnce == Spec => []OneDelivery
<1>1. TypeOK /\ Attempted /\ [Next]_vars => (TypeOK /\ Attempted)'
  BY NextType, AttemptedNext
<1>2. Attempted => OneDelivery
  BY DEF Attempted
<1> QED
  BY <1>1, <1>2, InitType, AttemptedInit, PTL DEF Spec

\* A call that ends as unauthorized logged in itself for the token that was refused.
THEOREM UnauthorizedIsFresh == Spec => []OldTokensAreReplaced
<1>1. TypeOK /\ Attempted /\ [Next]_vars => (TypeOK /\ Attempted)'
  BY NextType, AttemptedNext
<1>2. Attempted => OldTokensAreReplaced
  BY DEF Attempted
<1> QED
  BY <1>1, <1>2, InitType, AttemptedInit, PTL DEF Spec

-----------------------------------------------------------------------------
(* The limiter *)

\* The stamp is not older than the last pass, as far as the interval goes, and who
\* sleeps inside the lock will have slept the rest of the interval.
Paced ==
    /\ stamp <= quiet \/ quiet = Interval
    /\ \A c \in Callers :
          call[c].pc = "sleep" /\ mutex.holder = c => quiet + call[c].left >= Interval

LEMMA PacedStep ==
    ASSUME TypeOK, Paced, NEW c \in Callers, Begin(c) \/ Step(c) \/ Crash(c)
    PROVE  /\ Paced'
           /\ \A d \in Callers :
                 call[d].pc = "sleep" /\ call'[d].pc = "client" => quiet >= Interval
<1>0. /\ call \in [Callers -> Call] /\ call[c] \in Call
      /\ Idle.pc = "idle" /\ [Idle EXCEPT !.pc = "wait"].pc = "wait"
      /\ [Idle EXCEPT !.pc = "client"].pc = "client"
      /\ quiet \in Nat /\ stamp \in Nat /\ Interval \in Nat /\ quiet <= Interval
      /\ c # Nobody
  BY TimersAssumption, CallersAssumption DEF TypeOK, Idle
<1>1. \* the call moves on outside the limiter
      ASSUME stamp' = stamp, quiet' = quiet, mutex' = mutex, call[c].pc # "sleep",
             NEW l, call' = [call EXCEPT ![c] = l], l.pc # "sleep"
      PROVE  /\ Paced'
             /\ \A d \in Callers :
                   call[d].pc = "sleep" /\ call'[d].pc = "client" => quiet >= Interval
  <2>1. \A d \in Callers : call'[d] = IF d = c THEN l ELSE call[d]
    BY <1>0, <1>1
  <2>2. \A d \in Callers : call'[d].pc = "sleep" => call'[d] = call[d]
    BY <1>1, <2>1
  <2>3. \A d \in Callers : ~(call[d].pc = "sleep" /\ call'[d].pc = "client")
    BY <1>1, <2>1
  <2> QED
    BY <1>1, <2>2, <2>3 DEF Paced
<1>2. CASE EnterLimiter(c)
  <2> DEFINE l == [call[c] EXCEPT !.pc = "sleep", !.left = RestOfInterval]
  <2>1. l.pc = "sleep" /\ l.left = RestOfInterval
    BY <1>0 DEF Call
  <2>2. /\ call' = [call EXCEPT ![c] = l] /\ stamp' = stamp /\ quiet' = quiet
        /\ mutex'.holder = c /\ call[c].pc = "wait"
    BY <1>2 DEF EnterLimiter
  <2> HIDE DEF l
  <2>3. \A d \in Callers : call'[d] = IF d = c THEN l ELSE call[d]
    BY <1>0, <2>2
  <2>4. quiet + RestOfInterval >= Interval
    BY <1>0 DEF Paced, RestOfInterval
  <2>5. \A d \in Callers : ~(call[d].pc = "sleep" /\ call'[d].pc = "client")
    BY <2>1, <2>2, <2>3
  <2>6. \A d \in Callers : mutex'.holder = d => d = c
    BY <2>2
  <2> QED
    BY <2>1, <2>2, <2>3, <2>4, <2>5, <2>6 DEF Paced
<1>3. CASE LeaveLimiter(c)
  <2>1. call[c].pc = "sleep" /\ call[c].left = 0 /\ stamp' = 0
    BY <1>3 DEF LeaveLimiter
  <2>2. CASE mutex.holder = c
    <3>1. mutex'.holder = Nobody /\ quiet' = 0
      BY <1>3, <2>2 DEF LeaveLimiter, Free
    <3>2. quiet >= Interval
      BY <1>0, <2>1, <2>2 DEF Paced
    <3> QED
      BY <2>1, <3>1, <3>2, CallersAssumption DEF Paced
  <2>3. CASE mutex.holder # c
    <3>1. /\ mutex' = mutex /\ quiet' = quiet /\ call' = [call EXCEPT ![c] = Idle]
      BY <1>3, <2>3 DEF LeaveLimiter
    <3>2. \A d \in Callers : call'[d] = IF d = c THEN Idle ELSE call[d]
      BY <1>0, <3>1
    <3>3. stamp' <= quiet'
      BY <1>0, <2>1, <3>1
    <3>4. \A d \in Callers : /\ call'[d].pc = "sleep" => call'[d] = call[d]
                             /\ ~(call[d].pc = "sleep" /\ call'[d].pc = "client")
      BY <1>0, <3>2
    <3> QED
      BY <3>1, <3>3, <3>4 DEF Paced
  <2> QED
    BY <2>2, <2>3
<1>4. CASE Begin(c) \/ WaitTimesOut(c) \/ Persist(c)
  <2>1. /\ stamp' = stamp /\ quiet' = quiet /\ mutex' = mutex /\ call[c].pc # "sleep"
        /\ \/ call' = [call EXCEPT ![c] = [Idle EXCEPT !.pc = "wait"]]
           \/ call' = [call EXCEPT ![c] = Idle]
    BY <1>4 DEF Begin, WaitTimesOut, Persist, limiter
  <2> QED
    BY <1>0, <1>1, <2>1
<1>5. CASE Crash(c)
  <2>1. /\ stamp' = stamp /\ quiet' = quiet /\ mutex' = mutex
        /\ \A d \in Callers : call'[d] = IF d = c THEN Idle ELSE call[d]
    BY <1>0, <1>5 DEF Crash, limiter
  <2>2. \A d \in Callers : /\ call'[d].pc = "sleep" => call'[d] = call[d]
                           /\ ~(call[d].pc = "sleep" /\ call'[d].pc = "client")
    BY <1>0, <2>1
  <2> QED
    BY <2>1, <2>2 DEF Paced
<1>6. CASE MakeClient(c) \/ LogIn(c) \/ Request(c)
  <2>1. /\ stamp' = stamp /\ quiet' = quiet /\ mutex' = mutex
        /\ call[c].pc \in {"client", "login", "request"}
    BY <1>6 DEF MakeClient, LogIn, Request, limiter
  <2>2. \E l : call' = [call EXCEPT ![c] = l] /\ l.pc # "sleep"
    <3> DEFINE Moved == \E l : call' = [call EXCEPT ![c] = l] /\ l.pc # "sleep"
    <3>1. ASSUME NEW t, NEW pc \in {"login", "request"},
                 call' = [call EXCEPT ![c].token = t, ![c].pc = pc]
          PROVE  Moved
      <4>1. [call[c] EXCEPT !.token = t, !.pc = pc].pc = pc
        BY <1>0 DEF Call
      <4> QED
        BY <3>1, <4>1
    <3>2. ASSUME NEW r, Ends(c, r) PROVE Moved
      <4>1. [call[c] EXCEPT !.pc = "persist", !.result = r].pc = "persist"
        BY <1>0 DEF Call
      <4> QED
        BY <3>2, <4>1 DEF Ends
    <3>3. ASSUME NEW t,
                 call' = [call EXCEPT ![c].pc = "request", ![c].token = t, ![c].fresh = TRUE]
          PROVE  Moved
      <4>1. [call[c] EXCEPT !.pc = "request", !.token = t, !.fresh = TRUE].pc = "request"
        BY <1>0 DEF Call
      <4> QED
        BY <3>3, <4>1
    <3>4. ASSUME call' = [call EXCEPT ![c].pc = "login", ![c].attempt = 2]
          PROVE  Moved
      <4>1. [call[c] EXCEPT !.pc = "login", !.attempt = 2].pc = "login"
        BY <1>0 DEF Call
      <4> QED
        BY <3>4, <4>1
    <3> HIDE DEF Moved
    <3>5. ASSUME MakeClient(c) PROVE Moved
      <4>1. PICK pc \in {"login", "request"} :
               call' = [call EXCEPT ![c].token = cache.token, ![c].pc = pc]
        BY <3>5 DEF MakeClient
      <4> QED
        BY <3>1, <4>1
    <3>6. ASSUME LogIn(c) PROVE Moved
      BY <3>2, <3>3, <3>6 DEF LogIn
    <3>7. ASSUME Request(c) PROVE Moved
      BY <3>2, <3>4, <3>7 DEF Request, Answer, Unauthorized
    <3>8. Moved
      BY <1>6, <3>5, <3>6, <3>7
    <3> QED
      BY <3>8 DEF Moved
  <2> QED
    BY <1>1, <2>1, <2>2
<1> QED
  BY <1>2, <1>3, <1>4, <1>5, <1>6 DEF Step

LEMMA PacedNext ==
    ASSUME TypeOK, Paced, [Next]_vars
    PROVE  /\ Paced'
           /\ \A d \in Callers :
                 call[d].pc = "sleep" /\ call'[d].pc = "client" => quiet >= Interval
<1>1. ASSUME UNCHANGED <<call, mutex, stamp, quiet>>
      PROVE  /\ Paced'
             /\ \A d \in Callers : ~(call[d].pc = "sleep" /\ call'[d].pc = "client")
  BY <1>1 DEF Paced
<1>2. CASE UNCHANGED vars
  BY <1>1, <1>2 DEF vars
<1>3. CASE (\E t \in DOMAIN tokens : TokenAges(t)) \/ EntryExpires
  BY <1>1, <1>3 DEF TokenAges, EntryExpires, limiter
<1>4. CASE Tick
  <2>1. /\ quiet \in Nat /\ stamp \in Nat /\ Interval \in Nat /\ StampTTL \in Nat
        /\ quiet <= Interval
    BY TimersAssumption DEF TypeOK
  <2>2. /\ stamp' = AtMost(stamp + 1, StampTTL)
        /\ quiet' = AtMost(quiet + 1, Interval)
    BY <1>4 DEF Tick
  <2>3. stamp' <= quiet' \/ quiet' = Interval
    <3>1. stamp <= quiet \/ quiet = Interval
      BY DEF Paced
    <3> QED
      BY <2>1, <2>2, <3>1 DEF AtMost
  <2>4. ASSUME NEW c \in Callers
        PROVE  /\ call'[c].pc = call[c].pc
               /\ call'[c].pc = "sleep" /\ mutex'.holder = c => quiet' + call'[c].left >= Interval
    <3>1. call[c] \in Call /\ c # Nobody
      BY CallersAssumption DEF TypeOK
    <3>2. \/ call'[c] = call[c] /\ ~Ticking(c)
          \/ call[c].pc = "wait" /\ call'[c] = [call[c] EXCEPT !.waited = @ + 1]
          \/ call[c].pc = "sleep" /\ call'[c] = [call[c] EXCEPT !.left = @ - 1]
      BY <1>4 DEF Tick, Ticking
    <3>3. call'[c].pc = call[c].pc
      BY <3>1, <3>2 DEF Call
    <3>4. mutex'.holder = c => mutex.holder = c
      <4>1. mutex' = Free \/ mutex' = [mutex EXCEPT !.age = mutex.age + 1]
        BY <1>4 DEF Tick
      <4>2. mutex.holder = [mutex EXCEPT !.age = mutex.age + 1].holder
        BY DEF TypeOK
      <4>3. Free.holder = Nobody
        BY DEF Free
      <4>4. mutex'.holder \in {Nobody, mutex.holder}
        BY <4>1, <4>2, <4>3
      <4> QED
        BY <3>1, <4>4
    <3>5. ASSUME call[c].pc = "sleep", mutex.holder = c
          PROVE  quiet' + call'[c].left >= Interval
      <4>1. call[c].left \in Nat /\ quiet + call[c].left >= Interval
        BY <3>1, <3>5 DEF Call, Paced
      <4>2. \/ call'[c].left = call[c].left
            \/ call'[c].left = call[c].left - 1
        BY <3>1, <3>2 DEF Call
      <4>3. quiet' = quiet + 1 \/ quiet' = Interval
        BY <2>2 DEF AtMost
      <4>4. call'[c].left = call[c].left - 1 => call[c].left > 0
        BY <3>5, <1>4, <4>1 DEF Tick, Ticking
      <4> QED
        BY <2>1, <4>1, <4>2, <4>3, <4>4
    <3> QED
      BY <3>3, <3>4, <3>5
  <2> QED
    BY <2>3, <2>4 DEF Paced
<1> QED
  BY <1>2, <1>3, <1>4, PacedStep DEF Next

\* The calls that pass the limiter are an interval apart, however many processes
\* wait, die in it or outlive its lock, and whenever the stamp is gone.
THEOREM CallsAreSpaced == Spec => PassesAreSpaced
<1>1. TypeOK /\ Paced /\ [Next]_vars => (TypeOK /\ Paced)'
  BY NextType, PacedNext
<1>2. TypeOK /\ Paced /\ [Next]_vars
         => [\A c \in Callers : call[c].pc = "sleep" /\ call'[c].pc = "client"
                                   => quiet >= Interval]_vars
  BY PacedNext
<1>3. Init => Paced
  BY TimersAssumption DEF Init, Paced, Idle
<1> QED
  BY <1>1, <1>2, <1>3, InitType, PTL DEF Spec, PassesAreSpaced

=============================================================================
