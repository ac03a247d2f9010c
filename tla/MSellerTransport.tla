--------------------------- MODULE MSellerTransport ---------------------------
(****************************************************************************)
(* Calls of the provider by workers that share two keys of Redis: the stamp *)
(* of the last call (the rate limiter, _throttle) and the bearer token of   *)
(* the login (MSellerProvider, MSellerClient).  A call waits for its turn,  *)
(* takes the token of the cache or logs in, sends its request, logs in      *)
(* again and repeats the request once after a 401, and writes its token     *)
(* back whatever came of it.                                                *)
(*                                                                          *)
(* Timers count ticks; a process may be late at every step.                 *)
(****************************************************************************)
EXTENDS Naturals, Sequences

CONSTANTS
    Callers,     \* processes that call the provider
    Nobody,      \* no process
    Interval,    \* ticks between two calls: 1 / rate_limit_per_second
    Lease,       \* ticks the limiter's lock lasts (timeout=5)
    Wait,        \* ticks a process waits for it (blocking_timeout=5)
    StampTTL,    \* ticks the stamp is kept (expires_in_sec=5)
    Faults,      \* what may go wrong: a subset of FaultKinds
    MaxFaults,   \* bound: faults in a behaviour
    MaxCalls     \* bound: calls in a behaviour

FaultKinds == {"crash", "lost", "refused", "forbidden", "unauthorized"}

ASSUME CallersAssumption == Nobody \notin Callers
\* The limit is at least one call a second, the stamp is kept for five.
ASSUME TimersAssumption ==
    /\ Interval \in Nat \ {0} /\ Lease \in Nat /\ Wait \in Nat /\ StampTTL \in Nat
    /\ Interval <= StampTTL
ASSUME BoundsAssumption == Faults \subseteq FaultKinds /\ MaxFaults \in Nat /\ MaxCalls \in Nat

\* Tokens are numbered in the order of the logins; 0 is none.
NoToken == 0

Result == {"none", "ok", "lost", "refused", "forbidden", "unauthorized"}

\* waited, left: ticks spent waiting for the lock, ticks to sleep inside it; token,
\* fresh: the client's token, and whether this call logged in for it; attempt: of
\* the request; result: what the caller is given.
Call == [pc : {"idle", "wait", "sleep", "client", "login", "request", "persist"},
         waited : 0..Wait, left : 0..Interval, token : Nat, fresh : BOOLEAN,
         attempt : {1, 2}, result : Result]

Idle == [pc |-> "idle", waited |-> 0, left |-> 0, token |-> NoToken, fresh |-> FALSE,
         attempt |-> 1, result |-> "none"]

\* Less than 45 minutes old, less than the hour a token lives, or past it.
Age == {"young", "old", "dead"}

VARIABLES
    call,      \* [Callers -> Call]
    mutex,     \* [holder, age]: the limiter's lock in Redis
    stamp,     \* age of the stamp of the last call; StampTTL when it is gone
    cache,     \* [token, timely]: the shared token; timely: cached when it was issued
    tokens,    \* Seq(Age): the tokens issued so far
    taken,     \* [Callers -> Nat]: requests of the call the provider took (history)
    quiet,     \* ticks since a call was let through, up to Interval (history)
    faults,    \* faults so far
    calls      \* calls so far

limiter == <<mutex, stamp, quiet>>
login == <<cache, tokens>>
vars == <<call, mutex, stamp, cache, tokens, taken, quiet, faults, calls>>

Free == [holder |-> Nobody, age |-> 0]
Empty == [token |-> NoToken, timely |-> FALSE]

Init ==
    /\ call = [c \in Callers |-> Idle]
    /\ mutex = Free
    /\ stamp = StampTTL
    /\ cache = Empty
    /\ tokens = <<>>
    /\ taken = [c \in Callers |-> 0]
    /\ quiet = Interval
    /\ faults = 0
    /\ calls = 0

AtMost(a, b) == IF a <= b THEN a ELSE b

Fault(k) == k \in Faults /\ faults < MaxFaults /\ faults' = faults + 1

-----------------------------------------------------------------------------
(* _throttle *)

Begin(c) ==
    /\ call[c].pc = "idle"
    /\ calls < MaxCalls
    /\ calls' = calls + 1
    /\ call' = [call EXCEPT ![c] = [Idle EXCEPT !.pc = "wait"]]
    /\ taken' = [taken EXCEPT ![c] = 0]
    /\ UNCHANGED <<limiter, login, faults>>

\* Faulty variant: the rest may be less than nothing.
RestUnclamped == IF stamp = StampTTL THEN 0 ELSE Interval - stamp

\* What is left of the interval since the stamp; nothing when the stamp is gone.
RestOfInterval == IF stamp >= Interval THEN 0 ELSE Interval - stamp

EnterLimiter(c) ==
    /\ call[c].pc = "wait"
    /\ mutex = Free
    /\ mutex' = [holder |-> c, age |-> 0]
    /\ call' = [call EXCEPT ![c].pc = "sleep", ![c].left = RestOfInterval]
    /\ UNCHANGED <<stamp, login, taken, quiet, faults, calls>>

\* LockError, before the client exists: nothing is sent and nothing is cached.
WaitTimesOut(c) ==
    /\ call[c].pc = "wait"
    /\ call[c].waited = Wait
    /\ call' = [call EXCEPT ![c] = Idle]
    /\ UNCHANGED <<limiter, login, taken, faults, calls>>

\* Faulty variant: whoever wakes up goes on, holder of the lock or not.
LeaveUnchecked(c) ==
    /\ call[c].pc = "sleep"
    /\ call[c].left = 0
    /\ stamp' = 0
    /\ call' = [call EXCEPT ![c] = [Idle EXCEPT !.pc = "client"]]
    /\ quiet' = 0
    /\ mutex' = IF mutex.holder = c THEN Free ELSE mutex
    /\ UNCHANGED <<login, taken, faults, calls>>

\* The stamp is written first; leaving the lock raises if it expired meanwhile.
LeaveLimiter(c) ==
    /\ call[c].pc = "sleep"
    /\ call[c].left = 0
    /\ stamp' = 0
    /\ \/ /\ mutex.holder = c
          /\ mutex' = Free
          /\ quiet' = 0
          /\ call' = [call EXCEPT ![c] = [Idle EXCEPT !.pc = "client"]]
       \/ /\ mutex.holder # c
          /\ call' = [call EXCEPT ![c] = Idle]
          /\ UNCHANGED <<mutex, quiet>>
    /\ UNCHANGED <<login, taken, faults, calls>>

-----------------------------------------------------------------------------
(* MSellerProvider and MSellerClient                                          *)

\* The client starts with the token of the cache; without one it logs in first.
MakeClient(c) ==
    /\ call[c].pc = "client"
    /\ call' = [call EXCEPT ![c].token = cache.token,
                            ![c].pc = IF cache.token = NoToken THEN "login" ELSE "request"]
    /\ UNCHANGED <<limiter, login, taken, faults, calls>>

Ends(c, result) == call' = [call EXCEPT ![c].pc = "persist", ![c].result = result]

\* Faulty variant: a login returns the token the client has, also after a 401.
LogInUnlessCached(c) ==
    /\ call[c].pc = "login"
    /\ IF call[c].token = NoToken
       THEN /\ tokens' = Append(tokens, "young")
            /\ call' = [call EXCEPT ![c].pc = "request", ![c].token = Len(tokens) + 1,
                                    ![c].fresh = TRUE]
       ELSE /\ call' = [call EXCEPT ![c].pc = "request"]
            /\ UNCHANGED tokens
    /\ UNCHANGED <<limiter, cache, taken, faults, calls>>

\* A login gives a new token, or leaves the client with the one it had.
LogIn(c) ==
    /\ call[c].pc = "login"
    /\ \/ /\ tokens' = Append(tokens, "young")
          /\ call' = [call EXCEPT ![c].pc = "request", ![c].token = Len(tokens) + 1,
                                  ![c].fresh = TRUE]
          /\ UNCHANGED faults
       \/ \E k \in {"lost", "refused"} : Fault(k) /\ Ends(c, k) /\ UNCHANGED tokens
    /\ UNCHANGED <<limiter, cache, taken, calls>>

Alive(t) == t # NoToken /\ tokens[t] # "dead"

Takes(c) == taken' = [taken EXCEPT ![c] = @ + 1]

\* Faulty variant: a lost connection is retried like a 401.
AnswerWithRetry(c) ==
    \/ /\ Takes(c)
       /\ Ends(c, "ok")
       /\ UNCHANGED faults
    \/ /\ Fault("lost")
       /\ Takes(c) \/ UNCHANGED taken
       /\ IF call[c].attempt = 1 THEN call' = [call EXCEPT ![c].attempt = 2] ELSE Ends(c, "lost")
    \/ Fault("forbidden") /\ Ends(c, "forbidden") /\ UNCHANGED taken

\* The provider takes the request of a living token, or a fault: the connection
\* breaks before or after that, or the API key is refused.
Answer(c) ==
    \/ /\ Takes(c)
       /\ Ends(c, "ok")
       /\ UNCHANGED faults
    \/ /\ Fault("lost")
       /\ Takes(c) \/ UNCHANGED taken
       /\ Ends(c, "lost")
    \/ Fault("forbidden") /\ Ends(c, "forbidden") /\ UNCHANGED taken

\* A 401, to a dead token or as a fault: log in and repeat, once.
Unauthorized(c) ==
    /\ \/ ~Alive(call[c].token) /\ UNCHANGED faults
       \/ Alive(call[c].token) /\ Fault("unauthorized")
    /\ \/ /\ call[c].attempt = 1
          /\ call' = [call EXCEPT ![c].pc = "login", ![c].attempt = 2]
       \/ /\ call[c].attempt = 2
          /\ Ends(c, "unauthorized")
    /\ UNCHANGED taken

Request(c) ==
    /\ call[c].pc = "request"
    /\ (Alive(call[c].token) /\ Answer(c)) \/ Unauthorized(c)
    /\ UNCHANGED <<limiter, login, calls>>

\* finally: _persist_token, after errors too; the client's token replaces another
\* one in the cache, be it newer or older.
Persist(c) ==
    LET t == call[c].token
    IN  /\ call[c].pc = "persist"
        /\ cache' = IF t \in {NoToken, cache.token} THEN cache
                    ELSE [token |-> t, timely |-> call[c].fresh]
        /\ call' = [call EXCEPT ![c] = Idle]
        /\ UNCHANGED <<limiter, tokens, taken, faults, calls>>

Step(c) ==
    \/ EnterLimiter(c) \/ WaitTimesOut(c) \/ LeaveLimiter(c)
    \/ MakeClient(c) \/ LogIn(c) \/ Request(c) \/ Persist(c)

-----------------------------------------------------------------------------
(* Crashes and time                                                           *)

Crash(c) ==
    /\ call[c].pc # "idle"
    /\ Fault("crash")
    /\ call' = [call EXCEPT ![c] = Idle]
    /\ UNCHANGED <<limiter, login, taken, calls>>

Ticking(c) == \/ call[c].pc = "wait" /\ call[c].waited < Wait
              \/ call[c].pc = "sleep" /\ call[c].left > 0

Tick ==
    /\ \/ \E c \in Callers : Ticking(c)
       \/ mutex # Free
       \/ stamp < StampTTL \/ quiet < Interval
    /\ call' = [c \in Callers |->
                   IF ~Ticking(c) THEN call[c]
                   ELSE IF call[c].pc = "wait" THEN [call[c] EXCEPT !.waited = @ + 1]
                        ELSE [call[c] EXCEPT !.left = @ - 1]]
    /\ mutex' = IF mutex = Free \/ mutex.age + 1 >= Lease THEN Free
                ELSE [mutex EXCEPT !.age = @ + 1]
    /\ stamp' = AtMost(stamp + 1, StampTTL)
    /\ quiet' = AtMost(quiet + 1, Interval)
    /\ UNCHANGED <<login, taken, faults, calls>>

\* A token grows old: 45 minutes after it was cached the entry expires.  A call does
\* not last that long (60 seconds for each of its requests).
TokenAges(t) ==
    /\ tokens[t] # "dead"
    /\ \A c \in Callers : call[c].fresh => call[c].token # t
    /\ tokens' = [tokens EXCEPT ![t] = IF @ = "young" THEN "old" ELSE "dead"]
    /\ cache' = IF cache.token = t /\ cache.timely THEN Empty ELSE cache
    /\ UNCHANGED <<call, limiter, taken, faults, calls>>

\* The entry of a token cached again later expires some time.
EntryExpires ==
    /\ cache # Empty /\ ~cache.timely
    /\ cache' = Empty
    /\ UNCHANGED <<call, limiter, tokens, taken, faults, calls>>

Next ==
    \/ \E c \in Callers : Begin(c) \/ Step(c) \/ Crash(c)
    \/ Tick
    \/ \E t \in DOMAIN tokens : TokenAges(t)
    \/ EntryExpires

Spec == Init /\ [][Next]_vars

-----------------------------------------------------------------------------
(* Properties *)

TypeOK ==
    /\ call \in [Callers -> Call]
    /\ mutex \in [holder : Callers \cup {Nobody}, age : 0..Lease]
    /\ stamp \in 0..StampTTL
    /\ cache \in [token : 0..Len(tokens), timely : BOOLEAN]
    /\ tokens \in Seq(Age)
    /\ \A c \in Callers : call[c].token <= Len(tokens)
    /\ taken \in [Callers -> Nat]
    /\ quiet \in 0..Interval
    /\ faults \in Nat
    /\ calls \in Nat

\* The limiter spaces the calls of all workers, whoever dies in it or outlives its
\* lock, and whenever the stamp expires.
PassesAreSpaced ==
    [][\A c \in Callers :
          call[c].pc = "sleep" /\ call'[c].pc = "client" => quiet >= Interval]_vars

\* A call delivers its document once: the request is repeated only when the first
\* one was refused, never after an answer that was lost.
OneDelivery == \A c \in Callers : taken[c] <= 1

\* A call fails as unauthorized only with a token it logged in for, never because
\* another process left an old one in the cache.
OldTokensAreReplaced == \A c \in Callers : call[c].result = "unauthorized" => call[c].fresh

\* providers/mseller.py: a cached token is never served near expiry.
CachedTokenIsYoung == cache.token # NoToken => tokens[cache.token] = "young"

=============================================================================
