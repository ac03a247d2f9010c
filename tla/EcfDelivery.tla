----------------------------- MODULE EcfDelivery -----------------------------
(****************************************************************************)
(* Delivery of issued e-CF documents (electronic fiscal invoices) to the    *)
(* provider MSeller: the durable outbox row of every document, the jobs and *)
(* web requests that POST it or query its status, the two scheduled tasks   *)
(* (poll_pending_documents, retry_failed_documents) and the provider.       *)
(*                                                                          *)
(* A step of a worker reads or writes the database once, or exchanges one   *)
(* message with the provider; everything the code does between two such     *)
(* points is part of the step.  A worker decides on the row it read (snap)  *)
(* and writes the row as it is by then: the code re-reads it under          *)
(* SELECT ... FOR UPDATE in apply_transition, but does not decide again.    *)
(*                                                                          *)
(* A deadline is a small set of ages ("recent" -> "old"), and one action    *)
(* per deadline lets it pass.                                               *)
(****************************************************************************)
EXTENDS Naturals, FiniteSets

CONSTANTS
    Docs,            \* the issued documents (ECF Document Log rows)
    Operators,       \* web sessions of users
    Requests,        \* what users ask: a subset of RequestKinds
    Faults,          \* what may go wrong: a subset of FaultKinds
    MaxFaults,       \* bound: faults in a behaviour
    MaxRequests,     \* bound: user requests in a behaviour
    SlowWorkers,     \* TRUE: a worker may outlive the leases and timeouts
    SlowSweep,       \* TRUE: rows change between the sweep's SELECT and its enqueue
    SnapshotReads,   \* TRUE: a plain read may return the transaction's snapshot
    NoWorker         \* nobody holds the send lock

RequestKinds == {"submit", "refresh", "retry", "query"}

FaultKinds == {"lost", "denied", "ambiguous", "untyped", "lag", "crash", "taskCrash", "disabled"}

ASSUME DocsAssumption == Docs # {} /\ NoWorker \notin Docs \cup Operators
ASSUME OperatorsAssumption == Operators \cap Docs = {}
ASSUME KindsAssumption == Requests \subseteq RequestKinds /\ Faults \subseteq FaultKinds
ASSUME BoundsAssumption == MaxFaults \in Nat /\ MaxRequests \in Nat
ASSUME SwitchesAssumption ==
    SlowWorkers \in BOOLEAN /\ SlowSweep \in BOOLEAN /\ SnapshotReads \in BOOLEAN

\* One background job per document (the queue refuses a second job with the id
\* "ecf-submit-<invoice>" while one is queued or started), one process per user.
Workers == Docs \cup Operators

-----------------------------------------------------------------------------
(* Statuses *)

ACCEPTED_STATUSES == {"Aceptado"}     \* "Aceptado Condicional" is treated alike
REMOTE_IN_FLIGHT_STATUSES == {"RECIBIDO", "PROCESANDO"}
BLOCKED_STATUSES == {"Rechazado", "ERROR"}
Status == {"Pending", "SUBMITTING", "UNCONFIRMED"}
              \cup REMOTE_IN_FLIGHT_STATUSES \cup ACCEPTED_STATUSES \cup BLOCKED_STATUSES

Max2(a, b) == IF a >= b THEN a ELSE b

\* The fields of an ECF Document Log that decide what happens to it.  attempted,
\* checked: age of last_attempt_at (10 minutes) and of last_status_checked_at
\* (2 minutes); retry, check: next_retry_at and next_status_check_at.
Row == [status : Status, attempts : Nat, notFound : Nat, action : BOOLEAN,
        attempted : {"none", "recent", "stale"}, checked : {"none", "recent", "old"},
        retry : {"none", "later", "due"}, check : {"none", "later", "due"}]

NewRow == [status |-> "Pending", attempts |-> 0, notFound |-> 0, action |-> FALSE,
           attempted |-> "none", checked |-> "none", retry |-> "none", check |-> "none"]

\* What a status query or a POST brings back.
Reply == {"none", "missing", "untyped", "ambiguous", "lost", "denied"} \cup Status

PC == {"idle", "send", "lock", "mark", "post", "reply",
       "reconcile", "ask", "answer", "miss", "query", "queryReply"}

\* A worker inside send_ecf_log or reconcile_ecf_log: their arguments, the row it
\* read, the reply it got, and whether it is inside `with lock`.
Local == [pc : PC, doc : Docs, force : BOOLEAN, resendMissing : BOOLEAN,
          resendFailure : BOOLEAN, held : BOOLEAN, snap : Row, reply : Reply]

Rest(d) == [pc |-> "idle", doc |-> d, force |-> FALSE, resendMissing |-> FALSE,
            resendFailure |-> FALSE, held |-> FALSE, snap |-> NewRow, reply |-> "none"]

VARIABLES
    row,        \* [Docs -> Row]: the committed outbox rows
    lock,       \* [Docs -> Workers \cup {NoWorker}]: the Redis send lock
    w,          \* [Workers -> Local]
    poll,       \* the poll_pending_documents task
    sweep,      \* the retry_failed_documents task
    remote,     \* [Docs -> Remote]: what the provider has
    posts,      \* [Docs -> Nat]: POSTs that left for the provider (history)
    evidence,   \* [Docs -> Evidence]: what queries showed since the last POST (history)
    faults,     \* faults so far
    requests    \* user requests so far

db == <<row, lock>>
tasks == <<poll, sweep>>
provider == <<remote, posts, evidence>>
bounds == <<faults, requests>>
vars == <<row, lock, w, poll, sweep, remote, posts, evidence, faults, requests>>

-----------------------------------------------------------------------------
(* delivery.py: every write of a row goes through apply_transition *)

\* Faulty variant: only errors of ours ask for a person, not rejections.
ActionOnErrorOnly(r, s) ==
    [r EXCEPT !.status = s,
              !.action = s = "ERROR",
              !.retry = IF s \in {"Pending", "SUBMITTING", "UNCONFIRMED"} THEN @ ELSE "none",
              !.check = IF s \in REMOTE_IN_FLIGHT_STATUSES THEN "later" ELSE "none",
              !.notFound = IF s \in ACCEPTED_STATUSES \cup REMOTE_IN_FLIGHT_STATUSES
                           THEN 0 ELSE @]

\* The fields apply_transition sets itself for the target status s, over those
\* the caller set in r; it does not look at the status the row has.
apply_transition(r, s) ==
    [r EXCEPT !.status = s,
              !.action = s \in BLOCKED_STATUSES,
              !.retry = IF s \in {"Pending", "SUBMITTING", "UNCONFIRMED"} THEN @ ELSE "none",
              !.check = IF s \in REMOTE_IN_FLIGHT_STATUSES THEN "later" ELSE "none",
              !.notFound = IF s \in ACCEPTED_STATUSES \cup REMOTE_IN_FLIGHT_STATUSES
                           THEN 0 ELSE @]

\* Faulty variant: a result without a status is taken for an acceptance.
UntypedAccepts(r, s) ==
    apply_transition([r EXCEPT !.checked = "recent", !.notFound = 0],
                     IF s = "untyped" THEN "Aceptado" ELSE s)

\* A status the provider reported; "untyped" is a result without a status.
apply_remote_result(r, s) ==
    apply_transition([r EXCEPT !.checked = "recent", !.notFound = 0],
                     IF s = "untyped" THEN r.status ELSE s)

\* Faulty variant: the second miss confirms the absence however soon it comes.
TwoMisses(seen) == seen.notFound >= 1

\* Two spaced misses: seen is the row record_not_found read.
AbsenceConfirmed(seen) == seen.notFound >= 1 /\ seen.checked = "old"

\* Faulty variant: the first miss leaves next_retry_at as it is.
NotFoundWithoutRetry(r, seen) ==
    apply_transition([r EXCEPT !.notFound = seen.notFound + 1, !.checked = "recent",
                               !.retry = IF AbsenceConfirmed(seen) THEN "none" ELSE @],
                     "UNCONFIRMED")

record_not_found(r, seen) ==
    apply_transition(
        IF AbsenceConfirmed(seen)
        THEN [r EXCEPT !.notFound = seen.notFound + 1, !.checked = "recent", !.retry = "none"]
        ELSE [r EXCEPT !.notFound = Max2(seen.notFound, 1), !.checked = "recent",
                       !.retry = "later"],
        "UNCONFIRMED")

\* Faulty variant: a failure is never retried by itself.
FailureWithoutRetry(r, kind) ==
    apply_transition([r EXCEPT !.retry = "none"],
                     IF kind = "lost" THEN "UNCONFIRMED" ELSE "ERROR")

\* _classify_failure and _record_failure: a connection failure, 429 or 5xx
\* ("lost") leaves the outcome open; anything else ("denied") blocks the row.
record_failure(r, kind) ==
    IF kind = "lost" THEN apply_transition([r EXCEPT !.retry = "later"], "UNCONFIRMED")
                     ELSE apply_transition([r EXCEPT !.retry = "none"], "ERROR")

\* The answer left the document out: the status read before the call is written
\* back.
record_ambiguous(r, seen) ==
    apply_transition([r EXCEPT !.checked = "recent",
                               !.retry = IF seen.status = "UNCONFIRMED" THEN "later"
                                         ELSE seen.retry],
                     seen.status)

\* A blocked document the provider does not know stays as it was read.
record_blocked_not_found(r, seen) ==
    apply_transition([r EXCEPT !.checked = "recent", !.retry = "none"], seen.status)

-----------------------------------------------------------------------------
(* The provider (outside src/, modelled from what the client can be answered) *)

\* "hidden": it has the request, status queries do not show it yet.
Remote == {"absent", "hidden", "PROCESANDO", "Aceptado", "Rechazado"}

\* What queries have shown since the last POST of a document.
Evidence == {"none", "missed", "aged", "spaced", "rejected"}

View(r) == IF r \in {"absent", "hidden"} THEN "missing" ELSE r

\* A rejected document may be sent again under the same number.
Received(r) == IF r \in {"absent", "hidden", "Rechazado"} THEN "PROCESANDO" ELSE r
ReceivedUnseen(r) == IF r = "absent" THEN "hidden" ELSE r

PostOutcomes(r) ==
    {[sent |-> TRUE, remote |-> Received(r), reply |-> "RECIBIDO", fault |-> FALSE]}
    \cup {[sent |-> TRUE, remote |-> ReceivedUnseen(r), reply |-> "RECIBIDO", fault |-> TRUE] :
              k \in Faults \cap {"lag"}}
    \cup {[sent |-> TRUE, remote |-> x, reply |-> k, fault |-> TRUE] :
              x \in {r, ReceivedUnseen(r), Received(r)}, k \in Faults \cap {"lost", "denied"}}
    \cup {[sent |-> FALSE, remote |-> r, reply |-> k, fault |-> TRUE] :
              k \in Faults \cap {"lost", "denied"}}

QueryOutcomes(r) ==
    {[reply |-> View(r), fault |-> FALSE]}
    \cup {[reply |-> k, fault |-> TRUE] : k \in Faults \cap {"lost", "denied", "ambiguous"}}
    \cup {[reply |-> k, fault |-> TRUE] :
              k \in IF View(r) = "missing" THEN {} ELSE Faults \cap {"untyped"}}

\* What the answer s of a status query adds to the evidence e; a resend is
\* justified by "spaced" or "rejected" until it is made.
Learn(e, s) ==
    IF e \in {"spaced", "rejected"} THEN e
    ELSE CASE s = "missing" -> IF e = "aged" THEN "spaced" ELSE "missed"
           [] s \in BLOCKED_STATUSES -> "rejected"
           [] s \in REMOTE_IN_FLIGHT_STATUSES \cup ACCEPTED_STATUSES -> "none"
           [] OTHER -> e

Spend(fault) == /\ fault => faults < MaxFaults
                /\ faults' = IF fault THEN faults + 1 ELSE faults

-----------------------------------------------------------------------------
(* Initial states: every document has just been committed by on_submit, with  *)
(* its job queued or, when the queue was down, without it.                     *)

AnyDoc == CHOOSE d \in Docs : TRUE

Nothing == [d \in Docs |-> "none"]

Init ==
    /\ row = [d \in Docs |-> NewRow]
    /\ lock = [d \in Docs |-> NoWorker]
    /\ \E queued \in SUBSET Docs :
           w = [p \in Workers |->
                   IF p \in Docs THEN [Rest(p) EXCEPT !.pc = IF p \in queued THEN "send"
                                                             ELSE "idle"]
                                 ELSE Rest(AnyDoc)]
    /\ poll = [pc |-> "idle", seen |-> Nothing, replies |-> Nothing]
    /\ sweep = [todo |-> Nothing, marked |-> {}]
    /\ remote = [d \in Docs |-> "absent"]
    /\ posts = [d \in Docs |-> 0]
    /\ evidence = [d \in Docs |-> "none"]
    /\ faults = 0
    /\ requests = 0

-----------------------------------------------------------------------------
(* Steps of a worker                                                          *)

\* The rows a plain read of d by worker p may return.
Visible(p) == {row[w[p].doc]} \cup (IF SnapshotReads THEN {w[p].snap} ELSE {})

\* The sweep's transaction holds the rows it marked until it commits.
Unlocked(d) == d \notin sweep.marked

SetRow(d, r) == /\ Unlocked(d)
                /\ row' = [row EXCEPT ![d] = r]

\* Faulty variant: whoever returns releases the lock, holder or not.
FinishReleasingAnyLock(p) ==
    LET d == w[p].doc
    IN  /\ w' = [w EXCEPT ![p] = Rest(d)]
        /\ lock' = [lock EXCEPT ![d] = NoWorker]

\* Return to the caller, leaving `with lock`; releasing a lease that expired
\* raises and changes nothing.
Finish(p) ==
    LET d == w[p].doc
    IN  /\ w' = [w EXCEPT ![p] = Rest(d)]
        /\ lock' = IF w[p].held /\ lock[d] = p THEN [lock EXCEPT ![d] = NoWorker] ELSE lock

Goto(p, pc) == w' = [w EXCEPT ![p].pc = pc]

(* send_ecf_log *)

\* The permission check reads the log before the lock is asked for.
EnterSend(p) ==
    /\ w[p].pc = "send"
    /\ w' = [w EXCEPT ![p].pc = "lock", ![p].snap = row[w[p].doc]]
    /\ UNCHANGED <<row, lock, tasks, provider, bounds>>

\* The Redis lock is not reentrant: a worker that already holds it waits for its
\* own lease to expire.
AcquireSend(p) ==
    LET d == w[p].doc
        skip(r) == \/ r.status \in ACCEPTED_STATUSES
                   \/ r.status \in REMOTE_IN_FLIGHT_STATUSES /\ ~w[p].force
        query(r) == r.status = "UNCONFIRMED" /\ ~w[p].force
    IN  /\ w[p].pc = "lock"
        /\ lock[d] = NoWorker
        /\ \E r \in Visible(p) :
              \/ /\ skip(r)
                 /\ w' = [w EXCEPT ![p] = Rest(d)]
                 /\ UNCHANGED lock
              \/ /\ query(r)
                 /\ w' = [w EXCEPT ![p] = [Rest(d) EXCEPT !.pc = "reconcile", !.held = TRUE,
                                                          !.resendMissing = TRUE]]
                 /\ lock' = [lock EXCEPT ![d] = p]
              \/ /\ ~skip(r) /\ ~query(r)
                 /\ w' = [w EXCEPT ![p].pc = "mark", ![p].held = TRUE, ![p].snap = r]
                 /\ lock' = [lock EXCEPT ![d] = p]
        /\ UNCHANGED <<row, tasks, provider, bounds>>

\* Faulty variant: only the first attempt is counted.
MarkFirstAttempt(p) ==
    LET d == w[p].doc
    IN  /\ w[p].pc = "mark"
        /\ SetRow(d, apply_transition([row[d] EXCEPT !.attempts = 1, !.attempted = "recent",
                                                     !.retry = "none", !.notFound = 0],
                                      "SUBMITTING"))
        /\ Goto(p, "post")
        /\ UNCHANGED <<lock, tasks, provider, bounds>>

\* The attempt marker is committed before the POST.
MarkSubmitting(p) ==
    LET d == w[p].doc
    IN  /\ w[p].pc = "mark"
        /\ SetRow(d, apply_transition([row[d] EXCEPT !.attempts = w[p].snap.attempts + 1,
                                                     !.attempted = "recent", !.retry = "none",
                                                     !.notFound = 0], "SUBMITTING"))
        /\ Goto(p, "post")
        /\ UNCHANGED <<lock, tasks, provider, bounds>>

Post(p) ==
    LET d == w[p].doc
    IN  /\ w[p].pc = "post"
        /\ \E o \in PostOutcomes(remote[d]) :
              /\ Spend(o.fault)
              /\ remote' = [remote EXCEPT ![d] = o.remote]
              /\ posts' = [posts EXCEPT ![d] = IF o.sent THEN @ + 1 ELSE @]
              /\ evidence' = [evidence EXCEPT ![d] = IF o.sent THEN "none" ELSE @]
              /\ w' = [w EXCEPT ![p].pc = "reply", ![p].reply = o.reply]
        /\ UNCHANGED <<row, lock, tasks, requests>>

HandlePostReply(p) ==
    LET d == w[p].doc
        s == w[p].reply
    IN  /\ w[p].pc = "reply"
        /\ SetRow(d, IF s \in {"lost", "denied"} THEN record_failure(row[d], s)
                                                 ELSE apply_remote_result(row[d], s))
        /\ Finish(p)
        /\ UNCHANGED <<tasks, provider, bounds>>

(* reconcile_ecf_log *)

BeginReconcile(p) ==
    LET r == row[w[p].doc]
    IN  /\ w[p].pc = "reconcile"
        /\ \/ /\ r.status \in ACCEPTED_STATUSES
              /\ Finish(p)
           \/ /\ r.status \notin ACCEPTED_STATUSES
              /\ w' = [w EXCEPT ![p].pc = "ask", ![p].snap = r]
              /\ UNCHANGED lock
        /\ UNCHANGED <<row, tasks, provider, bounds>>

Ask(p) ==
    LET d == w[p].doc
    IN  /\ w[p].pc = "ask"
        /\ \E o \in QueryOutcomes(remote[d]) :
              /\ Spend(o.fault)
              /\ evidence' = [evidence EXCEPT ![d] = Learn(@, o.reply)]
              /\ w' = [w EXCEPT ![p].pc = "answer", ![p].reply = o.reply]
        /\ UNCHANGED <<row, lock, tasks, remote, posts, requests>>

\* send_ecf_log(force=True) from inside reconcile_ecf_log; when that ran inside
\* the lock, the lock stays taken.
ForceSend(p) ==
    /\ w' = [w EXCEPT ![p] = [Rest(w[p].doc) EXCEPT !.pc = "send", !.force = TRUE]]
    /\ UNCHANGED lock

\* The reply was a failure, a status, or nothing that can be used.
HandleAnswer(p) ==
    LET d == w[p].doc
        s == w[p].reply
    IN  /\ w[p].pc = "answer"
        /\ \/ /\ s \in {"lost", "denied"}
              /\ SetRow(d, record_failure(row[d], s))
              /\ Finish(p)
           \/ /\ s \in Status \cup {"untyped"}
              /\ SetRow(d, apply_remote_result(row[d], s))
              /\ IF s \in BLOCKED_STATUSES /\ w[p].resendFailure THEN ForceSend(p)
                                                                 ELSE Finish(p)
           \/ /\ s = "ambiguous"
              /\ SetRow(d, record_ambiguous(row[d], w[p].snap))
              /\ Finish(p)
        /\ UNCHANGED <<tasks, provider, bounds>>

\* found=false: a blocked row keeps its status unless the user asked to resend;
\* otherwise record_not_found reads the row again.
HandleMissing(p) ==
    LET d == w[p].doc
        keeps == w[p].snap.status \in BLOCKED_STATUSES /\ ~w[p].resendFailure
    IN  /\ w[p].pc = "answer"
        /\ w[p].reply = "missing"
        /\ \/ /\ keeps
              /\ SetRow(d, record_blocked_not_found(row[d], w[p].snap))
              /\ Finish(p)
           \/ /\ ~keeps
              /\ \E r \in Visible(p) : w' = [w EXCEPT ![p].pc = "miss", ![p].snap = r]
              /\ UNCHANGED <<row, lock>>
        /\ UNCHANGED <<tasks, provider, bounds>>

RecordMiss(p) ==
    LET d == w[p].doc
    IN  /\ w[p].pc = "miss"
        /\ SetRow(d, record_not_found(row[d], w[p].snap))
        /\ IF w[p].resendMissing /\ AbsenceConfirmed(w[p].snap) THEN ForceSend(p)
                                                               ELSE Finish(p)
        /\ UNCHANGED <<tasks, provider, bounds>>

(* query_status: a missing document is an HTTP error and changes nothing *)

Query(p) ==
    LET d == w[p].doc
    IN  /\ w[p].pc = "query"
        /\ \E o \in QueryOutcomes(remote[d]) :
              /\ Spend(o.fault)
              /\ w' = [w EXCEPT ![p].pc = "queryReply", ![p].reply = o.reply]
        /\ UNCHANGED <<row, lock, tasks, provider, requests>>

HandleQueryReply(p) ==
    LET d == w[p].doc
        s == w[p].reply
    IN  /\ w[p].pc = "queryReply"
        /\ IF s \in Status THEN SetRow(d, apply_remote_result(row[d], s)) ELSE UNCHANGED row
        /\ Finish(p)
        /\ UNCHANGED <<tasks, provider, bounds>>

(* What cuts a worker short *)

\* The worker process dies; its transaction is rolled back, the lock is not
\* released and the queue forgets the job.
Crash(p) ==
    /\ "crash" \in Faults
    /\ w[p].pc # "idle"
    /\ Spend(TRUE)
    /\ w' = [w EXCEPT ![p] = Rest(w[p].doc)]
    /\ UNCHANGED <<row, lock, tasks, provider, requests>>

\* get_provider raises outside the try block: settings disabled or missing.
ProviderUnavailable(p) ==
    /\ "disabled" \in Faults
    /\ w[p].pc \in {"post", "ask", "query"}
    /\ Spend(TRUE)
    /\ Finish(p)
    /\ UNCHANGED <<row, tasks, provider, requests>>

Holds(p, d) == w[p].held /\ w[p].doc = d

\* LockError: a live worker kept the lock for the whole waiting time.
WaitTimesOut(p) ==
    LET d == w[p].doc
    IN  /\ w[p].pc = "lock"
        /\ lock[d] \in Workers \ {p}
        /\ Holds(lock[d], d)
        /\ w' = [w EXCEPT ![p] = Rest(d)]
        /\ UNCHANGED <<row, lock, tasks, provider, bounds>>

Step(p) ==
    \/ EnterSend(p) \/ AcquireSend(p) \/ MarkSubmitting(p) \/ Post(p) \/ HandlePostReply(p)
    \/ BeginReconcile(p) \/ Ask(p) \/ HandleAnswer(p) \/ HandleMissing(p) \/ RecordMiss(p)
    \/ Query(p) \/ HandleQueryReply(p)

-----------------------------------------------------------------------------
(* poll_pending_documents: one batch of one company.  Its writes, committed  *)
(* together at the end of the task, are one step.                            *)

\* Faulty variant: the poller selects by next_status_check_at alone.
PollSelectAnyStatus ==
    LET due(d) == row[d].check # "later"
    IN  /\ poll.pc = "idle"
        /\ \E d \in Docs : due(d)
        /\ poll' = [poll EXCEPT !.pc = "ask",
                                !.seen = [d \in Docs |-> IF due(d) THEN row[d].status
                                                                   ELSE "none"]]
        /\ UNCHANGED <<db, w, sweep, provider, bounds>>

\* Faulty variant: a document the provider is processing is not asked about again.
PollSelectReceived ==
    LET due(d) == row[d].status = "RECIBIDO" /\ row[d].check # "later"
    IN  /\ poll.pc = "idle"
        /\ \E d \in Docs : due(d)
        /\ poll' = [poll EXCEPT !.pc = "ask",
                                !.seen = [d \in Docs |-> IF due(d) THEN row[d].status
                                                                   ELSE "none"]]
        /\ UNCHANGED <<db, w, sweep, provider, bounds>>

PollSelect ==
    LET due(d) == row[d].status \in REMOTE_IN_FLIGHT_STATUSES /\ row[d].check # "later"
    IN  /\ poll.pc = "idle"
        /\ \E d \in Docs : due(d)
        /\ poll' = [poll EXCEPT !.pc = "ask",
                                !.seen = [d \in Docs |-> IF due(d) THEN row[d].status
                                                                   ELSE "none"]]
        /\ UNCHANGED <<db, w, sweep, provider, bounds>>

Polled(d) == poll.seen[d] # "none"

\* The whole batch fails, and the task goes on without it...
PollFails ==
    /\ poll.pc = "ask"
    /\ Faults \cap {"lost", "denied", "disabled", "taskCrash"} # {}
    /\ Spend(TRUE)
    /\ poll' = [pc |-> "idle", seen |-> Nothing, replies |-> Nothing]
    /\ UNCHANGED <<db, w, sweep, provider, requests>>

\* ... or it is answered, at most one of its documents not clearly.
ClearAnswers == [d \in Docs |-> IF Polled(d) THEN View(remote[d]) ELSE "none"]

PollOutcomes ==
    {ClearAnswers} \cup {[ClearAnswers EXCEPT ![d] = k] :
                            d \in {x \in Docs : Polled(x)},
                            k \in Faults \cap {"ambiguous", "untyped"}}

PollAsk ==
    /\ poll.pc = "ask"
    /\ \E replies \in PollOutcomes :
          /\ Spend(replies # ClearAnswers)
          /\ poll' = [poll EXCEPT !.pc = "apply", !.replies = replies]
          /\ evidence' = [d \in Docs |-> IF Polled(d) THEN Learn(evidence[d], replies[d])
                                                      ELSE evidence[d]]
    /\ UNCHANGED <<db, w, sweep, remote, posts, requests>>

\* Faulty variant: found=false is taken for a status.
PollResultUnchecked(r, seen, s) ==
    CASE s = "none" -> r
      [] s = "ambiguous" -> apply_transition([r EXCEPT !.checked = "recent"], seen)
      [] OTHER -> apply_remote_result(r, s)

PollResult(r, seen, s) ==
    CASE s = "none" -> r
      [] s = "missing" -> record_not_found(r, r)
      [] s = "ambiguous" -> apply_transition([r EXCEPT !.checked = "recent"], seen)
      [] OTHER -> apply_remote_result(r, s)

PollApply ==
    /\ poll.pc = "apply"
    /\ \A d \in Docs : Polled(d) => Unlocked(d)
    /\ row' = [d \in Docs |-> PollResult(row[d], poll.seen[d], poll.replies[d])]
    /\ poll' = [pc |-> "idle", seen |-> Nothing, replies |-> Nothing]
    /\ UNCHANGED <<lock, w, sweep, provider, bounds>>

\* The task dies before its commit: everything it wrote is rolled back.
PollCrash ==
    /\ "taskCrash" \in Faults
    /\ poll.pc = "apply"
    /\ Spend(TRUE)
    /\ poll' = [pc |-> "idle", seen |-> Nothing, replies |-> Nothing]
    /\ UNCHANGED <<db, w, sweep, provider, requests>>

Poller == PollSelect \/ PollFails \/ PollAsk \/ PollApply \/ PollCrash

-----------------------------------------------------------------------------
(* retry_failed_documents                                                     *)

\* Faulty variant: the sweep takes documents the poller is asking about.
VerdictOnReceived(r) ==
    CASE r.status = "Pending" -> "send"
      [] r.status = "SUBMITTING" /\ r.attempted = "stale" -> "stale"
      [] r.status \in REMOTE_IN_FLIGHT_STATUSES \cup {"UNCONFIRMED"} -> "reconcile"
      [] OTHER -> "none"

\* Faulty variant: the sweep retries failed submissions by itself.
VerdictOnErrors(r) ==
    CASE r.status \in {"Pending", "ERROR"} -> "send"
      [] r.status = "SUBMITTING" /\ r.attempted = "stale" -> "stale"
      [] r.status = "UNCONFIRMED" /\ r.retry = "due" -> "reconcile"
      [] OTHER -> "none"

Verdict(r) ==
    CASE r.status = "Pending" -> "send"
      [] r.status = "SUBMITTING" /\ r.attempted = "stale" -> "stale"
      [] r.status = "UNCONFIRMED" /\ r.retry = "due" -> "reconcile"
      [] OTHER -> "none"

\* frappe.enqueue(deduplicate=True): nothing if the document has a job already.
Enqueue(l, pc, resendFailure) ==
    IF l.pc # "idle" THEN l
    ELSE [l EXCEPT !.pc = pc, !.resendMissing = pc = "reconcile",
                   !.resendFailure = resendFailure]

EnqueueFor(l, verdict) ==
    IF verdict = "none" THEN l
    ELSE Enqueue(l, IF verdict = "send" THEN "send" ELSE "reconcile", FALSE)

\* STALE_SUBMISSION: the outcome of the POST is unknown, ask before resending.
MarkStale(r) == apply_transition([r EXCEPT !.retry = "due"], "UNCONFIRMED")

\* The whole task, when no row changes while it runs.
SweepAtOnce ==
    /\ ~SlowSweep
    /\ row' = [d \in Docs |-> IF Verdict(row[d]) = "stale" THEN MarkStale(row[d]) ELSE row[d]]
    /\ w' = [p \in Workers |-> IF p \in Docs THEN EnqueueFor(w[p], Verdict(row[p])) ELSE w[p]]
    /\ UNCHANGED <<lock, tasks, provider, bounds>>

\* Its steps otherwise: one SELECT, a job for one row after the other, and the
\* commit of the rows it marked, after their jobs were queued.
SweepRead ==
    /\ SlowSweep
    /\ sweep = [todo |-> Nothing, marked |-> {}]
    /\ sweep' = [sweep EXCEPT !.todo = [d \in Docs |-> Verdict(row[d])]]
    /\ UNCHANGED <<db, w, poll, provider, bounds>>

SweepRow(d) ==
    /\ sweep.todo[d] # "none"
    /\ sweep' = [todo |-> [sweep.todo EXCEPT ![d] = "none"],
                 marked |-> IF sweep.todo[d] = "stale" THEN sweep.marked \cup {d}
                                                       ELSE sweep.marked]
    /\ w' = [w EXCEPT ![d] = EnqueueFor(@, sweep.todo[d])]
    /\ UNCHANGED <<db, poll, provider, bounds>>

SweepCommit ==
    /\ sweep.todo = Nothing
    /\ sweep.marked # {}
    /\ row' = [d \in Docs |-> IF d \in sweep.marked THEN MarkStale(row[d]) ELSE row[d]]
    /\ sweep' = [sweep EXCEPT !.marked = {}]
    /\ UNCHANGED <<lock, w, poll, provider, bounds>>

\* The task dies: the marks are rolled back, the jobs are queued all the same.
SweepCrash ==
    /\ "taskCrash" \in Faults
    /\ sweep # [todo |-> Nothing, marked |-> {}]
    /\ Spend(TRUE)
    /\ sweep' = [todo |-> Nothing, marked |-> {}]
    /\ UNCHANGED <<db, w, poll, provider, requests>>

Sweep == SweepAtOnce \/ SweepRead \/ (\E d \in Docs : SweepRow(d)) \/ SweepCommit \/ SweepCrash

-----------------------------------------------------------------------------
(* Users.  The buttons of the form hide some requests for some statuses; the  *)
(* endpoints take all of them, and the user may click on a form grown old.    *)

Asked == requests < MaxRequests /\ requests' = requests + 1

\* submit_sales_invoice, in the web request; the row exists already.
Submit(o, d) ==
    /\ "submit" \in Requests /\ Asked
    /\ w[o].pc = "idle"
    /\ w' = [w EXCEPT ![o] = IF row[d].status = "UNCONFIRMED"
                             THEN [Rest(d) EXCEPT !.pc = "reconcile", !.resendMissing = TRUE]
                             ELSE [Rest(d) EXCEPT !.pc = "send"]]
    /\ UNCHANGED <<db, tasks, provider, faults>>

\* refresh_sales_invoice_ecf_status: query, never retransmit.
Refresh(o, d) ==
    /\ "refresh" \in Requests /\ Asked
    /\ w[o].pc = "idle"
    /\ row[d].status \notin ACCEPTED_STATUSES
    /\ w' = [w EXCEPT ![o] = [Rest(d) EXCEPT !.pc = "reconcile"]]
    /\ UNCHANGED <<db, tasks, provider, faults>>

\* Faulty variant: Retry sends again without asking first.
RetryBySending(o, d) ==
    /\ "retry" \in Requests /\ Asked
    /\ w[o].pc = "idle"
    /\ w' = [w EXCEPT ![d] = Enqueue(@, "send", TRUE)]
    /\ UNCHANGED <<db, tasks, provider, faults>>

\* retry_sales_invoice: a job that may resend.
Retry(o, d) ==
    /\ "retry" \in Requests /\ Asked
    /\ w[o].pc = "idle"
    /\ w' = [w EXCEPT ![d] = Enqueue(@, "reconcile", TRUE)]
    /\ UNCHANGED <<db, tasks, provider, faults>>

QueryStatus(o, d) ==
    /\ "query" \in Requests /\ Asked
    /\ w[o].pc = "idle"
    /\ w' = [w EXCEPT ![o] = [Rest(d) EXCEPT !.pc = "query"]]
    /\ UNCHANGED <<db, tasks, provider, faults>>

User(o, d) == Submit(o, d) \/ Refresh(o, d) \/ Retry(o, d) \/ QueryStatus(o, d)

-----------------------------------------------------------------------------
(* Time and the provider.  Unless SlowWorkers, a worker records an answer     *)
(* within two minutes, holds the lock for less than its lease and leaves      *)
(* SUBMITTING within ten minutes.                                             *)

Recording(d) ==
    \/ \E p \in Workers : w[p].doc = d /\ w[p].pc \in {"answer", "miss"}
    \/ poll.pc = "apply" /\ Polled(d)

\* NOT_FOUND_GRACE_MINUTES pass.
TwoMinutesPass(d) ==
    /\ SlowWorkers \/ ~Recording(d)
    /\ row[d].checked = "recent" \/ evidence[d] = "missed"
    /\ row' = [row EXCEPT ![d].checked = IF @ = "recent" THEN "old" ELSE @]
    /\ evidence' = [evidence EXCEPT ![d] = IF @ = "missed" THEN "aged" ELSE @]
    /\ UNCHANGED <<lock, w, tasks, remote, posts, bounds>>

RetryFallsDue(d) ==
    /\ row[d].retry = "later"
    /\ row' = [row EXCEPT ![d].retry = "due"]
    /\ UNCHANGED <<lock, w, tasks, provider, bounds>>

CheckFallsDue(d) ==
    /\ row[d].check = "later"
    /\ row' = [row EXCEPT ![d].check = "due"]
    /\ UNCHANGED <<lock, w, tasks, provider, bounds>>

AttemptGoesStale(d) ==
    /\ SlowWorkers \/ \A p \in Workers : ~Holds(p, d)
    /\ row[d].status = "SUBMITTING"
    /\ row[d].attempted = "recent"
    /\ row' = [row EXCEPT ![d].attempted = "stale"]
    /\ UNCHANGED <<lock, w, tasks, provider, bounds>>

LeaseExpires(d) ==
    /\ lock[d] # NoWorker
    /\ SlowWorkers \/ ~Holds(lock[d], d)
    /\ lock' = [lock EXCEPT ![d] = NoWorker]
    /\ UNCHANGED <<row, w, tasks, provider, bounds>>

Time(d) == TwoMinutesPass(d) \/ RetryFallsDue(d) \/ CheckFallsDue(d) \/ AttemptGoesStale(d)
              \/ LeaseExpires(d)

ProviderWorks(d) ==
    /\ \/ remote[d] = "hidden" /\ remote' = [remote EXCEPT ![d] = "PROCESANDO"]
       \/ /\ remote[d] = "PROCESANDO"
          /\ \E s \in {"Aceptado", "Rechazado"} : remote' = [remote EXCEPT ![d] = s]
    /\ UNCHANGED <<db, w, tasks, posts, evidence, bounds>>

Next ==
    \/ \E p \in Workers : Step(p) \/ Crash(p) \/ ProviderUnavailable(p) \/ WaitTimesOut(p)
    \/ Poller
    \/ Sweep
    \/ \E o \in Operators, d \in Docs : User(o, d)
    \/ \E d \in Docs : Time(d) \/ ProviderWorks(d)

Spec == Init /\ [][Next]_vars

\* The queue runs its jobs, the scheduler its tasks, time passes and the provider
\* decides.
Fairness ==
    /\ \A p \in Workers : WF_vars(Step(p))
    /\ WF_vars(PollSelect \/ PollAsk \/ PollApply)
    /\ WF_vars(SweepAtOnce) /\ WF_vars(SweepRead \/ (\E d \in Docs : SweepRow(d)) \/ SweepCommit)
    /\ \A d \in Docs : /\ SF_vars(TwoMinutesPass(d)) /\ WF_vars(RetryFallsDue(d))
                       /\ WF_vars(CheckFallsDue(d)) /\ WF_vars(AttemptGoesStale(d))
                       /\ WF_vars(LeaseExpires(d)) /\ WF_vars(ProviderWorks(d))

FairSpec == Spec /\ Fairness

-----------------------------------------------------------------------------
(* Properties *)

\* A worker or the poller has a reply of the kind it handles next.
RepliesFit ==
    /\ \A p \in Workers : w[p].pc = "reply" => w[p].reply \in {"RECIBIDO", "lost", "denied"}
    /\ \A d \in Docs : poll.replies[d] # "none" => poll.pc = "apply" /\ poll.seen[d] # "none"

TypeOK ==
    /\ row \in [Docs -> Row]
    /\ lock \in [Docs -> Workers \cup {NoWorker}]
    /\ w \in [Workers -> Local]
    /\ poll \in [pc : {"idle", "ask", "apply"}, seen : [Docs -> Status \cup {"none"}],
                 replies : [Docs -> Status \cup {"none", "missing", "untyped", "ambiguous"}]]
    /\ sweep \in [todo : [Docs -> {"none", "send", "stale", "reconcile"}],
                  marked : SUBSET Docs]
    /\ remote \in [Docs -> Remote]
    /\ posts \in [Docs -> Nat]
    /\ evidence \in [Docs -> Evidence]
    /\ faults \in Nat
    /\ requests \in Nat
    /\ RepliesFit

\* A row belongs to one of the automatic tasks at a time, by its status alone: to
\* its job before the provider owns the document, to the poller after that.
OneOwner ==
    \A d \in Docs :
        /\ w[d].pc # "idle" => row[d].status \in {"Pending", "SUBMITTING", "UNCONFIRMED"}
        /\ poll.seen[d] # "none" => row[d].status \in REMOTE_IN_FLIGHT_STATUSES

Sending(p) == w[p].pc \in {"mark", "post", "reply"}

\* The send lock does what the comment in send_ecf_log says of it: one outbox row
\* cannot produce concurrent POSTs, whoever asks for them.
OneSender ==
    \A p, q \in Workers : Sending(p) /\ Sending(q) /\ w[p].doc = w[q].doc => p = q

\* Every POST that left for the provider was counted, and committed, before it
\* left, over all crashes and resends: attempt_count never falls behind.
AttemptsCoverPosts == \A d \in Docs : posts[d] <= row[d].attempts

\* operator_action_required is set exactly on blocked rows, whichever of the
\* workers, tasks and stale reads wrote the status last.
BlockedRowsAskForAction ==
    \A d \in Docs : row[d].action <=> row[d].status \in BLOCKED_STATUSES

\* Nothing is accepted in the books that the provider has not accepted, whatever
\* stale row, reordered answer or batch without some of its documents was written.
AcceptedThere ==
    \A d \in Docs : row[d].status \in ACCEPTED_STATUSES => remote[d] = "Aceptado"

\* A row that is not terminal has something that will move it: the sweep or the
\* poller selects it sooner or later, or a worker is about to resend it.
WillResend(d) ==
    \E p \in Workers : w[p].doc = d /\ w[p].force /\ w[p].pc \in {"send", "lock", "mark"}

NoRowIsStranded ==
    \A d \in Docs :
        /\ row[d].status = "SUBMITTING" => row[d].attempted # "none"
        /\ row[d].status = "UNCONFIRMED" => row[d].retry # "none" \/ WillResend(d)

\* docs: no code path may move an accepted document out of a terminal state.
AcceptedIsTerminal ==
    [][\A d \in Docs : row[d].status \in ACCEPTED_STATUSES
                          => row'[d].status \in ACCEPTED_STATUSES]_vars

\* docs: a blocked document stays blocked until a user chooses Retry.
BlockedStaysBlocked ==
    [][\A d \in Docs : row[d].status \in BLOCKED_STATUSES
                          => row'[d].status \in BLOCKED_STATUSES]_vars

\* What a document is in the books, and what the provider has of it.
Here(s) == CASE s \in ACCEPTED_STATUSES -> "accepted"
             [] s \in BLOCKED_STATUSES -> "blocked"
             [] OTHER -> "open"

There(r) == CASE r = "absent" -> "nothing"
              [] r \in {"hidden", "PROCESANDO"} -> "request"
              [] r = "Aceptado" -> "acceptance"
              [] OTHER -> "rejection"

Lifecycle == INSTANCE FiscalLifecycle
    WITH doc <- [d \in Docs |-> [here |-> Here(row[d].status), there |-> There(remote[d])]]

\* docs: the automatic tasks implement the life of a document: it is accepted here
\* only when it is there, for good; nothing accepted or blocked is sent again.
ImplementsLifecycle == Lifecycle!Spec

\* Under fair scheduling they also bring it to its end.
CompletesLifecycle == Lifecycle!FairSpec

\* The worker starts another POST of a document that was POSTed before.
Resends(d) == posts[d] > 0 /\ row'[d].attempts # row[d].attempts

\* A POST is repeated only if the provider has answered since the last one, twice
\* and two minutes apart, that it does not have the document, or else that the
\* document is rejected.
ResendHasEvidence ==
    [][\A d \in Docs : Resends(d) => evidence[d] \in {"spaced", "rejected"}]_vars

\* README: query by eNCF before retransmitting an uncertain request.
ResendHasQuery == [][\A d \in Docs : Resends(d) => evidence[d] # "none"]_vars

\* A document the provider accepted is accepted here in the end, and stays so.
LocalFollowsRemote ==
    \A d \in Docs : remote[d] = "Aceptado" ~> [](row[d].status \in ACCEPTED_STATUSES)

\* Every document reaches a verdict or a person.
EveryDocSettles ==
    \A d \in Docs : <>(row[d].status \in ACCEPTED_STATUSES \cup BLOCKED_STATUSES)

=============================================================================
