--------------------------- MODULE ProviderHealth ---------------------------
(***************************************************************************)
(* The circuit breaker of provider_health.py for one company: every call   *)
(* to the provider goes through provider_call, which asks the breaker,     *)
(* calls, and records what came of it.                                     *)
(*                                                                         *)
(* The breaker is a row of ECF Provider Settings, read plainly and written *)
(* inside the caller's own database transaction, under a Redis lock that   *)
(* is let go long before that transaction commits.  A step of this module  *)
(* is one entry of the Redis lock, one write of the row, one call, or the  *)
(* end of a transaction.                                                   *)
(*                                                                         *)
(* A date is the number of minutes (of some length) until it is past, 0    *)
(* once it is, NoDate if the field is empty; Tick takes one off all.       *)
(***************************************************************************)
EXTENDS Integers, FiniteSets

CONSTANTS
    Callers,                 \* jobs, polls and requests that call the provider
    Nobody,
    Modes,                   \* the kinds of callers there are
    FAILURE_THRESHOLD,
    FAILURE_WINDOW_MINUTES,
    OPEN_MINUTES,
    PROBE_LEASE_MINUTES,
    MaxCrashes               \* bound: crashes in a behaviour

\* A "job" records the failure of its document and commits; a "poll" makes several
\* calls before its commit; a "request" (query_status) that fails is rolled back.
CallerModes == {"job", "poll", "request"}

ASSUME CallersAssumption == Callers # {} /\ Nobody \notin Callers
ASSUME ModesAssumption == Modes \subseteq CallerModes
ASSUME LimitsAssumption ==
    /\ FAILURE_THRESHOLD \in Nat \ {0} /\ FAILURE_WINDOW_MINUTES \in Nat \ {0}
    /\ OPEN_MINUTES \in Nat \ {0} /\ PROBE_LEASE_MINUTES \in Nat \ {0}
    /\ MaxCrashes \in Nat

VARIABLES
    settings,   \* the committed row
    draft,      \* the row as the transaction that holds its lock has written it, if any
    rowLock,    \* that transaction's caller, or Nobody
    mutex,      \* holder of the Redis lock dgii_ecf:provider_health
    lease,      \* minutes left of the Redis key dgii_ecf:provider_probe, 0 if none
    call,       \* the callers' local state
    up,         \* whether the provider can be reached
    crashes

vars == <<settings, draft, rowLock, mutex, lease, call, up, crashes>>

-----------------------------------------------------------------------------
(* The row *)

NoDate == -1
Date(minutes) == NoDate..minutes
Pending(date) == date > 0
Aged(date) == IF Pending(date) THEN date - 1 ELSE date

\* The count is compared with the threshold only: more than the threshold is as much.
UpToThreshold(n) == IF n > FAILURE_THRESHOLD THEN FAILURE_THRESHOLD ELSE n

Columns == {"state", "openUntil", "probeUntil", "failures", "window"}

Health == [state: {"Closed", "Open", "Half Open"},
           openUntil: Date(OPEN_MINUTES),
           probeUntil: Date(PROBE_LEASE_MINUTES),
           failures: 0..FAILURE_THRESHOLD,
           window: Date(FAILURE_WINDOW_MINUTES)]

ClosedRow == [state |-> "Closed", openUntil |-> NoDate, probeUntil |-> NoDate,
              failures |-> 0, window |-> NoDate]

AgedRow(r) == [r EXCEPT !.openUntil = Aged(@), !.probeUntil = Aged(@), !.window = Aged(@)]

\* A plain read: the transaction's snapshot, or what it wrote itself.
Seen(p) == IF rowLock = p THEN draft ELSE call[p].snap

\* An update of some columns applies to the newest version of the row.
Newest(p) == IF rowLock = p THEN draft ELSE settings

-----------------------------------------------------------------------------
(* What the three functions write, given the row they read                    *)

\* Faulty variant: a half-open circuit refuses whatever became of its probe.
RefusesUntilAnswered(r) ==
    \/ r.state = "Half Open"
    \/ r.state = "Open" /\ Pending(r.openUntil)

\* before_provider_call: another caller's probe is running, or the pause is not over.
Refuses(r) ==
    \/ r.state = "Half Open" /\ (Pending(lease) \/ Pending(r.probeUntil))
    \/ r.state = "Open" /\ Pending(r.openUntil)

\* The columns to write when this caller becomes the probe.
ProbeColumns(r) ==
    IF r.state = "Half Open" THEN {"probeUntil"} ELSE {"state", "openUntil", "probeUntil"}

\* Faulty variant: the name of the state is misspelt.
ProbeRowMisspelt(r) ==
    [r EXCEPT !.state = "Half-Open", !.openUntil = NoDate,
              !.probeUntil = PROBE_LEASE_MINUTES]

ProbeRow(r) ==
    [r EXCEPT !.state = "Half Open", !.openUntil = NoDate,
              !.probeUntil = PROBE_LEASE_MINUTES]

\* record_provider_failure, for a failure that counts.
Count(r) ==
    IF r.state = "Half Open" THEN FAILURE_THRESHOLD
    ELSE IF Pending(r.window) THEN UpToThreshold(r.failures + 1) ELSE 1

Opens(r) == Count(r) >= FAILURE_THRESHOLD

\* Faulty variant: the date is not written with the state.
FailureColumnsWithoutDate(r) ==
    {"failures", "window"} \cup (IF Opens(r) THEN {"state", "probeUntil"} ELSE {})

FailureColumns(r) ==
    {"failures", "window"} \cup (IF Opens(r) THEN {"state", "openUntil", "probeUntil"} ELSE {})

FailureRow(r) ==
    [r EXCEPT !.state = IF Opens(r) THEN "Open" ELSE @,
              !.openUntil = IF Opens(r) THEN OPEN_MINUTES ELSE @,
              !.probeUntil = IF Opens(r) THEN NoDate ELSE @,
              !.failures = Count(r),
              !.window = IF Pending(r.window) THEN @ ELSE FAILURE_WINDOW_MINUTES]

-----------------------------------------------------------------------------
(* The callers.  pc: "before" asks the breaker, "write" waits inside the Redis *)
(* lock for the row, "call" has its request on the way, "record" has an answer,*)
(* "done" is out of provider_call.  lost: a lock failed, and its exception took*)
(* the place of the answer.                                                   *)

Answers == {"ok", "reached", "down"}

Call == [pc: {"idle", "before", "write", "call", "record", "done"},
         mode: CallerModes,
         snap: Health,
         new: Health,
         columns: SUBSET Columns,
         probe: BOOLEAN,
         answer: Answers \cup {"none", "refused"},
         lost: BOOLEAN]

Fresh(mode, snap) ==
    [pc |-> "before", mode |-> mode, snap |-> snap, new |-> ClosedRow, columns |-> {},
     probe |-> FALSE, answer |-> "none", lost |-> FALSE]

Rested == [Fresh("job", ClosedRow) EXCEPT !.pc = "idle"]

Init ==
    /\ settings = ClosedRow /\ draft = ClosedRow
    /\ rowLock = Nobody /\ mutex = Nobody
    /\ lease = 0
    /\ call = [p \in Callers |-> Rested]
    /\ up \in BOOLEAN
    /\ crashes = 0

row == <<settings, draft, rowLock>>
world == <<up, crashes>>

\* The caller's transaction begins with a read of the document or the settings.
Begin(p) ==
    /\ call[p].pc = "idle"
    /\ \E mode \in Modes : call' = [call EXCEPT ![p] = Fresh(mode, settings)]
    /\ UNCHANGED <<row, mutex, lease, world>>

\* ProviderCircuitOpen is raised outside the try block of provider_call.
Refuse(p) ==
    /\ call[p].pc = "before" /\ mutex = Nobody
    /\ Refuses(Seen(p))
    /\ call' = [call EXCEPT ![p].pc = "done", ![p].answer = "refused"]
    /\ UNCHANGED <<row, mutex, lease, world>>

Pass(p) ==
    /\ call[p].pc = "before" /\ mutex = Nobody
    /\ Seen(p).state = "Closed"
    /\ call' = [call EXCEPT ![p].pc = "call"]
    /\ UNCHANGED <<row, mutex, lease, world>>

\* Inside the Redis lock the caller goes on to update the row.
Writing(p, columns, new, probe) ==
    /\ mutex' = p
    /\ call' = [call EXCEPT ![p].pc = "write", ![p].columns = columns,
                            ![p].new = new, ![p].probe = probe]

\* The first call after the pause, or one that takes an expired probe over.
Probe(p) ==
    /\ call[p].pc = "before" /\ mutex = Nobody
    /\ Seen(p).state # "Closed" /\ ~Refuses(Seen(p))
    /\ lease' = PROBE_LEASE_MINUTES
    /\ Writing(p, ProbeColumns(Seen(p)), ProbeRow(Seen(p)), TRUE)
    /\ UNCHANGED <<row, world>>

\* Faulty variant: every update is committed at once.
WriteCommitted(p) ==
    /\ call[p].pc = "write" /\ rowLock \in {Nobody, p}
    /\ settings' = [f \in Columns |->
                       IF f \in call[p].columns THEN call[p].new[f] ELSE settings[f]]
    /\ lease' = IF call[p].answer \in {"reached", "down"} THEN 0 ELSE lease
    /\ mutex' = IF mutex = p THEN Nobody ELSE mutex
    /\ call' = [call EXCEPT
                   ![p].pc = IF mutex = p /\ call[p].answer = "none" THEN "call" ELSE "done",
                   ![p].lost = mutex # p]
    /\ UNCHANGED <<draft, rowLock, world>>

\* The update waits for the row.  To leave a Redis lock that has expired meanwhile
\* raises an error.  record_provider_failure clears the probe key after its update.
\* From here on the caller reads the row it wrote, not its snapshot, which is forgotten.
Write(p) ==
    /\ call[p].pc = "write" /\ rowLock \in {Nobody, p}
    /\ rowLock' = p
    /\ draft' = [f \in Columns |->
                    IF f \in call[p].columns THEN call[p].new[f] ELSE Newest(p)[f]]
    /\ lease' = IF call[p].answer \in {"reached", "down"} THEN 0 ELSE lease
    /\ mutex' = IF mutex = p THEN Nobody ELSE mutex
    /\ call' = [call EXCEPT
                   ![p].pc = IF mutex = p /\ call[p].answer = "none" THEN "call" ELSE "done",
                   ![p].lost = mutex # p,
                   ![p].snap = ClosedRow, ![p].new = ClosedRow, ![p].columns = {}]
    /\ UNCHANGED <<settings, world>>

\* The request itself: answered, answered with a 4xx, or not at all (or a 5xx).
Answer(p) ==
    /\ call[p].pc = "call"
    /\ \E answer \in (IF up THEN {"ok", "reached"} ELSE {"down"}) :
          call' = [call EXCEPT ![p].pc = "record", ![p].answer = answer]
    /\ UNCHANGED <<row, mutex, lease, world>>

RecordSuccess(p) ==
    /\ call[p].pc = "record" /\ call[p].answer = "ok" /\ mutex = Nobody
    /\ lease' = 0
    /\ Writing(p, Columns, ClosedRow, FALSE)
    /\ UNCHANGED <<row, world>>

\* A failure that shows the provider to be reachable ends a probe.
RecordReached(p) ==
    /\ call[p].pc = "record" /\ call[p].answer = "reached" /\ mutex = Nobody
    /\ IF Seen(p).state = "Half Open"
       THEN Writing(p, Columns, ClosedRow, FALSE) /\ UNCHANGED lease
       ELSE /\ lease' = 0
            /\ call' = [call EXCEPT ![p].pc = "done", ![p].probe = FALSE]
            /\ UNCHANGED mutex
    /\ UNCHANGED <<row, world>>

RecordDown(p) ==
    /\ call[p].pc = "record" /\ call[p].answer = "down" /\ mutex = Nobody
    /\ Writing(p, FailureColumns(Seen(p)), FailureRow(Seen(p)), FALSE)
    /\ UNCHANGED <<row, lease, world>>

\* What the transaction leaves behind.
Ends(p, kept) ==
    /\ settings' = IF kept /\ rowLock = p THEN draft ELSE settings
    /\ draft' = IF rowLock = p THEN ClosedRow ELSE draft
    /\ rowLock' = IF rowLock = p THEN Nobody ELSE rowLock
    /\ call' = [call EXCEPT ![p] = Rested]
    /\ UNCHANGED lease

Finish(p) ==
    /\ call[p].pc = "done"
    /\ Ends(p, call[p].mode = "request" => call[p].answer = "ok" /\ ~call[p].lost)
    /\ UNCHANGED <<mutex, world>>

\* poll_pending_documents: the next batch, in the same transaction.
NextBatch(p) ==
    /\ call[p].pc = "done" /\ call[p].mode = "poll"
    /\ call' = [call EXCEPT ![p] = Fresh("poll", @.snap)]
    /\ UNCHANGED <<row, mutex, lease, world>>

-----------------------------------------------------------------------------
(* Time, crashes and the provider.                                            *)

\* The row is held by a caller that waits for the provider or for the Redis lock: one
\* that is done commits at once.
WaitsLong(p) ==
    /\ call[p].pc = "write" /\ rowLock \notin {Nobody, p}
    /\ call[rowLock].pc # "done"

\* The Redis lock expires after 15 seconds, which a section of it lasts only if its
\* caller waits for the row, or has died.
MutexExpires ==
    /\ mutex # Nobody
    /\ WaitsLong(mutex) \/ call[mutex].pc # "write"
    /\ mutex' = Nobody
    /\ UNCHANGED <<row, lease, call, world>>

\* innodb_lock_wait_timeout: only the statement is undone.  It is longer than the
\* Redis lock lasts.
RowTimesOut(p) ==
    /\ WaitsLong(p) /\ mutex # p
    /\ call' = [call EXCEPT ![p].pc = "done", ![p].lost = TRUE]
    /\ UNCHANGED <<row, mutex, lease, world>>

Crash(p) ==
    /\ crashes < MaxCrashes /\ call[p].pc # "idle"
    /\ crashes' = crashes + 1
    /\ Ends(p, FALSE)
    /\ UNCHANGED <<mutex, up>>

Tick ==
    /\ settings' = AgedRow(settings) /\ draft' = AgedRow(draft)
    /\ lease' = Aged(lease)
    /\ call' = [p \in Callers |-> [call[p] EXCEPT !.snap = AgedRow(@), !.new = AgedRow(@)]]
    /\ UNCHANGED <<rowLock, mutex, world>>

ProviderChanges ==
    /\ up' = ~up
    /\ UNCHANGED <<row, mutex, lease, call, crashes>>

Admission(p) == Refuse(p) \/ Pass(p) \/ Probe(p)
Recording(p) == RecordSuccess(p) \/ RecordReached(p) \/ RecordDown(p)
Step(p) ==
    Begin(p) \/ Admission(p) \/ Write(p) \/ Answer(p) \/ Recording(p) \/ Finish(p)
        \/ NextBatch(p)

Next ==
    \/ \E p \in Callers : Step(p) \/ RowTimesOut(p) \/ Crash(p)
    \/ MutexExpires \/ Tick \/ ProviderChanges

Spec == Init /\ [][Next]_vars

\* Documents keep being due, calls come back, a poll has finitely many batches,
\* locks expire and time passes.
Fairness ==
    /\ \A p \in Callers :
          /\ WF_vars(Begin(p)) /\ WF_vars(Write(p)) /\ WF_vars(Answer(p))
          /\ SF_vars(Admission(p)) /\ SF_vars(Recording(p)) /\ SF_vars(Finish(p))
    /\ WF_vars(MutexExpires) /\ WF_vars(Tick)

FairSpec == Spec /\ Fairness

-----------------------------------------------------------------------------
(* Properties *)

TypeOK ==
    /\ settings \in Health /\ draft \in Health
    /\ rowLock \in Callers \cup {Nobody} /\ mutex \in Callers \cup {Nobody}
    /\ lease \in 0..PROBE_LEASE_MINUTES
    /\ call \in [Callers -> Call]
    /\ up \in BOOLEAN /\ crashes \in 0..MaxCrashes

\* An open circuit always has a date on which it lets a probe through, and a
\* half-open one a date on which the probe is taken for lost: no interleaving of
\* updates of some columns leaves the row in a state it cannot get out of.
HasWayOut(r) ==
    /\ r.state = "Open" => r.openUntil # NoDate
    /\ r.state = "Half Open" => r.openUntil = NoDate /\ r.probeUntil # NoDate

CircuitHasWayOut == HasWayOut(settings) /\ (rowLock # Nobody => HasWayOut(draft))

\* docs: one leased probe is allowed after the pause.  A probe's request may outlive its
\* lease of two minutes, and the mark of a probe is not committed while it runs.
OneProbe ==
    \A p, q \in Callers :
        (/\ call[p].pc = "call" /\ call[p].probe
         /\ call[q].pc = "call" /\ call[q].probe) => p = q

\* Whatever the callers did before, once the provider can be reached again and stays
\* so the circuit closes, and stays closed: old snapshots, lost locks and dead probes
\* do not keep it refusing calls.
CircuitRecovers == <>[]up => <>[](settings.state = "Closed")

\* docs: the breaker must not block later recovery, and rejects concurrent probes.  A
\* lock that fails does neither: its error takes the place of the answer, and the
\* document goes to ERROR, where it waits for a person.
AnswersAreKept == \A p \in Callers : ~call[p].lost

\* docs: any answer that proves the provider reachable closes the breaker; so it does
\* when a probe ends with one.
AnsweredProbeCloses ==
    [][\A p \in Callers :
          (/\ call[p].pc = "done" /\ call'[p].pc = "idle" /\ rowLock = p
           /\ call[p].answer \in {"ok", "reached"} /\ ~call[p].lost)
             => settings'.state = "Closed"]_vars

=============================================================================
