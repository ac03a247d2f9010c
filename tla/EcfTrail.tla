------------------------------- MODULE EcfTrail -------------------------------
(****************************************************************************)
(* The audit trail and the operational alerts of one document: the chain of *)
(* ECF Delivery Events that record_event appends, the head of that chain    *)
(* kept on the ECF Document Log, the alerts apply_transition raises, the    *)
(* task that repeats them, and the migration that hashes old histories.     *)
(*                                                                          *)
(* A transaction starts with a plain read of the document, decides, and     *)
(* takes the lock of its row (SELECT ... FOR UPDATE) when it writes; it     *)
(* keeps the lock until it commits.  The reads made after the lock are      *)
(* plain ones: with SnapshotReads they return what the first one saw.       *)
(*                                                                          *)
(* The hash of an event is a number of its own: its place in the order of   *)
(* the commits.  0 stands for the hash of zeros, and for none.              *)
(****************************************************************************)
EXTENDS Naturals, Sequences

CONSTANTS
    Workers,         \* jobs, requests and polls that move the document
    Task,            \* the alert_stalled_documents task
    Nobody,          \* no transaction holds the row
    Legacy,          \* events recorded before events were hashed
    Faults,          \* what may go wrong: a subset of {"undelivered", "crash"}
    MaxFaults,       \* bound: faults in a behaviour
    Reports,         \* the statuses the workers write: a subset of Status
    MaxTransitions,  \* bound: transitions in a behaviour
    SnapshotReads    \* TRUE: REPEATABLE READ, the default of MariaDB

ASSUME ActorsAssumption == Task \notin Workers /\ Nobody \notin Workers \cup {Task}
ASSUME BoundsAssumption == Legacy \in Nat /\ MaxFaults \in Nat /\ MaxTransitions \in Nat
ASSUME SwitchAssumption == SnapshotReads \in BOOLEAN

Actors == Workers \cup {Task}

ACCEPTED_STATUSES == {"Aceptado"}
REMOTE_IN_FLIGHT_STATUSES == {"RECIBIDO", "PROCESANDO"}
BLOCKED_STATUSES == {"Rechazado", "ERROR"}
Status == {"Pending", "SUBMITTING", "UNCONFIRMED"}
              \cup REMOTE_IN_FLIGHT_STATUSES \cup ACCEPTED_STATUSES \cup BLOCKED_STATUSES

\* What an alert is about, hashed in the code: its kind and the status.  The
\* texts a signature also covers are taken as given by the status.
Signature == [kind : {"blocked", "stalled", "recovered"}, status : Status]
NoSignature == [kind |-> "none", status |-> "none"]
Signed(kind, s) == [kind |-> kind, status |-> s]

\* unconfirmed, progress: age of first_unconfirmed_at (15 minutes) and of
\* last_remote_status_at (60 minutes).
Row == [status : Status, level : {"none", "Warning", "Critical"},
        signature : Signature \cup {NoSignature},
        unconfirmed : {"none", "recent", "old"}, progress : {"none", "recent", "old"},
        count : Nat, head : Nat]

\* What the chain is made of: event_sequence, previous_event_hash and event_hash.
Event == [seq : Nat, prev : Nat, hash : Nat]

VARIABLES
    row,      \* the committed row of the ECF Document Log
    events,   \* the committed events of the document, in the order of the commits
    tx,       \* [Actors -> Transaction]
    holder,   \* whose transaction has the lock of the row
    told,     \* alerts delivered by transactions that committed (history)
    forked,   \* an event was appended to one that is not the newest (history)
    faults,   \* faults so far
    begun     \* transitions so far

vars == <<row, events, tx, holder, told, forked, faults, begun>>

\* What a plain read of the newest event returns.
NoEvent == [seq |-> 0, hash |-> 0]
Sight == [seq : Nat, hash : Nat]

\* read: the row the transaction saw first; newest: the event it saw last; to: the
\* status it writes; own, row, said: what it commits.
Transaction == [pc : {"idle", "open", "written"}, read : Row, newest : Sight, to : Status,
                own : Seq(Event), row : Row, said : SUBSET Signature]

NewRow == [status |-> "Pending", level |-> "none", signature |-> NoSignature,
           unconfirmed |-> "none", progress |-> "none", count |-> 0, head |-> 0]

Idle == [pc |-> "idle", read |-> NewRow, newest |-> NoEvent, to |-> "Pending",
         own |-> <<>>, row |-> NewRow, said |-> {}]

\* A history from before the hashes ends in any status; without one the document is new.
Init ==
    /\ \E s \in IF Legacy = 0 THEN {"Pending"} ELSE {"UNCONFIRMED", "RECIBIDO", "ERROR"} :
          /\ row = [NewRow EXCEPT !.status = s]
          /\ events = [i \in 1..Legacy |-> [seq |-> 0, prev |-> 0, hash |-> 0]]
    /\ tx = [a \in Actors |-> Idle]
    /\ holder = Nobody
    /\ told = {}
    /\ forked = FALSE
    /\ faults = 0
    /\ begun = 0

-----------------------------------------------------------------------------
(* record_event                                                               *)

\* ORDER BY event_sequence DESC LIMIT 1: any of the events with the largest one.
Newest ==
    IF events = <<>> THEN {NoEvent}
    ELSE {[seq |-> events[i].seq, hash |-> events[i].hash] :
             i \in {j \in DOMAIN events : \A k \in DOMAIN events : events[k].seq <= events[j].seq}}

\* The n-th event of a transaction that saw the event h as the newest one; its own
\* events are visible to it.
NextEvent(h, n) ==
    [seq |-> h.seq + n, prev |-> IF n = 1 THEN h.hash ELSE Len(events) + n - 1,
     hash |-> Len(events) + n]

\* The n events of a transaction, and the row that keeps their head.
Record(h, n) == [i \in 1..n |-> NextEvent(h, i)]

\* Faulty variant: only the first event of a transaction is counted.
AnchoredOnce(r, h, n) == [r EXCEPT !.count = h.seq + 1, !.head = Len(events) + n]

Anchored(r, h, n) == [r EXCEPT !.count = h.seq + n, !.head = Len(events) + n]

-----------------------------------------------------------------------------
(* apply_transition and the alerts it raises                                  *)

\* What is read of a row: the head of the chain is looked up in the events instead.
Fields(r) == [r EXCEPT !.count = 0, !.head = 0]

\* The columns written on the row r by a caller that read the row seen.
Written(r, seen, s) ==
    LET changed == s # seen.status
    IN  CASE s \in ACCEPTED_STATUSES ->
               [r EXCEPT !.status = s, !.level = "none", !.signature = NoSignature,
                         !.unconfirmed = "none"]
          [] s \in BLOCKED_STATUSES ->
               [r EXCEPT !.status = s, !.level = "Critical", !.unconfirmed = "none"]
          [] s \in REMOTE_IN_FLIGHT_STATUSES ->
               [r EXCEPT !.status = s, !.unconfirmed = "none",
                         !.level = IF changed THEN "none" ELSE @,
                         !.signature = IF changed THEN NoSignature ELSE @,
                         !.progress = IF changed \/ seen.progress = "none" THEN "recent" ELSE @]
          [] s = "UNCONFIRMED" ->
               [r EXCEPT !.status = s,
                         !.unconfirmed = IF seen.unconfirmed = "none" THEN "recent" ELSE @]
          [] OTHER -> [r EXCEPT !.status = s]

\* dispatch_operational_alert: the installed handlers, then the notification of the
\* System Managers; neither can raise.
Dispatches == {TRUE} \cup (IF "undelivered" \in Faults /\ faults < MaxFaults THEN {FALSE} ELSE {})

\* Faulty variant: the signature is stored whatever became of the alert.
SignAnyway(r, sig, level, delivered) == [r EXCEPT !.signature = sig, !.level = level]

\* The signature is stored only when somebody took the alert.
Sign(r, sig, level, delivered) ==
    IF delivered THEN [r EXCEPT !.signature = sig, !.level = level] ELSE r

\* notify_blocked says nothing twice in a row.
AnnouncesBlocked(log) ==
    log.status \in BLOCKED_STATUSES /\ log.signature # Signed("blocked", log.status)

\* notify_recovered is for documents that had an alert.
AnnouncesRecovery(seen, s) ==
    /\ seen.level # "none"
    /\ s \in ACCEPTED_STATUSES \/ (s \in REMOTE_IN_FLIGHT_STATUSES /\ s # seen.status)

\* What the status read lets the callers of apply_transition write next.
Follows(s) ==
    CASE s = "Pending" -> {"SUBMITTING"}
      [] s = "SUBMITTING" -> {"RECIBIDO", "UNCONFIRMED", "ERROR"}
      [] s \in ACCEPTED_STATUSES -> {}
      [] OTHER -> Status \ {"Pending"}

\* The row a transaction works on after it has the lock, and the newest event.
RowRead(a) == IF SnapshotReads THEN tx[a].read ELSE Fields(row)
NewestRead(a) == IF SnapshotReads THEN {tx[a].newest} ELSE Newest

\* The first read of a worker, and what it decides on it (with what the provider
\* answered).  The send lock lets one of them submit at a time.
Begin(a) ==
    /\ tx[a].pc = "idle"
    /\ begun < MaxTransitions
    /\ \E s \in Follows(row.status) \cap Reports, h \in Newest :
          /\ s = "SUBMITTING" => \A b \in Workers : tx[b].to # "SUBMITTING"
          /\ tx' = [tx EXCEPT ![a] = [Idle EXCEPT !.pc = "open", !.read = Fields(row),
                                                  !.newest = h, !.to = s]]
    /\ begun' = begun + 1
    /\ UNCHANGED <<row, events, holder, told, forked, faults>>

\* Everything the transaction a writes, n events after h and the row r, is ready to
\* be committed.
Writes(a, h, n, r, said) ==
    /\ holder = Nobody
    /\ holder' = a
    /\ tx' = [tx EXCEPT ![a] = [Idle EXCEPT !.pc = "written", !.newest = h, !.to = tx[a].to,
                                            !.own = Record(h, n), !.said = said,
                                            !.row = Anchored(r, h, n)]]
    /\ UNCHANGED <<row, events, told, forked, begun>>

ApplyTransition(a) ==
    LET s == tx[a].to
        seen == RowRead(a)
        log == Written(seen, seen, s)
        r == Written(row, seen, s)
        alert(sig, level) ==        \* the transition, the alert and its outcome
            \E ok \in Dispatches, h \in NewestRead(a) :
                /\ faults' = IF ok THEN faults ELSE faults + 1
                /\ Writes(a, h, 3, Sign(r, sig, level, ok), IF ok THEN {sig} ELSE {})
    IN  /\ tx[a].pc = "open"
        /\ \/ /\ AnnouncesBlocked(log)
              /\ alert(Signed("blocked", s), "Critical")
           \/ /\ AnnouncesRecovery(seen, s)
              /\ alert(Signed("recovered", s), "none")
           \/ /\ ~AnnouncesBlocked(log) /\ ~AnnouncesRecovery(seen, s)
              /\ \E h \in NewestRead(a) : Writes(a, h, 1, r, {})
              /\ UNCHANGED faults

-----------------------------------------------------------------------------
(* alert_stalled_documents                                                    *)

Stalled(r) ==
    \/ r.status = "UNCONFIRMED" /\ r.unconfirmed = "old"
    \/ r.status \in REMOTE_IN_FLIGHT_STATUSES /\ r.progress = "old"

\* Faulty variant: a level the field does not offer.
StalledPriority(r) == IF r.status = "UNCONFIRMED" THEN "Medium" ELSE "High"

StalledLevel(r) == IF r.status = "UNCONFIRMED" THEN "Warning" ELSE "Critical"

\* Faulty variant: only stalled documents are looked at.
SelectedStalled(r) == Stalled(r) /\ r.signature # Signed("stalled", r.status)

\* The rows that get an alert: stalled ones whose alert was not delivered yet, and
\* blocked ones without a delivered alert of any kind.
Selected(r) ==
    \/ Stalled(r) /\ r.signature # Signed("stalled", r.status)
    \/ r.status \in BLOCKED_STATUSES /\ r.signature = NoSignature

TaskSelect ==
    /\ tx[Task].pc = "idle"
    /\ Selected(row)
    /\ \E h \in Newest :
          tx' = [tx EXCEPT ![Task] = [Idle EXCEPT !.pc = "open", !.read = Fields(row), !.newest = h,
                                                  !.to = row.status]]
    /\ UNCHANGED <<row, events, holder, told, forked, faults, begun>>

\* notify_stalled and notify_blocked of the row the task read; the row is locked
\* only now, and not read again.
TaskAlert ==
    LET seen == tx[Task].read
        kind == IF seen.status \in BLOCKED_STATUSES THEN "blocked" ELSE "stalled"
        level == IF kind = "blocked" THEN "Critical" ELSE StalledLevel(seen)
        sig == Signed(kind, seen.status)
    IN  /\ tx[Task].pc = "open"
        /\ \E ok \in Dispatches, h \in NewestRead(Task) :
              /\ faults' = IF ok THEN faults ELSE faults + 1
              /\ Writes(Task, h, 2, Sign(row, sig, level, ok), IF ok THEN {sig} ELSE {})

-----------------------------------------------------------------------------
(* The ends of a transaction, time and the migration                          *)

\* forked: the event the transaction took for the newest is not the last one.
Commit(a) ==
    /\ tx[a].pc = "written"
    /\ row' = tx[a].row
    /\ events' = events \o tx[a].own
    /\ told' = told \cup tx[a].said
    /\ forked' = (forked \/ tx[a].newest.hash # Len(events))
    /\ tx' = [tx EXCEPT ![a] = Idle]
    /\ holder' = Nobody
    /\ UNCHANGED <<faults, begun>>

\* The process dies, or the transaction fails: it is rolled back.
Crash(a) ==
    /\ "crash" \in Faults
    /\ faults < MaxFaults
    /\ tx[a].pc # "idle"
    /\ tx' = [tx EXCEPT ![a] = Idle]
    /\ holder' = IF holder = a THEN Nobody ELSE holder
    /\ faults' = faults + 1
    /\ UNCHANGED <<row, events, told, forked, begun>>

QuarterPasses ==
    /\ holder = Nobody
    /\ row.unconfirmed = "recent"
    /\ row' = [row EXCEPT !.unconfirmed = "old"]
    /\ UNCHANGED <<events, tx, holder, told, forked, faults, begun>>

HourPasses ==
    /\ holder = Nobody
    /\ row.progress = "recent"
    /\ row' = [row EXCEPT !.progress = "old"]
    /\ UNCHANGED <<events, tx, holder, told, forked, faults, begun>>

\* Faulty variant: the migration repairs every chain it finds.
BackfillAny ==
    /\ holder = Nobody
    /\ events # <<>>
    /\ events' = [i \in DOMAIN events |-> [events[i] EXCEPT !.seq = i, !.prev = i - 1,
                                                            !.hash = i]]
    /\ row' = [row EXCEPT !.count = Len(events), !.head = Len(events)]
    /\ UNCHANGED <<tx, holder, told, forked, faults, begun>>

\* backfill_delivery_event_integrity, after every update of the application, while
\* workers may run: a chain with an anchor on the row is never rewritten.
Backfill ==
    /\ holder = Nobody
    /\ events # <<>>
    /\ row.count = 0 /\ row.head = 0
    /\ events' = [i \in DOMAIN events |-> [events[i] EXCEPT !.seq = i, !.prev = i - 1,
                                                            !.hash = i]]
    /\ row' = [row EXCEPT !.count = Len(events), !.head = Len(events)]
    /\ UNCHANGED <<tx, holder, told, forked, faults, begun>>

Step(a) == ApplyTransition(a) \/ Commit(a)

Alerting == TaskSelect \/ TaskAlert \/ Commit(Task)

Next ==
    \/ \E a \in Workers : Begin(a) \/ Step(a)
    \/ Alerting
    \/ \E a \in Actors : Crash(a)
    \/ QuarterPasses \/ HourPasses \/ Backfill

Spec == Init /\ [][Next]_vars

\* Transactions end, and the task runs every five minutes.
Fairness == WF_vars(Alerting) /\ \A a \in Workers : WF_vars(Step(a))

FairSpec == Spec /\ Fairness

-----------------------------------------------------------------------------
(* verify_event_chain: the events in the order of their sequence numbers.     *)

HasAnchor == row.count > 0

ChainIsValid ==
    LET n == Len(events)
    IN  /\ \A k \in 1..n : \E i \in 1..n :
              /\ events[i].seq = k
              /\ events[i].hash # 0
              /\ k = 1 => events[i].prev = 0
              /\ \A j \in 1..n : events[j].seq = k - 1 => events[i].prev = events[j].hash
        /\ row.count = n
        /\ \A i \in 1..n : events[i].seq = n => row.head = events[i].hash

-----------------------------------------------------------------------------
(* Properties *)

TypeOK ==
    /\ row \in Row
    /\ events \in Seq(Event)
    /\ tx \in [Actors -> Transaction]
    /\ holder \in Actors \cup {Nobody}
    /\ told \subseteq Signature
    /\ forked \in BOOLEAN
    /\ faults \in Nat
    /\ begun \in Nat

\* verify_event_chain tells the truth about an anchored chain, over any sequence of
\* transitions, alerts, crashes and migrations: it finds no error in a chain whose
\* events were each appended to the newest one, and an error for ever after one
\* that was not.
VerifyIsExact == HasAnchor => (ChainIsValid <=> ~forked)

\* delivery.py: the FOR UPDATE serializes the sequence with every transition, so
\* every anchored chain verifies.
ChainVerifies == HasAnchor => ChainIsValid

\* install.py: an anchored chain is evidence and is never rewritten, by a later
\* migration either.
EvidenceIsKept ==
    [][HasAnchor => /\ Len(events') >= Len(events)
                    /\ \A i \in DOMAIN events : events'[i] = events[i]]_vars

\* A signature on the row, which keeps the code from alerting again, is that of an
\* alert somebody was given.
SilenceIsEarned == row.signature # NoSignature => row.signature \in told

\* A blocked document without a delivered alert gets one from the task.
BlockedIsRepeated ==
    row.status \in BLOCKED_STATUSES /\ row.signature = NoSignature
        ~> row.status \notin BLOCKED_STATUSES \/ row.signature # NoSignature

\* docs: undelivered blocked alerts are retried, so whoever is to act hears of it.
BlockedIsTold ==
    \A s \in BLOCKED_STATUSES :
        row.status = s ~> row.status # s \/ Signed("blocked", s) \in told

\* docs: at most one alert for an unchanged failure signature.
NoAlertTwice ==
    [][\A a \in Actors :
           tx[a].pc = "written" /\ row' = tx[a].row => row.signature \notin tx[a].said]_vars

\* An accepted document has no open alert.
AcceptedIsCalm == row.status \in ACCEPTED_STATUSES => row.level = "none"

=============================================================================
