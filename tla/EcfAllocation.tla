---------------------------- MODULE EcfAllocation ----------------------------
(****************************************************************************)
(* Allocation of fiscal numbers (eNCF) to Sales Invoices: the authorized    *)
(* ranges of a company, the transactions that take the next number of a     *)
(* range and register the outbox row that bears it, the cancellation of an  *)
(* invoice and the upkeep of the ranges by users and by expire_ranges.      *)
(*                                                                          *)
(* Several database transactions run at a time.  What a transaction reads   *)
(* plainly it reads at its first step (the snapshot of REPEATABLE READ);    *)
(* what it reads FOR UPDATE, or writes, is current and locked until it ends;*)
(* what it writes appears at its last step or, if it is rolled back, never. *)
(*                                                                          *)
(* One company, one e-CF type.  A log is the outbox row whose delivery      *)
(* EcfDelivery details; here it is sent in one step.                        *)
(****************************************************************************)
EXTENDS Naturals, Sequences, FiniteSets

CONSTANTS
    Invoices,        \* Sales Invoices
    Legacy,          \* those submitted before e-CF was enabled
    Sessions,        \* requests and jobs running at a time, one transaction each
    Environments,    \* TesteCF, CerteCF, eCF
    Offers,          \* ranges DGII authorized: [env, from, to]
    Requests,        \* what users ask: a subset of RequestKinds
    NoSession        \* nobody locks the ranges

RequestKinds == {"submit", "retry", "api", "cancel", "edit", "switch"}

ASSUME InvoicesAssumption == Legacy \subseteq Invoices /\ Invoices # {}
ASSUME SessionsAssumption == NoSession \notin Sessions
ASSUME OffersAssumption ==
    /\ Offers # {}
    /\ \A o \in Offers : /\ o = [env |-> o.env, from |-> o.from, to |-> o.to]
                         /\ o.env \in Environments
                         /\ o.from \in Nat \ {0} /\ o.to \in Nat
                         /\ o.from <= o.to
ASSUME RequestsAssumption == Requests \subseteq RequestKinds

VARIABLES
    range,      \* [Offers -> SequenceRange]: the ECF Sequence Range registered for an offer
    rowLock,    \* the session that read the ranges FOR UPDATE
    invoice,    \* [Invoices -> docstatus]
    logs,       \* ECF Document Log rows, oldest first
    env,        \* the environment in the ECF Provider Settings
    txn,        \* [Sessions -> Txn]: the open transactions
    form        \* an ECF Sequence Range form open in a browser

vars == <<range, rowLock, invoice, logs, env, txn, form>>

\* lapsed: the expiry date has passed.
SequenceRange == [status : {"none", "Active", "Exhausted", "Expired"}, current : Nat,
                  lapsed : BOOLEAN]

\* environment and sentTo are not columns: they record the environment whose range
\* gave the number and the one the document was last sent to.
Log == [inv : Invoices, num : Nat, environment : Environments,
        status : {"Pending", "Aceptado", "ERROR"}, queued : BOOLEAN,
        sentTo : Environments \cup {"nobody"}]

Txn == [pc : {"idle", "allocate", "insert", "register", "cancel"},
        op : RequestKinds \cup {"register"}, inv : Invoices, env : Environments, taken : SUBSET Nat,
        offer : Offers, num : Nat]

Idle == [pc |-> "idle", op |-> "submit", inv |-> CHOOSE i \in Invoices : TRUE,
         env |-> CHOOSE e \in Environments : TRUE, taken |-> {},
         offer |-> CHOOSE o \in Offers : TRUE, num |-> 0]

NoForm == [offer |-> CHOOSE o \in Offers : TRUE, open |-> FALSE,
           status |-> "none", current |-> 0]

Init ==
    /\ range = [o \in Offers |-> [status |-> "none", current |-> o.from - 1, lapsed |-> FALSE]]
    /\ rowLock = NoSession
    /\ invoice = [i \in Invoices |-> IF i \in Legacy THEN "submitted" ELSE "draft"]
    /\ logs = <<>>
    /\ env \in Environments
    /\ txn = [s \in Sessions |-> Idle]
    /\ form = NoForm

-----------------------------------------------------------------------------
(* Transactions *)

LogsOf(i) == {k \in 1..Len(logs) : logs[k].inv = i}

\* _invoice_log takes the newest.
Newest(ks) == CHOOSE k \in ks : \A j \in ks : j <= k

\* Faulty variant: the status of a range is not looked at.
UsableAnyStatus(e) == {o \in Offers : /\ o.env = e
                                      /\ range[o].status # "none"
                                      /\ range[o].current < o.to
                                      /\ ~range[o].lapsed}

\* Ranges with a number left, by the rows as they are committed.
Usable(e) == {o \in Offers : /\ o.env = e
                             /\ range[o].status = "Active"
                             /\ range[o].current < o.to
                             /\ ~range[o].lapsed}

Ready == Usable(env) # {}

\* Frappe submits and cancels an invoice under a lock of its row.
Busy(i) == \E s \in Sessions : /\ txn[s].pc # "idle"
                               /\ txn[s].op \in {"submit", "cancel"}
                               /\ txn[s].inv = i

Open(s, op, i, pc) ==
    txn' = [txn EXCEPT ![s] = [Idle EXCEPT !.pc = pc, !.op = op, !.inv = i, !.env = env,
                                           !.taken = {logs[k].num : k \in 1..Len(logs)}]]

End(s) == txn' = [txn EXCEPT ![s] = Idle]

Unlock(s) == rowLock' = IF rowLock = s THEN NoSession ELSE rowLock

\* Faulty variant: the range has been updated in a transaction of its own.
RollBackWithoutNumber(s) ==
    /\ txn[s].pc # "idle"
    /\ range' = IF txn[s].pc = "insert"
                THEN [range EXCEPT ![txn[s].offer].current = txn[s].num]
                ELSE range
    /\ End(s) /\ Unlock(s)
    /\ UNCHANGED <<invoice, logs, env, form>>

\* A failure, or a crash: nothing of the transaction remains.
RollBack(s) ==
    /\ txn[s].pc # "idle"
    /\ End(s) /\ Unlock(s)
    /\ UNCHANGED <<range, invoice, logs, env, form>>

(* prepare_sales_invoice: an invoice with a log keeps it *)

\* Faulty variant: an invoice whose document failed gets a new number.
NeedsNumberAfterFailure(i) == \A k \in LogsOf(i) : logs[k].status = "ERROR"

NeedsNumber(i) == LogsOf(i) = {}

\* A job that ends at once if the document is accepted.
Requeue(i) == logs' = [logs EXCEPT ![Newest(LogsOf(i))].queued =
                                       logs[Newest(LogsOf(i))].status # "Aceptado"]

\* Submission: before_submit checks the readiness, on_submit prepares the log.
BeginSubmit(s, i) ==
    /\ "submit" \in Requests
    /\ txn[s].pc = "idle" /\ ~Busy(i)
    /\ invoice[i] = "draft"
    /\ Ready
    /\ \/ /\ NeedsNumber(i)
          /\ Open(s, "submit", i, "allocate")
          /\ UNCHANGED invoice
       \/ /\ ~NeedsNumber(i)
          /\ invoice' = [invoice EXCEPT ![i] = "submitted"]
          /\ UNCHANGED txn
    /\ UNCHANGED <<range, rowLock, logs, env, form>>

\* retry_sales_invoice looks at the readiness before it looks for a log.
MayRetry(i) == invoice[i] = "submitted" /\ Ready

BeginRetry(s, i) ==
    /\ "retry" \in Requests
    /\ txn[s].pc = "idle"
    /\ MayRetry(i)
    /\ \/ /\ NeedsNumber(i)
          /\ Open(s, "retry", i, "allocate")
          /\ UNCHANGED logs
       \/ /\ ~NeedsNumber(i)
          /\ Requeue(i)
          /\ UNCHANGED txn
    /\ UNCHANGED <<range, rowLock, invoice, env, form>>

\* submit_sales_invoice does not look at the docstatus.
BeginApi(s, i) ==
    /\ "api" \in Requests
    /\ txn[s].pc = "idle"
    /\ \/ /\ NeedsNumber(i)
          /\ Ready
          /\ Open(s, "api", i, "allocate")
          /\ UNCHANGED logs
       \/ /\ ~NeedsNumber(i)
          /\ Requeue(i)
          /\ UNCHANGED txn
    /\ UNCHANGED <<range, rowLock, invoice, env, form>>

\* get_next_encf: SELECT ... ORDER BY sequence_from LIMIT 1 FOR UPDATE.
First(os) == {o \in os : \A p \in os : o.from <= p.from}

\* Faulty variant: the range is read without FOR UPDATE.
AllocateUnlocked(s) ==
    /\ txn[s].pc = "allocate"
    /\ \E o \in First(Usable(txn[s].env)) :
          txn' = [txn EXCEPT ![s].pc = "insert", ![s].offer = o,
                             ![s].num = range[o].current + 1]
    /\ UNCHANGED <<range, rowLock, invoice, logs, env, form>>

\* Faulty variant: current is taken for the next number, not for the last one.
AllocateCurrent(s) ==
    /\ txn[s].pc = "allocate"
    /\ rowLock = NoSession
    /\ \E o \in First(Usable(txn[s].env)) :
          txn' = [txn EXCEPT ![s].pc = "insert", ![s].offer = o,
                             ![s].num = range[o].current]
    /\ rowLock' = s
    /\ UNCHANGED <<range, invoice, logs, env, form>>

\* Without a range left it throws: see RollBack.
Allocate(s) ==
    /\ txn[s].pc = "allocate"
    /\ rowLock = NoSession
    /\ \E o \in First(Usable(txn[s].env)) :
          txn' = [txn EXCEPT ![s].pc = "insert", ![s].offer = o,
                             ![s].num = range[o].current + 1]
    /\ rowLock' = s
    /\ UNCHANGED <<range, invoice, logs, env, form>>

NewLog(t) == [inv |-> t.inv, num |-> t.num, environment |-> t.env, status |-> "Pending",
              queued |-> FALSE, sentTo |-> "nobody"]

\* Faulty variant: the log is inserted without _validate_duplicate.
CommitUnchecked(s) ==
    LET t == txn[s]
    IN  /\ t.pc = "insert"
        /\ logs' = Append(logs, NewLog(t))
        /\ range' = [range EXCEPT ![t.offer].current = t.num,
                                  ![t.offer].status = IF t.num >= t.offer.to THEN "Exhausted"
                                                      ELSE @]
        /\ invoice' = IF t.op = "submit" THEN [invoice EXCEPT ![t.inv] = "submitted"]
                      ELSE invoice
        /\ End(s) /\ Unlock(s)
        /\ UNCHANGED <<env, form>>

\* The log is inserted unless _validate_duplicate finds its number (then RollBack),
\* and all that the request wrote is committed.
Commit(s) ==
    LET t == txn[s]
    IN  /\ t.pc = "insert"
        /\ t.num \notin t.taken
        /\ logs' = Append(logs, NewLog(t))
        /\ range' = [range EXCEPT ![t.offer].current = t.num,
                                  ![t.offer].status = IF t.num >= t.offer.to THEN "Exhausted"
                                                      ELSE @]
        /\ invoice' = IF t.op = "submit" THEN [invoice EXCEPT ![t.inv] = "submitted"]
                      ELSE invoice
        /\ End(s) /\ Unlock(s)
        /\ UNCHANGED <<env, form>>

(* on_cancel: "Rechazado" and "ERROR" do not block, nor does the lack of a log *)

BeginCancel(s, i) ==
    /\ "cancel" \in Requests
    /\ txn[s].pc = "idle" /\ ~Busy(i)
    /\ invoice[i] = "submitted"
    /\ \A k \in LogsOf(i) : logs[k].status = "ERROR"
    /\ Open(s, "cancel", i, "cancel")
    /\ UNCHANGED <<range, rowLock, invoice, logs, env, form>>

CommitCancel(s) ==
    /\ txn[s].pc = "cancel"
    /\ invoice' = [invoice EXCEPT ![txn[s].inv] = "cancelled"]
    /\ End(s)
    /\ UNCHANGED <<range, rowLock, logs, env, form>>

-----------------------------------------------------------------------------
(* Ranges *)

\* _check_overlap looks at Active ranges only.
Overlaps(o) == \E p \in Offers \ {o} : /\ p.env = o.env
                                       /\ range[p].status = "Active"
                                       /\ p.from <= o.to /\ p.to >= o.from

\* The name of a range is made of its environment and its first number.
NameTaken(o) == \E p \in Offers : /\ p.env = o.env /\ p.from = o.from
                                  /\ range[p].status # "none"

\* A user registers a range: the check is a plain read, the insert waits for the
\* ranges to be unlocked.
BeginRegister(s, o) ==
    /\ txn[s].pc = "idle"
    /\ ~NameTaken(o) /\ ~Overlaps(o)
    /\ txn' = [txn EXCEPT ![s] = [Idle EXCEPT !.pc = "register", !.op = "register",
                                           !.offer = o]]
    /\ UNCHANGED <<range, rowLock, invoice, logs, env, form>>

CommitRegister(s) ==
    LET o == txn[s].offer
    IN  /\ txn[s].pc = "register"
        /\ rowLock = NoSession
        /\ ~NameTaken(o)
        /\ range' = [range EXCEPT ![o].status = "Active"]
        /\ End(s)
        /\ UNCHANGED <<rowLock, invoice, logs, env, form>>

\* A form is loaded with the row's values, and writes all of them when saved: the
\* handout of a number leaves the row's modification time as it is, so the form is
\* not refused for being old.  The user renews the expiry date, reactivates the
\* range, or neither.
OpenForm(o) ==
    /\ "edit" \in Requests
    /\ ~form.open
    /\ range[o].status # "none"
    /\ form' = [offer |-> o, open |-> TRUE, status |-> range[o].status,
                current |-> range[o].current]
    /\ UNCHANGED <<range, rowLock, invoice, logs, env, txn>>

SaveForm ==
    LET o == form.offer
    IN  /\ form.open
        /\ rowLock = NoSession
        /\ ~Overlaps(o)
        /\ \E s \in {form.status, "Active"}, lapsed \in {range[o].lapsed, FALSE} :
              range' = [range EXCEPT ![o] = [status |-> s, current |-> form.current,
                                             lapsed |-> lapsed]]
        /\ form' = NoForm
        /\ UNCHANGED <<rowLock, invoice, logs, env, txn>>

\* Midnight passes the expiry date of a range.
Lapse(o) ==
    /\ range[o].status # "none"
    /\ ~range[o].lapsed
    /\ range' = [range EXCEPT ![o].lapsed = TRUE]
    /\ UNCHANGED <<rowLock, invoice, logs, env, txn, form>>

\* Faulty variant: set_value does not check a Select, and the status is misspelt.
ExpireRangesMisspelt ==
    LET gone == {o \in Offers : range[o].status = "Active" /\ range[o].lapsed}
    IN  /\ gone # {}
        /\ rowLock = NoSession
        /\ range' = [o \in Offers |-> IF o \in gone THEN [range[o] EXCEPT !.status = "Expirado"]
                                      ELSE range[o]]
        /\ form' = IF form.open /\ form.offer \in gone THEN NoForm ELSE form
        /\ UNCHANGED <<rowLock, invoice, logs, env, txn>>

\* expire_ranges; it sets the modification time, so that an open form is refused.
ExpireRanges ==
    LET gone == {o \in Offers : range[o].status = "Active" /\ range[o].lapsed}
    IN  /\ gone # {}
        /\ rowLock = NoSession
        /\ range' = [o \in Offers |-> IF o \in gone THEN [range[o] EXCEPT !.status = "Expired"]
                                      ELSE range[o]]
        /\ form' = IF form.open /\ form.offer \in gone THEN NoForm ELSE form
        /\ UNCHANGED <<rowLock, invoice, logs, env, txn>>

\* The company moves to another environment (a save of its settings).
SwitchEnvironment(e) ==
    /\ "switch" \in Requests
    /\ env # e
    /\ env' = e
    /\ UNCHANGED <<range, rowLock, invoice, logs, txn, form>>

-----------------------------------------------------------------------------
(* Delivery: the dispatcher sends what is Pending, or was asked for again, with *)
(* the settings the company has by then and whatever became of the invoice.     *)

\* Faulty variant: a job does not look at the status of the row it is given.
DeliverWhatever(k) ==
    /\ \E s \in {"Aceptado", "ERROR"} :
          logs' = [logs EXCEPT ![k].status = s, ![k].queued = FALSE, ![k].sentTo = env]
    /\ UNCHANGED <<range, rowLock, invoice, env, txn, form>>

Deliver(k) ==
    /\ \/ logs[k].status = "Pending"
       \/ logs[k].status = "ERROR" /\ logs[k].queued
    /\ \E s \in {"Aceptado", "ERROR"} :
          logs' = [logs EXCEPT ![k].status = s, ![k].queued = FALSE, ![k].sentTo = env]
    /\ UNCHANGED <<range, rowLock, invoice, env, txn, form>>

Session(s) ==
    \/ \E i \in Invoices :
          BeginSubmit(s, i) \/ BeginRetry(s, i) \/ BeginApi(s, i) \/ BeginCancel(s, i)
    \/ Allocate(s) \/ Commit(s) \/ RollBack(s) \/ CommitCancel(s)
    \/ (\E o \in Offers : BeginRegister(s, o)) \/ CommitRegister(s)

Next ==
    \/ \E s \in Sessions : Session(s)
    \/ \E o \in Offers : OpenForm(o) \/ Lapse(o)
    \/ SaveForm \/ ExpireRanges
    \/ \E e \in Environments : SwitchEnvironment(e)
    \/ \E k \in 1..Len(logs) : Deliver(k)

Spec == Init /\ [][Next]_vars

-----------------------------------------------------------------------------
(* Properties *)

TypeOK ==
    /\ range \in [Offers -> SequenceRange]
    /\ rowLock \in Sessions \cup {NoSession}
    /\ invoice \in [Invoices -> {"draft", "submitted", "cancelled"}]
    /\ logs \in Seq(Log)
    /\ env \in Environments
    /\ txn \in [Sessions -> Txn]
    /\ form \in [offer : Offers, open : BOOLEAN, current : Nat,
                 status : {"none", "Active", "Exhausted", "Expired"}]

\* README: the app rejects overlapping active ranges.
ActiveRangesApart ==
    \A o, p \in Offers :
        /\ o # p /\ o.env = p.env
        /\ range[o].status = "Active" /\ range[p].status = "Active"
        => o.to < p.from \/ p.to < o.from

\* A number of an environment is borne by one document only (ecf_sequence_range.py:
\* a duplicated eNCF is rejected by DGII), whatever transactions run at a time.
NumbersUnique ==
    \A j, k \in 1..Len(logs) :
        logs[j].num = logs[k].num /\ logs[j].environment = logs[k].environment => j = k

\* Every number up to a range's current one is borne by a document: a transaction
\* that fails after get_next_encf gives its number back.
NoNumberLost ==
    \A o \in Offers : \A n \in o.from..range[o].current :
        \E k \in 1..Len(logs) : logs[k].num = n /\ logs[k].environment = o.env

\* An invoice is given one number, however often it is submitted, retried or sent.
OneNumberPerInvoice == \A i \in Invoices : Cardinality(LogsOf(i)) <= 1

\* Numbers come from the ranges of the environment, while they are Active: between
\* the SELECT and the commit no task or user gets hold of the range.
Authorized ==
    Len(logs') > Len(logs) =>
        \E o \in Offers : /\ o.env = logs'[Len(logs')].environment
                          /\ range[o].status = "Active"
                          /\ logs'[Len(logs')].num \in o.from..o.to

NumbersFromActiveRange == [][Authorized]_vars

\* get_next_encf never hands out a number that a committed document bears.
HandoutIsFresh ==
    \A s \in Sessions : txn[s].pc = "insert" =>
        \A k \in 1..Len(logs) : ~(/\ logs[k].num = txn[s].num
                                  /\ logs[k].environment = txn[s].env)

\* The environments are separate namespaces: a number taken in one of them does not
\* keep _validate_duplicate from accepting it in another.
NamespacesApart ==
    \A s \in Sessions : txn[s].pc = "insert" /\ txn[s].num \in txn[s].taken =>
        \E k \in 1..Len(logs) : logs[k].num = txn[s].num /\ logs[k].environment = txn[s].env

\* A document is only sent to the environment whose range gave its number.
SentWhereAuthorized ==
    \A k \in 1..Len(logs) : logs[k].sentTo \in {"nobody", logs[k].environment}

\* A cancelled invoice has no document that is issued or on its way.
CancelledIsNotIssued ==
    \A k \in 1..Len(logs) : invoice[logs[k].inv] = "cancelled" => logs[k].status = "ERROR"

\* Only submitted invoices are sent as e-CF; cancellation comes after.
DraftsHaveNoNumber == \A k \in 1..Len(logs) : invoice[logs[k].inv] # "draft"

\* A document that failed can be retried while its invoice stands.
FailuresCanBeRetried ==
    \A k \in 1..Len(logs) :
        logs[k].status = "ERROR" /\ invoice[logs[k].inv] = "submitted" => MayRetry(logs[k].inv)

-----------------------------------------------------------------------------
(* The specification that is implemented *)

\* The row of the document that bears number n of a range.
Bearer(o, n) == CHOOSE k \in 1..Len(logs) : logs[k].num = n /\ logs[k].environment = o.env

Verdict(status) == CASE status = "Pending" -> "owed"
                     [] status = "Aceptado" -> "accepted"
                     [] status = "ERROR" -> "failed"

\* The documents that bear the numbers of a range, up to its current.
Book(o) == [n \in 1..(range[o].current + 1 - o.from) |->
               LET l == logs[Bearer(o, o.from + n - 1)]
               IN  [inv |-> l.inv, verdict |-> Verdict(l.status)]]

Numbering == INSTANCE FiscalNumbering WITH book <- [o \in Offers |-> Book(o)]

\* ecf_sequence_range.py, README: the numbers of a range are used in order, one
\* document each, within its bounds; what failed is sent again under its number.
ImplementsNumbering == Numbering!Spec

=============================================================================
