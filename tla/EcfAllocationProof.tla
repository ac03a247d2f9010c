------------------------- MODULE EcfAllocationProof -------------------------
(* Theorems about EcfAllocation: type correctness, where the numbers come     *)
(* from, that none is handed out twice or lost, and what a single process     *)
(* guarantees without the ranges being apart.                                 *)
EXTENDS EcfAllocation, FiniteSetTheorems, SequenceTheorems, TLAPS

-----------------------------------------------------------------------------
(* Type correctness *)

Form == [offer : Offers, open : BOOLEAN, current : Nat,
         status : {"none", "Active", "Exhausted", "Expired"}]

LEMMA OfferType ==
    ASSUME NEW o \in Offers
    PROVE  /\ o.env \in Environments
           /\ o.from \in Nat /\ o.to \in Nat /\ o.from >= 1 /\ o.from <= o.to
           /\ o.from - 1 \in Nat
  BY OffersAssumption

LEMMA IdleType ==
    /\ Idle \in Txn /\ Idle.pc = "idle"
    /\ NoForm \in Form /\ NoForm.open = FALSE
<1>1. PICK o \in Offers : TRUE
  BY OffersAssumption
<1>2. /\ (CHOOSE i \in Invoices : TRUE) \in Invoices
      /\ (CHOOSE e \in Environments : TRUE) \in Environments
      /\ (CHOOSE p \in Offers : TRUE) \in Offers
  BY <1>1, OfferType, InvoicesAssumption
<1> QED
  BY <1>2 DEF Idle, Txn, NoForm, Form, RequestKinds

LEMMA InitType == Init => TypeOK
<1> SUFFICES ASSUME Init PROVE TypeOK
  OBVIOUS
<1>1. range \in [Offers -> SequenceRange]
  <2>1. \A o \in Offers : [status |-> "none", current |-> o.from - 1, lapsed |-> FALSE] \in SequenceRange
    <3> SUFFICES ASSUME NEW o \in Offers
                 PROVE  [status |-> "none", current |-> o.from - 1, lapsed |-> FALSE] \in SequenceRange
      OBVIOUS
    <3>1. PICK n \in Nat : n = o.from - 1
      BY OfferType
    <3>2. [status |-> "none", current |-> n, lapsed |-> FALSE] \in SequenceRange
      BY DEF SequenceRange
    <3> QED
      BY <3>1, <3>2
  <2> QED
    BY <2>1 DEF Init
<1>2. txn \in [Sessions -> Txn] /\ form \in Form
  BY IdleType DEF Init
<1>3. invoice \in [Invoices -> {"draft", "submitted", "cancelled"}] /\ logs \in Seq(Log)
  BY DEF Init
<1> QED
  BY <1>1, <1>2, <1>3 DEF Init, TypeOK, Form

\* What a request does to the logs: at most one row changes, and keeps its number.
LEMMA LogChanges ==
    ASSUME TypeOK, NEW k, NEW q \in BOOLEAN, NEW s \in {"Pending", "Aceptado", "ERROR"},
           NEW e \in Environments \cup {"nobody"},
           \/ logs' = [logs EXCEPT ![k].queued = q]
           \/ logs' = [logs EXCEPT ![k].status = s, ![k].queued = q, ![k].sentTo = e]
    PROVE  /\ logs' \in Seq(Log)
           /\ Len(logs') = Len(logs)
           /\ \A j \in 1..Len(logs) : /\ logs'[j].inv = logs[j].inv
                                      /\ logs'[j].num = logs[j].num
                                      /\ logs'[j].environment = logs[j].environment
<1>0. logs \in Seq(Log) /\ DOMAIN logs = 1..Len(logs) /\ \A j \in 1..Len(logs) : logs[j] \in Log
  BY DEF TypeOK
<1>1. CASE k \notin 1..Len(logs)
  <2>1. logs' = logs
    BY <1>0, <1>1
  <2> QED
    BY <1>0, <2>1
<1>2. CASE k \in 1..Len(logs)
  <2>1. PICK l \in Log : /\ logs' = [logs EXCEPT ![k] = l]
                         /\ l.inv = logs[k].inv /\ l.num = logs[k].num
                         /\ l.environment = logs[k].environment
    <3>1. /\ [logs[k] EXCEPT !.queued = q] \in Log
          /\ [logs[k] EXCEPT !.status = s, !.queued = q, !.sentTo = e] \in Log
      <4>1. logs[k] \in Log
        BY <1>0, <1>2
      <4> QED
        BY <4>1 DEF Log
    <3> QED
      BY <1>0, <1>2, <3>1 DEF Log
  <2>2. logs' \in Seq(Log) /\ Len(logs') = Len(logs)
    BY <1>0, <1>2, <2>1, ExceptSeq
  <2> QED
    BY <1>0, <1>2, <2>1, <2>2
<1> QED
  BY <1>1, <1>2

LEMMA RequeueType ==
    ASSUME TypeOK, NEW i \in Invoices, Requeue(i)
    PROVE  /\ logs' \in Seq(Log)
           /\ Len(logs') = Len(logs)
           /\ \A j \in 1..Len(logs) : /\ logs'[j].inv = logs[j].inv
                                      /\ logs'[j].num = logs[j].num
                                      /\ logs'[j].environment = logs[j].environment
<1>1. PICK q \in BOOLEAN : logs' = [logs EXCEPT ![Newest(LogsOf(i))].queued = q]
  BY DEF Requeue
<1> QED
  BY <1>1, LogChanges

LEMMA OpenType ==
    ASSUME TypeOK, NEW s \in Sessions, NEW op \in RequestKinds, NEW i \in Invoices,
           NEW pc \in {"allocate", "cancel"}, Open(s, op, i, pc)
    PROVE  /\ txn' \in [Sessions -> Txn]
           /\ txn'[s].pc = pc /\ txn'[s].inv = i
           /\ txn'[s].taken = {logs[k].num : k \in 1..Len(logs)}
           /\ \A t \in Sessions \ {s} : txn'[t] = txn[t]
<1> DEFINE taken == {logs[k].num : k \in 1..Len(logs)}
           l == [Idle EXCEPT !.pc = pc, !.op = op, !.inv = i, !.env = env, !.taken = taken]
<1>1. taken \in SUBSET Nat /\ env \in Environments
  <2>1. \A k \in 1..Len(logs) : logs[k] \in Log
    BY DEF TypeOK
  <2> QED
    BY <2>1 DEF TypeOK, Log
<1>2. txn' = [txn EXCEPT ![s] = l]
  BY DEF Open
<1> HIDE DEF taken
<1>3. l \in Txn /\ l.pc = pc /\ l.inv = i /\ l.taken = taken
  BY <1>1, IdleType DEF Txn
<1> HIDE DEF l
<1> QED
  BY <1>2, <1>3 DEF TypeOK, taken

LEMMA EndType ==
    ASSUME TypeOK, NEW s \in Sessions, End(s)
    PROVE  /\ txn' \in [Sessions -> Txn]
           /\ txn'[s].pc = "idle"
           /\ \A t \in Sessions \ {s} : txn'[t] = txn[t]
  BY IdleType DEF End, TypeOK

LEMMA AllocateType ==
    ASSUME TypeOK, NEW s \in Sessions, Allocate(s)
    PROVE  \E o \in Usable(txn[s].env) :
              /\ txn' \in [Sessions -> Txn]
              /\ txn'[s].pc = "insert" /\ txn'[s].offer = o /\ txn'[s].env = txn[s].env
              /\ txn'[s].taken = txn[s].taken /\ txn'[s].inv = txn[s].inv
              /\ txn'[s].num = range[o].current + 1
              /\ \A t \in Sessions \ {s} : txn'[t] = txn[t]
<1>1. txn[s] \in Txn
  BY DEF TypeOK
<1>2. PICK o \in First(Usable(txn[s].env)) :
         txn' = [txn EXCEPT ![s].pc = "insert", ![s].offer = o, ![s].num = range[o].current + 1]
  BY DEF Allocate
<1>3. o \in Usable(txn[s].env) /\ o \in Offers
  BY <1>2 DEF First, Usable
<1>4. PICK n \in Nat : n = range[o].current + 1
  <2>1. range[o] \in SequenceRange
    BY <1>3 DEF TypeOK
  <2>2. range[o].current \in Nat
    BY <2>1 DEF SequenceRange
  <2> QED
    BY <2>2
<1>5. PICK l \in Txn : /\ l = [txn[s] EXCEPT !.pc = "insert", !.offer = o, !.num = n]
                       /\ l.pc = "insert" /\ l.offer = o /\ l.num = n
                       /\ l.env = txn[s].env /\ l.taken = txn[s].taken /\ l.inv = txn[s].inv
  <2> DEFINE l == [txn[s] EXCEPT !.pc = "insert", !.offer = o, !.num = n]
  <2>1. l \in Txn
    BY <1>1, <1>3 DEF Txn
  <2>2. /\ l.pc = "insert" /\ l.offer = o /\ l.num = n
        /\ l.env = txn[s].env /\ l.taken = txn[s].taken /\ l.inv = txn[s].inv
    BY <1>1 DEF Txn
  <2> QED
    BY <2>1, <2>2
<1>6. txn' = [txn EXCEPT ![s] = l]
  BY <1>2, <1>4, <1>5
<1> QED
  BY <1>3, <1>4, <1>5, <1>6 DEF TypeOK

LEMMA ColumnType ==
    ASSUME NEW r \in SequenceRange
    PROVE  /\ [r EXCEPT !.lapsed = TRUE] \in SequenceRange
           /\ [r EXCEPT !.lapsed = TRUE].current = r.current
           /\ [r EXCEPT !.lapsed = TRUE].status = r.status
           /\ \A q \in {"none", "Active", "Exhausted", "Expired"} :
                 /\ [r EXCEPT !.status = q] \in SequenceRange
                 /\ [r EXCEPT !.status = q].current = r.current
                 /\ \A n \in Nat :
                       /\ [r EXCEPT !.current = n, !.status = q] \in SequenceRange
                       /\ [r EXCEPT !.current = n, !.status = q].current = n
  BY DEF SequenceRange

LEMMA BeginType ==
    ASSUME TypeOK, NEW s \in Sessions, NEW i \in Invoices,
           BeginSubmit(s, i) \/ BeginRetry(s, i) \/ BeginApi(s, i) \/ BeginCancel(s, i)
    PROVE  TypeOK'
<1>1. txn' \in [Sessions -> Txn]
  BY OpenType DEF BeginSubmit, BeginRetry, BeginApi, BeginCancel, RequestKinds, TypeOK
<1>2. logs' \in Seq(Log)
  BY RequeueType DEF BeginSubmit, BeginRetry, BeginApi, BeginCancel, TypeOK
<1>3. invoice' \in [Invoices -> {"draft", "submitted", "cancelled"}]
  BY DEF BeginSubmit, BeginRetry, BeginApi, BeginCancel, TypeOK
<1> QED
  BY <1>1, <1>2, <1>3 DEF BeginSubmit, BeginRetry, BeginApi, BeginCancel, TypeOK

\* What a transaction that takes a number leaves behind.
LEMMA CommitType ==
    ASSUME TypeOK, NEW s \in Sessions, Commit(s)
    PROVE  /\ NewLog(txn[s]) \in Log
           /\ logs' \in Seq(Log) /\ Len(logs') = Len(logs) + 1
           /\ \A k \in 1..Len(logs) : logs'[k] = logs[k]
           /\ logs'[Len(logs')] = NewLog(txn[s])
           /\ range' \in [Offers -> SequenceRange]
           /\ range'[txn[s].offer].current = txn[s].num
           /\ \A o \in Offers \ {txn[s].offer} : range'[o] = range[o]
           /\ invoice' \in [Invoices -> {"draft", "submitted", "cancelled"}]
<1> DEFINE t == txn[s]
<1>0. t \in Txn /\ t.offer \in Offers /\ t.num \in Nat /\ t.inv \in Invoices
      /\ t.env \in Environments
  BY DEF TypeOK, Txn
<1>1. NewLog(t) \in Log
  BY <1>0 DEF NewLog, Log
<1>2. /\ logs' \in Seq(Log) /\ Len(logs') = Len(logs) + 1
      /\ \A k \in 1..Len(logs) : logs'[k] = logs[k]
      /\ logs'[Len(logs')] = NewLog(t)
  <2>1. logs' = Append(logs, NewLog(t)) /\ logs \in Seq(Log)
    BY DEF Commit, TypeOK
  <2> HIDE DEF t
  <2> QED
    BY <1>1, <2>1
<1>3. PICK q \in {"none", "Active", "Exhausted", "Expired"} :
         range' = [range EXCEPT ![t.offer].current = t.num, ![t.offer].status = q]
  <2>1. range[t.offer] \in SequenceRange
    BY <1>0 DEF TypeOK
  <2>2. range[t.offer].status \in {"none", "Active", "Exhausted", "Expired"}
    BY <2>1 DEF SequenceRange
  <2>3. \/ range' = [range EXCEPT ![t.offer].current = t.num, ![t.offer].status = "Exhausted"]
        \/ range' = [range EXCEPT ![t.offer].current = t.num,
                                  ![t.offer].status = range[t.offer].status]
    BY <1>0 DEF Commit, TypeOK, SequenceRange
  <2> QED
    BY <2>2, <2>3
<1>4. /\ range' \in [Offers -> SequenceRange]
      /\ range'[t.offer].current = t.num
      /\ \A o \in Offers \ {t.offer} : range'[o] = range[o]
  <2>1. range[t.offer] \in SequenceRange
    BY <1>0 DEF TypeOK
  <2> DEFINE x == [range[t.offer] EXCEPT !.current = t.num, !.status = q]
  <2>2. x \in SequenceRange /\ x.current = t.num
    <3>1. \A r \in SequenceRange, n \in Nat :
             /\ [r EXCEPT !.current = n, !.status = q] \in SequenceRange
             /\ [r EXCEPT !.current = n, !.status = q].current = n
      BY <1>3 DEF SequenceRange
    <3>2. t.num \in Nat
      BY <1>0
    <3> QED
      BY <2>1, <3>1, <3>2
  <2>3. range' = [range EXCEPT ![t.offer] = x]
    BY <1>3
  <2> HIDE DEF x
  <2> QED
    BY <1>0, <2>2, <2>3 DEF TypeOK
<1>5. invoice' \in [Invoices -> {"draft", "submitted", "cancelled"}]
  BY <1>0 DEF Commit, TypeOK
<1> QED
  BY <1>1, <1>2, <1>4, <1>5

LEMMA SessionType ==
    ASSUME TypeOK, NEW s \in Sessions, Session(s)
    PROVE  TypeOK'
<1>1. CASE \E i \in Invoices :
              BeginSubmit(s, i) \/ BeginRetry(s, i) \/ BeginApi(s, i) \/ BeginCancel(s, i)
  BY <1>1, BeginType
<1>2. CASE Allocate(s)
  <2>1. txn' \in [Sessions -> Txn]
    BY <1>2, AllocateType
  <2> QED
    BY <1>2, <2>1 DEF Allocate, TypeOK
<1>3. CASE Commit(s)
  <2>1. txn' \in [Sessions -> Txn]
    BY <1>3, EndType DEF Commit
  <2>2. rowLock' \in Sessions \cup {NoSession} /\ env' = env /\ form' = form
    BY <1>3 DEF Commit, Unlock, TypeOK
  <2> QED
    BY <1>3, <2>1, <2>2, CommitType DEF TypeOK
<1>4. CASE RollBack(s)
  BY <1>4, EndType DEF RollBack, Unlock, TypeOK
<1>5. CASE CommitCancel(s)
  <2>1. txn' \in [Sessions -> Txn]
    BY <1>5, EndType DEF CommitCancel
  <2>2. invoice' \in [Invoices -> {"draft", "submitted", "cancelled"}]
    BY <1>5 DEF CommitCancel, TypeOK
  <2> QED
    BY <1>5, <2>1, <2>2 DEF CommitCancel, TypeOK
<1>6. ASSUME NEW o \in Offers, BeginRegister(s, o)
      PROVE  TypeOK'
  <2>1. [Idle EXCEPT !.pc = "register", !.op = "register", !.offer = o] \in Txn
    BY IdleType DEF Txn
  <2> QED
    BY <1>6, <2>1 DEF BeginRegister, TypeOK
<1>7. CASE CommitRegister(s)
  <2>1. txn' \in [Sessions -> Txn]
    BY <1>7, EndType DEF CommitRegister
  <2>2. txn[s].offer \in Offers
    BY DEF TypeOK, Txn
  <2>3. range' = [range EXCEPT ![txn[s].offer] = [range[txn[s].offer] EXCEPT !.status = "Active"]]
    BY <1>7 DEF CommitRegister
  <2>4. [range[txn[s].offer] EXCEPT !.status = "Active"] \in SequenceRange
    <3>1. range[txn[s].offer] \in SequenceRange
      BY <2>2 DEF TypeOK
    <3> QED
      BY <3>1, ColumnType
  <2>5. range' \in [Offers -> SequenceRange]
    BY <2>3, <2>4 DEF TypeOK
  <2> QED
    BY <1>7, <2>1, <2>5 DEF CommitRegister, TypeOK
<1> QED
  BY <1>1, <1>2, <1>3, <1>4, <1>5, <1>6, <1>7 DEF Session

LEMMA RangeStepType ==
    ASSUME TypeOK,
           \/ \E o \in Offers : OpenForm(o) \/ Lapse(o)
           \/ SaveForm \/ ExpireRanges
    PROVE  TypeOK'
<1>0. form \in Form /\ NoForm \in Form
  BY IdleType DEF TypeOK, Form
<1>1. ASSUME NEW o \in Offers, OpenForm(o)
      PROVE  TypeOK'
  <2>1. range[o] \in SequenceRange
    BY DEF TypeOK
  <2>2. [offer |-> o, open |-> TRUE, status |-> range[o].status,
         current |-> range[o].current] \in Form
    BY <2>1 DEF SequenceRange, Form
  <2> QED
    BY <1>1, <2>2 DEF OpenForm, TypeOK, Form
<1>2. ASSUME NEW o \in Offers, Lapse(o)
      PROVE  TypeOK'
  <2>0. [range[o] EXCEPT !.lapsed = TRUE] \in SequenceRange
    BY ColumnType DEF TypeOK
  <2>1. range' \in [Offers -> SequenceRange]
    BY <1>2, <2>0 DEF Lapse, TypeOK
  <2> QED
    BY <1>2, <2>1 DEF Lapse, TypeOK
<1>3. CASE SaveForm
  <2>1. PICK q \in {form.status, "Active"}, lapsed \in {range[form.offer].lapsed, FALSE} :
           range' = [range EXCEPT ![form.offer] = [status |-> q, current |-> form.current,
                                                   lapsed |-> lapsed]]
    BY <1>3 DEF SaveForm
  <2>2. range[form.offer] \in SequenceRange
    BY <1>0 DEF TypeOK, Form
  <2>3. [status |-> q, current |-> form.current, lapsed |-> lapsed] \in SequenceRange
    BY <1>0, <2>1, <2>2 DEF SequenceRange, Form
  <2>4. range' \in [Offers -> SequenceRange]
    BY <2>1, <2>3 DEF TypeOK
  <2> QED
    BY <1>0, <1>3, <2>4 DEF SaveForm, TypeOK, Form
<1>4. CASE ExpireRanges
  <2>1. \A o \in Offers : [range[o] EXCEPT !.status = "Expired"] \in SequenceRange
    BY ColumnType DEF TypeOK
  <2>2. range' \in [Offers -> SequenceRange]
    BY <1>4, <2>1 DEF ExpireRanges, TypeOK
  <2>3. form' \in Form
    BY <1>0, <1>4 DEF ExpireRanges
  <2> QED
    BY <1>4, <2>2, <2>3 DEF ExpireRanges, TypeOK, Form
<1> QED
  BY <1>1, <1>2, <1>3, <1>4

LEMMA DeliverType ==
    ASSUME TypeOK, NEW k, Deliver(k)
    PROVE  /\ logs' \in Seq(Log)
           /\ Len(logs') = Len(logs)
           /\ \A j \in 1..Len(logs) : /\ logs'[j].inv = logs[j].inv
                                      /\ logs'[j].num = logs[j].num
                                      /\ logs'[j].environment = logs[j].environment
<1>1. PICK q \in {"Aceptado", "ERROR"} :
         logs' = [logs EXCEPT ![k].status = q, ![k].queued = FALSE, ![k].sentTo = env]
  BY DEF Deliver
<1>2. env \in Environments
  BY DEF TypeOK
<1> QED
  BY <1>1, <1>2, LogChanges

LEMMA NextType == TypeOK /\ [Next]_vars => TypeOK'
<1> SUFFICES ASSUME TypeOK, [Next]_vars PROVE TypeOK'
  OBVIOUS
<1>1. CASE UNCHANGED vars
  BY <1>1 DEF vars, TypeOK
<1>2. ASSUME NEW e \in Environments, SwitchEnvironment(e)
      PROVE  TypeOK'
  BY <1>2 DEF SwitchEnvironment, TypeOK
<1>3. ASSUME NEW k, Deliver(k)
      PROVE  TypeOK'
  BY <1>3, DeliverType DEF Deliver, TypeOK
<1> QED
  BY <1>1, <1>2, <1>3, SessionType, RangeStepType DEF Next

\* Whatever requests, tasks and forms run at a time, with whatever ranges, the rows,
\* the open transactions and the form stay what the code takes them for.
THEOREM TypeCorrect == Spec => []TypeOK
  BY InitType, NextType, PTL DEF Spec

-----------------------------------------------------------------------------
(* Where numbers come from *)

\* The range a transaction took a number of is locked by it, Active, and holds the
\* number.
Locked ==
    \A s \in Sessions : txn[s].pc = "insert" =>
        /\ rowLock = s
        /\ txn[s].offer.env = txn[s].env
        /\ range[txn[s].offer].status = "Active"
        /\ txn[s].num \in txn[s].offer.from..txn[s].offer.to

\* No range, and no form, stands below its first number.
Floor ==
    /\ \A o \in Offers : range[o].current >= o.from - 1
    /\ form.open => form.current >= form.offer.from - 1

Handout == Locked /\ Floor

LEMMA HandoutInit == Init => Handout
<1> SUFFICES ASSUME Init PROVE Handout
  OBVIOUS
<1>1. \A s \in Sessions : txn[s].pc = "idle"
  BY IdleType DEF Init
<1>2. \A o \in Offers : range[o].current >= o.from - 1
  <2> SUFFICES ASSUME NEW o \in Offers PROVE range[o].current >= o.from - 1
    OBVIOUS
  <2>1. range[o].current = o.from - 1 /\ o.from - 1 \in Nat
    BY OfferType DEF Init
  <2> QED
    BY <2>1
<1>3. form.open = FALSE
  BY IdleType DEF Init
<1> QED
  BY <1>1, <1>2, <1>3 DEF Handout, Locked, Floor

\* A request that opens a transaction, or ends without one, changes no range.
LEMMA BeginEffect ==
    ASSUME TypeOK, NEW s \in Sessions, NEW i \in Invoices,
           BeginSubmit(s, i) \/ BeginRetry(s, i) \/ BeginApi(s, i) \/ BeginCancel(s, i)
    PROVE  /\ UNCHANGED <<range, rowLock, env, form>>
           /\ \A t \in Sessions : \/ txn'[t] = txn[t]
                                  \/ t = s /\ txn[s].pc = "idle"
                                     /\ txn'[t].pc \in {"allocate", "cancel"}
                                     /\ txn'[t].inv = i
                                     /\ txn'[t].taken = {logs[k].num : k \in 1..Len(logs)}
                                     /\ (txn'[t].pc = "allocate" => NeedsNumber(i))
<1>1. UNCHANGED <<range, rowLock, env, form>>
  BY DEF BeginSubmit, BeginRetry, BeginApi, BeginCancel
<1>2. \/ txn' = txn
      \/ /\ txn[s].pc = "idle"
         /\ \E op \in RequestKinds, pc \in {"allocate", "cancel"} :
               /\ Open(s, op, i, pc)
               /\ pc = "allocate" => NeedsNumber(i)
  BY DEF BeginSubmit, BeginRetry, BeginApi, BeginCancel, RequestKinds
<1> QED
  BY <1>1, <1>2, OpenType

LEMMA LockedMove ==
    ASSUME TypeOK, Locked, rowLock' = rowLock, range' = range,
           \A t \in Sessions : txn'[t] = txn[t] \/ txn'[t].pc # "insert"
    PROVE  Locked'
  BY DEF Locked

LEMMA HandoutSession ==
    ASSUME TypeOK, Handout, NEW s \in Sessions, Session(s)
    PROVE  Handout'
<1>0. txn[s] \in Txn /\ txn[s].offer \in Offers /\ Locked /\ Floor
  BY DEF TypeOK, Txn, Handout
<1>1. CASE \E i \in Invoices :
              BeginSubmit(s, i) \/ BeginRetry(s, i) \/ BeginApi(s, i) \/ BeginCancel(s, i)
  <2>1. UNCHANGED <<range, rowLock, form>>
    BY <1>1, BeginEffect
  <2>2. \A t \in Sessions : txn'[t] = txn[t] \/ txn'[t].pc # "insert"
    BY <1>1, BeginEffect
  <2> QED
    BY <1>0, <2>1, <2>2, LockedMove DEF Handout, Floor
<1>2. CASE Allocate(s)
  <2>1. PICK o \in Usable(txn[s].env) :
           /\ txn'[s].offer = o /\ txn'[s].env = txn[s].env
           /\ txn'[s].num = range[o].current + 1
           /\ \A t \in Sessions \ {s} : txn'[t] = txn[t]
    BY <1>2, AllocateType
  <2>2. /\ rowLock = NoSession /\ rowLock' = s
        /\ UNCHANGED <<range, form>>
    BY <1>2 DEF Allocate
  <2>3. /\ o \in Offers /\ o.env = txn[s].env
        /\ range[o].status = "Active" /\ range[o].current < o.to
    BY <2>1 DEF Usable
  <2>4. range[o].current + 1 \in o.from..o.to
    <3>1. range[o] \in SequenceRange
      BY <2>3 DEF TypeOK
    <3>2. range[o].current \in Nat /\ range[o].current >= o.from - 1
      BY <1>0, <2>3, <3>1 DEF SequenceRange, Floor
    <3> QED
      BY <2>3, <3>2, OfferType
  <2>5. \A t \in Sessions \ {s} : txn[t].pc # "insert"
    BY <1>0, <2>2, SessionsAssumption DEF Locked
  <2>6. Locked'
    BY <2>1, <2>2, <2>3, <2>4, <2>5 DEF Locked
  <2> QED
    BY <1>0, <2>2, <2>6 DEF Handout, Floor
<1>3. CASE Commit(s)
  <2>1. /\ txn[s].pc = "insert" /\ form' = form /\ rowLock = s
        /\ txn[s].num \in txn[s].offer.from..txn[s].offer.to
    BY <1>0, <1>3 DEF Commit, Locked
  <2>2. \A t \in Sessions : txn'[t].pc # "insert"
    <3>1. \A t \in Sessions \ {s} : txn[t].pc # "insert"
      BY <1>0, <2>1 DEF Locked
    <3>2. txn'[s].pc = "idle" /\ \A t \in Sessions \ {s} : txn'[t] = txn[t]
      BY <1>3, EndType DEF Commit
    <3> QED
      BY <3>1, <3>2
  <2>3. \A o \in Offers : range'[o].current >= o.from - 1
    <3> SUFFICES ASSUME NEW o \in Offers PROVE range'[o].current >= o.from - 1
      OBVIOUS
    <3>1. CASE o = txn[s].offer
      <4>1. range'[o].current = txn[s].num
        BY <1>3, <3>1, CommitType
      <4> QED
        BY <2>1, <3>1, <4>1, OfferType
    <3>2. CASE o # txn[s].offer
      <4>1. range'[o] = range[o]
        BY <1>3, <3>2, CommitType
      <4> QED
        BY <1>0, <4>1 DEF Floor
    <3> QED
      BY <3>1, <3>2
  <2> QED
    BY <1>0, <2>1, <2>2, <2>3 DEF Handout, Locked, Floor
<1>4. CASE RollBack(s)
  <2>1. txn'[s].pc = "idle" /\ \A t \in Sessions \ {s} : txn'[t] = txn[t]
    BY <1>4, EndType DEF RollBack
  <2>2. range' = range /\ form' = form /\ (rowLock' = rowLock \/ rowLock = s)
    BY <1>4 DEF RollBack, Unlock
  <2>3. Locked'
    BY <1>0, <2>1, <2>2 DEF Locked
  <2> QED
    BY <1>0, <2>2, <2>3 DEF Handout, Floor
<1>5. CASE CommitCancel(s)
  <2>1. txn'[s].pc = "idle" /\ \A t \in Sessions \ {s} : txn'[t] = txn[t]
    BY <1>5, EndType DEF CommitCancel
  <2>2. UNCHANGED <<range, rowLock, form>>
    BY <1>5 DEF CommitCancel
  <2>3. Locked'
    BY <1>0, <2>1, <2>2, LockedMove
  <2> QED
    BY <1>0, <2>2, <2>3 DEF Handout, Floor
<1>6. ASSUME NEW o \in Offers, BeginRegister(s, o)
      PROVE  Handout'
  <2>1. UNCHANGED <<range, rowLock, form>>
    BY <1>6 DEF BeginRegister
  <2>2. \A t \in Sessions : txn'[t] = txn[t] \/ txn'[t].pc # "insert"
    <3>1. [Idle EXCEPT !.pc = "register", !.op = "register", !.offer = o].pc = "register"
      BY IdleType DEF Txn
    <3> QED
      BY <1>6, <3>1 DEF BeginRegister, TypeOK
  <2> QED
    BY <1>0, <2>1, <2>2, LockedMove DEF Handout, Floor
<1>7. CASE CommitRegister(s)
  <2>1. txn'[s].pc = "idle" /\ \A t \in Sessions \ {s} : txn'[t] = txn[t]
    BY <1>7, EndType DEF CommitRegister
  <2>2. UNCHANGED <<rowLock, form>> /\ rowLock = NoSession
    BY <1>7 DEF CommitRegister
  <2>3. \A o \in Offers : range'[o].current = range[o].current
    BY <1>7 DEF CommitRegister, TypeOK, SequenceRange
  <2>4. Locked'
    BY <1>0, <2>1, <2>2, SessionsAssumption DEF Locked
  <2> QED
    BY <1>0, <2>2, <2>3, <2>4 DEF Handout, Floor
<1> QED
  BY <1>1, <1>2, <1>3, <1>4, <1>5, <1>6, <1>7 DEF Session

LEMMA HandoutRange ==
    ASSUME TypeOK, Handout,
           \/ \E o \in Offers : OpenForm(o) \/ Lapse(o)
           \/ SaveForm \/ ExpireRanges
    PROVE  Handout'
<1>0. Locked /\ Floor /\ form \in Form /\ \A o \in Offers : range[o] \in SequenceRange
  BY DEF Handout, TypeOK, Form
<1>1. ASSUME NEW o \in Offers, OpenForm(o)
      PROVE  Handout'
  BY <1>0, <1>1 DEF OpenForm, Handout, Locked, Floor
<1>2. ASSUME NEW o \in Offers, Lapse(o)
      PROVE  Handout'
  <2>1. \A p \in Offers : /\ range'[p].current = range[p].current
                          /\ range'[p].status = range[p].status
    <3>1. range' = [range EXCEPT ![o] = [range[o] EXCEPT !.lapsed = TRUE]]
      BY <1>2 DEF Lapse
    <3>2. /\ [range[o] EXCEPT !.lapsed = TRUE].current = range[o].current
          /\ [range[o] EXCEPT !.lapsed = TRUE].status = range[o].status
      BY <1>0, ColumnType
    <3> QED
      BY <3>1, <3>2 DEF TypeOK
  <2>2. \A s \in Sessions : txn[s].offer \in Offers
    BY DEF TypeOK, Txn
  <2> QED
    BY <1>0, <1>2, <2>1, <2>2 DEF Lapse, Handout, Locked, Floor
<1>3. CASE SaveForm
  <2>1. \A s \in Sessions : txn[s].pc # "insert"
    BY <1>0, <1>3, SessionsAssumption DEF SaveForm, Locked
  <2>2. PICK q, lapsed :
           range' = [range EXCEPT ![form.offer] = [status |-> q, current |-> form.current,
                                                   lapsed |-> lapsed]]
    BY <1>3 DEF SaveForm
  <2>3. \A p \in Offers : range'[p].current >= p.from - 1
    BY <1>0, <1>3, <2>2 DEF SaveForm, TypeOK, Floor, Form
  <2>4. txn' = txn /\ form'.open = FALSE
    BY <1>3, IdleType DEF SaveForm
  <2> QED
    BY <2>1, <2>3, <2>4 DEF Handout, Locked, Floor
<1>4. CASE ExpireRanges
  <2>1. \A s \in Sessions : txn[s].pc # "insert"
    BY <1>0, <1>4, SessionsAssumption DEF ExpireRanges, Locked
  <2>2. ASSUME NEW p \in Offers PROVE range'[p].current = range[p].current
    <3>1. range'[p] = range[p] \/ range'[p] = [range[p] EXCEPT !.status = "Expired"]
      BY <1>4 DEF ExpireRanges
    <3>2. [range[p] EXCEPT !.status = "Expired"].current = range[p].current
      BY <1>0, ColumnType
    <3> QED
      BY <3>1, <3>2
  <2>3. txn' = txn /\ (form' = form \/ form'.open = FALSE)
    BY <1>4, IdleType DEF ExpireRanges
  <2> QED
    BY <1>0, <2>1, <2>2, <2>3 DEF Handout, Locked, Floor
<1> QED
  BY <1>1, <1>2, <1>3, <1>4

LEMMA HandoutNext == TypeOK /\ Handout /\ [Next]_vars => Handout'
<1> SUFFICES ASSUME TypeOK, Handout, [Next]_vars PROVE Handout'
  OBVIOUS
<1>1. CASE UNCHANGED vars
  BY <1>1 DEF vars, Handout, Locked, Floor
<1>2. ASSUME NEW e \in Environments, SwitchEnvironment(e)
      PROVE  Handout'
  BY <1>2 DEF SwitchEnvironment, Handout, Locked, Floor
<1>3. ASSUME NEW k, Deliver(k)
      PROVE  Handout'
  BY <1>3 DEF Deliver, Handout, Locked, Floor
<1> QED
  BY <1>1, <1>2, <1>3, HandoutSession, HandoutRange DEF Next

\* The steps that touch the logs.
LEMMA QuietLogs ==
    ASSUME [Next]_vars
    PROVE  \/ logs' = logs
           \/ \E k \in 1..Len(logs) : Deliver(k)
           \/ \E i \in Invoices : Requeue(i)
           \/ \E s \in Sessions : Commit(s)
<1>1. ASSUME NEW s \in Sessions, Session(s)
      PROVE  logs' = logs \/ Commit(s) \/ \E i \in Invoices : Requeue(i)
  <2>1. ASSUME NEW i \in Invoices,
               BeginSubmit(s, i) \/ BeginRetry(s, i) \/ BeginApi(s, i) \/ BeginCancel(s, i)
        PROVE  logs' = logs \/ Requeue(i)
    BY <2>1 DEF BeginSubmit, BeginRetry, BeginApi, BeginCancel
  <2>2. ASSUME Allocate(s) \/ RollBack(s) \/ CommitCancel(s) \/ CommitRegister(s)
                  \/ \E o \in Offers : BeginRegister(s, o)
        PROVE  logs' = logs
    BY <2>2 DEF Allocate, RollBack, CommitCancel, CommitRegister, BeginRegister
  <2> QED
    BY <1>1, <2>1, <2>2 DEF Session
<1>2. ASSUME NEW o \in Offers, OpenForm(o) \/ Lapse(o)
      PROVE  logs' = logs
  BY <1>2 DEF OpenForm, Lapse
<1>3. SaveForm \/ ExpireRanges \/ (\E e \in Environments : SwitchEnvironment(e))
         \/ UNCHANGED vars => logs' = logs
  BY DEF SaveForm, ExpireRanges, SwitchEnvironment, vars
<1> QED
  BY <1>1, <1>2, <1>3 DEF Next

LEMMA OnlyCommitNumbers ==
    ASSUME TypeOK, [Next]_vars
    PROVE  \/ \E s \in Sessions : Commit(s)
           \/ /\ logs' \in Seq(Log)
              /\ Len(logs') = Len(logs)
              /\ \A j \in 1..Len(logs) : /\ logs'[j].inv = logs[j].inv
                                         /\ logs'[j].num = logs[j].num
                                         /\ logs'[j].environment = logs[j].environment
<1>0. logs \in Seq(Log)
  BY DEF TypeOK
<1>1. CASE logs' = logs
  BY <1>0, <1>1
<1>2. ASSUME NEW k, Deliver(k)
      PROVE  /\ logs' \in Seq(Log)
             /\ Len(logs') = Len(logs)
             /\ \A j \in 1..Len(logs) : /\ logs'[j].inv = logs[j].inv
                                        /\ logs'[j].num = logs[j].num
                                        /\ logs'[j].environment = logs[j].environment
  BY <1>2, DeliverType
<1>3. ASSUME NEW i \in Invoices, Requeue(i)
      PROVE  /\ logs' \in Seq(Log)
             /\ Len(logs') = Len(logs)
             /\ \A j \in 1..Len(logs) : /\ logs'[j].inv = logs[j].inv
                                        /\ logs'[j].num = logs[j].num
                                        /\ logs'[j].environment = logs[j].environment
  BY <1>3, RequeueType
<1> QED
  BY <1>1, <1>2, <1>3, QuietLogs

\* A number is given by a range that is Active when the document that bears it is
\* committed, of the environment the request found in the settings, and within its
\* bounds, whoever expires, reactivates, registers or saves ranges meanwhile.
THEOREM NumbersAreAuthorized == Spec => NumbersFromActiveRange
<1>1. TypeOK /\ Handout /\ [Next]_vars => Authorized
  <2> SUFFICES ASSUME TypeOK, Handout, [Next]_vars, Len(logs') > Len(logs)
               PROVE  \E o \in Offers : /\ o.env = logs'[Len(logs')].environment
                                        /\ range[o].status = "Active"
                                        /\ logs'[Len(logs')].num \in o.from..o.to
    BY DEF Authorized
  <2>0. Len(logs) \in Nat
    BY DEF TypeOK
  <2>1. PICK s \in Sessions : Commit(s)
    BY <2>0, OnlyCommitNumbers
  <2>2. logs'[Len(logs')].num = txn[s].num /\ logs'[Len(logs')].environment = txn[s].env
    <3>1. logs'[Len(logs')] = NewLog(txn[s])
      BY <2>1, CommitType
    <3> QED
      BY <3>1 DEF NewLog
  <2>3. /\ txn[s].offer \in Offers
        /\ txn[s].offer.env = txn[s].env
        /\ range[txn[s].offer].status = "Active"
        /\ txn[s].num \in txn[s].offer.from..txn[s].offer.to
    BY <2>1 DEF Handout, Locked, Commit, TypeOK, Txn
  <2> QED
    BY <2>2, <2>3
<1>2. TypeOK /\ Handout /\ [Next]_vars => [Authorized]_vars
  BY <1>1
<1>3. Spec => [](TypeOK /\ Handout)
  BY InitType, NextType, HandoutInit, HandoutNext, PTL DEF Spec
<1> QED
  BY <1>2, <1>3, PTL DEF Spec, NumbersFromActiveRange

-----------------------------------------------------------------------------
(* Numbers are unique, and none is lost, while ranges are apart and nobody     *)
(* saves a form                                                              *)

\* No two ranges DGII authorized for an environment share a number.
RangesApart ==
    \A o, p \in Offers : o # p /\ o.env = p.env => o.to < p.from \/ p.to < o.from

\* Every number that was given lies between the first of a range and its current.
Borne ==
    \A k \in 1..Len(logs) :
        \E o \in Offers : /\ o.env = logs[k].environment
                          /\ logs[k].num \in o.from..range[o].current

\* Ranges stay within their bounds, and the next number is the one handed out.
Exact ==
    /\ form.open = FALSE
    /\ \A o \in Offers : range[o].current <= o.to
    /\ \A s \in Sessions : txn[s].pc = "insert" => txn[s].num = range[txn[s].offer].current + 1

Ledger == Exact /\ Borne /\ NoNumberLost /\ NumbersUnique

LEMMA LedgerInit == Init => Ledger
<1> SUFFICES ASSUME Init PROVE Ledger
  OBVIOUS
<1>1. \A s \in Sessions : txn[s].pc = "idle"
  BY IdleType DEF Init
<1>2. \A o \in Offers : range[o].current <= o.to /\ o.from..range[o].current = {}
  <2> SUFFICES ASSUME NEW o \in Offers
               PROVE  range[o].current <= o.to /\ o.from..range[o].current = {}
    OBVIOUS
  <2>1. range[o].current = o.from - 1
    BY DEF Init
  <2> QED
    BY <2>1, OfferType
<1>3. form.open = FALSE /\ Len(logs) = 0
  BY IdleType DEF Init
<1>4. NoNumberLost
  BY <1>2 DEF NoNumberLost
<1> QED
  BY <1>1, <1>2, <1>3, <1>4 DEF Ledger, Exact, Borne, NumbersUnique

\* What a step does that neither takes a number nor reads one.
LEMMA OtherSteps ==
    ASSUME TypeOK, [Next]_vars, "edit" \notin Requests, form.open = FALSE,
           \A s \in Sessions : ~Commit(s)
    PROVE  /\ form'.open = FALSE
           /\ \A o \in Offers : range'[o].current = range[o].current
           /\ \A s \in Sessions : \/ txn'[s] = txn[s]
                                  \/ txn'[s].pc # "insert"
                                  \/ /\ txn'[s].offer \in Offers
                                     /\ txn'[s].num = range[txn'[s].offer].current + 1
                                     /\ range[txn'[s].offer].current < txn'[s].offer.to
<1>0. \A o \in Offers : range[o] \in SequenceRange
  BY DEF TypeOK
<1>1. ASSUME NEW s \in Sessions, Session(s)
      PROVE  /\ form' = form
             /\ \A o \in Offers : range'[o].current = range[o].current
             /\ \A t \in Sessions : \/ txn'[t] = txn[t]
                                    \/ txn'[t].pc # "insert"
                                    \/ /\ txn'[t].offer \in Offers
                                       /\ txn'[t].num = range[txn'[t].offer].current + 1
                                       /\ range[txn'[t].offer].current < txn'[t].offer.to
  <2>1. CASE \E i \in Invoices :
                BeginSubmit(s, i) \/ BeginRetry(s, i) \/ BeginApi(s, i) \/ BeginCancel(s, i)
    <3>1. PICK i \in Invoices :
             BeginSubmit(s, i) \/ BeginRetry(s, i) \/ BeginApi(s, i) \/ BeginCancel(s, i)
      BY <2>1
    <3>2. UNCHANGED <<range, form>>
      BY <3>1, BeginEffect
    <3>3. \A t \in Sessions : txn'[t] = txn[t] \/ txn'[t].pc # "insert"
      BY <3>1, BeginEffect
    <3> QED
      BY <3>2, <3>3
  <2>2. CASE Allocate(s)
    <3>1. PICK o \in Usable(txn[s].env) :
             /\ txn'[s].offer = o
             /\ txn'[s].num = range[o].current + 1
             /\ \A t \in Sessions \ {s} : txn'[t] = txn[t]
      BY <2>2, AllocateType
    <3>2. o \in Offers /\ range[o].current < o.to
      BY <3>1 DEF Usable
    <3>3. UNCHANGED <<range, form>>
      BY <2>2 DEF Allocate
    <3> QED
      BY <3>1, <3>2, <3>3
  <2>3. CASE RollBack(s) \/ CommitCancel(s)
    <3>1. UNCHANGED <<range, form>> /\ End(s)
      BY <2>3 DEF RollBack, CommitCancel
    <3> QED
      BY <3>1, EndType
  <2>4. ASSUME NEW o \in Offers, BeginRegister(s, o)
        PROVE  /\ UNCHANGED <<range, form>>
               /\ \A t \in Sessions : txn'[t] = txn[t] \/ txn'[t].pc # "insert"
    <3>1. [Idle EXCEPT !.pc = "register", !.op = "register", !.offer = o].pc = "register"
      BY IdleType DEF Txn
    <3> QED
      BY <2>4, <3>1 DEF BeginRegister, TypeOK
  <2>5. CASE CommitRegister(s)
    <3>1. txn[s].offer \in Offers
      BY DEF TypeOK, Txn
    <3>2. \A o \in Offers : range'[o].current = range[o].current
      BY <1>0, <2>5, <3>1 DEF CommitRegister, TypeOK, SequenceRange
    <3>3. form' = form /\ End(s)
      BY <2>5 DEF CommitRegister
    <3> QED
      BY <3>2, <3>3, EndType
  <2> QED
    BY <1>1, <2>1, <2>2, <2>3, <2>4, <2>5 DEF Session
<1>2. ASSUME NEW o \in Offers, Lapse(o)
      PROVE  \A p \in Offers : range'[p].current = range[p].current
  <2>1. range' = [range EXCEPT ![o] = [range[o] EXCEPT !.lapsed = TRUE]]
    BY <1>2 DEF Lapse
  <2>2. [range[o] EXCEPT !.lapsed = TRUE].current = range[o].current
    BY <1>0, ColumnType
  <2> QED
    BY <2>1, <2>2 DEF TypeOK
<1>3. ASSUME ExpireRanges, NEW p \in Offers
      PROVE  range'[p].current = range[p].current
  <2>1. range'[p] = range[p] \/ range'[p] = [range[p] EXCEPT !.status = "Expired"]
    BY <1>3 DEF ExpireRanges
  <2>2. [range[p] EXCEPT !.status = "Expired"].current = range[p].current
    BY <1>0, ColumnType
  <2> QED
    BY <2>1, <2>2
<1>4. ExpireRanges => txn' = txn /\ form' = form
  BY DEF ExpireRanges
<1>5. ~SaveForm /\ \A o \in Offers : ~OpenForm(o)
  BY DEF SaveForm, OpenForm
<1>6. \A o \in Offers : Lapse(o) => txn' = txn /\ form' = form
  BY DEF Lapse
<1>7. (\E e \in Environments : SwitchEnvironment(e)) \/ (\E k \in 1..Len(logs) : Deliver(k))
         \/ UNCHANGED vars => UNCHANGED <<range, txn, form>>
  BY DEF SwitchEnvironment, Deliver, vars
<1> QED
  BY <1>1, <1>2, <1>3, <1>4, <1>5, <1>6, <1>7 DEF Next

\* The number about to be inserted is borne by no document.
LEMMA FreshNumber ==
    ASSUME TypeOK, Handout, Ledger, RangesApart
    PROVE  HandoutIsFresh
<1> SUFFICES ASSUME NEW s \in Sessions, txn[s].pc = "insert", NEW k \in 1..Len(logs),
                    logs[k].num = txn[s].num, logs[k].environment = txn[s].env
             PROVE  FALSE
  BY DEF HandoutIsFresh
<1> DEFINE p == txn[s].offer
<1>1. PICK o \in Offers : /\ o.env = logs[k].environment
                          /\ logs[k].num \in o.from..range[o].current
  BY DEF Ledger, Borne
<1>2. /\ p \in Offers /\ p.env = txn[s].env
      /\ txn[s].num \in p.from..p.to
      /\ txn[s].num = range[p].current + 1
  BY DEF Handout, Locked, Ledger, Exact, TypeOK, Txn
<1>3. range[o].current \in Nat /\ range[p].current \in Nat /\ range[o].current <= o.to
  BY <1>1, <1>2 DEF TypeOK, SequenceRange, Ledger, Exact
<1>4. CASE o = p
  BY <1>1, <1>2, <1>3, <1>4, OfferType
<1>5. CASE o # p
  <2>1. o.to < p.from \/ p.to < o.from
    BY <1>1, <1>2, <1>5 DEF RangesApart
  <2> DEFINE n == txn[s].num
  <2>2. n \in o.from..range[o].current /\ n \in p.from..p.to
    BY <1>1, <1>2
  <2>3. /\ o.from \in Nat /\ o.to \in Nat /\ p.from \in Nat /\ p.to \in Nat
        /\ range[o].current \in Nat /\ range[o].current <= o.to
    BY <1>1, <1>2, <1>3, OfferType
  <2> HIDE DEF n, p
  <2> QED
    BY <2>1, <2>2, <2>3
<1> QED
  BY <1>4, <1>5

LEMMA LedgerCommit ==
    ASSUME TypeOK, Handout, Ledger, RangesApart, NEW s \in Sessions, Commit(s)
    PROVE  Ledger'
<1> DEFINE p == txn[s].offer
           n == txn[s].num
<1>0. /\ txn[s].pc = "insert" /\ p \in Offers /\ p.env = txn[s].env
      /\ n \in p.from..p.to /\ n = range[p].current + 1 /\ n \in Nat
      /\ Len(logs) \in Nat /\ form' = form /\ rowLock = s
  BY DEF Commit, Handout, Locked, Ledger, Exact, TypeOK, Txn
<1>1. /\ Len(logs') = Len(logs) + 1
      /\ \A k \in 1..Len(logs) : logs'[k] = logs[k]
      /\ logs'[Len(logs')].num = n /\ logs'[Len(logs')].environment = p.env
  <2>1. logs'[Len(logs')] = NewLog(txn[s])
    BY CommitType
  <2>2. logs'[Len(logs')].num = n /\ logs'[Len(logs')].environment = p.env
    BY <1>0, <2>1 DEF NewLog
  <2> QED
    BY <2>2, CommitType
<1>2. range'[p].current = n /\ \A o \in Offers \ {p} : range'[o] = range[o]
  BY CommitType
<1>3. \A o \in Offers : range[o].current \in Nat /\ range'[o].current \in Nat
  BY <1>0, <1>2 DEF TypeOK, SequenceRange
<1>4. \A k \in 1..Len(logs) : logs[k].num # n \/ logs[k].environment # p.env
  BY <1>0, FreshNumber DEF HandoutIsFresh
<1> HIDE DEF p, n
<1>5. \A o \in Offers : o.from..range[o].current \subseteq o.from..range'[o].current
  <2> SUFFICES ASSUME NEW o \in Offers
               PROVE  o.from..range[o].current \subseteq o.from..range'[o].current
    OBVIOUS
  <2>1. range[o].current <= range'[o].current
    BY <1>0, <1>2, <1>3
  <2> QED
    BY <1>3, <2>1, OfferType
<1>6. Exact'
  <2>1. \A t \in Sessions : txn'[t].pc # "insert"
    <3>1. \A t \in Sessions \ {s} : txn[t].pc # "insert"
      BY <1>0 DEF Handout, Locked
    <3>2. txn'[s].pc = "idle" /\ \A t \in Sessions \ {s} : txn'[t] = txn[t]
      BY EndType DEF Commit
    <3> QED
      BY <3>1, <3>2
  <2>2. \A o \in Offers : range'[o].current <= o.to
    <3>1. n <= p.to
      BY <1>0, OfferType
    <3> QED
      BY <1>2, <3>1 DEF Ledger, Exact
  <2> QED
    BY <1>0, <2>1, <2>2 DEF Ledger, Exact
<1>7. Borne'
  <2> SUFFICES ASSUME NEW k \in 1..Len(logs')
               PROVE  \E o \in Offers : /\ o.env = logs'[k].environment
                                        /\ logs'[k].num \in o.from..range'[o].current
    BY DEF Borne
  <2>1. CASE k \in 1..Len(logs)
    <3>1. PICK o \in Offers : /\ o.env = logs[k].environment
                              /\ logs[k].num \in o.from..range[o].current
      BY <2>1 DEF Ledger, Borne
    <3> QED
      BY <1>1, <1>5, <2>1, <3>1
  <2>2. CASE k = Len(logs')
    <3>1. n \in p.from..range'[p].current
      BY <1>0, <1>2, OfferType
    <3> QED
      BY <1>0, <1>1, <2>2, <3>1
  <2> QED
    BY <1>0, <1>1, <2>1, <2>2
<1>8. NoNumberLost'
  <2> SUFFICES ASSUME NEW o \in Offers, NEW m \in o.from..range'[o].current
               PROVE  \E k \in 1..Len(logs') : logs'[k].num = m /\ logs'[k].environment = o.env
    BY DEF NoNumberLost
  <2>1. CASE m \in o.from..range[o].current
    <3>1. PICK k \in 1..Len(logs) : logs[k].num = m /\ logs[k].environment = o.env
      BY <2>1 DEF Ledger, NoNumberLost
    <3> QED
      BY <1>0, <1>1, <3>1
  <2>2. CASE m \notin o.from..range[o].current
    <3>1. o = p /\ m = n
      BY <1>0, <1>2, <1>3, <2>2, OfferType
    <3> QED
      BY <1>0, <1>1, <3>1
  <2> QED
    BY <2>1, <2>2
<1>9. NumbersUnique'
  <2> SUFFICES ASSUME NEW j \in 1..Len(logs'), NEW k \in 1..Len(logs'),
                      logs'[j].num = logs'[k].num, logs'[j].environment = logs'[k].environment
               PROVE  j = k
    BY DEF NumbersUnique
  <2>1. CASE j \in 1..Len(logs) /\ k \in 1..Len(logs)
    BY <1>1, <2>1 DEF Ledger, NumbersUnique
  <2>2. CASE j = Len(logs') /\ k \in 1..Len(logs)
    BY <1>1, <1>4, <2>2
  <2>3. CASE j \in 1..Len(logs) /\ k = Len(logs')
    BY <1>1, <1>4, <2>3
  <2> QED
    BY <1>0, <1>1, <2>1, <2>2, <2>3
<1> QED
  BY <1>6, <1>7, <1>8, <1>9 DEF Ledger

LEMMA LedgerNext ==
    ASSUME RangesApart, "edit" \notin Requests
    PROVE  TypeOK /\ Handout /\ Ledger /\ [Next]_vars => Ledger'
<1> SUFFICES ASSUME TypeOK, Handout, Ledger, [Next]_vars PROVE Ledger'
  OBVIOUS
<1>1. CASE \E s \in Sessions : Commit(s)
  BY <1>1, LedgerCommit
<1>2. CASE \A s \in Sessions : ~Commit(s)
  <2>1. /\ Len(logs') = Len(logs)
        /\ \A j \in 1..Len(logs) : /\ logs'[j].num = logs[j].num
                                   /\ logs'[j].environment = logs[j].environment
    BY <1>2, OnlyCommitNumbers
  <2>2. /\ form'.open = FALSE
        /\ \A o \in Offers : range'[o].current = range[o].current
        /\ \A s \in Sessions : \/ txn'[s] = txn[s]
                               \/ txn'[s].pc # "insert"
                               \/ /\ txn'[s].offer \in Offers
                                  /\ txn'[s].num = range[txn'[s].offer].current + 1
    BY <1>2, OtherSteps DEF Ledger, Exact
  <2>3. \A s \in Sessions : txn[s].offer \in Offers
    BY DEF TypeOK, Txn
  <2>4. Exact'
    BY <2>2, <2>3 DEF Ledger, Exact
  <2>5. Borne'
    BY <2>1, <2>2 DEF Ledger, Borne
  <2>6. NoNumberLost'
    BY <2>1, <2>2 DEF Ledger, NoNumberLost
  <2>7. NumbersUnique'
    BY <2>1 DEF Ledger, NumbersUnique
  <2> QED
    BY <2>4, <2>5, <2>6, <2>7 DEF Ledger
<1> QED
  BY <1>1, <1>2

\* While nobody saves an ECF Sequence Range form, and ranges of an environment share
\* no number, no two documents of it bear the same eNCF, for any number of invoices,
\* sessions and ranges, every interleaving of their transactions, and every rollback.
THEOREM UniqueNumbers ==
    ASSUME RangesApart, "edit" \notin Requests
    PROVE  Spec => []NumbersUnique
<1>1. TypeOK /\ Handout /\ Ledger /\ [Next]_vars => (TypeOK /\ Handout /\ Ledger)'
  BY NextType, HandoutNext, LedgerNext, RangesApart, "edit" \notin Requests
<1>2. Init => TypeOK /\ Handout /\ Ledger
  BY InitType, HandoutInit, LedgerInit
<1>3. Ledger => NumbersUnique
  BY DEF Ledger
<1> QED
  BY <1>1, <1>2, <1>3, PTL DEF Spec

\* Under the same conditions no number of a range is skipped: a transaction that fails
\* after get_next_encf gives its number back.
THEOREM NumbersKept ==
    ASSUME RangesApart, "edit" \notin Requests
    PROVE  Spec => []NoNumberLost
<1>1. TypeOK /\ Handout /\ Ledger /\ [Next]_vars => (TypeOK /\ Handout /\ Ledger)'
  BY NextType, HandoutNext, LedgerNext, RangesApart, "edit" \notin Requests
<1>2. Init => TypeOK /\ Handout /\ Ledger
  BY InitType, HandoutInit, LedgerInit
<1>3. Ledger => NoNumberLost
  BY DEF Ledger
<1> QED
  BY <1>1, <1>2, <1>3, PTL DEF Spec

\* Under the same conditions _validate_duplicate has nothing to refuse: get_next_encf
\* hands out a number no committed document bears.
THEOREM FreshHandouts ==
    ASSUME RangesApart, "edit" \notin Requests
    PROVE  Spec => []HandoutIsFresh
<1>1. TypeOK /\ Handout /\ Ledger /\ [Next]_vars => (TypeOK /\ Handout /\ Ledger)'
  BY NextType, HandoutNext, LedgerNext, RangesApart, "edit" \notin Requests
<1>2. Init => TypeOK /\ Handout /\ Ledger
  BY InitType, HandoutInit, LedgerInit
<1>3. TypeOK /\ Handout /\ Ledger => HandoutIsFresh
  BY FreshNumber, RangesApart
<1> QED
  BY <1>1, <1>2, <1>3, PTL DEF Spec

-----------------------------------------------------------------------------
(* The refinement: every step fills the next page of a book, settles a page,   *)
(* or leaves the books as they were                                            *)

Page(k) == [inv |-> logs[k].inv, verdict |-> Verdict(logs[k].status)]

\* Every number up to the current one of its range has its bearer.
Bearing ==
    \A o \in Offers : \A m \in o.from..range[o].current :
        /\ Bearer(o, m) \in 1..Len(logs)
        /\ logs[Bearer(o, m)].num = m /\ logs[Bearer(o, m)].environment = o.env

Paged ==
    \A o \in Offers :
        /\ Book(o) \in Seq(Numbering!Document)
        /\ Len(Book(o)) = range[o].current + 1 - o.from
        /\ \A n \in 1..Len(Book(o)) : Book(o)[n] = Page(Bearer(o, o.from + n - 1))

Books == [o \in Offers |-> Book(o)]

LEMMA ApartRanges ==
    ASSUME NEW f \in Nat, NEW c \in Nat, NEW t \in Nat, c <= t,
           NEW g \in Nat, NEW d \in Nat, NEW u \in Nat, d <= u,
           t < g \/ u < f,
           NEW a \in f..c, NEW b \in g..d
    PROVE  a # b
  OBVIOUS

LEMMA Same ==
    ASSUME NEW S, NEW s \in Seq(S), NEW t \in Seq(S), Len(t) = Len(s),
           \A n \in 1..Len(s) : t[n] = s[n]
    PROVE  t = s
  OBVIOUS

LEMMA SamePage ==
    ASSUME NEW S, NEW s \in Seq(S), NEW t \in Seq(S), Len(t) = Len(s),
           NEW m \in 1..Len(s), NEW y \in S, t[m] = y,
           \A n \in 1..Len(s) : n # m => t[n] = s[n]
    PROVE  t = [s EXCEPT ![m] = y]
<1>1. [s EXCEPT ![m] = y] \in Seq(S) /\ Len([s EXCEPT ![m] = y]) = Len(s)
  BY ExceptSeq
<1> QED
  BY <1>1, Same

LEMMA Bearers == TypeOK /\ Handout /\ Ledger => Bearing
  BY DEF Ledger, NoNumberLost, Bearing, Bearer

LEMMA Pages == TypeOK /\ Handout /\ Ledger => Paged
<1> SUFFICES ASSUME TypeOK, Handout, Ledger, NEW o \in Offers
             PROVE  /\ Book(o) \in Seq(Numbering!Document)
                    /\ Len(Book(o)) = range[o].current + 1 - o.from
                    /\ \A n \in 1..Len(Book(o)) : Book(o)[n] = Page(Bearer(o, o.from + n - 1))
  BY DEF Paged
<1>1. PICK c \in Nat : c = range[o].current + 1 - o.from
  <2>1. range[o].current \in Nat /\ range[o].current >= o.from - 1
    BY DEF TypeOK, SequenceRange, Handout, Floor
  <2> QED
    BY <2>1, OfferType
<1>2. ASSUME NEW n \in 1..c PROVE Page(Bearer(o, o.from + n - 1)) \in Numbering!Document
  <2>1. o.from + n - 1 \in o.from..range[o].current
    <3>1. range[o].current \in Nat
      BY DEF TypeOK, SequenceRange
    <3> QED
      BY <1>1, <3>1, OfferType
  <2>2. logs[Bearer(o, o.from + n - 1)] \in Log
    BY <2>1, Bearers DEF Bearing, TypeOK
  <2> QED
    BY <2>2 DEF Page, Log, Verdict, Numbering!Document
<1>3. Book(o) = [n \in 1..c |-> Page(Bearer(o, o.from + n - 1))]
  BY <1>1 DEF Book, Page
<1> QED
  BY <1>1, <1>2, <1>3

LEMMA Later ==
    /\ TypeOK' /\ Handout' /\ Ledger' => Bearing'
    /\ TypeOK' /\ Handout' /\ Ledger' => Paged'
  BY Bearers, Pages, PTL

\* A number keeps its bearer.
LEMMA BearerKept ==
    ASSUME TypeOK, TypeOK', Ledger', Bearing, Bearing',
           Len(logs') >= Len(logs),
           \A k \in 1..Len(logs) : /\ logs'[k].num = logs[k].num
                                   /\ logs'[k].environment = logs[k].environment,
           NEW o \in Offers, range'[o].current >= range[o].current,
           NEW m \in o.from..range[o].current
    PROVE  Bearer(o, m)' = Bearer(o, m)
<1>1. /\ o.from \in Nat /\ range[o].current \in Nat /\ range'[o].current \in Nat
      /\ Len(logs) \in Nat /\ Len(logs') \in Nat
  BY OfferType DEF TypeOK, SequenceRange
<1>2. m \in o.from..range'[o].current
  BY <1>1
<1> DEFINE j == Bearer(o, m)
           k == Bearer(o, m)'
<1>3. j \in 1..Len(logs) /\ logs[j].num = m /\ logs[j].environment = o.env
  BY DEF Bearing
<1>4. k \in 1..Len(logs') /\ logs'[k].num = m /\ logs'[k].environment = o.env
  BY <1>2 DEF Bearing
<1> HIDE DEF j, k
<1>5. j \in 1..Len(logs') /\ logs'[j].num = logs'[k].num
      /\ logs'[j].environment = logs'[k].environment
  BY <1>1, <1>3, <1>4
<1>6. j = k
  BY <1>4, <1>5 DEF Ledger, NumbersUnique
<1> QED
  BY <1>6 DEF j, k

\* Handing out a number fills the next page of its book.
LEMMA CommitIssues ==
    ASSUME TypeOK, TypeOK', Handout, Ledger, Ledger', Bearing, Bearing', Paged, Paged',
           NEW s \in Sessions, Commit(s)
    PROVE  Numbering!Issue(txn[s].offer, txn[s].inv)
<1>0. PICK p \in Offers, i \in Invoices, num \in Nat, c \in Nat :
         /\ p = txn[s].offer /\ i = txn[s].inv /\ num = txn[s].num
         /\ c = range[p].current + 1 - p.from
  <2>1. txn[s].offer \in Offers /\ txn[s].inv \in Invoices /\ txn[s].num \in Nat
    BY DEF TypeOK, Txn
  <2>2. range[txn[s].offer].current + 1 - txn[s].offer.from \in Nat
    <3>1. /\ range[txn[s].offer].current \in Nat
          /\ range[txn[s].offer].current >= txn[s].offer.from - 1
      BY <2>1 DEF TypeOK, SequenceRange, Handout, Floor
    <3> QED
      BY <2>1, <3>1, OfferType
  <2> QED
    BY <2>1, <2>2
<1> DEFINE x == [inv |-> i, verdict |-> "owed"]
<1>1. /\ p \in Offers /\ i \in Invoices
      /\ range'[p].current = range[p].current + 1
      /\ range'[p].current = num
      /\ num \in p.from..p.to
      /\ \A o \in Offers \ {p} : range'[o] = range[o]
      /\ p.env = txn[s].env /\ NewLog(txn[s]).num = num /\ NewLog(txn[s]).inv = i
  <2>1. range'[p].current = num /\ \A o \in Offers \ {p} : range'[o] = range[o]
    BY <1>0, CommitType
  <2>2. num = range[p].current + 1 /\ num \in p.from..p.to /\ p.env = txn[s].env
    BY <1>0 DEF Commit, Handout, Locked, Ledger, Exact
  <2>3. NewLog(txn[s]).num = num /\ NewLog(txn[s]).inv = i
    BY <1>0 DEF NewLog
  <2> QED
    BY <2>1, <2>2, <2>3
<1>2. /\ Len(logs) \in Nat /\ Len(logs') = Len(logs) + 1
      /\ \A k \in 1..Len(logs) : logs'[k] = logs[k]
      /\ logs'[Len(logs')] = NewLog(txn[s])
  BY CommitType DEF TypeOK
<1>3. /\ range[p].current \in Nat /\ p.from \in Nat /\ p.to \in Nat
      /\ range[p].current >= p.from - 1
      /\ \A o \in Offers : range[o].current \in Nat /\ range'[o].current >= range[o].current
  <2>1. \A o \in Offers : range[o].current \in Nat
    BY DEF TypeOK, SequenceRange
  <2> QED
    BY <1>1, <2>1, OfferType DEF Handout, Floor
<1>4. \A o \in Offers : \A m \in o.from..range[o].current : Bearer(o, m)' = Bearer(o, m)
  BY <1>2, <1>3, BearerKept
<1>5. \A o \in Offers : \A n \in 1..Len(Book(o)) : Book(o)'[n] = Book(o)[n]
  <2> SUFFICES ASSUME NEW o \in Offers, NEW n \in 1..Len(Book(o))
               PROVE  Book(o)'[n] = Book(o)[n]
    OBVIOUS
  <2> DEFINE m == o.from + n - 1
  <2>1. /\ Len(Book(o)) = range[o].current + 1 - o.from
        /\ Len(Book(o)') = range'[o].current + 1 - o.from
        /\ o.from \in Nat /\ range[o].current \in Nat /\ range'[o].current \in Nat
        /\ range'[o].current >= range[o].current
    <3>1. o.from \in Nat /\ range'[o].current \in Nat
      BY OfferType DEF TypeOK, SequenceRange
    <3> QED
      BY <1>3, <3>1 DEF Paged
  <2>2. m \in o.from..range[o].current /\ n \in 1..Len(Book(o)')
    <3> DEFINE f == o.from
               a == range[o].current
               b == range'[o].current
    <3>1. n \in 1..(a + 1 - f)
      BY <2>1
    <3>2. f \in Nat /\ a \in Nat /\ b \in Nat /\ b >= a /\ 1..Len(Book(o)') = 1..(b + 1 - f)
      BY <2>1
    <3> HIDE DEF f, a, b
    <3>3. m \in f..a /\ n \in 1..(b + 1 - f)
      <4>1. f + n - 1 \in f..a /\ n \in 1..(b + 1 - f)
        BY <3>1, <3>2
      <4> QED
        BY <4>1 DEF f
    <3> QED
      BY <3>2, <3>3 DEF f, a
  <2>3. Bearer(o, m) \in 1..Len(logs) /\ Bearer(o, m)' = Bearer(o, m)
    BY <1>4, <2>2 DEF Bearing
  <2>4. Book(o)[n] = Page(Bearer(o, m)) /\ Book(o)'[n] = Page(Bearer(o, m))'
    BY <2>2 DEF Paged
  <2>5. Page(Bearer(o, m))' = Page(Bearer(o, m))
    BY <1>2, <2>3 DEF Page
  <2> QED
    BY <2>4, <2>5
<1>6. Book(p)'[c + 1] = x
  <2>1. c + 1 \in 1..Len(Book(p)') /\ p.from + (c + 1) - 1 = num
    <3>1. Len(Book(p)') = num + 1 - p.from
      BY <1>1 DEF Paged
    <3>2. c + 1 = num + 1 - p.from
      BY <1>0, <1>1, <1>3
    <3>3. c + 1 \in 1..(c + 1) /\ p.from + (c + 1) - 1 = p.from + c
      BY <1>3
    <3>4. p.from + c = num
      BY <1>3, <3>2
    <3> QED
      BY <3>1, <3>2, <3>3, <3>4
  <2>2. Book(p)'[c + 1] = Page(Bearer(p, num))'
    <3>1. Book(p)'[c + 1] = Page(Bearer(p, p.from + (c + 1) - 1))'
      BY <1>1, <2>1 DEF Paged
    <3> QED
      BY <2>1, <3>1
  <2>3. Bearer(p, num)' = Len(logs')
    <3> DEFINE k == Bearer(p, num)'
    <3>1. k \in 1..Len(logs') /\ logs'[k].num = num /\ logs'[k].environment = p.env
      <4>1. num \in p.from..range'[p].current
        BY <1>1, <1>3
      <4> QED
        BY <1>1, <4>1 DEF Bearing
    <3>2. logs'[Len(logs')].num = num /\ logs'[Len(logs')].environment = p.env
      BY <1>1, <1>2 DEF NewLog
    <3> HIDE DEF k
    <3>3. k = Len(logs')
      BY <1>2, <3>1, <3>2 DEF Ledger, NumbersUnique
    <3> QED
      BY <3>3 DEF k
  <2>4. logs'[Len(logs')].inv = i /\ logs'[Len(logs')].status = "Pending"
    BY <1>1, <1>2 DEF NewLog
  <2> QED
    BY <2>2, <2>3, <2>4 DEF Page, Verdict
<1>7. Book(p)' = Append(Book(p), x)
  <2>1. /\ Book(p) \in Seq(Numbering!Document) /\ Book(p)' \in Seq(Numbering!Document)
        /\ x \in Numbering!Document /\ Len(Book(p)) = c /\ Len(Book(p)') = c + 1
        /\ c \in Nat
    <3>1. x \in Numbering!Document
      BY <1>1 DEF Numbering!Document
    <3>2. Len(Book(p)') = (range[p].current + 1) + 1 - p.from
      BY <1>1 DEF Paged
    <3>3. c \in Nat /\ (range[p].current + 1) + 1 - p.from = c + 1
      BY <1>0, <1>3
    <3> QED
      BY <1>0, <3>1, <3>2, <3>3 DEF Paged
  <2>2. \A n \in 1..c : Book(p)'[n] = Book(p)[n]
    <3>1. \A n \in 1..Len(Book(p)) : Book(p)'[n] = Book(p)[n]
      BY <1>1, <1>5
    <3> QED
      BY <2>1, <3>1
  <2> HIDE DEF x
  <2> QED
    BY <1>6, <2>1, <2>2
<1>8. ASSUME NEW o \in Offers \ {p} PROVE Book(o)' = Book(o)
  <2>1. /\ Book(o) \in Seq(Numbering!Document) /\ Book(o)' \in Seq(Numbering!Document)
        /\ Len(Book(o)) = Len(Book(o)')
    BY <1>1, <1>8 DEF Paged
  <2> QED
    BY <1>5, <2>1
<1>9. p.from + Len(Book(p)) <= p.to
  <2>1. Len(Book(p)) = range[p].current + 1 - p.from
    BY DEF Paged
  <2>2. range[p].current + 1 <= p.to
    BY <1>1, <1>3
  <2> QED
    BY <1>3, <2>1, <2>2
<1>10. Books' = [Books EXCEPT ![p] = Append(@, x)]
  BY <1>1, <1>7, <1>8 DEF Books
<1> QED
  BY <1>0, <1>9, <1>10 DEF Numbering!Issue, Books

\* A step other than that keeps every page but, at most, the one of a document sent.
LEMMA OthersSettle ==
    ASSUME RangesApart, "edit" \notin Requests,
           TypeOK, TypeOK', Handout, Ledger, Ledger', Bearing, Bearing', Paged, Paged',
           [Next]_vars, \A s \in Sessions : ~Commit(s)
    PROVE  \/ Books' = Books
           \/ \E o \in Offers : \E n \in 1..Len(Book(o)) : Numbering!Settle(o, n)
<1>1. /\ Len(logs') = Len(logs) /\ Len(logs) \in Nat
      /\ \A j \in 1..Len(logs) : /\ logs'[j].inv = logs[j].inv
                                 /\ logs'[j].num = logs[j].num
                                 /\ logs'[j].environment = logs[j].environment
  BY OnlyCommitNumbers DEF TypeOK
<1>2. \A o \in Offers : range'[o].current = range[o].current /\ range[o].current \in Nat
  BY OtherSteps DEF Ledger, Exact, TypeOK, SequenceRange
<1>3. \A o \in Offers : \A m \in o.from..range[o].current : Bearer(o, m)' = Bearer(o, m)
  BY <1>1, <1>2, BearerKept
<1>4. ASSUME NEW o \in Offers
      PROVE  /\ Book(o) \in Seq(Numbering!Document) /\ Book(o)' \in Seq(Numbering!Document)
             /\ Len(Book(o)') = Len(Book(o))
             /\ Len(Book(o)) = range[o].current + 1 - o.from
             /\ o.from \in Nat /\ range[o].current \in Nat
  BY <1>2, OfferType DEF Paged
<1>5. \* a page is the one of its bearer, then and now
      ASSUME NEW o \in Offers, NEW n \in 1..Len(Book(o))
      PROVE  \E k \in 1..Len(logs) : /\ logs[k].num = o.from + n - 1
                                     /\ logs[k].environment = o.env
                                     /\ Book(o)[n] = Page(k) /\ Book(o)'[n] = Page(k)'
  <2> DEFINE m == o.from + n - 1
  <2>1. m \in o.from..range[o].current /\ n \in 1..Len(Book(o)')
    BY <1>4
  <2>2. /\ Bearer(o, m) \in 1..Len(logs) /\ Bearer(o, m)' = Bearer(o, m)
        /\ logs[Bearer(o, m)].num = m /\ logs[Bearer(o, m)].environment = o.env
    BY <1>3, <2>1 DEF Bearing
  <2>3. Book(o)[n] = Page(Bearer(o, m)) /\ Book(o)'[n] = Page(Bearer(o, m))'
    BY <2>1 DEF Paged
  <2>4. Page(Bearer(o, m))' = [inv |-> logs'[Bearer(o, m)].inv,
                               verdict |-> Verdict(logs'[Bearer(o, m)].status)]
    BY <2>2 DEF Page
  <2> QED
    BY <2>2, <2>3, <2>4 DEF Page
<1>6. CASE \A k \in 1..Len(logs) : logs'[k].status = logs[k].status
  <2>1. ASSUME NEW o \in Offers PROVE Book(o)' = Book(o)
    <3>1. \A n \in 1..Len(Book(o)) : Book(o)'[n] = Book(o)[n]
      <4> SUFFICES ASSUME NEW n \in 1..Len(Book(o)) PROVE Book(o)'[n] = Book(o)[n]
        OBVIOUS
      <4>1. PICK k \in 1..Len(logs) : Book(o)[n] = Page(k) /\ Book(o)'[n] = Page(k)'
        BY <1>5
      <4> QED
        BY <1>1, <1>6, <4>1 DEF Page
    <3> QED
      BY <1>4, <3>1, Same
  <2> QED
    BY <2>1 DEF Books
<1>7. ASSUME NEW k \in 1..Len(logs), Deliver(k)
      PROVE  \E o \in Offers : \E n \in 1..Len(Book(o)) : Numbering!Settle(o, n)
  <2>1. PICK v \in {"Aceptado", "ERROR"} :
           logs' = [logs EXCEPT ![k].status = v, ![k].queued = FALSE, ![k].sentTo = env]
    BY <1>7 DEF Deliver
  <2>2. /\ logs[k].status \in {"Pending", "ERROR"}
        /\ logs'[k].status = v
        /\ \A j \in 1..Len(logs) \ {k} : logs'[j].status = logs[j].status
    BY <1>7, <2>1 DEF Deliver, TypeOK, Log
  <2>3. PICK o \in Offers : /\ o.env = logs[k].environment
                            /\ logs[k].num \in o.from..range[o].current
    BY DEF Ledger, Borne
  <2> DEFINE n == logs[k].num + 1 - o.from
  <2>4. n \in 1..Len(Book(o)) /\ o.from + n - 1 = logs[k].num
    <3>1. /\ Len(Book(o)) = range[o].current + 1 - o.from
          /\ o.from \in Nat /\ range[o].current \in Nat
      BY <1>4
    <3> QED
      BY <2>3, <3>1
  <2>5. Book(o)[n] = Page(k) /\ Book(o)'[n] = Page(k)'
    <3>1. PICK j \in 1..Len(logs) : /\ logs[j].num = logs[k].num
                                    /\ logs[j].environment = o.env
                                    /\ Book(o)[n] = Page(j) /\ Book(o)'[n] = Page(j)'
      BY <1>5, <2>4
    <3>2. j = k
      BY <2>3, <3>1 DEF Ledger, NumbersUnique
    <3> QED
      BY <3>1, <3>2
  <2>6. ASSUME NEW q \in Offers, NEW m \in 1..Len(Book(q)), q # o \/ m # n
        PROVE  Book(q)'[m] = Book(q)[m]
    <3>1. PICK j \in 1..Len(logs) : /\ logs[j].num = q.from + m - 1
                                    /\ logs[j].environment = q.env
                                    /\ Book(q)[m] = Page(j) /\ Book(q)'[m] = Page(j)'
      BY <1>5
    <3>2. j # k
      <4>1. CASE q = o
        BY <1>4, <2>4, <2>6, <3>1, <4>1
      <4>2. CASE q # o /\ q.env = o.env
        <5>1. /\ range[q].current <= q.to /\ range[o].current <= o.to
              /\ q.to \in Nat /\ o.to \in Nat
          BY OfferType DEF Ledger, Exact
        <5>2. q.to < o.from \/ o.to < q.from
          BY <4>2 DEF RangesApart
        <5>3. q.from + m - 1 \in q.from..range[q].current
          BY <1>4
        <5>4. q.from + m - 1 # logs[k].num
          BY <1>4, <2>3, <5>1, <5>2, <5>3, ApartRanges
        <5> QED
          BY <3>1, <5>4
      <4>3. CASE q.env # o.env
        BY <2>3, <3>1, <4>3
      <4> QED
        BY <4>1, <4>2, <4>3
    <3> QED
      BY <1>1, <2>2, <3>1, <3>2 DEF Page
  <2> DEFINE u == IF v = "Aceptado" THEN "accepted" ELSE "failed"
             y == [Book(o)[n] EXCEPT !.verdict = u]
  <2>7. /\ Book(o)[n].verdict # "accepted" /\ Book(o)'[n] = y
        /\ u \in {"accepted", "failed"}
    BY <1>1, <2>2, <2>5 DEF Page, Verdict
  <2> HIDE DEF n, y, u
  <2>8. Book(o)' = [Book(o) EXCEPT ![n] = y]
    <3>1. \A m \in 1..Len(Book(o)) : m # n => Book(o)'[m] = Book(o)[m]
      BY <2>6
    <3>2. y \in Numbering!Document
      BY <1>4, <2>4, <2>7
    <3> QED
      BY <1>4, <2>4, <2>7, <3>1, <3>2, SamePage
  <2>9. ASSUME NEW q \in Offers, q # o PROVE Book(q)' = Book(q)
    <3>1. \A m \in 1..Len(Book(q)) : Book(q)'[m] = Book(q)[m]
      BY <2>6, <2>9
    <3> QED
      BY <1>4, <3>1, Same
  <2>10. Books' = [Books EXCEPT ![o][n].verdict = u]
    BY <2>8, <2>9 DEF Books, y
  <2> QED
    <3>1. Books[o][n].verdict # "accepted"
      BY <2>7 DEF Books
    <3>2. \E r \in {"accepted", "failed"} : Books' = [Books EXCEPT ![o][n].verdict = r]
      BY <2>7, <2>10
    <3>3. Numbering!Settle(o, n)
      BY <3>1, <3>2 DEF Numbering!Settle, Books
    <3> QED
      BY <2>4, <3>3
<1>8. \/ \A k \in 1..Len(logs) : logs'[k].status = logs[k].status
      \/ \E k \in 1..Len(logs) : Deliver(k)
  <2>1. ASSUME NEW i \in Invoices, Requeue(i)
        PROVE  \A k \in 1..Len(logs) : logs'[k].status = logs[k].status
    BY <2>1 DEF Requeue, TypeOK, Log
  <2>2. \/ logs' = logs
        \/ \E k \in 1..Len(logs) : Deliver(k)
        \/ \E i \in Invoices : Requeue(i)
    BY QuietLogs
  <2> QED
    BY <2>1, <2>2
<1> QED
  BY <1>6, <1>7, <1>8

\* While nobody saves an ECF Sequence Range form, and ranges of an environment share
\* no number, the handout implements a book of numbered pages: every number of a
\* range is used in its order, by one document, which keeps it whatever fails and
\* however often it is sent again, and whose acceptance is final.
THEOREM AllocationImplements ==
    ASSUME RangesApart, "edit" \notin Requests
    PROVE  Spec => ImplementsNumbering
<1> DEFINE Inv == TypeOK /\ Handout /\ Ledger
<1>1. Init => Inv
  BY InitType, HandoutInit, LedgerInit
<1>2. Inv /\ [Next]_vars => Inv'
  BY NextType, HandoutNext, LedgerNext, RangesApart, "edit" \notin Requests
<1>3. Init => Numbering!Init
  <2> SUFFICES ASSUME Init, NEW o \in Offers PROVE Book(o) = <<>>
    BY DEF Numbering!Init
  <2>1. range[o].current + 1 - o.from = 0
    BY OfferType DEF Init
  <2> QED
    BY <2>1 DEF Book
<1>4. ASSUME Inv, [Next]_vars PROVE [Numbering!Next]_Books
  <2>1. Inv' /\ Bearing /\ Bearing' /\ Paged /\ Paged'
    BY <1>2, <1>4, Bearers, Pages, Later
  <2>2. CASE \E s \in Sessions : Commit(s)
    <3>1. PICK s \in Sessions : Commit(s)
      BY <2>2
    <3>2. txn[s].offer \in Offers /\ txn[s].inv \in Invoices
      BY <1>4 DEF TypeOK, Txn
    <3> QED
      BY <1>4, <2>1, <3>1, <3>2, CommitIssues DEF Numbering!Next
  <2>3. CASE \A s \in Sessions : ~Commit(s)
    <3>1. \/ Books' = Books
          \/ \E o \in Offers : \E n \in 1..Len(Book(o)) : Numbering!Settle(o, n)
      BY <1>4, <2>1, <2>3, OthersSettle, RangesApart, "edit" \notin Requests
    <3>2. \A o \in Offers : Books[o] = Book(o)
      BY DEF Books
    <3> QED
      BY <3>1, <3>2 DEF Numbering!Next, Books
  <2> QED
    BY <2>2, <2>3
<1> HIDE DEF Inv
<1> QED
  BY <1>1, <1>2, <1>3, <1>4, PTL DEF Spec, ImplementsNumbering, Numbering!Spec, Books

-----------------------------------------------------------------------------
(* One process: no overlap of ranges, stale form or switch of environment makes *)
(* it repeat a number or give an invoice two                                    *)

Numbers == {logs[k].num : k \in 1..Len(logs)}

\* The transaction that takes a number saw all of them, for an invoice without one.
Informed ==
    \A s \in Sessions : txn[s].pc \in {"allocate", "insert"} =>
        /\ txn[s].taken = Numbers
        /\ NeedsNumber(txn[s].inv)

Distinct ==
    \A j, k \in 1..Len(logs) : logs[j].num = logs[k].num \/ logs[j].inv = logs[k].inv => j = k

\* What a single process does between two commits.
LEMMA SerialSteps ==
    ASSUME NEW p, Sessions = {p}, TypeOK, Informed, [Next]_vars, ~Commit(p)
    PROVE  Informed'
<1>1. /\ Len(logs') = Len(logs) /\ Len(logs) \in Nat
      /\ \A j \in 1..Len(logs) : /\ logs'[j].inv = logs[j].inv
                                 /\ logs'[j].num = logs[j].num
  BY OnlyCommitNumbers DEF TypeOK
<1>2. Numbers' = Numbers
  BY <1>1 DEF Numbers
<1>3. p \in Sessions
  OBVIOUS
<1>4. \/ txn'[p] = txn[p]
      \/ txn'[p].pc \notin {"allocate", "insert"}
      \/ txn'[p].taken = Numbers /\ NeedsNumber(txn'[p].inv)
      \/ txn[p].pc = "allocate" /\ txn'[p].taken = txn[p].taken /\ txn'[p].inv = txn[p].inv
  <2>1. CASE \E i \in Invoices :
                BeginSubmit(p, i) \/ BeginRetry(p, i) \/ BeginApi(p, i) \/ BeginCancel(p, i)
    <3>1. PICK i \in Invoices :
             BeginSubmit(p, i) \/ BeginRetry(p, i) \/ BeginApi(p, i) \/ BeginCancel(p, i)
      BY <2>1
    <3>2. \/ txn'[p] = txn[p]
          \/ /\ txn'[p].pc \in {"allocate", "cancel"}
             /\ txn'[p].inv = i
             /\ txn'[p].taken = {logs[k].num : k \in 1..Len(logs)}
             /\ txn'[p].pc = "allocate" => NeedsNumber(i)
      BY <1>3, <3>1, BeginEffect
    <3> QED
      BY <3>2 DEF Numbers
  <2>2. CASE Allocate(p)
    <3>1. txn[p].pc = "allocate"
      BY <2>2 DEF Allocate
    <3> QED
      BY <1>3, <2>2, <3>1, AllocateType
  <2>3. CASE RollBack(p) \/ CommitCancel(p) \/ CommitRegister(p)
    <3>1. End(p)
      BY <2>3 DEF RollBack, CommitCancel, CommitRegister
    <3> QED
      BY <1>3, <3>1, EndType
  <2>4. ASSUME NEW o \in Offers, BeginRegister(p, o)
        PROVE  txn'[p].pc = "register"
    <3>1. [Idle EXCEPT !.pc = "register", !.op = "register", !.offer = o].pc = "register"
      BY IdleType DEF Txn
    <3> QED
      BY <1>3, <2>4, <3>1 DEF BeginRegister, TypeOK
  <2>5. CASE Session(p)
    BY <2>1, <2>2, <2>3, <2>4, <2>5 DEF Session
  <2>6. CASE txn' = txn
    BY <2>6
  <2>7. Session(p) \/ txn' = txn
    BY DEF Next, OpenForm, Lapse, SaveForm, ExpireRanges, SwitchEnvironment, Deliver, vars
  <2> QED
    BY <2>5, <2>6, <2>7
<1>5. txn'[p].pc \in {"allocate", "insert"} =>
          txn'[p].taken = Numbers /\ NeedsNumber(txn'[p].inv)
  BY <1>3, <1>4 DEF Informed
<1>6. \A i : NeedsNumber(i) => \A k \in 1..Len(logs') : logs'[k].inv # i
  BY <1>1 DEF NeedsNumber, LogsOf
<1>7. txn'[p].pc \in {"allocate", "insert"} =>
          {k \in 1..Len(logs') : logs'[k].inv = txn'[p].inv} = {}
  BY <1>5, <1>6
<1>8. \A s \in Sessions : txn'[s].pc \in {"allocate", "insert"} =>
          /\ txn'[s].taken = Numbers'
          /\ {k \in 1..Len(logs') : logs'[k].inv = txn'[s].inv} = {}
  BY <1>2, <1>5, <1>7
<1> QED
  BY <1>8 DEF Informed, NeedsNumber, LogsOf

LEMMA SerialCommit ==
    ASSUME NEW p, Sessions = {p}, TypeOK, Informed, Distinct, Commit(p)
    PROVE  Informed' /\ Distinct'
<1>0. p \in Sessions /\ Len(logs) \in Nat
  BY DEF TypeOK
<1>1. txn[p].num \notin Numbers /\ LogsOf(txn[p].inv) = {}
  BY <1>0 DEF Commit, Informed, NeedsNumber
<1>2. \A k \in 1..Len(logs) : logs[k].num # txn[p].num /\ logs[k].inv # txn[p].inv
  BY <1>1 DEF Numbers, LogsOf
<1>3. /\ Len(logs') = Len(logs) + 1
      /\ \A k \in 1..Len(logs) : logs'[k] = logs[k]
      /\ logs'[Len(logs')].num = txn[p].num /\ logs'[Len(logs')].inv = txn[p].inv
  <2>1. logs'[Len(logs')] = NewLog(txn[p])
    BY <1>0, CommitType
  <2>2. logs'[Len(logs')].num = txn[p].num /\ logs'[Len(logs')].inv = txn[p].inv
    BY <2>1 DEF NewLog
  <2> QED
    BY <1>0, <2>2, CommitType
<1>4. Distinct'
  <2> SUFFICES ASSUME NEW j \in 1..Len(logs'), NEW k \in 1..Len(logs'),
                      logs'[j].num = logs'[k].num \/ logs'[j].inv = logs'[k].inv
               PROVE  j = k
    BY DEF Distinct
  <2>1. CASE j \in 1..Len(logs) /\ k \in 1..Len(logs)
    BY <1>3, <2>1 DEF Distinct
  <2>2. CASE j = Len(logs') /\ k \in 1..Len(logs)
    BY <1>2, <1>3, <2>2
  <2>3. CASE j \in 1..Len(logs) /\ k = Len(logs')
    BY <1>2, <1>3, <2>3
  <2> QED
    BY <1>0, <1>3, <2>1, <2>2, <2>3
<1>5. txn'[p].pc = "idle"
  BY <1>0, EndType DEF Commit
<1> QED
  BY <1>4, <1>5 DEF Informed

LEMMA SerialNext ==
    ASSUME NEW p, Sessions = {p}
    PROVE  TypeOK /\ Informed /\ Distinct /\ [Next]_vars => (Informed /\ Distinct)'
<1> SUFFICES ASSUME TypeOK, Informed, Distinct, [Next]_vars PROVE (Informed /\ Distinct)'
  OBVIOUS
<1>1. CASE Commit(p)
  BY <1>1, SerialCommit
<1>2. CASE ~Commit(p)
  <2>1. Informed'
    BY <1>2, SerialSteps
  <2>2. /\ Len(logs') = Len(logs)
        /\ \A j \in 1..Len(logs) : logs'[j].inv = logs[j].inv /\ logs'[j].num = logs[j].num
    BY <1>2, OnlyCommitNumbers
  <2> QED
    BY <2>1, <2>2 DEF Distinct
<1> QED
  BY <1>1, <1>2

LEMMA SerialInit == Init => Informed /\ Distinct
<1> SUFFICES ASSUME Init PROVE Informed /\ Distinct
  OBVIOUS
<1>1. \A s \in Sessions : txn[s].pc = "idle"
  BY IdleType DEF Init
<1>2. Len(logs) = 0
  BY DEF Init
<1> QED
  BY <1>1, <1>2 DEF Informed, Distinct

LEMMA SingleLog == TypeOK /\ Distinct => OneNumberPerInvoice
<1> SUFFICES ASSUME TypeOK, Distinct, NEW i \in Invoices
             PROVE  Cardinality(LogsOf(i)) <= 1
  BY DEF OneNumberPerInvoice
<1>1. CASE LogsOf(i) = {}
  BY <1>1, FS_EmptySet
<1>2. CASE LogsOf(i) # {}
  <2>1. PICK k \in LogsOf(i) : TRUE
    BY <1>2
  <2>2. LogsOf(i) = {k}
    BY <2>1 DEF LogsOf, Distinct
  <2>3. Cardinality(LogsOf(i)) = 1
    BY <2>2, FS_Singleton
  <2> QED
    BY <2>3
<1> QED
  BY <1>1, <1>2

\* One process at a time gives an invoice one number, however often it is submitted,
\* retried or sent by the API, whatever users do to ranges and environment.
THEOREM SerialInvoices ==
    ASSUME NEW p, Sessions = {p}
    PROVE  Spec => []OneNumberPerInvoice
<1>1. TypeOK /\ Informed /\ Distinct /\ [Next]_vars => (TypeOK /\ Informed /\ Distinct)'
  BY NextType, SerialNext, Sessions = {p}
<1>2. Init => TypeOK /\ Informed /\ Distinct
  BY InitType, SerialInit
<1> QED
  BY <1>1, <1>2, SingleLog, PTL DEF Spec

\* One process at a time never repeats a number, even over ranges that overlap and
\* ranges that a stale form has set back: _validate_duplicate sees every document.
THEOREM SerialNumbers ==
    ASSUME NEW p, Sessions = {p}
    PROVE  Spec => []NumbersUnique
<1>1. TypeOK /\ Informed /\ Distinct /\ [Next]_vars => (TypeOK /\ Informed /\ Distinct)'
  BY NextType, SerialNext, Sessions = {p}
<1>2. Init => TypeOK /\ Informed /\ Distinct
  BY InitType, SerialInit
<1>3. Distinct => NumbersUnique
  BY DEF Distinct, NumbersUnique
<1> QED
  BY <1>1, <1>2, <1>3, PTL DEF Spec

====
