------------------------ MODULE ProviderHealthProof ------------------------
(* Theorems about ProviderHealth: types, the single probe, and the dates that  *)
(* let a circuit out of every state it gets into.                              *)
EXTENDS ProviderHealth, TLAPS

-----------------------------------------------------------------------------
(* Types *)

LEMMA ClosedRowType == ClosedRow \in Health
  BY LimitsAssumption DEF ClosedRow, Health, Date, NoDate

\* A row that takes each field from one of two rows is a row.
LEMMA MergeType ==
  ASSUME NEW r \in Health, NEW s \in Health, NEW C
  PROVE  [f \in Columns |-> IF f \in C THEN r[f] ELSE s[f]] \in Health
<1> DEFINE t == [f \in Columns |-> IF f \in C THEN r[f] ELSE s[f]]
<1>1. t = [state |-> t.state, openUntil |-> t.openUntil, probeUntil |-> t.probeUntil,
           failures |-> t.failures, window |-> t.window]
  BY DEF Columns
<1>2. /\ t.state \in {"Closed", "Open", "Half Open"}
      /\ t.openUntil \in Date(OPEN_MINUTES)
      /\ t.probeUntil \in Date(PROBE_LEASE_MINUTES)
      /\ t.failures \in 0..FAILURE_THRESHOLD
      /\ t.window \in Date(FAILURE_WINDOW_MINUTES)
  BY DEF Columns, Health
<1> HIDE DEF t
<1>3. t \in Health
  BY <1>1, <1>2 DEF Health
<1> QED
  BY <1>3 DEF t

LEMMA AgedType ==
  ASSUME NEW n \in Nat, NEW d \in Date(n)
  PROVE  Aged(d) \in Date(n) /\ (Aged(d) = NoDate <=> d = NoDate)
  BY DEF Aged, Date, NoDate, Pending

LEMMA AgedRowType ==
  ASSUME NEW r \in Health
  PROVE  AgedRow(r) \in Health
<1>1. /\ Aged(r.openUntil) \in Date(OPEN_MINUTES)
      /\ Aged(r.probeUntil) \in Date(PROBE_LEASE_MINUTES)
      /\ Aged(r.window) \in Date(FAILURE_WINDOW_MINUTES)
  BY AgedType, LimitsAssumption DEF Health
<1> QED
  BY <1>1 DEF AgedRow, Health

LEMMA ProbeRowType ==
  ASSUME NEW r \in Health
  PROVE  ProbeRow(r) \in Health /\ ProbeColumns(r) \subseteq Columns
<1>1. NoDate \in Date(OPEN_MINUTES) /\ PROBE_LEASE_MINUTES \in Date(PROBE_LEASE_MINUTES)
  BY LimitsAssumption DEF Date, NoDate
<1> QED
  BY <1>1 DEF ProbeRow, ProbeColumns, Health, Columns

LEMMA FailureRowType ==
  ASSUME NEW r \in Health
  PROVE  FailureRow(r) \in Health /\ FailureColumns(r) \subseteq Columns
<1>1. Count(r) \in 0..FAILURE_THRESHOLD
  <2>1. r.failures \in 0..FAILURE_THRESHOLD
    BY DEF Health
  <2>2. FAILURE_THRESHOLD \in Nat /\ FAILURE_THRESHOLD >= 1
    BY LimitsAssumption
  <2>3. UpToThreshold(r.failures + 1) \in 0..FAILURE_THRESHOLD
    BY <2>1, <2>2 DEF UpToThreshold
  <2>4. 1 \in 0..FAILURE_THRESHOLD /\ FAILURE_THRESHOLD \in 0..FAILURE_THRESHOLD
    BY <2>2
  <2> QED
    BY <2>3, <2>4 DEF Count
<1>2. FailureColumns(r) \subseteq Columns
  BY DEF FailureColumns, Columns
<1>3. /\ OPEN_MINUTES \in Date(OPEN_MINUTES)
      /\ NoDate \in Date(PROBE_LEASE_MINUTES)
      /\ FAILURE_WINDOW_MINUTES \in Date(FAILURE_WINDOW_MINUTES)
  BY LimitsAssumption DEF Date, NoDate
<1> QED
  BY <1>1, <1>2, <1>3 DEF FailureRow, Health

LEMMA CallType ==
  ASSUME NEW mode \in CallerModes, NEW snap \in Health
  PROVE  Fresh(mode, snap) \in Call
  BY ClosedRowType DEF Fresh, Call

LEMMA RestedType == Rested \in Call
  BY CallType, ClosedRowType DEF Rested, Call, CallerModes

LEMMA TypeInit == Init => TypeOK
  BY ClosedRowType, RestedType, LimitsAssumption DEF Init, TypeOK

LEMMA SeenType ==
  ASSUME TypeOK, NEW p \in Callers
  PROVE  Seen(p) \in Health /\ Newest(p) \in Health
  BY DEF TypeOK, Seen, Newest, Call

\* What goes into the Redis lock to write.
LEMMA WritingType ==
  ASSUME TypeOK, NEW p \in Callers, NEW columns \in SUBSET Columns, NEW new \in Health,
         NEW probe \in BOOLEAN, Writing(p, columns, new, probe)
  PROVE  mutex' \in Callers \cup {Nobody} /\ call' \in [Callers -> Call]
<1> DEFINE c == [call[p] EXCEPT !.pc = "write", !.columns = columns, !.new = new,
                               !.probe = probe]
<1>1. c \in Call
  BY DEF TypeOK, Call
<1>2. call' = [call EXCEPT ![p] = c]
  BY DEF TypeOK, Writing
<1> QED
  BY <1>1, <1>2 DEF TypeOK, Writing

LEMMA EndsType ==
  ASSUME TypeOK, NEW p \in Callers, NEW kept, Ends(p, kept)
  PROVE  /\ settings' \in Health /\ draft' \in Health
         /\ rowLock' \in Callers \cup {Nobody} /\ lease' = lease
         /\ call' \in [Callers -> Call]
  BY ClosedRowType, RestedType DEF TypeOK, Ends

LEMMA TypeStep ==
  ASSUME TypeOK, [Next]_vars
  PROVE  TypeOK'
<1>1. /\ settings \in Health /\ draft \in Health
      /\ rowLock \in Callers \cup {Nobody} /\ mutex \in Callers \cup {Nobody}
      /\ lease \in 0..PROBE_LEASE_MINUTES
      /\ call \in [Callers -> Call]
      /\ up \in BOOLEAN /\ crashes \in 0..MaxCrashes
  BY DEF TypeOK
<1>2. ASSUME NEW p \in Callers, Begin(p)
      PROVE  TypeOK'
  <2>1. \A m \in Modes : Fresh(m, settings) \in Call
    BY <1>1, CallType, ModesAssumption
  <2> QED
    BY <1>1, <1>2, <2>1 DEF Begin, TypeOK, row, world
<1>3. ASSUME NEW p \in Callers, Refuse(p) \/ Pass(p) \/ Answer(p)
      PROVE  TypeOK'
  <2>1. call' \in [Callers -> Call]
    BY <1>1, <1>3 DEF Refuse, Pass, Answer, Call, Answers
  <2> QED
    BY <1>1, <1>3, <2>1 DEF Refuse, Pass, Answer, TypeOK, row, world
<1>4. ASSUME NEW p \in Callers, Probe(p)
      PROVE  TypeOK'
  <2>1. mutex' \in Callers \cup {Nobody} /\ call' \in [Callers -> Call]
    BY <1>4, SeenType, ProbeRowType, WritingType DEF Probe
  <2> QED
    BY <1>1, <1>4, <2>1, LimitsAssumption DEF Probe, TypeOK, row, world
<1>5. ASSUME NEW p \in Callers, Write(p)
      PROVE  TypeOK'
  <2>1. draft' \in Health
    <3>1. call[p].new \in Health /\ Newest(p) \in Health
      BY <1>1, SeenType DEF Call
    <3> QED
      BY <1>5, <3>1, MergeType DEF Write
  <2>2. call' \in [Callers -> Call]
    <3>1. PICK pc \in {"call", "done"}, lost \in BOOLEAN :
             call' = [call EXCEPT ![p].pc = pc, ![p].lost = lost, ![p].snap = ClosedRow,
                                  ![p].new = ClosedRow, ![p].columns = {}]
      BY <1>5 DEF Write
    <3> DEFINE c == [call[p] EXCEPT !.pc = pc, !.lost = lost, !.snap = ClosedRow,
                                    !.new = ClosedRow, !.columns = {}]
    <3>2. c \in Call
      BY <1>1, ClosedRowType DEF Call
    <3>3. call' = [call EXCEPT ![p] = c]
      BY <1>1, <3>1
    <3> QED
      BY <1>1, <3>2, <3>3
  <2> QED
    BY <1>1, <1>5, <2>1, <2>2, LimitsAssumption DEF Write, TypeOK, world
<1>6. ASSUME NEW p \in Callers, RecordSuccess(p)
      PROVE  TypeOK'
  <2>1. mutex' \in Callers \cup {Nobody} /\ call' \in [Callers -> Call]
    BY <1>6, ClosedRowType, WritingType DEF RecordSuccess
  <2> QED
    BY <1>1, <1>6, <2>1, LimitsAssumption DEF RecordSuccess, TypeOK, row, world
<1>7. ASSUME NEW p \in Callers, RecordReached(p)
      PROVE  TypeOK'
  <2>1. mutex' \in Callers \cup {Nobody} /\ call' \in [Callers -> Call]
    <3>1. CASE Seen(p).state = "Half Open"
      BY <1>7, <3>1, ClosedRowType, WritingType DEF RecordReached
    <3>2. CASE Seen(p).state # "Half Open"
      <4> DEFINE c == [call[p] EXCEPT !.pc = "done", !.probe = FALSE]
      <4>1. c \in Call
        BY <1>1 DEF Call
      <4>2. call' = [call EXCEPT ![p] = c] /\ mutex' = mutex
        BY <1>1, <1>7, <3>2 DEF RecordReached
      <4> QED
        BY <1>1, <4>1, <4>2
    <3> QED
      BY <3>1, <3>2
  <2>2. lease' \in 0..PROBE_LEASE_MINUTES
    <3>1. lease' \in {lease, 0}
      BY <1>7 DEF RecordReached
    <3> QED
      BY <1>1, <3>1, LimitsAssumption
  <2> QED
    BY <1>1, <1>7, <2>1, <2>2 DEF RecordReached, TypeOK, row, world
<1>8. ASSUME NEW p \in Callers, RecordDown(p)
      PROVE  TypeOK'
  <2>1. mutex' \in Callers \cup {Nobody} /\ call' \in [Callers -> Call]
    BY <1>8, SeenType, FailureRowType, WritingType DEF RecordDown
  <2> QED
    BY <1>1, <1>8, <2>1 DEF RecordDown, TypeOK, row, world
<1>9. ASSUME NEW p \in Callers, Finish(p)
      PROVE  TypeOK'
  BY <1>1, <1>9, EndsType DEF Finish, TypeOK, world
<1>10. ASSUME NEW p \in Callers, NextBatch(p)
       PROVE  TypeOK'
  <2>1. Fresh("poll", call[p].snap) \in Call
    BY <1>1, CallType DEF Call, CallerModes
  <2> QED
    BY <1>1, <1>10, <2>1 DEF NextBatch, TypeOK, row, world
<1>11. ASSUME NEW p \in Callers, RowTimesOut(p)
       PROVE  TypeOK'
  <2>1. call' \in [Callers -> Call]
    <3> DEFINE c == [call[p] EXCEPT !.pc = "done", !.lost = TRUE]
    <3>1. c \in Call
      BY <1>1 DEF Call
    <3>2. call' = [call EXCEPT ![p] = c]
      BY <1>1, <1>11 DEF RowTimesOut
    <3> QED
      BY <1>1, <3>1, <3>2
  <2> QED
    BY <1>1, <1>11, <2>1 DEF RowTimesOut, TypeOK, row, world
<1>12. ASSUME NEW p \in Callers, Crash(p)
       PROVE  TypeOK'
  <2>1. crashes' \in 0..MaxCrashes
    BY <1>1, <1>12, LimitsAssumption DEF Crash
  <2> QED
    BY <1>1, <1>12, <2>1, EndsType DEF Crash, TypeOK
<1>13. CASE MutexExpires \/ ProviderChanges
  BY <1>1, <1>13 DEF MutexExpires, ProviderChanges, TypeOK, row, world
<1>14. CASE Tick
  <2>1. call' \in [Callers -> Call]
    BY <1>1, <1>14, AgedRowType DEF Tick, Call
  <2>2. lease' \in 0..PROBE_LEASE_MINUTES
    <3>1. lease' = Aged(lease)
      BY <1>14 DEF Tick
    <3> QED
      BY <1>1, <3>1, LimitsAssumption DEF Aged, Pending
  <2> QED
    BY <1>1, <1>14, <2>1, <2>2, AgedRowType DEF Tick, TypeOK, world
<1>15. CASE UNCHANGED vars
  BY <1>1, <1>15 DEF vars, TypeOK
<1> QED
  BY <1>2, <1>3, <1>4, <1>5, <1>6, <1>7, <1>8, <1>9, <1>10, <1>11, <1>12, <1>13, <1>14,
     <1>15 DEF Next, Step, Admission, Recording

\* Every reachable state is of its type.
THEOREM HealthTypes == Spec => []TypeOK
<1>1. TypeOK /\ [Next]_vars => TypeOK'
  BY TypeStep
<1> QED
  BY <1>1, TypeInit, PTL DEF Spec

-----------------------------------------------------------------------------
(* One probe: its request is on the way while it holds the row, and only then. *)

ProbeHoldsRow(p) ==
    /\ call[p].pc = "call" /\ call[p].probe => rowLock = p
    /\ call[p].pc = "before" => ~call[p].probe

ProbesHold == \A p \in Callers : ProbeHoldsRow(p)

\* The end of a transaction of another caller takes no row from a probe.
LEMMA EndsHold ==
  ASSUME TypeOK, ProbesHold, NEW p \in Callers, NEW kept, Ends(p, kept)
  PROVE  ProbesHold'
<1>1. ASSUME NEW q \in Callers
      PROVE  ProbeHoldsRow(q)'
  <2>1. CASE q = p
    <3>1. call'[q].pc = "idle"
      BY <2>1 DEF Ends, TypeOK, Rested, Fresh
    <3> QED
      BY <3>1 DEF ProbeHoldsRow
  <2>2. CASE q # p
    <3>1. call'[q] = call[q] /\ (rowLock = q => rowLock' = q)
      BY <2>2 DEF Ends, TypeOK
    <3> QED
      BY <3>1 DEF ProbesHold, ProbeHoldsRow
  <2> QED
    BY <2>1, <2>2
<1> QED
  BY <1>1 DEF ProbesHold

\* A caller that neither takes the row nor lets it go, and does not go on to call.
LEMMA QuietHold ==
  ASSUME TypeOK, ProbesHold, NEW p \in Callers, rowLock' = rowLock,
         \A q \in Callers \ {p} : call'[q] = call[q],
         call'[p].pc = "call" => call[p].pc = "before" /\ call'[p].probe = call[p].probe,
         call'[p].pc = "before" => ~call'[p].probe
  PROVE  ProbesHold'
<1>1. ASSUME NEW q \in Callers
      PROVE  ProbeHoldsRow(q)'
  <2>1. CASE q = p
    BY <2>1 DEF ProbesHold, ProbeHoldsRow
  <2>2. CASE q # p
    BY <2>2 DEF ProbesHold, ProbeHoldsRow
  <2> QED
    BY <2>1, <2>2
<1> QED
  BY <1>1 DEF ProbesHold

LEMMA WritingWrites ==
  ASSUME TypeOK, NEW p \in Callers, NEW columns, NEW new, NEW probe,
         Writing(p, columns, new, probe)
  PROVE  call'[p].pc = "write" /\ \A q \in Callers \ {p} : call'[q] = call[q]
  BY DEF TypeOK, Writing, Call

LEMMA HoldStep ==
  ASSUME TypeOK, ProbesHold, [Next]_vars
  PROVE  ProbesHold'
<1>1. ASSUME NEW p \in Callers, Begin(p) \/ NextBatch(p)
      PROVE  ProbesHold'
  <2>1. /\ rowLock' = rowLock /\ \A q \in Callers \ {p} : call'[q] = call[q]
        /\ call'[p].pc = "before" /\ ~call'[p].probe
    BY <1>1 DEF Begin, NextBatch, TypeOK, row, Fresh
  <2> QED
    BY <2>1, QuietHold
<1>2. ASSUME NEW p \in Callers, Pass(p)
      PROVE  ProbesHold'
  <2>1. /\ rowLock' = rowLock /\ \A q \in Callers \ {p} : call'[q] = call[q]
        /\ call[p].pc = "before" /\ call'[p].pc = "call" /\ call'[p].probe = call[p].probe
    BY <1>2 DEF Pass, TypeOK, row, Call
  <2> QED
    BY <2>1, QuietHold
<1>3. ASSUME NEW p \in Callers, Refuse(p) \/ Answer(p) \/ RowTimesOut(p)
      PROVE  ProbesHold'
  <2>1. /\ rowLock' = rowLock /\ \A q \in Callers \ {p} : call'[q] = call[q]
        /\ call'[p].pc \in {"done", "record"}
    BY <1>3 DEF Refuse, Answer, RowTimesOut, TypeOK, row, Call
  <2> QED
    BY <2>1, QuietHold
<1>4. ASSUME NEW p \in Callers, Probe(p) \/ Recording(p)
      PROVE  ProbesHold'
  <2>1. /\ rowLock' = rowLock /\ \A q \in Callers \ {p} : call'[q] = call[q]
        /\ call'[p].pc \in {"done", "write"}
    <3>1. CASE \E columns, new, probe : Writing(p, columns, new, probe)
      BY <1>4, <3>1, WritingWrites
         DEF Probe, Recording, RecordSuccess, RecordReached, RecordDown, row
    <3>2. CASE RecordReached(p) /\ call' = [call EXCEPT ![p].pc = "done", ![p].probe = FALSE]
      BY <3>2 DEF RecordReached, TypeOK, row, Call
    <3> QED
      BY <1>4, <3>1, <3>2 DEF Probe, Recording, RecordSuccess, RecordReached, RecordDown
  <2> QED
    BY <2>1, QuietHold
<1>5. ASSUME NEW p \in Callers, Write(p)
      PROVE  ProbesHold'
  <2>1. /\ rowLock' = p /\ \A q \in Callers \ {p} : call'[q] = call[q] /\ rowLock # q
        /\ call'[p].pc \in {"call", "done"}
    BY <1>5, CallersAssumption DEF Write, TypeOK, Call
  <2>2. ASSUME NEW q \in Callers
        PROVE  ProbeHoldsRow(q)'
    BY <2>1 DEF ProbesHold, ProbeHoldsRow
  <2> QED
    BY <2>2 DEF ProbesHold
<1>6. ASSUME NEW p \in Callers, Finish(p) \/ Crash(p)
      PROVE  ProbesHold'
  BY <1>6, EndsHold DEF Finish, Crash
<1>7. CASE MutexExpires \/ ProviderChanges \/ UNCHANGED vars
  BY <1>7 DEF MutexExpires, ProviderChanges, vars, row, ProbesHold, ProbeHoldsRow
<1>8. CASE Tick
  <2>1. \A q \in Callers : call'[q].pc = call[q].pc /\ call'[q].probe = call[q].probe
    BY <1>8 DEF Tick, TypeOK, Call
  <2>2. rowLock' = rowLock
    BY <1>8 DEF Tick
  <2> QED
    BY <2>1, <2>2 DEF ProbesHold, ProbeHoldsRow
<1> QED
  BY <1>1, <1>2, <1>3, <1>4, <1>5, <1>6, <1>7, <1>8 DEF Next, Step, Admission

\* No two probes have their requests on the way at a time, whatever leases run out,
\* whichever callers die and whatever old snapshots are read: the uncommitted mark of a
\* probe holds the row until the probe is over.
THEOREM SingleProbe == Spec => []OneProbe
<1>1. Init => ProbesHold
  BY DEF Init, ProbesHold, ProbeHoldsRow, Rested, Fresh
<1>2. TypeOK /\ ProbesHold /\ [Next]_vars => ProbesHold'
  BY HoldStep
<1>3. ProbesHold => OneProbe
  BY DEF ProbesHold, ProbeHoldsRow, OneProbe
<1> QED
  BY <1>1, <1>2, <1>3, HealthTypes, PTL DEF Spec

-----------------------------------------------------------------------------
(* The way out.  An update keeps the state and its dates together: it writes    *)
(* all three of them, or, of a probe taken over, the probe's date alone.        *)

KeepsTogether(columns, new) ==
    /\ "state" \in columns => {"openUntil", "probeUntil"} \subseteq columns /\ HasWayOut(new)
    /\ "openUntil" \in columns => "state" \in columns
    /\ "probeUntil" \in columns /\ "state" \notin columns => new.probeUntil # NoDate

WritesKeepTogether ==
    \A p \in Callers : call[p].pc = "write" => KeepsTogether(call[p].columns, call[p].new)

WayOutKept == CircuitHasWayOut /\ WritesKeepTogether

LEMMA MergeHasWayOut ==
  ASSUME NEW r \in Health, NEW s \in Health, NEW C \in SUBSET Columns,
         KeepsTogether(C, r), HasWayOut(s)
  PROVE  HasWayOut([f \in Columns |-> IF f \in C THEN r[f] ELSE s[f]])
<1> DEFINE t == [f \in Columns |-> IF f \in C THEN r[f] ELSE s[f]]
<1>1. /\ t.state = IF "state" \in C THEN r.state ELSE s.state
      /\ t.openUntil = IF "openUntil" \in C THEN r.openUntil ELSE s.openUntil
      /\ t.probeUntil = IF "probeUntil" \in C THEN r.probeUntil ELSE s.probeUntil
  BY DEF Columns
<1> HIDE DEF t
<1>2. HasWayOut(t)
  BY <1>1 DEF HasWayOut, KeepsTogether
<1> QED
  BY <1>2 DEF t

LEMMA ClosedHasWayOut == HasWayOut(ClosedRow) /\ KeepsTogether(Columns, ClosedRow)
  BY DEF HasWayOut, ClosedRow, KeepsTogether, Columns

LEMMA ProbeKeepsTogether ==
  ASSUME NEW r \in Health
  PROVE  KeepsTogether(ProbeColumns(r), ProbeRow(r))
<1>1. /\ ProbeRow(r).state = "Half Open" /\ ProbeRow(r).openUntil = NoDate
      /\ ProbeRow(r).probeUntil = PROBE_LEASE_MINUTES
  BY DEF ProbeRow, Health
<1>2. PROBE_LEASE_MINUTES # NoDate
  BY LimitsAssumption DEF NoDate
<1> QED
  BY <1>1, <1>2 DEF KeepsTogether, HasWayOut, ProbeColumns

LEMMA FailureKeepsTogether ==
  ASSUME NEW r \in Health
  PROVE  KeepsTogether(FailureColumns(r), FailureRow(r))
<1>1. CASE Opens(r)
  <2>1. FailureRow(r).state = "Open" /\ FailureRow(r).openUntil = OPEN_MINUTES
    BY <1>1 DEF FailureRow, Health
  <2>2. OPEN_MINUTES # NoDate
    BY LimitsAssumption DEF NoDate
  <2> QED
    BY <1>1, <2>1, <2>2 DEF KeepsTogether, HasWayOut, FailureColumns
<1>2. CASE ~Opens(r)
  BY <1>2 DEF KeepsTogether, FailureColumns
<1> QED
  BY <1>1, <1>2

\* The passing of time empties no date and fills none in.
LEMMA AgedHasWayOut ==
  ASSUME NEW r \in Health
  PROVE  /\ HasWayOut(r) => HasWayOut(AgedRow(r))
         /\ \A C : KeepsTogether(C, r) => KeepsTogether(C, AgedRow(r))
<1>1. /\ AgedRow(r).state = r.state
      /\ AgedRow(r).openUntil = NoDate <=> r.openUntil = NoDate
      /\ AgedRow(r).probeUntil = NoDate <=> r.probeUntil = NoDate
  <2>1. /\ AgedRow(r).state = r.state
        /\ AgedRow(r).openUntil = Aged(r.openUntil)
        /\ AgedRow(r).probeUntil = Aged(r.probeUntil)
    BY DEF AgedRow, Health
  <2>2. r.openUntil \in Date(OPEN_MINUTES) /\ r.probeUntil \in Date(PROBE_LEASE_MINUTES)
    BY DEF Health
  <2> QED
    BY <2>1, <2>2, AgedType, LimitsAssumption
<1> QED
  BY <1>1 DEF HasWayOut, KeepsTogether

LEMMA WritingKeeps ==
  ASSUME TypeOK, WayOutKept, NEW p \in Callers, NEW columns, NEW new, NEW probe,
         Writing(p, columns, new, probe), UNCHANGED row, KeepsTogether(columns, new)
  PROVE  WayOutKept'
<1>1. /\ call'[p].columns = columns /\ call'[p].new = new
      /\ \A q \in Callers \ {p} : call'[q] = call[q]
  BY DEF TypeOK, Writing, Call
<1>2. WritesKeepTogether'
  BY <1>1 DEF WayOutKept, WritesKeepTogether
<1> QED
  BY <1>2 DEF WayOutKept, CircuitHasWayOut, row

\* A step that leaves the row alone and lets nobody go on to write.
LEMMA QuietKeeps ==
  ASSUME WayOutKept, UNCHANGED row,
         \A q \in Callers : call'[q].pc = "write" => call'[q] = call[q]
  PROVE  WayOutKept'
  BY DEF WayOutKept, CircuitHasWayOut, WritesKeepTogether, row

LEMMA EndsKeeps ==
  ASSUME TypeOK, WayOutKept, NEW p \in Callers, NEW kept, Ends(p, kept)
  PROVE  WayOutKept'
<1>1. HasWayOut(settings')
  BY CallersAssumption DEF Ends, WayOutKept, CircuitHasWayOut
<1>2. rowLock' # Nobody => HasWayOut(draft')
  BY CallersAssumption DEF Ends, WayOutKept, CircuitHasWayOut
<1>3. \A q \in Callers : call'[q].pc = "write" => call'[q] = call[q]
  BY DEF Ends, TypeOK, Rested, Fresh
<1> QED
  BY <1>1, <1>2, <1>3 DEF WayOutKept, CircuitHasWayOut, WritesKeepTogether

LEMMA WayOutStep ==
  ASSUME TypeOK, WayOutKept, [Next]_vars
  PROVE  WayOutKept'
<1>1. ASSUME NEW p \in Callers,
             Begin(p) \/ Refuse(p) \/ Pass(p) \/ Answer(p) \/ NextBatch(p) \/ RowTimesOut(p)
      PROVE  WayOutKept'
  <2>1. /\ UNCHANGED row /\ \A q \in Callers \ {p} : call'[q] = call[q]
        /\ call'[p].pc # "write"
    BY <1>1 DEF Begin, Refuse, Pass, Answer, NextBatch, RowTimesOut, TypeOK, Fresh, Call
  <2> QED
    BY <2>1, QuietKeeps
<1>2. ASSUME NEW p \in Callers, Probe(p)
      PROVE  WayOutKept'
  BY <1>2, SeenType, ProbeKeepsTogether, WritingKeeps DEF Probe
<1>3. ASSUME NEW p \in Callers, RecordSuccess(p)
      PROVE  WayOutKept'
  BY <1>3, ClosedHasWayOut, WritingKeeps DEF RecordSuccess
<1>4. ASSUME NEW p \in Callers, RecordReached(p)
      PROVE  WayOutKept'
  <2>1. CASE Seen(p).state = "Half Open"
    BY <1>4, <2>1, ClosedHasWayOut, WritingKeeps DEF RecordReached
  <2>2. CASE Seen(p).state # "Half Open"
    <3>1. UNCHANGED row /\ \A q \in Callers : call'[q].pc = "write" => call'[q] = call[q]
      BY <1>4, <2>2 DEF RecordReached, TypeOK, Call
    <3> QED
      BY <3>1, QuietKeeps
  <2> QED
    BY <2>1, <2>2
<1>5. ASSUME NEW p \in Callers, RecordDown(p)
      PROVE  WayOutKept'
  BY <1>5, SeenType, FailureKeepsTogether, WritingKeeps DEF RecordDown
<1>6. ASSUME NEW p \in Callers, Write(p)
      PROVE  WayOutKept'
  <2>1. /\ call[p].new \in Health /\ call[p].columns \in SUBSET Columns
        /\ KeepsTogether(call[p].columns, call[p].new)
    BY <1>6 DEF Write, WayOutKept, WritesKeepTogether, TypeOK, Call
  <2>2. Newest(p) \in Health /\ HasWayOut(Newest(p))
    BY SeenType, CallersAssumption DEF Newest, WayOutKept, CircuitHasWayOut
  <2>3. HasWayOut(draft') /\ settings' = settings
    BY <1>6, <2>1, <2>2, MergeHasWayOut DEF Write
  <2>4. \A q \in Callers : call'[q].pc = "write" => call'[q] = call[q]
    BY <1>6 DEF Write, TypeOK, Call
  <2> QED
    BY <2>3, <2>4 DEF WayOutKept, CircuitHasWayOut, WritesKeepTogether
<1>7. ASSUME NEW p \in Callers, Finish(p) \/ Crash(p)
      PROVE  WayOutKept'
  BY <1>7, EndsKeeps DEF Finish, Crash
<1>8. CASE MutexExpires \/ ProviderChanges \/ UNCHANGED vars
  <2>1. UNCHANGED row /\ call' = call
    BY <1>8 DEF MutexExpires, ProviderChanges, vars, row
  <2> QED
    BY <2>1, QuietKeeps
<1>9. CASE Tick
  <2>1. /\ settings' = AgedRow(settings) /\ draft' = AgedRow(draft) /\ rowLock' = rowLock
        /\ settings \in Health /\ draft \in Health
    BY <1>9 DEF Tick, TypeOK
  <2>2. CircuitHasWayOut'
    BY <2>1, AgedHasWayOut DEF WayOutKept, CircuitHasWayOut
  <2>3. ASSUME NEW q \in Callers, call'[q].pc = "write"
        PROVE  KeepsTogether(call'[q].columns, call'[q].new)
    <3>1. /\ call[q].pc = "write" /\ call'[q].columns = call[q].columns
          /\ call'[q].new = AgedRow(call[q].new) /\ call[q].new \in Health
      BY <1>9, <2>3 DEF Tick, TypeOK, Call
    <3> QED
      BY <3>1, AgedHasWayOut DEF WayOutKept, WritesKeepTogether
  <2> QED
    BY <2>2, <2>3 DEF WayOutKept, WritesKeepTogether
<1> QED
  BY <1>1, <1>2, <1>3, <1>4, <1>5, <1>6, <1>7, <1>8, <1>9 DEF Next, Step, Admission, Recording

\* An open circuit has a date to let a probe through and a half-open one a date to give
\* its probe up, although updates made from snapshots of any age write some columns only.
THEOREM WayOut == Spec => []CircuitHasWayOut
<1>1. Init => WayOutKept
  <2>1. Init => settings = ClosedRow /\ rowLock = Nobody /\ \A p \in Callers : call[p].pc = "idle"
    BY DEF Init, Rested, Fresh
  <2> QED
    BY <2>1, ClosedHasWayOut DEF WayOutKept, CircuitHasWayOut, WritesKeepTogether
<1>2. TypeOK /\ WayOutKept /\ [Next]_vars => WayOutKept'
  BY WayOutStep
<1>3. WayOutKept => CircuitHasWayOut
  BY DEF WayOutKept
<1> QED
  BY <1>1, <1>2, <1>3, HealthTypes, PTL DEF Spec
=============================================================================
