---------------------------- MODULE EcfTrailProof ----------------------------
(* Theorems about EcfTrail: type correctness, what verify_event_chain can be  *)
(* relied on for, what the migration leaves alone and what a stored signature *)
(* stands for.                                                                *)
EXTENDS EcfTrail, TLAPS

-----------------------------------------------------------------------------
(* Type correctness *)

LEMMA NewType == NewRow \in Row /\ Idle \in Transaction
<1>1. NewRow \in Row
  BY DEF NewRow, Row, Status, NoSignature
<1>2. "Pending" \in Status /\ NoEvent \in Sight /\ <<>> \in Seq(Event)
  BY DEF Status, NoEvent, Sight
<1> QED
  BY <1>1, <1>2 DEF Idle, Transaction

LEMMA InitType == Init => TypeOK
<1> SUFFICES ASSUME Init PROVE TypeOK
  OBVIOUS
<1>1. PICK s \in {"Pending", "UNCONFIRMED", "RECIBIDO", "ERROR"} :
         /\ row = [NewRow EXCEPT !.status = s]
         /\ events = [i \in 1..Legacy |-> [seq |-> 0, prev |-> 0, hash |-> 0]]
  BY DEF Init
<1>2. s \in Status
  BY DEF Status, REMOTE_IN_FLIGHT_STATUSES, BLOCKED_STATUSES
<1>3. row \in Row
  BY <1>1, <1>2, NewType DEF Row
<1>4. events \in Seq(Event)
  <2>1. [seq |-> 0, prev |-> 0, hash |-> 0] \in Event /\ Legacy \in Nat
    BY BoundsAssumption DEF Event
  <2> QED
    BY <1>1, <2>1
<1> QED
  BY <1>3, <1>4, NewType DEF Init, TypeOK

LEMMA NewestType ==
    ASSUME TypeOK, NEW h \in Newest
    PROVE  h \in Sight
<1>1. CASE h = NoEvent
  BY <1>1 DEF NoEvent, Sight
<1>2. CASE h # NoEvent
  <2>1. PICK i \in DOMAIN events : h = [seq |-> events[i].seq, hash |-> events[i].hash]
    BY <1>2 DEF Newest
  <2>2. events[i] \in Event
    BY <2>1 DEF TypeOK
  <2> QED
    BY <2>1, <2>2 DEF Sight, Event
<1> QED
  BY <1>1, <1>2

LEMMA RecordType ==
    ASSUME TypeOK, NEW h \in Sight, NEW n \in 1..3
    PROVE  /\ Record(h, n) \in Seq(Event)
           /\ Len(Record(h, n)) = n
           /\ \A i \in 1..n : /\ Record(h, n)[i].seq = h.seq + i
                              /\ Record(h, n)[i].hash = Len(events) + i
                              /\ Record(h, n)[i].prev = IF i = 1 THEN h.hash
                                                                ELSE Len(events) + i - 1
<1>1. Len(events) \in Nat /\ h.seq \in Nat /\ h.hash \in Nat
  BY DEF TypeOK, Sight
<1>2. ASSUME NEW i \in 1..n
      PROVE  NextEvent(h, i) \in Event
  <2>1. /\ h.seq + i \in Nat /\ Len(events) + i \in Nat
        /\ (IF i = 1 THEN h.hash ELSE Len(events) + i - 1) \in Nat
    BY <1>1
  <2> QED
    BY <2>1 DEF NextEvent, Event
<1>3. Record(h, n) = [i \in 1..n |-> NextEvent(h, i)]
  BY DEF Record
<1>4. n \in Nat
  OBVIOUS
<1>5. Record(h, n) \in Seq(Event) /\ Len(Record(h, n)) = n
  BY <1>2, <1>3, <1>4
<1> QED
  BY <1>3, <1>5 DEF NextEvent

LEMMA WrittenType ==
    ASSUME NEW r \in Row, NEW seen, NEW s \in Status
    PROVE  Written(r, seen, s) \in Row
<1>1. NoSignature \in Signature \cup {NoSignature}
  OBVIOUS
<1>2. CASE s \in ACCEPTED_STATUSES
  <2>1. Written(r, seen, s) =
           [r EXCEPT !.status = s, !.level = "none", !.signature = NoSignature,
                     !.unconfirmed = "none"]
    BY <1>2 DEF Written, ACCEPTED_STATUSES, BLOCKED_STATUSES, REMOTE_IN_FLIGHT_STATUSES
  <2> QED
    BY <1>1, <2>1 DEF Row
<1>3. CASE s \in BLOCKED_STATUSES
  <2>1. Written(r, seen, s) =
           [r EXCEPT !.status = s, !.level = "Critical", !.unconfirmed = "none"]
    BY <1>3 DEF Written, ACCEPTED_STATUSES, BLOCKED_STATUSES, REMOTE_IN_FLIGHT_STATUSES
  <2> QED
    BY <2>1 DEF Row
<1>4. CASE s \in REMOTE_IN_FLIGHT_STATUSES
  <2> DEFINE changed == s # seen.status
             l == IF changed THEN "none" ELSE r.level
             g == IF changed THEN NoSignature ELSE r.signature
             p == IF changed \/ seen.progress = "none" THEN "recent" ELSE r.progress
  <2>1. Written(r, seen, s) =
           [r EXCEPT !.status = s, !.unconfirmed = "none", !.level = l, !.signature = g,
                     !.progress = p]
    BY <1>4 DEF Written, ACCEPTED_STATUSES, BLOCKED_STATUSES, REMOTE_IN_FLIGHT_STATUSES
  <2>2. /\ l \in {"none", "Warning", "Critical"} /\ g \in Signature \cup {NoSignature}
        /\ p \in {"none", "recent", "old"}
    BY <1>1 DEF Row
  <2> HIDE DEF l, g, p
  <2> QED
    BY <2>1, <2>2 DEF Row
<1>5. CASE s = "UNCONFIRMED"
  <2> DEFINE u == IF seen.unconfirmed = "none" THEN "recent" ELSE r.unconfirmed
  <2>1. Written(r, seen, s) = [r EXCEPT !.status = s, !.unconfirmed = u]
    BY <1>5 DEF Written, ACCEPTED_STATUSES, BLOCKED_STATUSES, REMOTE_IN_FLIGHT_STATUSES
  <2>2. u \in {"none", "recent", "old"}
    BY DEF Row
  <2> HIDE DEF u
  <2> QED
    BY <2>1, <2>2 DEF Row
<1>6. CASE s \in {"Pending", "SUBMITTING"}
  <2>1. Written(r, seen, s) = [r EXCEPT !.status = s]
    BY <1>6 DEF Written, ACCEPTED_STATUSES, BLOCKED_STATUSES, REMOTE_IN_FLIGHT_STATUSES
  <2> QED
    BY <2>1 DEF Row
<1> QED
  BY <1>2, <1>3, <1>4, <1>5, <1>6 DEF Status

\* A signature survives a transition or is cleared.
LEMMA WrittenSignature ==
    ASSUME NEW r \in Row, NEW seen, NEW s \in Status
    PROVE  Written(r, seen, s).signature \in {r.signature, NoSignature}
<1>1. CASE s \in ACCEPTED_STATUSES
  BY <1>1 DEF Written, Row
<1>2. CASE s \in BLOCKED_STATUSES
  BY <1>2 DEF Written, Row, ACCEPTED_STATUSES, BLOCKED_STATUSES
<1>3. CASE s \in REMOTE_IN_FLIGHT_STATUSES
  <2> DEFINE changed == s # seen.status
             l == IF changed THEN "none" ELSE r.level
             g == IF changed THEN NoSignature ELSE r.signature
             p == IF changed \/ seen.progress = "none" THEN "recent" ELSE r.progress
  <2>1. Written(r, seen, s) =
           [r EXCEPT !.status = s, !.unconfirmed = "none", !.level = l, !.signature = g,
                     !.progress = p]
    BY <1>3 DEF Written, ACCEPTED_STATUSES, BLOCKED_STATUSES, REMOTE_IN_FLIGHT_STATUSES
  <2> HIDE DEF l, p
  <2>2. Written(r, seen, s).signature = g
    BY <2>1 DEF Row
  <2> QED
    BY <2>2
<1>4. CASE s \in {"Pending", "SUBMITTING", "UNCONFIRMED"}
  BY <1>4 DEF Written, Row, ACCEPTED_STATUSES, BLOCKED_STATUSES, REMOTE_IN_FLIGHT_STATUSES
<1> QED
  BY <1>1, <1>2, <1>3, <1>4 DEF Status

LEMMA SignType ==
    ASSUME NEW r \in Row, NEW sig \in Signature, NEW level \in {"none", "Warning", "Critical"},
           NEW ok \in BOOLEAN
    PROVE  /\ Sign(r, sig, level, ok) \in Row
           /\ ok => Sign(r, sig, level, ok).signature = sig
           /\ ~ok => Sign(r, sig, level, ok) = r
<1>1. CASE ok
  <2>1. Sign(r, sig, level, ok) = [r EXCEPT !.signature = sig, !.level = level]
    BY <1>1 DEF Sign
  <2> QED
    BY <1>1, <2>1 DEF Row
<1>2. CASE ~ok
  BY <1>2 DEF Sign
<1> QED
  BY <1>1, <1>2

\* What a transaction is about to commit: n events after h, the row r with their
\* head, and the alerts said.
Ready(h, to, n, r, said) ==
    [Idle EXCEPT !.pc = "written", !.newest = h, !.to = to, !.own = Record(h, n),
                 !.said = said, !.row = Anchored(r, h, n)]

LEMMA ReadyType ==
    ASSUME TypeOK, NEW h \in Sight, NEW to \in Status, NEW n \in 1..3, NEW r \in Row,
           NEW said \in SUBSET Signature
    PROVE  /\ Ready(h, to, n, r, said) \in Transaction
           /\ Ready(h, to, n, r, said).pc = "written"
           /\ Ready(h, to, n, r, said).newest = h
           /\ Ready(h, to, n, r, said).own = Record(h, n)
           /\ Ready(h, to, n, r, said).said = said
           /\ Ready(h, to, n, r, said).row.count = h.seq + n
           /\ Ready(h, to, n, r, said).row.head = Len(events) + n
           /\ Ready(h, to, n, r, said).row.signature = r.signature
<1> DEFINE a == Anchored(r, h, n)
           o == Record(h, n)
<1>1. h.seq + n \in Nat /\ Len(events) + n \in Nat
  BY DEF Sight, TypeOK
<1>2. /\ a \in Row /\ a.count = h.seq + n /\ a.head = Len(events) + n
      /\ a.signature = r.signature
  BY <1>1 DEF Anchored, Row
<1>3. o \in Seq(Event)
  BY RecordType
<1>4. Ready(h, to, n, r, said) = [Idle EXCEPT !.pc = "written", !.newest = h, !.to = to,
                                             !.own = o, !.said = said, !.row = a]
  BY DEF Ready
<1>5. Idle \in Transaction
  BY NewType
<1> HIDE DEF a, o
<1>6. Ready(h, to, n, r, said) \in Transaction
  BY <1>2, <1>3, <1>4, <1>5 DEF Transaction
<1>7. /\ Ready(h, to, n, r, said).pc = "written"
      /\ Ready(h, to, n, r, said).newest = h
      /\ Ready(h, to, n, r, said).own = o
      /\ Ready(h, to, n, r, said).said = said
      /\ Ready(h, to, n, r, said).row = a
  BY <1>4, <1>5 DEF Transaction
<1> QED
  BY <1>2, <1>6, <1>7 DEF o

\* What the two writers of the trail have in common.
Prepares(a) ==
    \E h \in NewestRead(a), n \in 1..3, r \in Row, said \in SUBSET Signature :
       /\ tx[a].pc = "open" /\ holder = Nobody /\ holder' = a
       /\ tx' = [tx EXCEPT ![a] = Ready(h, tx[a].to, n, r, said)]
       /\ r.signature \in {row.signature, NoSignature} \cup said
       /\ UNCHANGED <<row, events, told, forked, begun>>
       /\ faults' \in Nat

LEMMA TransactionType ==
    ASSUME TypeOK, NEW a \in Actors
    PROVE  /\ tx[a] \in Transaction /\ tx[a].read \in Row /\ tx[a].to \in Status
           /\ tx[a].newest \in Sight /\ tx[a].row \in Row /\ tx[a].own \in Seq(Event)
           /\ tx[a].said \in SUBSET Signature
           /\ NewestRead(a) \subseteq Sight
<1>1. tx[a] \in Transaction
  BY DEF TypeOK
<1>2. tx[a].newest \in Sight
  BY <1>1 DEF Transaction
<1> QED
  BY <1>1, <1>2, NewestType DEF Transaction, NewestRead

LEMMA SignedType ==
    ASSUME NEW s \in Status, NEW kind \in {"blocked", "stalled", "recovered"}
    PROVE  Signed(kind, s) \in Signature
  BY DEF Signed, Signature

LEMMA DispatchesType ==
    ASSUME TypeOK, NEW ok \in Dispatches
    PROVE  ok \in BOOLEAN /\ faults + 1 \in Nat
<1>1. ok \in BOOLEAN
  BY DEF Dispatches
<1>2. faults + 1 \in Nat
  BY DEF TypeOK
<1> QED
  BY <1>1, <1>2

\* One alert, with the row r below its signature.
LEMMA AlertPrepares ==
    ASSUME TypeOK, NEW a \in Actors, tx[a].pc = "open", NEW h \in NewestRead(a),
           NEW ok \in Dispatches, NEW r \in Row, r.signature \in {row.signature, NoSignature},
           NEW sig \in Signature, NEW level \in {"none", "Warning", "Critical"}, NEW n \in 1..3,
           faults' = (IF ok THEN faults ELSE faults + 1),
           Writes(a, h, n, Sign(r, sig, level, ok), IF ok THEN {sig} ELSE {})
    PROVE  Prepares(a)
<1> DEFINE q == Sign(r, sig, level, ok)
           said == IF ok THEN {sig} ELSE {}
<1>1. ok \in BOOLEAN /\ faults' \in Nat
  BY DispatchesType DEF TypeOK
<1>2. q \in Row /\ q.signature \in {row.signature, NoSignature} \cup said
  BY <1>1, SignType
<1>3. said \in SUBSET Signature
  OBVIOUS
<1>4. /\ holder = Nobody /\ holder' = a
      /\ tx' = [tx EXCEPT ![a] = Ready(h, tx[a].to, n, q, said)]
      /\ UNCHANGED <<row, events, told, forked, begun>>
  BY DEF Writes, Ready
<1> HIDE DEF q, said
<1> QED
  BY <1>1, <1>2, <1>3, <1>4 DEF Prepares

LEMMA WritersPrepare ==
    ASSUME TypeOK
    PROVE  /\ \A a \in Workers : ApplyTransition(a) => Prepares(a)
           /\ TaskAlert => Prepares(Task)
<1>1. ASSUME NEW a \in Workers, ApplyTransition(a) PROVE Prepares(a)
  <2> DEFINE s == tx[a].to
             seen == RowRead(a)
             log == Written(seen, seen, s)
             r == Written(row, seen, s)
  <2>1. a \in Actors /\ s \in Status /\ tx[a].pc = "open" /\ row \in Row
    BY <1>1, TransactionType DEF Actors, ApplyTransition, TypeOK
  <2>2. r \in Row /\ r.signature \in {row.signature, NoSignature}
    BY <2>1, WrittenType, WrittenSignature
  <2>3. Signed("blocked", s) \in Signature /\ Signed("recovered", s) \in Signature
    BY <2>1, SignedType
  <2>4. \/ \E ok \in Dispatches, h \in NewestRead(a), sig \in Signature,
              level \in {"none", "Warning", "Critical"} :
                 /\ faults' = IF ok THEN faults ELSE faults + 1
                 /\ Writes(a, h, 3, Sign(r, sig, level, ok), IF ok THEN {sig} ELSE {})
        \/ \E h \in NewestRead(a) : Writes(a, h, 1, r, {}) /\ UNCHANGED faults
    <3> DEFINE alert(sig, level) ==
                  \E ok \in Dispatches, h \in NewestRead(a) :
                     /\ faults' = IF ok THEN faults ELSE faults + 1
                     /\ Writes(a, h, 3, Sign(r, sig, level, ok), IF ok THEN {sig} ELSE {})
    <3>1. \/ alert(Signed("blocked", s), "Critical")
          \/ alert(Signed("recovered", s), "none")
          \/ \E h \in NewestRead(a) : Writes(a, h, 1, r, {}) /\ UNCHANGED faults
      BY <1>1 DEF ApplyTransition
    <3> QED
      BY <2>3, <3>1
  <2> HIDE DEF r, s, seen, log
  <2>5. CASE \E h \in NewestRead(a) : Writes(a, h, 1, r, {}) /\ UNCHANGED faults
    <3>1. PICK h \in NewestRead(a) : Writes(a, h, 1, r, {}) /\ UNCHANGED faults
      BY <2>5
    <3>2. /\ holder = Nobody /\ holder' = a
          /\ tx' = [tx EXCEPT ![a] = Ready(h, tx[a].to, 1, r, {})]
          /\ UNCHANGED <<row, events, told, forked, begun>>
      BY <3>1 DEF Writes, Ready
    <3>3. faults' \in Nat /\ {} \in SUBSET Signature /\ 1 \in 1..3
      BY <3>1 DEF TypeOK
    <3> QED
      BY <2>1, <2>2, <3>2, <3>3 DEF Prepares
  <2>6. ASSUME NEW ok \in Dispatches, NEW h \in NewestRead(a), NEW sig \in Signature,
               NEW level \in {"none", "Warning", "Critical"},
               faults' = (IF ok THEN faults ELSE faults + 1),
               Writes(a, h, 3, Sign(r, sig, level, ok), IF ok THEN {sig} ELSE {})
        PROVE  Prepares(a)
    BY <2>1, <2>2, <2>6, AlertPrepares
  <2> QED
    BY <2>4, <2>5, <2>6
<1>2. ASSUME TaskAlert PROVE Prepares(Task)
  <2> DEFINE seen == tx[Task].read
             kind == IF seen.status \in BLOCKED_STATUSES THEN "blocked" ELSE "stalled"
             level == IF kind = "blocked" THEN "Critical" ELSE StalledLevel(seen)
             sig == Signed(kind, seen.status)
  <2>1. /\ Task \in Actors /\ seen \in Row /\ seen.status \in Status /\ tx[Task].pc = "open"
        /\ row \in Row
    BY <1>2, TransactionType DEF Actors, TaskAlert, TypeOK, Row
  <2>2. /\ kind \in {"blocked", "stalled", "recovered"}
        /\ level \in {"none", "Warning", "Critical"}
    BY DEF StalledLevel
  <2>3. sig \in Signature
    BY <2>1, <2>2, SignedType
  <2>4. PICK ok \in Dispatches, h \in NewestRead(Task) :
           /\ faults' = IF ok THEN faults ELSE faults + 1
           /\ Writes(Task, h, 2, Sign(row, sig, level, ok), IF ok THEN {sig} ELSE {})
    BY <1>2 DEF TaskAlert
  <2> HIDE DEF sig, level, kind, seen
  <2> QED
    BY <2>1, <2>2, <2>3, <2>4, AlertPrepares
<1> QED
  BY <1>1, <1>2

\* A step of the specification, with the two writers taken together.
LEMMA NextCases ==
    ASSUME TypeOK, [Next]_vars
    PROVE  \/ \E a \in Workers : Begin(a)
           \/ TaskSelect
           \/ \E a \in Actors : Prepares(a) \/ Commit(a) \/ Crash(a)
           \/ QuarterPasses \/ HourPasses \/ Backfill
           \/ UNCHANGED vars
  BY WritersPrepare DEF Next, Step, Alerting, Actors


LEMMA NextType == TypeOK /\ [Next]_vars => TypeOK'
<1> SUFFICES ASSUME TypeOK, [Next]_vars PROVE TypeOK'
  OBVIOUS
<1>1. Workers \subseteq Actors /\ Task \in Actors /\ Idle \in Transaction
  BY NewType DEF Actors
<1>2. ASSUME NEW a \in Workers, Begin(a) PROVE TypeOK'
  <2>1. PICK s \in Status, h \in Newest :
           tx' = [tx EXCEPT ![a] = [Idle EXCEPT !.pc = "open", !.read = Fields(row),
                                                !.newest = h, !.to = s]]
    BY <1>2 DEF Begin, Follows, Status, REMOTE_IN_FLIGHT_STATUSES, ACCEPTED_STATUSES,
                BLOCKED_STATUSES
  <2>2. h \in Sight /\ Fields(row) \in Row
    BY NewestType DEF Fields, TypeOK, Row
  <2>3. [Idle EXCEPT !.pc = "open", !.read = Fields(row), !.newest = h, !.to = s]
           \in Transaction
    BY <1>1, <2>1, <2>2 DEF Transaction
  <2>4. begun' \in Nat
    BY <1>2 DEF Begin, TypeOK
  <2> QED
    BY <1>1, <1>2, <2>1, <2>3, <2>4 DEF Begin, TypeOK
<1>3. ASSUME TaskSelect PROVE TypeOK'
  <2>1. PICK h \in Newest :
           tx' = [tx EXCEPT ![Task] = [Idle EXCEPT !.pc = "open", !.read = Fields(row),
                                                   !.newest = h, !.to = row.status]]
    BY <1>3 DEF TaskSelect
  <2>2. h \in Sight /\ Fields(row) \in Row /\ row.status \in Status
    BY NewestType DEF Fields, TypeOK, Row
  <2>3. [Idle EXCEPT !.pc = "open", !.read = Fields(row), !.newest = h, !.to = row.status]
           \in Transaction
    BY <1>1, <2>1, <2>2 DEF Transaction
  <2> QED
    BY <1>1, <1>3, <2>1, <2>3 DEF TaskSelect, TypeOK
<1>4. ASSUME NEW a \in Actors, Prepares(a) PROVE TypeOK'
  <2>1. PICK h \in NewestRead(a), n \in 1..3, r \in Row, said \in SUBSET Signature :
           tx' = [tx EXCEPT ![a] = Ready(h, tx[a].to, n, r, said)]
    BY <1>4 DEF Prepares
  <2>2. h \in Sight /\ tx[a].to \in Status
    BY TransactionType
  <2>3. Ready(h, tx[a].to, n, r, said) \in Transaction
    BY <2>2, ReadyType
  <2> QED
    BY <1>4, <2>1, <2>3 DEF Prepares, TypeOK
<1>5. ASSUME NEW a \in Actors, Commit(a) PROVE TypeOK'
  <2>1. tx[a].row \in Row /\ tx[a].own \in Seq(Event) /\ tx[a].said \in SUBSET Signature
    BY TransactionType
  <2>2. events' \in Seq(Event)
    BY <1>5, <2>1 DEF Commit, TypeOK
  <2> QED
    BY <1>1, <1>5, <2>1, <2>2 DEF Commit, TypeOK
<1>6. ASSUME NEW a \in Actors, Crash(a) PROVE TypeOK'
  BY <1>1, <1>6 DEF Crash, TypeOK
<1>7. ASSUME QuarterPasses PROVE TypeOK'
  BY <1>7 DEF QuarterPasses, TypeOK, Row
<1>8. ASSUME HourPasses PROVE TypeOK'
  BY <1>8 DEF HourPasses, TypeOK, Row
<1>9. ASSUME Backfill PROVE TypeOK'
  <2>1. Len(events) \in Nat /\ DOMAIN events = 1..Len(events)
    BY DEF TypeOK
  <2>2. ASSUME NEW i \in DOMAIN events
        PROVE  [events[i] EXCEPT !.seq = i, !.prev = i - 1, !.hash = i] \in Event
    <3>1. i \in Nat /\ i - 1 \in Nat /\ events[i] \in Event
      BY <2>1 DEF TypeOK
    <3> QED
      BY <3>1 DEF Event
  <2>3. events' \in Seq(Event)
    <3> DEFINE e(i) == [events[i] EXCEPT !.seq = i, !.prev = i - 1, !.hash = i]
               n == Len(events)
    <3>1. events' = [i \in 1..n |-> e(i)]
      BY <1>9, <2>1 DEF Backfill
    <3>2. \A i \in 1..n : e(i) \in Event
      BY <2>1, <2>2
    <3>3. n \in Nat
      BY <2>1
    <3> HIDE DEF e, n
    <3> QED
      BY <3>1, <3>2, <3>3
  <2>4. row' \in Row
    BY <1>9, <2>1 DEF Backfill, TypeOK, Row
  <2> QED
    BY <1>9, <2>3, <2>4 DEF Backfill, TypeOK
<1>10. ASSUME UNCHANGED vars PROVE TypeOK'
  BY <1>10 DEF vars, TypeOK
<1> QED
  BY <1>2, <1>3, <1>4, <1>5, <1>6, <1>7, <1>8, <1>9, <1>10, NextCases

\* Every reachable state is of its type: no order of transitions, alerts, crashes,
\* passing time and migrations gives the row, the chain or a transaction a value
\* their columns do not have.
THEOREM TypeCorrect == Spec => []TypeOK
<1> QED
  BY InitType, NextType, PTL DEF Spec

-----------------------------------------------------------------------------
(* What the migration leaves alone *)

\* An anchored chain is never rewritten: backfill_delivery_event_integrity leaves
\* it alone and every transaction only appends to it.
THEOREM AnchoredIsKept == Spec => EvidenceIsKept
<1> DEFINE Kept == HasAnchor => /\ Len(events') >= Len(events)
                                /\ \A i \in DOMAIN events : events'[i] = events[i]
<1>1. ASSUME TypeOK, [Next]_vars PROVE Kept
  <2>0. Len(events) \in Nat /\ events \in Seq(Event)
    BY <1>1 DEF TypeOK
  <2>1. CASE events' = events
    BY <2>0, <2>1
  <2>2. ASSUME NEW a \in Actors, Commit(a) PROVE Kept
    <3>1. tx[a].own \in Seq(Event) /\ events' = events \o tx[a].own
      BY <1>1, <2>2, TransactionType DEF Commit
    <3>2. Len(tx[a].own) \in Nat
      BY <3>1
    <3>3. Len(events') = Len(events) + Len(tx[a].own)
      BY <2>0, <3>1
    <3>4. \A i \in DOMAIN events : events'[i] = events[i]
      BY <2>0, <3>1
    <3> QED
      BY <2>0, <3>2, <3>3, <3>4
  <2>3. ASSUME Backfill PROVE Kept
    <3>1. row.count = 0
      BY <2>3 DEF Backfill
    <3>2. ~HasAnchor
      BY <3>1 DEF HasAnchor
    <3> QED
      BY <3>2
  <2>4. \/ events' = events
        \/ \E a \in Actors : Commit(a)
        \/ Backfill
    BY <1>1, NextCases DEF Begin, TaskSelect, Prepares, Crash, QuarterPasses, HourPasses, vars
  <2> QED
    BY <2>1, <2>2, <2>3, <2>4
<1>2. TypeOK /\ [Next]_vars => [Kept]_vars
  BY <1>1
<1> QED
  BY <1>2, TypeCorrect, PTL DEF Spec, EvidenceIsKept


-----------------------------------------------------------------------------
(* What a stored signature stands for *)

\* A signature about to be committed is that of an alert told before, or told by
\* the same transaction.
Heard ==
    /\ SilenceIsEarned
    /\ \A a \in Actors :
          tx[a].pc = "written" =>
             tx[a].row.signature \in {NoSignature} \cup told \cup tx[a].said

LEMMA InitHeard == Init => Heard
  BY DEF Init, Heard, SilenceIsEarned, NewRow, Idle

LEMMA NextHeard == TypeOK /\ Heard /\ [Next]_vars => Heard'
<1> SUFFICES ASSUME TypeOK, Heard, [Next]_vars PROVE Heard'
  OBVIOUS
<1>0. tx \in [Actors -> Transaction] /\ Idle.pc # "written" /\ row \in Row
  BY DEF TypeOK, Idle
<1>1. ASSUME NEW a \in Actors, NEW t, t.pc # "written", tx' = [tx EXCEPT ![a] = t],
             UNCHANGED <<row, told>>
      PROVE  Heard'
  <2>1. \A b \in Actors : tx'[b].pc = "written" => tx'[b] = tx[b]
    BY <1>0, <1>1
  <2> QED
    BY <1>1, <2>1 DEF Heard, SilenceIsEarned
<1>2. ASSUME NEW a \in Workers, Begin(a) PROVE Heard'
  <2>1. PICK s \in Status, h \in Newest :
           tx' = [tx EXCEPT ![a] = [Idle EXCEPT !.pc = "open", !.read = Fields(row),
                                                !.newest = h, !.to = s]]
    BY <1>2 DEF Begin, Follows, Status, REMOTE_IN_FLIGHT_STATUSES, ACCEPTED_STATUSES,
                BLOCKED_STATUSES
  <2>2. [Idle EXCEPT !.pc = "open", !.read = Fields(row), !.newest = h, !.to = s].pc
           # "written"
    BY DEF Idle
  <2> QED
    BY <1>1, <1>2, <2>1, <2>2 DEF Begin, Actors
<1>3. ASSUME TaskSelect PROVE Heard'
  <2>1. PICK h \in Newest :
           tx' = [tx EXCEPT ![Task] = [Idle EXCEPT !.pc = "open", !.read = Fields(row),
                                                   !.newest = h, !.to = row.status]]
    BY <1>3 DEF TaskSelect
  <2>2. [Idle EXCEPT !.pc = "open", !.read = Fields(row), !.newest = h,
                     !.to = row.status].pc # "written"
    BY DEF Idle
  <2> QED
    BY <1>1, <1>3, <2>1, <2>2 DEF TaskSelect, Actors
<1>4. ASSUME NEW a \in Actors, Prepares(a) PROVE Heard'
  <2>1. PICK h \in NewestRead(a), n \in 1..3, r \in Row, said \in SUBSET Signature :
           /\ tx' = [tx EXCEPT ![a] = Ready(h, tx[a].to, n, r, said)]
           /\ r.signature \in {row.signature, NoSignature} \cup said
           /\ UNCHANGED <<row, told>>
    BY <1>4 DEF Prepares
  <2> DEFINE t == Ready(h, tx[a].to, n, r, said)
  <2>2. t.said = said /\ t.row.signature = r.signature
    BY TransactionType, ReadyType
  <2>3. r.signature \in {NoSignature} \cup told \cup said
    BY <2>1 DEF Heard, SilenceIsEarned
  <2>4. \A b \in Actors : tx'[b] = IF b = a THEN t ELSE tx[b]
    BY <1>0, <2>1
  <2> HIDE DEF t
  <2> QED
    BY <2>1, <2>2, <2>3, <2>4 DEF Heard, SilenceIsEarned
<1>5. ASSUME NEW a \in Actors, Commit(a) PROVE Heard'
  <2>1. /\ tx[a].pc = "written" /\ row' = tx[a].row /\ told' = told \cup tx[a].said
        /\ tx' = [tx EXCEPT ![a] = Idle]
    BY <1>5 DEF Commit
  <2>2. SilenceIsEarned'
    BY <2>1 DEF Heard, SilenceIsEarned
  <2>3. \A b \in Actors : tx'[b].pc = "written" => tx'[b] = tx[b]
    BY <1>0, <2>1
  <2> QED
    BY <2>1, <2>2, <2>3 DEF Heard
<1>6. ASSUME NEW a \in Actors, Crash(a) PROVE Heard'
  BY <1>0, <1>1, <1>6 DEF Crash
<1>7. ASSUME UNCHANGED <<tx, told>>, row'.signature = row.signature PROVE Heard'
  BY <1>7 DEF Heard, SilenceIsEarned
<1>8. ASSUME QuarterPasses \/ HourPasses \/ Backfill \/ UNCHANGED vars PROVE Heard'
  <2>1. UNCHANGED <<tx, told>>
    BY <1>8 DEF QuarterPasses, HourPasses, Backfill, vars
  <2>2. ASSUME QuarterPasses PROVE row'.signature = row.signature
    BY <1>0, <2>2 DEF QuarterPasses, Row
  <2>3. ASSUME HourPasses PROVE row'.signature = row.signature
    BY <1>0, <2>3 DEF HourPasses, Row
  <2>4. ASSUME Backfill PROVE row'.signature = row.signature
    BY <1>0, <2>4 DEF Backfill, Row
  <2>5. ASSUME UNCHANGED vars PROVE row'.signature = row.signature
    BY <2>5 DEF vars
  <2>6. row'.signature = row.signature
    BY <1>8, <2>2, <2>3, <2>4, <2>5
  <2> QED
    BY <1>7, <2>1, <2>6
<1> QED
  BY <1>2, <1>3, <1>4, <1>5, <1>6, <1>8, NextCases

\* A signature that keeps the code silent is that of an alert that was delivered
\* by a transaction that committed, whatever crashes, snapshots and handlers do.
THEOREM SilenceWasEarned == Spec => []SilenceIsEarned
<1>1. TypeOK /\ Heard /\ [Next]_vars => TypeOK' /\ Heard'
  BY NextType, NextHeard
<1>2. Init => TypeOK /\ Heard
  BY InitType, InitHeard
<1>3. Heard => SilenceIsEarned
  BY DEF Heard
<1> QED
  BY <1>1, <1>2, <1>3, PTL DEF Spec


-----------------------------------------------------------------------------
(* What the verification can be relied on for *)

\* What is known of an event a transaction took for the newest.
Plausible(h) ==
    /\ h.seq <= Len(events)
    /\ row.count = 0 => h.seq = 0 /\ h.hash = 0
    /\ forked => h.seq < Len(events)
    /\ ~forked => h.seq = h.hash

\* Before the anchor the events have no hashes.
Unhashed ==
    row.count = 0 =>
       /\ ~forked /\ row.head = 0
       /\ \A i \in 1..Len(events) : events[i].seq = 0 /\ events[i].hash = 0

\* A chain that was never forked is numbered from 1, each event after the last.
Sound ==
    row.count > 0 /\ ~forked =>
       /\ row.count = Len(events) /\ row.head = Len(events)
       /\ \A i \in 1..Len(events) :
             events[i].seq = i /\ events[i].prev = i - 1 /\ events[i].hash = i

\* A forked chain has used some number twice: it has more events than numbers.
Broken ==
    forked => /\ row.count < Len(events)
              /\ \A i \in 1..Len(events) : events[i].seq < Len(events)

\* A transaction that has written holds the row, and its events follow what it
\* took for the newest one.
Pending(a) ==
    tx[a].pc = "written" =>
       /\ holder = a
       /\ \E n \in 1..3 : /\ tx[a].own = Record(tx[a].newest, n)
                          /\ tx[a].row.count = tx[a].newest.seq + n
                          /\ tx[a].row.head = Len(events) + n

Chained ==
    /\ Unhashed /\ Sound /\ Broken
    /\ \A a \in Actors : Plausible(tx[a].newest) /\ Pending(a)

LEMMA InitChained == Init => Chained
<1> SUFFICES ASSUME Init PROVE Chained
  OBVIOUS
<1>1. row.count = 0 /\ row.head = 0 /\ forked = FALSE
  BY DEF Init, NewRow
<1>2. events = [i \in 1..Legacy |-> [seq |-> 0, prev |-> 0, hash |-> 0]] /\ Legacy \in Nat
  BY BoundsAssumption DEF Init
<1>3. Len(events) = Legacy
  BY <1>2
<1>4. \A i \in 1..Len(events) : events[i].seq = 0 /\ events[i].hash = 0
  BY <1>2, <1>3
<1>5. \A a \in Actors : tx[a].newest.seq = 0 /\ tx[a].newest.hash = 0 /\ tx[a].pc = "idle"
  BY DEF Init, Idle, NoEvent
<1>6. Unhashed /\ Sound /\ Broken
  BY <1>1, <1>4 DEF Unhashed, Sound, Broken
<1>7. ASSUME NEW a \in Actors PROVE Plausible(tx[a].newest) /\ Pending(a)
  BY <1>1, <1>2, <1>3, <1>5 DEF Plausible, Pending
<1> QED
  BY <1>6, <1>7 DEF Chained

\* What a transaction may take for the newest event.
LEMMA NewestPlausible ==
    ASSUME TypeOK, Chained, NEW h \in Newest
    PROVE  Plausible(h)
<1>1. Len(events) \in Nat /\ row.count \in Nat /\ forked \in BOOLEAN
      /\ DOMAIN events = 1..Len(events)
  BY DEF TypeOK, Row
<1>2. CASE h = NoEvent
  <2>1. h.seq = 0 /\ h.hash = 0
    BY <1>2 DEF NoEvent
  <2>2. forked => 0 < Len(events)
    BY <1>1 DEF Chained, Broken
  <2> QED
    BY <1>1, <2>1, <2>2 DEF Plausible
<1>3. CASE h # NoEvent
  <2>1. PICK i \in 1..Len(events) : h = [seq |-> events[i].seq, hash |-> events[i].hash]
    BY <1>1, <1>3 DEF Newest
  <2>2. h.seq = events[i].seq /\ h.hash = events[i].hash /\ events[i].seq \in Nat
    <3>1. events[i] \in Event
      BY <1>1, <2>1 DEF TypeOK
    <3>2. events[i].seq \in Nat
      BY <3>1 DEF Event
    <3> QED
      BY <2>1, <3>2
  <2>3. CASE row.count = 0
    BY <1>1, <2>2, <2>3 DEF Chained, Unhashed, Plausible
  <2>4. CASE row.count > 0 /\ ~forked
    BY <1>1, <2>2, <2>4 DEF Chained, Sound, Plausible
  <2>5. CASE row.count > 0 /\ forked
    BY <1>1, <2>2, <2>5 DEF Chained, Broken, Plausible
  <2>6. row.count = 0 \/ row.count > 0
    BY <1>1
  <2> QED
    BY <2>3, <2>4, <2>5, <2>6
<1> QED
  BY <1>2, <1>3

LEMMA NothingIsPlausible ==
    ASSUME TypeOK, Chained
    PROVE  Plausible(Idle.newest)
<1>1. Idle.newest.seq = 0 /\ Idle.newest.hash = 0
  BY DEF Idle, NoEvent
<1>2. Len(events) \in Nat /\ row.count \in Nat
  BY DEF TypeOK, Row
<1>3. forked => 0 < Len(events)
  BY <1>2 DEF Chained, Broken
<1> QED
  BY <1>1, <1>2, <1>3 DEF Plausible


\* A transaction begins, or is rolled back.
LEMMA OneChanges ==
    ASSUME TypeOK, Chained, NEW a \in Actors, NEW t, t.pc # "written", Plausible(t.newest),
           tx' = [tx EXCEPT ![a] = t], UNCHANGED <<row, events, forked>>,
           \A b \in Actors : b # a /\ holder = b => holder' = b
    PROVE  Chained'
<1>1. \A b \in Actors : tx'[b] = IF b = a THEN t ELSE tx[b]
  BY DEF TypeOK
<1>2. Unhashed' /\ Sound' /\ Broken'
  BY DEF Chained, Unhashed, Sound, Broken
<1>3. ASSUME NEW b \in Actors PROVE (Plausible(tx[b].newest) /\ Pending(b))'
  <2>1. CASE b = a
    BY <1>1, <2>1 DEF Plausible, Pending
  <2>2. CASE b # a
    <3>1. tx'[b] = tx[b]
      BY <1>1, <2>2
    <3>2. Plausible(tx[b].newest) /\ Pending(b)
      BY DEF Chained
    <3>3. Plausible(tx[b].newest)'
      BY <3>1, <3>2 DEF Plausible
    <3>4. Pending(b)'
      BY <2>2, <3>1, <3>2 DEF Pending, Record, NextEvent
    <3> QED
      BY <3>3, <3>4
  <2> QED
    BY <2>1, <2>2
<1> QED
  BY <1>2, <1>3 DEF Chained

LEMMA PreparesChained ==
    ASSUME TypeOK, Chained, NEW a \in Actors, Prepares(a)
    PROVE  Chained'
<1>1. PICK h \in NewestRead(a), n \in 1..3, r \in Row, said \in SUBSET Signature :
         tx' = [tx EXCEPT ![a] = Ready(h, tx[a].to, n, r, said)]
  BY DEF Prepares
<1>2. holder = Nobody /\ holder' = a /\ UNCHANGED <<row, events, forked>>
  BY DEF Prepares
<1> DEFINE t == Ready(h, tx[a].to, n, r, said)
<1>3. /\ t.newest = h /\ t.own = Record(h, n) /\ t.row.count = h.seq + n
      /\ t.row.head = Len(events) + n
  BY TransactionType, ReadyType
<1>4. Plausible(h)
  <2>1. CASE SnapshotReads
    BY <2>1 DEF NewestRead, Chained
  <2>2. CASE ~SnapshotReads
    BY <2>2, NewestPlausible DEF NewestRead
  <2> QED
    BY <2>1, <2>2
<1>5. tx' = [tx EXCEPT ![a] = t]
  BY <1>1
<1> HIDE DEF t
<1>6. \A b \in Actors : tx'[b] = IF b = a THEN t ELSE tx[b]
  BY <1>5 DEF TypeOK
<1>7. Unhashed' /\ Sound' /\ Broken'
  BY <1>2 DEF Chained, Unhashed, Sound, Broken
<1>8. ASSUME NEW b \in Actors PROVE (Plausible(tx[b].newest) /\ Pending(b))'
  <2>1. CASE b = a
    <3>1. tx'[b].newest = h /\ tx'[b].own = Record(h, n)
          /\ tx'[b].row.count = h.seq + n /\ tx'[b].row.head = Len(events) + n
      BY <1>3, <1>6, <2>1
    <3>2. Plausible(tx[b].newest)'
      BY <1>2, <1>4, <3>1 DEF Plausible
    <3>3. Pending(b)'
      BY <1>2, <2>1, <3>1 DEF Pending, Record, NextEvent
    <3> QED
      BY <3>2, <3>3
  <2>2. CASE b # a
    <3>1. tx'[b] = tx[b]
      BY <1>6, <2>2
    <3>2. Plausible(tx[b].newest) /\ Pending(b)
      BY DEF Chained
    <3>3. tx[b].pc # "written"
      BY <1>2, <3>2, ActorsAssumption DEF Pending, Actors
    <3> QED
      BY <1>2, <3>1, <3>2, <3>3 DEF Plausible, Pending
  <2> QED
    BY <2>1, <2>2
<1> QED
  BY <1>7, <1>8 DEF Chained

LEMMA CommitChained ==
    ASSUME TypeOK, Chained, NEW a \in Actors, Commit(a)
    PROVE  Chained'
<1> DEFINE h == tx[a].newest
           own == tx[a].own
           len == Len(events)
<1>1. tx[a].pc = "written" /\ Plausible(h) /\ Pending(a)
  BY DEF Commit, Chained
<1>2. PICK n \in 1..3 : own = Record(h, n) /\ tx[a].row.count = h.seq + n
                        /\ tx[a].row.head = len + n
  BY <1>1 DEF Pending
<1>3. /\ row'.count = h.seq + n /\ row'.head = len + n /\ events' = events \o own
      /\ forked' = (forked \/ h.hash # len) /\ tx' = [tx EXCEPT ![a] = Idle]
  BY <1>2 DEF Commit
<1>4. /\ h \in Sight /\ h.seq \in Nat /\ h.hash \in Nat /\ len \in Nat /\ n \in 1..3
      /\ row.count \in Nat /\ forked \in BOOLEAN
  BY TransactionType DEF Sight, TypeOK, Row
<1>5. /\ own \in Seq(Event) /\ Len(own) = n
      /\ \A j \in 1..n : /\ own[j].seq = h.seq + j /\ own[j].hash = len + j
                         /\ own[j].prev = IF j = 1 THEN h.hash ELSE len + j - 1
  <2>1. /\ Record(h, n) \in Seq(Event) /\ Len(Record(h, n)) = n
        /\ \A j \in 1..n :
              /\ Record(h, n)[j].seq = h.seq + j /\ Record(h, n)[j].hash = len + j
              /\ Record(h, n)[j].prev = IF j = 1 THEN h.hash ELSE len + j - 1
    BY <1>4, RecordType
  <2>2. own = Record(h, n)
    BY <1>2
  <2> HIDE DEF own, h, len
  <2> QED
    BY <2>1, <2>2
<1>6. /\ Len(events') = len + n
      /\ \A i \in 1..len : events'[i] = events[i]
      /\ \A i \in (len + 1)..(len + n) : events'[i] = own[i - len] /\ i - len \in 1..n
  BY <1>3, <1>4, <1>5 DEF TypeOK
<1>7. /\ h.seq <= len /\ (row.count = 0 => h.seq = 0 /\ h.hash = 0)
      /\ (forked => h.seq < len) /\ (~forked => h.seq = h.hash)
  BY <1>1 DEF Plausible
<1>8. /\ row.count = 0 => \A i \in 1..len : events[i].seq = 0
      /\ row.count > 0 /\ ~forked =>
            \A i \in 1..len : events[i].seq = i /\ events[i].prev = i - 1 /\ events[i].hash = i
      /\ forked => \A i \in 1..len : events[i].seq < len
  BY DEF Chained, Unhashed, Sound, Broken
<1>9. \A b \in Actors : /\ tx'[b] = IF b = a THEN Idle ELSE tx[b]
                        /\ Plausible(tx[b].newest)
                        /\ tx'[b].pc # "written"
  <2>1. \A b \in Actors : tx'[b] = IF b = a THEN Idle ELSE tx[b]
    BY <1>3 DEF TypeOK
  <2>2. Idle.pc # "written"
    BY DEF Idle
  <2>3. \A b \in Actors : b # a => tx[b].pc # "written"
    BY <1>1 DEF Chained, Pending
  <2> QED
    BY <2>1, <2>2, <2>3 DEF Chained
<1>10. Idle.newest.seq = 0 /\ Idle.newest.hash = 0
  BY DEF Idle, NoEvent
<1> HIDE DEF h, own, len
<1>11. Unhashed'
  BY <1>3, <1>4 DEF Unhashed
<1>12. Sound'
  <2> SUFFICES ASSUME ~forked'
               PROVE  /\ row'.count = Len(events') /\ row'.head = Len(events')
                      /\ \A i \in 1..Len(events') :
                            /\ events'[i].seq = i /\ events'[i].prev = i - 1
                            /\ events'[i].hash = i
    BY DEF Sound
  <2>1. ~forked /\ h.hash = len /\ h.seq = len
    BY <1>3, <1>7
  <2>2. ASSUME NEW i \in 1..(len + n)
        PROVE  events'[i].seq = i /\ events'[i].prev = i - 1 /\ events'[i].hash = i
    <3>1. CASE i \in 1..len
      <4>1. row.count > 0
        BY <1>4, <1>7, <2>1, <3>1
      <4> QED
        BY <1>6, <1>8, <2>1, <3>1, <4>1
    <3>2. CASE i \in (len + 1)..(len + n)
      <4> DEFINE j == i - len
      <4>1. events'[i] = own[j] /\ j \in 1..n /\ len + j = i
        BY <1>4, <1>6, <3>2
      <4>2. h.seq + j = i /\ (j = 1 => h.hash = i - 1) /\ len + j - 1 = i - 1
        BY <1>4, <2>1, <4>1
      <4> HIDE DEF j
      <4> QED
        BY <1>5, <4>1, <4>2
    <3>3. i \in 1..len \/ i \in (len + 1)..(len + n)
      BY <1>4
    <3> QED
      BY <3>1, <3>2, <3>3
  <2> QED
    BY <1>3, <1>6, <2>1, <2>2
<1>13. Broken'
  <2> SUFFICES ASSUME forked'
               PROVE  /\ row'.count < Len(events')
                      /\ \A i \in 1..Len(events') : events'[i].seq < Len(events')
    BY DEF Broken
  <2>1. h.seq < len
    BY <1>3, <1>4, <1>7
  <2>2. ASSUME NEW i \in 1..(len + n)
        PROVE  events'[i].seq < len + n
    <3>1. CASE i \in 1..len
      <4>1. events'[i].seq \in {0, i} \/ events'[i].seq < len
        BY <1>4, <1>6, <1>8, <3>1
      <4>2. events'[i].seq \in Nat
        <5>1. events'[i] \in Event
          BY <1>6, <3>1 DEF TypeOK, len
        <5> QED
          BY <5>1 DEF Event
      <4> QED
        BY <1>4, <3>1, <4>1, <4>2
    <3>2. CASE i \in (len + 1)..(len + n)
      <4> DEFINE j == i - len
      <4>1. events'[i] = own[j] /\ j \in 1..n
        BY <1>6, <3>2
      <4>2. h.seq + j < len + n
        BY <1>4, <2>1, <4>1
      <4> HIDE DEF j
      <4> QED
        BY <1>5, <4>1, <4>2
    <3>3. i \in 1..len \/ i \in (len + 1)..(len + n)
      BY <1>4
    <3> QED
      BY <3>1, <3>2, <3>3
  <2>3. h.seq + n < len + n
    BY <1>4, <2>1
  <2> QED
    BY <1>3, <1>6, <2>2, <2>3
<1>14. ASSUME NEW b \in Actors PROVE (Plausible(tx[b].newest) /\ Pending(b))'
  <2> DEFINE q == tx'[b].newest
  <2>1. /\ q.seq \in Nat /\ q.seq <= len /\ (~forked => q.seq = q.hash)
    <3>1. CASE b = a
      BY <1>4, <1>9, <1>10, <3>1
    <3>2. CASE b # a
      <4>1. q = tx[b].newest /\ q.seq \in Nat
        BY <1>9, <3>2, TransactionType DEF Sight
      <4> QED
        BY <1>9, <4>1 DEF Plausible, len
    <3> QED
      BY <3>1, <3>2
  <2> HIDE DEF q
  <2>2. q.seq <= len + n /\ q.seq < len + n /\ row'.count # 0
    BY <1>3, <1>4, <2>1
  <2>3. ~forked' => q.seq = q.hash
    BY <1>3, <2>1
  <2>4. Plausible(tx[b].newest)'
    BY <1>6, <2>2, <2>3 DEF Plausible, q
  <2> QED
    BY <1>9, <2>4 DEF Pending
<1> QED
  BY <1>11, <1>12, <1>13, <1>14 DEF Chained


LEMMA BackfillChained ==
    ASSUME TypeOK, Chained, Backfill
    PROVE  Chained'
<1> DEFINE len == Len(events)
<1>1. /\ row.count = 0 /\ ~forked /\ holder = Nobody
      /\ UNCHANGED <<tx, holder, forked>>
  BY DEF Backfill, Chained, Unhashed
<1>2. len \in Nat /\ len > 0 /\ DOMAIN events = 1..len
  <2>1. events \in Seq(Event) /\ events # <<>>
    BY DEF Backfill, TypeOK
  <2> QED
    BY <2>1
<1>3. row'.count = len /\ row'.head = len
  BY DEF Backfill, TypeOK, Row
<1>4. /\ Len(events') = len
      /\ \A i \in 1..len : /\ events'[i].seq = i /\ events'[i].prev = i - 1
                           /\ events'[i].hash = i
  <2> DEFINE e(i) == [events[i] EXCEPT !.seq = i, !.prev = i - 1, !.hash = i]
  <2>1. events' = [i \in 1..len |-> e(i)]
    BY <1>2 DEF Backfill
  <2>2. ASSUME NEW i \in 1..len
        PROVE  e(i).seq = i /\ e(i).prev = i - 1 /\ e(i).hash = i
    <3>1. events[i] \in Event
      BY <1>2 DEF TypeOK
    <3> QED
      BY <3>1 DEF Event
  <2> HIDE DEF e, len
  <2>3. Len(events') = len
    BY <1>2, <2>1
  <2> QED
    BY <2>1, <2>2, <2>3
<1>5. \A a \in Actors : /\ tx[a].pc # "written"
                        /\ tx[a].newest.seq = 0 /\ tx[a].newest.hash = 0
  BY <1>1, ActorsAssumption DEF Chained, Plausible, Pending, Actors
<1> HIDE DEF len
<1>6. Unhashed' /\ Sound' /\ Broken'
  BY <1>1, <1>2, <1>3, <1>4 DEF Unhashed, Sound, Broken
<1>7. ASSUME NEW a \in Actors PROVE (Plausible(tx[a].newest) /\ Pending(a))'
  BY <1>1, <1>2, <1>3, <1>4, <1>5 DEF Plausible, Pending
<1> QED
  BY <1>6, <1>7 DEF Chained

LEMMA NextChained == TypeOK /\ Chained /\ [Next]_vars => Chained'
<1> SUFFICES ASSUME TypeOK, Chained, [Next]_vars PROVE Chained'
  OBVIOUS
<1>1. ASSUME NEW a \in Workers, Begin(a) PROVE Chained'
  <2>1. PICK s \in Status, h \in Newest :
           tx' = [tx EXCEPT ![a] = [Idle EXCEPT !.pc = "open", !.read = Fields(row),
                                                !.newest = h, !.to = s]]
    BY <1>1 DEF Begin, Follows, Status, REMOTE_IN_FLIGHT_STATUSES, ACCEPTED_STATUSES,
                BLOCKED_STATUSES
  <2> DEFINE t == [Idle EXCEPT !.pc = "open", !.read = Fields(row), !.newest = h, !.to = s]
  <2>2. t.pc # "written" /\ t.newest = h
    BY DEF Idle
  <2>3. Plausible(t.newest)
    BY <2>2, NewestPlausible
  <2>4. /\ UNCHANGED <<row, events, forked>> /\ holder' = holder /\ a \in Actors
        /\ tx' = [tx EXCEPT ![a] = t]
    BY <1>1, <2>1 DEF Begin, Actors
  <2> HIDE DEF t
  <2> QED
    BY <2>2, <2>3, <2>4, OneChanges
<1>2. ASSUME TaskSelect PROVE Chained'
  <2>1. PICK h \in Newest :
           tx' = [tx EXCEPT ![Task] = [Idle EXCEPT !.pc = "open", !.read = Fields(row),
                                                   !.newest = h, !.to = row.status]]
    BY <1>2 DEF TaskSelect
  <2> DEFINE t == [Idle EXCEPT !.pc = "open", !.read = Fields(row), !.newest = h,
                               !.to = row.status]
  <2>2. t.pc # "written" /\ t.newest = h
    BY DEF Idle
  <2>3. Plausible(t.newest)
    BY <2>2, NewestPlausible
  <2>4. /\ UNCHANGED <<row, events, forked>> /\ holder' = holder /\ Task \in Actors
        /\ tx' = [tx EXCEPT ![Task] = t]
    BY <1>2, <2>1 DEF TaskSelect, Actors
  <2> HIDE DEF t
  <2> QED
    BY <2>2, <2>3, <2>4, OneChanges
<1>3. ASSUME NEW a \in Actors, Crash(a) PROVE Chained'
  <2>1. Idle.pc # "written" /\ Plausible(Idle.newest)
    BY NothingIsPlausible DEF Idle
  <2> QED
    BY <1>3, <2>1, OneChanges DEF Crash
<1>4. ASSUME UNCHANGED <<tx, events, forked, holder>>, row'.count = row.count,
             row'.head = row.head
      PROVE  Chained'
  <2>1. Unhashed' /\ Sound' /\ Broken'
    BY <1>4 DEF Chained, Unhashed, Sound, Broken
  <2>2. ASSUME NEW a \in Actors PROVE (Plausible(tx[a].newest) /\ Pending(a))'
    BY <1>4 DEF Chained, Plausible, Pending, Record, NextEvent
  <2> QED
    BY <2>1, <2>2 DEF Chained
<1>5. ASSUME QuarterPasses PROVE Chained'
  BY <1>4, <1>5 DEF QuarterPasses, TypeOK, Row
<1>6. ASSUME HourPasses PROVE Chained'
  BY <1>4, <1>6 DEF HourPasses, TypeOK, Row
<1>7. ASSUME UNCHANGED vars PROVE Chained'
  BY <1>4, <1>7 DEF vars
<1> QED
  BY <1>1, <1>2, <1>3, <1>5, <1>6, <1>7, PreparesChained, CommitChained, BackfillChained,
     NextCases

\* The verification is exact: it finds no error in an anchored chain whose events
\* were each appended to the newest one, and one in every other, by counting: an
\* event appended to an older one leaves more events than the row counts.
THEOREM VerificationIsExact == Spec => []VerifyIsExact
<1>1. TypeOK /\ Chained => VerifyIsExact
  <2> SUFFICES ASSUME TypeOK, Chained, HasAnchor PROVE ChainIsValid <=> ~forked
    BY DEF VerifyIsExact
  <2> DEFINE len == Len(events)
  <2>0. len \in Nat /\ forked \in BOOLEAN
    BY DEF TypeOK
  <2>1. ASSUME ~forked PROVE ChainIsValid
    <3>1. /\ row.count = len /\ row.head = len
          /\ \A i \in 1..len : events[i].seq = i /\ events[i].prev = i - 1
                               /\ events[i].hash = i
      BY <2>1 DEF Chained, Sound, HasAnchor
    <3> HIDE DEF len
    <3>2. ASSUME NEW k \in 1..len
          PROVE  \E i \in 1..len :
                    /\ events[i].seq = k
                    /\ events[i].hash # 0
                    /\ k = 1 => events[i].prev = 0
                    /\ \A j \in 1..len : events[j].seq = k - 1
                                            => events[i].prev = events[j].hash
      <4>1. events[k].seq = k /\ events[k].hash = k /\ k # 0 /\ events[k].prev = k - 1
        BY <2>0, <3>1
      <4>2. \A j \in 1..len : events[j].seq = k - 1 => events[j].hash = k - 1
        BY <3>1
      <4> QED
        BY <4>1, <4>2
    <3>3. \A i \in 1..len : events[i].seq = len => row.head = events[i].hash
      BY <3>1
    <3> QED
      BY <3>1, <3>2, <3>3, Zenon DEF ChainIsValid, len
  <2>2. ASSUME forked PROVE ~ChainIsValid
    <3>1. row.count < len /\ row.count \in Nat
      BY <2>2 DEF Chained, Broken, TypeOK, Row
    <3>2. row.count # len
      BY <2>0, <3>1
    <3> QED
      BY <3>2 DEF ChainIsValid
  <2> QED
    BY <2>0, <2>1, <2>2
<1>2. Init => TypeOK /\ Chained
  BY InitType, InitChained
<1>3. TypeOK /\ Chained /\ [Next]_vars => TypeOK' /\ Chained'
  BY NextType, NextChained
<1> QED
  BY <1>1, <1>2, <1>3, PTL DEF Spec


-----------------------------------------------------------------------------
(* What reads made under the lock would give *)

\* A transaction that has written follows the last event.
Unforked ==
    /\ ~forked
    /\ row.count = 0 => events = <<>>
    /\ \A a \in Actors : tx[a].pc = "written" => tx[a].newest.hash = Len(events)

LEMMA NewestIsLast ==
    ASSUME TypeOK, Chained, Unforked, NEW h \in Newest
    PROVE  h.hash = Len(events)
<1>1. Len(events) \in Nat /\ DOMAIN events = 1..Len(events) /\ row.count \in Nat
  BY DEF TypeOK, Row
<1>2. CASE events = <<>>
  BY <1>2 DEF Newest, NoEvent
<1>3. CASE events # <<>>
  <2>1. PICK i \in 1..Len(events) :
           /\ h = [seq |-> events[i].seq, hash |-> events[i].hash]
           /\ \A k \in 1..Len(events) : events[k].seq <= events[i].seq
    BY <1>1, <1>3 DEF Newest
  <2>2. row.count > 0 /\ ~forked
    BY <1>1, <1>3 DEF Unforked
  <2>3. \A k \in 1..Len(events) : events[k].seq = k /\ events[k].hash = k
    BY <2>2 DEF Chained, Sound
  <2>4. Len(events) \in 1..Len(events)
    BY <1>1, <2>1
  <2>5. i = Len(events)
    <3>1. events[Len(events)].seq <= events[i].seq
      BY <2>1, <2>4
    <3>2. events[Len(events)].seq = Len(events) /\ events[i].seq = i
      BY <2>3, <2>4
    <3>3. Len(events) <= i
      BY <3>1, <3>2
    <3>4. i <= Len(events) /\ i \in Nat
      BY <1>1
    <3>5. \A m, k \in Nat : m <= k /\ k <= m => k = m
      OBVIOUS
    <3> QED
      BY <1>1, <3>3, <3>4, <3>5, Zenon
  <2> QED
    BY <2>1, <2>3, <2>5
<1> QED
  BY <1>2, <1>3

\* With reads of the rows as they are under the lock, a new document's chain is
\* always one that verify_event_chain finds valid: the snapshot is what forks it.
THEOREM CurrentReadsVerify ==
    ASSUME SnapshotReads = FALSE, Legacy = 0
    PROVE  Spec => []ChainVerifies
<1>1. Init => Unforked
  <2> SUFFICES ASSUME Init PROVE Unforked
    OBVIOUS
  <2>1. events = <<>> /\ ~forked
    BY DEF Init
  <2>2. \A a \in Actors : tx[a].pc # "written"
    BY DEF Init, Idle
  <2> QED
    BY <2>1, <2>2 DEF Unforked
<1>2. ASSUME TypeOK, Chained, Unforked, [Next]_vars PROVE Unforked'
  <2>1. tx \in [Actors -> Transaction] /\ Workers \subseteq Actors /\ Task \in Actors
        /\ Idle.pc # "written"
    BY <1>2 DEF TypeOK, Actors, Idle
  <2>2. ASSUME UNCHANGED <<events, forked>>, row'.count = row.count,
               \A a \in Actors : tx'[a].pc = "written" =>
                                    tx'[a] = tx[a] \/ tx'[a].newest.hash = Len(events)
        PROVE  Unforked'
    BY <1>2, <2>2 DEF Unforked
  <2>3. ASSUME NEW a \in Workers, Begin(a) PROVE Unforked'
    <3>1. PICK s \in Status, h \in Newest :
             tx' = [tx EXCEPT ![a] = [Idle EXCEPT !.pc = "open", !.read = Fields(row),
                                                  !.newest = h, !.to = s]]
      BY <2>3 DEF Begin, Follows, Status, REMOTE_IN_FLIGHT_STATUSES, ACCEPTED_STATUSES,
                  BLOCKED_STATUSES
    <3> DEFINE t == [Idle EXCEPT !.pc = "open", !.read = Fields(row), !.newest = h, !.to = s]
    <3>2. t.pc # "written" /\ tx' = [tx EXCEPT ![a] = t]
      BY <3>1 DEF Idle
    <3> HIDE DEF t
    <3>3. \A b \in Actors : tx'[b].pc = "written" => tx'[b] = tx[b]
      BY <2>1, <3>2
    <3> QED
      BY <2>2, <2>3, <3>3 DEF Begin
  <2>4. ASSUME TaskSelect PROVE Unforked'
    <3>1. PICK h \in Newest :
             tx' = [tx EXCEPT ![Task] = [Idle EXCEPT !.pc = "open", !.read = Fields(row),
                                                     !.newest = h, !.to = row.status]]
      BY <2>4 DEF TaskSelect
    <3> DEFINE t == [Idle EXCEPT !.pc = "open", !.read = Fields(row), !.newest = h,
                                 !.to = row.status]
    <3>2. t.pc # "written" /\ tx' = [tx EXCEPT ![Task] = t]
      BY <3>1 DEF Idle
    <3> HIDE DEF t
    <3>3. \A b \in Actors : tx'[b].pc = "written" => tx'[b] = tx[b]
      BY <2>1, <3>2
    <3> QED
      BY <2>2, <2>4, <3>3 DEF TaskSelect
  <2>5. ASSUME NEW a \in Actors, Prepares(a) PROVE Unforked'
    <3>1. PICK h \in NewestRead(a), n \in 1..3, r \in Row, said \in SUBSET Signature :
             /\ tx' = [tx EXCEPT ![a] = Ready(h, tx[a].to, n, r, said)]
             /\ UNCHANGED <<row, events, forked>>
      BY <2>5 DEF Prepares
    <3> DEFINE t == Ready(h, tx[a].to, n, r, said)
    <3>2. t.newest = h
      BY <1>2, TransactionType, ReadyType
    <3>3. h.hash = Len(events)
      BY <1>2, NewestIsLast DEF NewestRead
    <3> HIDE DEF t
    <3>4. \A b \in Actors : tx'[b].pc = "written" =>
                               tx'[b] = tx[b] \/ tx'[b].newest.hash = Len(events)
      BY <2>1, <3>1, <3>2, <3>3 DEF t
    <3> QED
      BY <2>2, <3>1, <3>4
  <2>6. ASSUME NEW a \in Actors, Commit(a) PROVE Unforked'
    <3>1. forked' = FALSE
      BY <1>2, <2>6 DEF Commit, Unforked
    <3>2. \A b \in Actors : tx'[b].pc # "written"
      <4>1. \A b \in Actors : tx[b].pc = "written" => holder = b
        BY <1>2 DEF Chained, Pending
      <4>2. holder = a
        BY <2>6, <4>1 DEF Commit
      <4> QED
        BY <2>1, <2>6, <4>1, <4>2 DEF Commit
    <3>3. row'.count # 0
      <4>1. PICK n \in 1..3 : row'.count = tx[a].newest.seq + n
        BY <1>2, <2>6 DEF Commit, Chained, Pending
      <4>2. tx[a].newest.seq \in Nat
        BY <1>2, TransactionType DEF Sight
      <4> QED
        BY <4>1, <4>2
    <3> QED
      BY <3>1, <3>2, <3>3 DEF Unforked
  <2>7. ASSUME NEW a \in Actors, Crash(a) PROVE Unforked'
    <3>1. \A b \in Actors : tx'[b].pc = "written" => tx'[b] = tx[b]
      BY <2>1, <2>7 DEF Crash
    <3> QED
      BY <2>2, <2>7, <3>1 DEF Crash
  <2>8. ASSUME Backfill PROVE Unforked'
    BY <1>2, <2>8 DEF Backfill, Unforked
  <2>9. ASSUME QuarterPasses PROVE Unforked'
    BY <1>2, <2>2, <2>9 DEF QuarterPasses, TypeOK, Row
  <2>10. ASSUME HourPasses PROVE Unforked'
    BY <1>2, <2>2, <2>10 DEF HourPasses, TypeOK, Row
  <2>11. ASSUME UNCHANGED vars PROVE Unforked'
    BY <1>2, <2>2, <2>11 DEF vars
  <2> QED
    BY <1>2, <2>3, <2>4, <2>5, <2>6, <2>7, <2>8, <2>9, <2>10, <2>11, NextCases
<1>3. TypeOK /\ Chained /\ Unforked /\ [Next]_vars => TypeOK' /\ Chained' /\ Unforked'
  BY <1>2, NextType, NextChained
<1>4. Init => TypeOK /\ Chained /\ Unforked
  BY <1>1, InitType, InitChained
<1>5. VerifyIsExact /\ Unforked => ChainVerifies
  BY DEF VerifyIsExact, Unforked, ChainVerifies
<1>6. Spec => []VerifyIsExact
  BY VerificationIsExact
<1> QED
  BY <1>3, <1>4, <1>5, <1>6, PTL DEF Spec

=============================================================================
