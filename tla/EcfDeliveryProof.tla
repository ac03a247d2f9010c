-------------------------- MODULE EcfDeliveryProof --------------------------
(* Theorems about EcfDelivery: type correctness, the send lock, the attempt  *)
(* counter, and what keeps accepted and blocked documents as they are when   *)
(* only the automatic tasks run.                                             *)
EXTENDS EcfDelivery, TLAPS

-----------------------------------------------------------------------------
(* What the writes of a row return *)

LEMMA TransitionType ==
    ASSUME NEW r \in Row, NEW s \in Status
    PROVE  /\ apply_transition(r, s) \in Row
           /\ apply_transition(r, s).status = s
           /\ apply_transition(r, s).attempts = r.attempts
<1> DEFINE retry == IF s \in {"Pending", "SUBMITTING", "UNCONFIRMED"} THEN r.retry ELSE "none"
           check == IF s \in REMOTE_IN_FLIGHT_STATUSES THEN "later" ELSE "none"
           notFound == IF s \in ACCEPTED_STATUSES \cup REMOTE_IN_FLIGHT_STATUSES
                       THEN 0 ELSE r.notFound
           action == s \in BLOCKED_STATUSES
<1>1. /\ retry \in {"none", "later", "due"}
      /\ check \in {"none", "later", "due"}
      /\ notFound \in Nat
      /\ action \in BOOLEAN
  BY DEF Row
<1>2. apply_transition(r, s) = [r EXCEPT !.status = s, !.action = action, !.retry = retry,
                                        !.check = check, !.notFound = notFound]
  BY DEF apply_transition
<1> HIDE DEF retry, check, notFound, action
<1> QED
  BY <1>1, <1>2 DEF Row

LEMMA RemoteResultType ==
    ASSUME NEW r \in Row, NEW s \in Status \cup {"untyped"}
    PROVE  /\ apply_remote_result(r, s) \in Row
           /\ apply_remote_result(r, s).attempts = r.attempts
           /\ apply_remote_result(r, s).status = IF s = "untyped" THEN r.status ELSE s
<1> DEFINE q == [r EXCEPT !.checked = "recent", !.notFound = 0]
           t == IF s = "untyped" THEN r.status ELSE s
<1>1. q \in Row /\ q.attempts = r.attempts /\ q.status = r.status
  BY DEF Row
<1>2. t \in Status
  BY DEF Row
<1>3. apply_remote_result(r, s) = apply_transition(q, t)
  BY <1>1 DEF apply_remote_result
<1> HIDE DEF q, t
<1>4. /\ apply_remote_result(r, s) \in Row
      /\ apply_remote_result(r, s).attempts = r.attempts
      /\ apply_remote_result(r, s).status = t
  BY <1>1, <1>2, <1>3, TransitionType
<1> QED
  BY <1>4 DEF t

LEMMA NotFoundType ==
    ASSUME NEW r \in Row, NEW seen \in Row
    PROVE  /\ record_not_found(r, seen) \in Row
           /\ record_not_found(r, seen).attempts = r.attempts
           /\ record_not_found(r, seen).status = "UNCONFIRMED"
<1> DEFINE a == [r EXCEPT !.notFound = seen.notFound + 1, !.checked = "recent", !.retry = "none"]
           b == [r EXCEPT !.notFound = Max2(seen.notFound, 1), !.checked = "recent",
                          !.retry = "later"]
<1>0. seen.notFound + 1 \in Nat /\ Max2(seen.notFound, 1) \in Nat
  BY DEF Row, Max2
<1>1. a \in Row /\ a.attempts = r.attempts /\ b \in Row /\ b.attempts = r.attempts
  BY <1>0 DEF Row
<1>2. "UNCONFIRMED" \in Status
  BY DEF Status
<1>3. \/ record_not_found(r, seen) = apply_transition(a, "UNCONFIRMED")
      \/ record_not_found(r, seen) = apply_transition(b, "UNCONFIRMED")
  BY DEF record_not_found
<1> HIDE DEF a, b
<1> QED
  BY <1>1, <1>2, <1>3, TransitionType

LEMMA FailureType ==
    ASSUME NEW r \in Row, NEW kind
    PROVE  /\ record_failure(r, kind) \in Row
           /\ record_failure(r, kind).attempts = r.attempts
<1> DEFINE a == [r EXCEPT !.retry = "later"]
           b == [r EXCEPT !.retry = "none"]
<1>1. a \in Row /\ a.attempts = r.attempts /\ b \in Row /\ b.attempts = r.attempts
  BY DEF Row
<1>2. "UNCONFIRMED" \in Status /\ "ERROR" \in Status
  BY DEF Status, BLOCKED_STATUSES
<1>3. \/ record_failure(r, kind) = apply_transition(a, "UNCONFIRMED")
      \/ record_failure(r, kind) = apply_transition(b, "ERROR")
  BY DEF record_failure
<1> HIDE DEF a, b
<1> QED
  BY <1>1, <1>2, <1>3, TransitionType

LEMMA AmbiguousType ==
    ASSUME NEW r \in Row, NEW seen \in Row
    PROVE  /\ record_ambiguous(r, seen) \in Row
           /\ record_ambiguous(r, seen).attempts = r.attempts
           /\ record_blocked_not_found(r, seen) \in Row
           /\ record_blocked_not_found(r, seen).attempts = r.attempts
<1> DEFINE a == [r EXCEPT !.checked = "recent",
                          !.retry = IF seen.status = "UNCONFIRMED" THEN "later" ELSE seen.retry]
           b == [r EXCEPT !.checked = "recent", !.retry = "none"]
<1>1. a \in Row /\ a.attempts = r.attempts /\ b \in Row /\ b.attempts = r.attempts
  BY DEF Row
<1>2. seen.status \in Status
  BY DEF Row
<1>3. /\ record_ambiguous(r, seen) = apply_transition(a, seen.status)
      /\ record_blocked_not_found(r, seen) = apply_transition(b, seen.status)
  BY DEF record_ambiguous, record_blocked_not_found
<1> HIDE DEF a, b
<1> QED
  BY <1>1, <1>2, <1>3, TransitionType

LEMMA MarkStaleType ==
    ASSUME NEW r \in Row
    PROVE  /\ MarkStale(r) \in Row
           /\ MarkStale(r).attempts = r.attempts
           /\ MarkStale(r).status = "UNCONFIRMED"
<1> DEFINE a == [r EXCEPT !.retry = "due"]
<1>1. a \in Row /\ a.attempts = r.attempts
  BY DEF Row
<1>2. "UNCONFIRMED" \in Status
  BY DEF Status
<1>3. MarkStale(r) = apply_transition(a, "UNCONFIRMED")
  BY DEF MarkStale
<1> HIDE DEF a
<1> QED
  BY <1>1, <1>2, <1>3, TransitionType

-----------------------------------------------------------------------------
(* Type correctness *)

LEMMA RestType ==
    ASSUME NEW d \in Docs
    PROVE  Rest(d) \in Local /\ NewRow \in Row
  BY DEF Rest, Local, PC, Reply, NewRow, Row, Status

LEMMA InitType == Init => TypeOK
<1> SUFFICES ASSUME Init PROVE TypeOK
  OBVIOUS
<1>1. AnyDoc \in Docs
  BY DocsAssumption DEF AnyDoc
<1>2. w \in [Workers -> Local] /\ \A p \in Workers : w[p].pc # "reply"
  <2>1. PICK queued \in SUBSET Docs :
           w = [p \in Workers |->
                   IF p \in Docs THEN [Rest(p) EXCEPT !.pc = IF p \in queued THEN "send"
                                                             ELSE "idle"]
                                 ELSE Rest(AnyDoc)]
    BY DEF Init
  <2>2. \A p \in Docs : /\ [Rest(p) EXCEPT !.pc = "send"] \in Local
                        /\ [Rest(p) EXCEPT !.pc = "idle"] \in Local
    BY RestType DEF Local, PC
  <2>3. \A d \in Docs : Rest(d).pc = "idle"
    BY DEF Rest
  <2>4. \A p \in Workers : w[p] \in Local /\ w[p].pc # "reply"
    <3> SUFFICES ASSUME NEW p \in Workers PROVE w[p] \in Local /\ w[p].pc # "reply"
      OBVIOUS
    <3>1. CASE p \in Docs
      <4>1. \/ w[p] = [Rest(p) EXCEPT !.pc = "send"]
            \/ w[p] = [Rest(p) EXCEPT !.pc = "idle"]
        BY <2>1, <3>1
      <4>2. Rest(p) \in Local
        BY <3>1, RestType
      <4> QED
        BY <2>2, <3>1, <4>1, <4>2 DEF Local
    <3>2. CASE p \notin Docs
      BY <1>1, <2>1, <2>3, <3>2, RestType
    <3> QED
      BY <3>1, <3>2
  <2> QED
    BY <2>1, <2>4
<1>3. row \in [Docs -> Row]
  BY <1>1, RestType DEF Init
<1> QED
  BY <1>2, <1>3 DEF Init, TypeOK, RepliesFit, Nothing, Remote, Evidence

\* What every worker's step may take for granted.
LEMMA WorkerType ==
    ASSUME TypeOK, NEW p \in Workers
    PROVE  /\ w[p] \in Local /\ w[p].doc \in Docs
           /\ row[w[p].doc] \in Row /\ w[p].snap \in Row
           /\ w[p].reply \in Reply
           /\ Rest(w[p].doc) \in Local /\ Rest(w[p].doc).pc = "idle"
           /\ Rest(w[p].doc).doc = w[p].doc
           /\ \A r \in Visible(p) : r \in Row
<1>1. w[p] \in Local
  BY DEF TypeOK
<1>2. w[p].doc \in Docs /\ w[p].snap \in Row /\ w[p].reply \in Reply
  BY <1>1 DEF Local
<1>3. row[w[p].doc] \in Row
  BY <1>2 DEF TypeOK
<1> QED
  BY <1>1, <1>2, <1>3, RestType DEF Visible, Rest

LEMMA FinishType ==
    ASSUME TypeOK, NEW p \in Workers, Finish(p)
    PROVE  /\ w' \in [Workers -> Local]
           /\ lock' \in [Docs -> Workers \cup {NoWorker}]
           /\ w' = [w EXCEPT ![p] = Rest(w[p].doc)]
           /\ \A q \in Workers : w'[q].pc = "reply" => w[q].pc = "reply" /\ w'[q] = w[q]
  BY WorkerType DEF Finish, TypeOK

LEMMA ForceSendType ==
    ASSUME TypeOK, NEW p \in Workers, ForceSend(p)
    PROVE  /\ w' \in [Workers -> Local]
           /\ lock' \in [Docs -> Workers \cup {NoWorker}]
           /\ \A q \in Workers : w'[q].pc = "reply" => w[q].pc = "reply" /\ w'[q] = w[q]
<1> DEFINE l == [Rest(w[p].doc) EXCEPT !.pc = "send", !.force = TRUE]
<1>1. l \in Local /\ l.pc = "send"
  BY WorkerType DEF Local, PC
<1>2. w' = [w EXCEPT ![p] = l] /\ lock' = lock
  BY DEF ForceSend
<1> QED
  BY <1>1, <1>2 DEF TypeOK

LEMMA SetRowType ==
    ASSUME TypeOK, NEW d \in Docs, NEW r \in Row, SetRow(d, r)
    PROVE  row' \in [Docs -> Row]
  BY DEF SetRow, TypeOK

\* The replies the provider can give are of the kind their reader expects.
LEMMA OutcomesType ==
    ASSUME NEW r \in Remote
    PROVE  /\ \A o \in PostOutcomes(r) : /\ o.remote \in Remote
                                        /\ o.sent \in BOOLEAN /\ o.fault \in BOOLEAN
                                        /\ o.reply \in {"RECIBIDO", "lost", "denied"}
           /\ \A o \in QueryOutcomes(r) : o.reply \in Reply /\ o.fault \in BOOLEAN
           /\ View(r) \in Status \cup {"missing"}
<1>1. View(r) \in Status \cup {"missing"}
  BY DEF View, Remote, Status, REMOTE_IN_FLIGHT_STATUSES, ACCEPTED_STATUSES, BLOCKED_STATUSES
<1>2. Received(r) \in Remote /\ ReceivedUnseen(r) \in Remote
  BY DEF Received, ReceivedUnseen, Remote
<1>3. ASSUME NEW o \in PostOutcomes(r)
      PROVE  /\ o.remote \in Remote
             /\ o.sent \in BOOLEAN /\ o.fault \in BOOLEAN
             /\ o.reply \in {"RECIBIDO", "lost", "denied"}
  <2>1. \/ o = [sent |-> TRUE, remote |-> Received(r), reply |-> "RECIBIDO", fault |-> FALSE]
        \/ o = [sent |-> TRUE, remote |-> ReceivedUnseen(r), reply |-> "RECIBIDO",
                fault |-> TRUE]
        \/ \E x \in {r, ReceivedUnseen(r), Received(r)}, k \in {"lost", "denied"} :
              o = [sent |-> TRUE, remote |-> x, reply |-> k, fault |-> TRUE]
        \/ \E k \in {"lost", "denied"} :
              o = [sent |-> FALSE, remote |-> r, reply |-> k, fault |-> TRUE]
    BY DEF PostOutcomes
  <2>4. CASE \E x \in Remote, f \in BOOLEAN :
                o = [sent |-> TRUE, remote |-> x, reply |-> "RECIBIDO", fault |-> f]
    <3>1. PICK x \in Remote, f \in BOOLEAN :
             o = [sent |-> TRUE, remote |-> x, reply |-> "RECIBIDO", fault |-> f]
      BY <2>4
    <3> QED
      BY <3>1
  <2>2. CASE \E x \in {r, ReceivedUnseen(r), Received(r)}, k \in {"lost", "denied"} :
                o = [sent |-> TRUE, remote |-> x, reply |-> k, fault |-> TRUE]
    <3>1. PICK x \in Remote, k \in {"lost", "denied"} :
             o = [sent |-> TRUE, remote |-> x, reply |-> k, fault |-> TRUE]
      BY <1>2, <2>2
    <3> QED
      BY <3>1
  <2>3. CASE \E k \in {"lost", "denied"} :
                o = [sent |-> FALSE, remote |-> r, reply |-> k, fault |-> TRUE]
    <3>1. PICK k \in {"lost", "denied"} :
             o = [sent |-> FALSE, remote |-> r, reply |-> k, fault |-> TRUE]
      BY <2>3
    <3> QED
      BY <3>1
  <2> QED
    BY <1>2, <2>1, <2>2, <2>3, <2>4
<1>4. ASSUME NEW o \in QueryOutcomes(r)
      PROVE  o.reply \in Reply /\ o.fault \in BOOLEAN
  <2>1. \/ o = [reply |-> View(r), fault |-> FALSE]
        \/ \E k \in {"lost", "denied", "ambiguous", "untyped"} : o = [reply |-> k, fault |-> TRUE]
    BY DEF QueryOutcomes
  <2>2. CASE o = [reply |-> View(r), fault |-> FALSE]
    BY <1>1, <2>2 DEF Reply
  <2>3. CASE \E k \in {"lost", "denied", "ambiguous", "untyped"} :
                o = [reply |-> k, fault |-> TRUE]
    <3>1. PICK k \in {"lost", "denied", "ambiguous", "untyped"} :
             o = [reply |-> k, fault |-> TRUE]
      BY <2>3
    <3> QED
      BY <3>1 DEF Reply
  <2> QED
    BY <2>1, <2>2, <2>3
<1> QED
  BY <1>1, <1>3, <1>4

LEMMA LearnType ==
    ASSUME NEW e \in Evidence, NEW s
    PROVE  Learn(e, s) \in Evidence
  BY DEF Learn, Evidence

LEMMA SpendType ==
    ASSUME TypeOK, NEW f \in BOOLEAN, Spend(f)
    PROVE  faults' \in Nat
  BY DEF Spend, TypeOK

\* A worker that moves on to pc with what it read or was answered.
LEMMA MoveType ==
    ASSUME NEW l \in Local, NEW pc \in PC
    PROVE  /\ [l EXCEPT !.pc = pc] \in Local
           /\ \A r \in Row : /\ [l EXCEPT !.pc = pc, !.snap = r] \in Local
                            /\ [l EXCEPT !.pc = pc, !.held = TRUE, !.snap = r] \in Local
           /\ \A s \in Reply : [l EXCEPT !.pc = pc, !.reply = s] \in Local
           /\ [l EXCEPT !.pc = pc, !.held = TRUE, !.resendMissing = TRUE] \in Local
  BY DEF Local

LEMMA AttemptType ==
    ASSUME NEW r \in Row, NEW seen \in Row
    PROVE  [r EXCEPT !.attempts = seen.attempts + 1, !.attempted = "recent", !.retry = "none",
                     !.notFound = 0] \in Row
<1>1. PICK n \in Nat : n = seen.attempts + 1
  BY DEF Row
<1> QED
  BY <1>1 DEF Row

LEMMA MoveOnType ==
    ASSUME TypeOK, NEW p \in Workers, NEW l \in Local, l.pc = "reply" => l = w[p],
           w' = [w EXCEPT ![p] = l], poll' = poll
    PROVE  w' \in [Workers -> Local] /\ RepliesFit'
  BY DEF TypeOK, RepliesFit

LEMMA SendStepType ==
    ASSUME TypeOK, NEW p \in Workers,
           EnterSend(p) \/ AcquireSend(p) \/ MarkSubmitting(p) \/ Post(p) \/ HandlePostReply(p)
    PROVE  TypeOK'
<1> DEFINE d == w[p].doc
<1>0. /\ d \in Docs /\ w[p] \in Local /\ row[d] \in Row /\ remote[d] \in Remote
      /\ Rest(d) \in Local /\ \A r \in Visible(p) : r \in Row
  BY WorkerType DEF TypeOK
<1>1. CASE EnterSend(p)
  <2>1. [w[p] EXCEPT !.pc = "lock", !.snap = row[d]] \in Local
    BY <1>0, MoveType DEF PC, Reply
  <2> QED
    BY <1>0, <1>1, <2>1 DEF EnterSend, TypeOK, RepliesFit, tasks, provider, bounds
<1>2. CASE AcquireSend(p)
  <2>1. PICK r \in Visible(p) :
           \/ w' = [w EXCEPT ![p] = Rest(d)] /\ lock' = lock
           \/ /\ w' = [w EXCEPT ![p] = [Rest(d) EXCEPT !.pc = "reconcile", !.held = TRUE,
                                                       !.resendMissing = TRUE]]
              /\ lock' = [lock EXCEPT ![d] = p]
           \/ /\ w' = [w EXCEPT ![p].pc = "mark", ![p].held = TRUE, ![p].snap = r]
              /\ lock' = [lock EXCEPT ![d] = p]
    BY <1>2 DEF AcquireSend
  <2>2. r \in Row
    BY <1>0, <2>1
  <2>3. lock' \in [Docs -> Workers \cup {NoWorker}]
    BY <1>0, <2>1 DEF TypeOK
  <2>4. /\ [Rest(d) EXCEPT !.pc = "reconcile", !.held = TRUE, !.resendMissing = TRUE] \in Local
        /\ [w[p] EXCEPT !.pc = "mark", !.held = TRUE, !.snap = r] \in Local
    BY <1>0, <2>2, MoveType DEF PC, Reply
  <2>5. PICK l \in Local : w' = [w EXCEPT ![p] = l] /\ l.pc # "reply"
    <3>1. /\ Rest(d).pc = "idle"
          /\ [Rest(d) EXCEPT !.pc = "reconcile", !.held = TRUE,
                             !.resendMissing = TRUE].pc = "reconcile"
          /\ [w[p] EXCEPT !.pc = "mark", !.held = TRUE, !.snap = r].pc = "mark"
      BY <1>0 DEF Local, Rest
    <3> QED
      BY <1>0, <2>1, <2>4, <3>1
  <2> QED
    BY <1>2, <2>3, <2>5 DEF AcquireSend, TypeOK, RepliesFit, tasks, provider, bounds
<1>3. CASE MarkSubmitting(p)
  <2> DEFINE q == [row[d] EXCEPT !.attempts = w[p].snap.attempts + 1, !.attempted = "recent",
                                 !.retry = "none", !.notFound = 0]
  <2>1. w[p].snap \in Row
    BY <1>0 DEF Local
  <2>2. q \in Row
    BY <1>0, <2>1, AttemptType
  <2>3. apply_transition(q, "SUBMITTING") \in Row
    BY <2>2, TransitionType DEF Status
  <2>4. row' \in [Docs -> Row]
    BY <1>0, <1>3, <2>3, SetRowType DEF MarkSubmitting
  <2>5. [w[p] EXCEPT !.pc = "post"] \in Local
    BY <1>0, MoveType DEF PC
  <2> QED
    BY <1>0, <1>3, <2>4, <2>5 DEF MarkSubmitting, Goto, TypeOK, RepliesFit, tasks, provider, bounds
<1>4. CASE Post(p)
  <2>1. PICK o \in PostOutcomes(remote[d]) :
           /\ Spend(o.fault)
           /\ remote' = [remote EXCEPT ![d] = o.remote]
           /\ posts' = [posts EXCEPT ![d] = IF o.sent THEN @ + 1 ELSE @]
           /\ evidence' = [evidence EXCEPT ![d] = IF o.sent THEN "none" ELSE @]
           /\ w' = [w EXCEPT ![p].pc = "reply", ![p].reply = o.reply]
    BY <1>4 DEF Post
  <2>2. /\ o.remote \in Remote /\ o.fault \in BOOLEAN
        /\ o.reply \in {"RECIBIDO", "lost", "denied"}
    BY <1>0, <2>1, OutcomesType
  <2>3. faults' \in Nat
    BY <2>1, <2>2, SpendType
  <2>4. [w[p] EXCEPT !.pc = "reply", !.reply = o.reply] \in Local
    <3>1. o.reply \in Reply
      BY <2>2 DEF Reply, Status, REMOTE_IN_FLIGHT_STATUSES
    <3> QED
      BY <1>0, <3>1, MoveType DEF PC
  <2>5. w' \in [Workers -> Local]
    BY <1>0, <2>1, <2>4 DEF TypeOK
  <2>6. \A q \in Workers : w'[q].pc = "reply" => w'[q].reply \in {"RECIBIDO", "lost", "denied"}
    BY <1>0, <2>1, <2>2 DEF TypeOK, RepliesFit, Local
  <2>7. /\ remote' \in [Docs -> Remote] /\ posts' \in [Docs -> Nat]
        /\ evidence' \in [Docs -> Evidence]
    BY <1>0, <2>1, <2>2 DEF TypeOK, Evidence
  <2> QED
    BY <1>4, <2>3, <2>5, <2>6, <2>7 DEF Post, TypeOK, RepliesFit, tasks
<1>5. CASE HandlePostReply(p)
  <2>1. w[p].reply \in {"RECIBIDO", "lost", "denied"}
    BY <1>5 DEF HandlePostReply, TypeOK, RepliesFit
  <2>2. w[p].reply \in {"lost", "denied"} \/ w[p].reply \in Status \cup {"untyped"}
    BY <2>1 DEF Status, REMOTE_IN_FLIGHT_STATUSES
  <2>3. row' \in [Docs -> Row]
    BY <1>0, <1>5, <2>2, FailureType, RemoteResultType, SetRowType DEF HandlePostReply
  <2>4. Finish(p)
    BY <1>5 DEF HandlePostReply
  <2> QED
    BY <1>5, <2>3, <2>4, FinishType DEF HandlePostReply, TypeOK, RepliesFit, tasks, provider, bounds
<1> QED
  BY <1>1, <1>2, <1>3, <1>4, <1>5

LEMMA ReconcileStepType ==
    ASSUME TypeOK, NEW p \in Workers,
           BeginReconcile(p) \/ Ask(p) \/ HandleAnswer(p) \/ HandleMissing(p) \/ RecordMiss(p)
               \/ Query(p) \/ HandleQueryReply(p)
    PROVE  TypeOK'
<1> DEFINE d == w[p].doc
<1>0. /\ d \in Docs /\ w[p] \in Local /\ row[d] \in Row /\ w[p].snap \in Row
      /\ remote[d] \in Remote /\ evidence[d] \in Evidence
      /\ \A r \in Visible(p) : r \in Row
  BY WorkerType DEF TypeOK
<1>1. CASE BeginReconcile(p)
  <2>1. CASE Finish(p)
    BY <1>1, <2>1, FinishType
       DEF BeginReconcile, TypeOK, RepliesFit, tasks, provider, bounds
  <2>2. CASE w' = [w EXCEPT ![p].pc = "ask", ![p].snap = row[d]] /\ lock' = lock
    <3>1. [w[p] EXCEPT !.pc = "ask", !.snap = row[d]] \in Local
      BY <1>0, MoveType DEF PC
    <3> QED
      BY <1>0, <1>1, <2>2, <3>1
         DEF BeginReconcile, TypeOK, RepliesFit, tasks, provider, bounds
  <2> QED
    BY <1>1, <2>1, <2>2 DEF BeginReconcile
<1>2. CASE Ask(p)
  <2>1. PICK o \in QueryOutcomes(remote[d]) :
           /\ Spend(o.fault)
           /\ evidence' = [evidence EXCEPT ![d] = Learn(@, o.reply)]
           /\ w' = [w EXCEPT ![p].pc = "answer", ![p].reply = o.reply]
    BY <1>2 DEF Ask
  <2>2. o.reply \in Reply /\ o.fault \in BOOLEAN
    BY <1>0, <2>1, OutcomesType
  <2>3. faults' \in Nat
    BY <2>1, <2>2, SpendType
  <2>4. [w[p] EXCEPT !.pc = "answer", !.reply = o.reply] \in Local
    BY <1>0, <2>2, MoveType DEF PC
  <2>5. evidence' \in [Docs -> Evidence]
    BY <1>0, <2>1, LearnType DEF TypeOK
  <2>6. [w[p] EXCEPT !.pc = "answer", !.reply = o.reply].pc # "reply"
    BY <1>0 DEF Local
  <2>7. w' = [w EXCEPT ![p] = [w[p] EXCEPT !.pc = "answer", !.reply = o.reply]]
    BY <2>1
  <2>8. w' \in [Workers -> Local] /\ RepliesFit'
    BY <1>2, <2>4, <2>6, <2>7, MoveOnType DEF Ask, tasks
  <2> QED
    BY <1>2, <2>3, <2>5, <2>8 DEF Ask, TypeOK, tasks
<1>3. CASE HandleAnswer(p)
  <2>1. PICK r \in Row : SetRow(d, r)
    BY <1>0, <1>3, FailureType, RemoteResultType, AmbiguousType DEF HandleAnswer
  <2>2. row' \in [Docs -> Row]
    BY <1>0, <2>1, SetRowType
  <2>3. Finish(p) \/ ForceSend(p)
    BY <1>3 DEF HandleAnswer
  <2> QED
    BY <1>3, <2>2, <2>3, FinishType, ForceSendType
       DEF HandleAnswer, TypeOK, RepliesFit, tasks, provider, bounds
<1>4. CASE HandleMissing(p)
  <2>1. CASE SetRow(d, record_blocked_not_found(row[d], w[p].snap)) /\ Finish(p)
    <3>1. row' \in [Docs -> Row]
      BY <1>0, <2>1, AmbiguousType, SetRowType
    <3> QED
      BY <1>4, <2>1, <3>1, FinishType
         DEF HandleMissing, TypeOK, RepliesFit, tasks, provider, bounds
  <2>2. CASE /\ \E r \in Visible(p) : w' = [w EXCEPT ![p].pc = "miss", ![p].snap = r]
             /\ UNCHANGED <<row, lock>>
    <3>1. PICK r \in Row : w' = [w EXCEPT ![p].pc = "miss", ![p].snap = r]
      BY <1>0, <2>2
    <3>2. [w[p] EXCEPT !.pc = "miss", !.snap = r] \in Local
      BY <1>0, MoveType DEF PC
    <3>3. [w[p] EXCEPT !.pc = "miss", !.snap = r].pc # "reply"
      BY <1>0 DEF Local
    <3>4. w' = [w EXCEPT ![p] = [w[p] EXCEPT !.pc = "miss", !.snap = r]]
      BY <3>1
    <3>5. w' \in [Workers -> Local] /\ RepliesFit'
      BY <1>4, <3>2, <3>3, <3>4, MoveOnType DEF HandleMissing, tasks
    <3> QED
      BY <1>4, <2>2, <3>5 DEF HandleMissing, TypeOK, tasks, provider, bounds
  <2> QED
    BY <1>4, <2>1, <2>2 DEF HandleMissing
<1>5. CASE RecordMiss(p)
  <2>1. row' \in [Docs -> Row]
    BY <1>0, <1>5, NotFoundType, SetRowType DEF RecordMiss
  <2>2. Finish(p) \/ ForceSend(p)
    BY <1>5 DEF RecordMiss
  <2> QED
    BY <1>5, <2>1, <2>2, FinishType, ForceSendType
       DEF RecordMiss, TypeOK, RepliesFit, tasks, provider, bounds
<1>6. CASE Query(p)
  <2>1. PICK o \in QueryOutcomes(remote[d]) :
           Spend(o.fault) /\ w' = [w EXCEPT ![p].pc = "queryReply", ![p].reply = o.reply]
    BY <1>6 DEF Query
  <2>2. o.reply \in Reply /\ o.fault \in BOOLEAN
    BY <1>0, <2>1, OutcomesType
  <2>3. faults' \in Nat
    BY <2>1, <2>2, SpendType
  <2>4. [w[p] EXCEPT !.pc = "queryReply", !.reply = o.reply] \in Local
    BY <1>0, <2>2, MoveType DEF PC
  <2>5. [w[p] EXCEPT !.pc = "queryReply", !.reply = o.reply].pc # "reply"
    BY <1>0 DEF Local
  <2>6. w' = [w EXCEPT ![p] = [w[p] EXCEPT !.pc = "queryReply", !.reply = o.reply]]
    BY <2>1
  <2>7. w' \in [Workers -> Local] /\ RepliesFit'
    BY <1>6, <2>4, <2>5, <2>6, MoveOnType DEF Query, tasks
  <2> QED
    BY <1>6, <2>3, <2>7 DEF Query, TypeOK, tasks, provider
<1>7. CASE HandleQueryReply(p)
  <2>1. row' \in [Docs -> Row]
    BY <1>0, <1>7, RemoteResultType, SetRowType DEF HandleQueryReply, TypeOK
  <2> QED
    BY <1>7, <2>1, FinishType
       DEF HandleQueryReply, TypeOK, RepliesFit, tasks, provider, bounds
<1> QED
  BY <1>1, <1>2, <1>3, <1>4, <1>5, <1>6, <1>7

LEMMA CutShortType ==
    ASSUME TypeOK, NEW p \in Workers, Crash(p) \/ ProviderUnavailable(p) \/ WaitTimesOut(p)
    PROVE  TypeOK'
<1>0. Rest(w[p].doc) \in Local /\ Rest(w[p].doc).pc = "idle"
  BY WorkerType
<1>1. CASE Crash(p)
  <2>1. faults' \in Nat
    BY <1>1, SpendType DEF Crash
  <2> QED
    BY <1>0, <1>1, <2>1 DEF Crash, TypeOK, RepliesFit, tasks, provider
<1>2. CASE ProviderUnavailable(p)
  <2>1. faults' \in Nat
    BY <1>2, SpendType DEF ProviderUnavailable
  <2> QED
    BY <1>2, <2>1, FinishType DEF ProviderUnavailable, TypeOK, RepliesFit, tasks, provider
<1>3. CASE WaitTimesOut(p)
  BY <1>0, <1>3 DEF WaitTimesOut, TypeOK, RepliesFit, tasks, provider, bounds
<1> QED
  BY <1>1, <1>2, <1>3

LEMMA PollType ==
    ASSUME TypeOK, Poller
    PROVE  TypeOK'
<1> DEFINE idle == [pc |-> "idle", seen |-> Nothing, replies |-> Nothing]
<1>0. /\ idle \in [pc : {"idle", "ask", "apply"}, seen : [Docs -> Status \cup {"none"}],
                   replies : [Docs -> Status \cup {"none", "missing", "untyped", "ambiguous"}]]
      /\ \A d \in Docs : idle.replies[d] = "none"
  BY DEF Nothing
<1>1. CASE PollSelect
  <2> DEFINE due(d) == row[d].status \in REMOTE_IN_FLIGHT_STATUSES /\ row[d].check # "later"
             seen == [d \in Docs |-> IF due(d) THEN row[d].status ELSE "none"]
  <2>1. seen \in [Docs -> Status \cup {"none"}]
    BY DEF TypeOK, Row
  <2>2. poll' = [poll EXCEPT !.pc = "ask", !.seen = seen]
    BY <1>1 DEF PollSelect
  <2>3. \A d \in Docs : poll.replies[d] = "none"
    BY <1>1 DEF PollSelect, TypeOK, RepliesFit
  <2> HIDE DEF seen
  <2>4. poll' \in [pc : {"idle", "ask", "apply"}, seen : [Docs -> Status \cup {"none"}],
                   replies : [Docs -> Status \cup {"none", "missing", "untyped", "ambiguous"}]]
    BY <2>1, <2>2 DEF TypeOK
  <2>5. poll'.replies = poll.replies
    BY <2>2 DEF TypeOK
  <2>6. UNCHANGED <<row, lock, w, sweep, remote, posts, evidence, faults, requests>>
    BY <1>1 DEF PollSelect, db, provider, bounds
  <2>7. RepliesFit'
    BY <2>3, <2>5, <2>6 DEF TypeOK, RepliesFit
  <2> QED
    BY <2>4, <2>6, <2>7 DEF TypeOK
<1>2. CASE PollFails
  <2>1. faults' \in Nat
    BY <1>2, SpendType DEF PollFails
  <2> QED
    BY <1>0, <1>2, <2>1 DEF PollFails, TypeOK, RepliesFit, db, provider
<1>3. CASE PollAsk
  <2>1. PICK replies \in PollOutcomes :
           /\ Spend(replies # ClearAnswers)
           /\ poll' = [poll EXCEPT !.pc = "apply", !.replies = replies]
           /\ evidence' = [d \in Docs |-> IF Polled(d) THEN Learn(evidence[d], replies[d])
                                                      ELSE evidence[d]]
    BY <1>3 DEF PollAsk
  <2>2. /\ ClearAnswers \in [Docs -> Status \cup {"none", "missing", "untyped", "ambiguous"}]
        /\ \A d \in Docs : ClearAnswers[d] # "none" => Polled(d)
    BY OutcomesType DEF TypeOK, ClearAnswers
  <2>3. /\ replies \in [Docs -> Status \cup {"none", "missing", "untyped", "ambiguous"}]
        /\ \A d \in Docs : replies[d] # "none" => Polled(d)
    <3>1. CASE replies = ClearAnswers
      BY <2>2, <3>1
    <3>2. CASE \E d \in Docs, k \in {"ambiguous", "untyped"} :
                  Polled(d) /\ replies = [ClearAnswers EXCEPT ![d] = k]
      <4>1. PICK d \in Docs, k \in {"ambiguous", "untyped"} :
               Polled(d) /\ replies = [ClearAnswers EXCEPT ![d] = k]
        BY <3>2
      <4> QED
        BY <2>2, <4>1
    <3> QED
      BY <2>1, <3>1, <3>2 DEF PollOutcomes
  <2>4. faults' \in Nat
    BY <2>1, SpendType
  <2>5. evidence' \in [Docs -> Evidence]
    BY <2>1, LearnType DEF TypeOK
  <2> QED
    BY <1>3, <2>1, <2>3, <2>4, <2>5 DEF PollAsk, TypeOK, RepliesFit, Polled, db
<1>4. CASE PollApply
  <2>1. ASSUME NEW d \in Docs
        PROVE  PollResult(row[d], poll.seen[d], poll.replies[d]) \in Row
    <3>1. row[d] \in Row
      BY DEF TypeOK
    <3>2. CASE poll.replies[d] \in {"none", "missing"}
      BY <3>1, <3>2, NotFoundType DEF PollResult
    <3>3. CASE poll.replies[d] = "ambiguous"
      <4>1. poll.seen[d] \in Status
        BY <3>3 DEF TypeOK, RepliesFit
      <4>2. [row[d] EXCEPT !.checked = "recent"] \in Row
        BY <3>1 DEF Row
      <4>3. apply_transition([row[d] EXCEPT !.checked = "recent"], poll.seen[d]) \in Row
        BY <4>1, <4>2, TransitionType
      <4> QED
        BY <3>3, <4>3 DEF PollResult
    <3>4. CASE poll.replies[d] \in Status \cup {"untyped"}
      <4>1. apply_remote_result(row[d], poll.replies[d]) \in Row
        BY <3>1, <3>4, RemoteResultType
      <4>2. poll.replies[d] \notin {"none", "missing", "ambiguous"}
        BY <3>4 DEF Status, REMOTE_IN_FLIGHT_STATUSES, ACCEPTED_STATUSES, BLOCKED_STATUSES
      <4> QED
        BY <4>1, <4>2 DEF PollResult
    <3> QED
      BY <3>2, <3>3, <3>4 DEF TypeOK
  <2> QED
    BY <1>0, <1>4, <2>1 DEF PollApply, TypeOK, RepliesFit, provider, bounds
<1>5. CASE PollCrash
  <2>1. faults' \in Nat
    BY <1>5, SpendType DEF PollCrash
  <2> QED
    BY <1>0, <1>5, <2>1 DEF PollCrash, TypeOK, RepliesFit, db, provider
<1> QED
  BY <1>1, <1>2, <1>3, <1>4, <1>5 DEF Poller

LEMMA EnqueueType ==
    ASSUME NEW l \in Local, NEW verdict, NEW b \in BOOLEAN
    PROVE  /\ EnqueueFor(l, verdict) \in Local
           /\ Enqueue(l, "reconcile", b) \in Local
           /\ EnqueueFor(l, verdict).pc = "reply" => EnqueueFor(l, verdict) = l
           /\ Enqueue(l, "reconcile", b).pc = "reply" => Enqueue(l, "reconcile", b) = l
<1>1. ASSUME NEW pc \in {"send", "reconcile"}, NEW f \in BOOLEAN
      PROVE  Enqueue(l, pc, f) \in Local /\ (Enqueue(l, pc, f).pc = "reply" =>
                                               Enqueue(l, pc, f) = l)
  BY <1>1 DEF Enqueue, Local, PC
<1> QED
  BY <1>1 DEF EnqueueFor

LEMMA VerdictType ==
    ASSUME NEW r
    PROVE  Verdict(r) \in {"none", "send", "stale", "reconcile"}
  BY DEF Verdict

LEMMA SweepType ==
    ASSUME TypeOK, Sweep
    PROVE  TypeOK'
<1> DEFINE Sweeps == [todo : [Docs -> {"none", "send", "stale", "reconcile"}],
                      marked : SUBSET Docs]
<1>0. sweep \in Sweeps
  BY DEF TypeOK
<1>1. CASE SweepAtOnce
  <2>1. ASSUME NEW d \in Docs
        PROVE  (IF Verdict(row[d]) = "stale" THEN MarkStale(row[d]) ELSE row[d]) \in Row
    BY MarkStaleType DEF TypeOK
  <2>2. row' \in [Docs -> Row]
    BY <1>1, <2>1 DEF SweepAtOnce
  <2>3. \A p \in Workers : w'[p] \in Local /\ (w'[p].pc = "reply" => w'[p] = w[p])
    BY <1>1, EnqueueType DEF SweepAtOnce, TypeOK
  <2>4. w' \in [Workers -> Local]
    BY <1>1, <2>3 DEF SweepAtOnce
  <2> QED
    BY <1>1, <2>2, <2>3, <2>4 DEF SweepAtOnce, TypeOK, RepliesFit, tasks, provider, bounds
<1>2. CASE SweepRead
  <2>1. sweep' \in Sweeps
    BY <1>0, <1>2, VerdictType DEF SweepRead
  <2> QED
    BY <1>2, <2>1 DEF SweepRead, TypeOK, RepliesFit, db, provider, bounds
<1>3. ASSUME NEW d \in Docs, SweepRow(d) PROVE TypeOK'
  <2>1. sweep' \in Sweeps
    BY <1>0, <1>3 DEF SweepRow
  <2>2. d \in Workers /\ w[d] \in Local
    BY DEF Workers, TypeOK
  <2> DEFINE l == EnqueueFor(w[d], sweep.todo[d])
  <2>3. w' = [w EXCEPT ![d] = l]
    BY <1>3 DEF SweepRow
  <2>4. l \in Local /\ (l.pc = "reply" => l = w[d])
    BY <2>2, EnqueueType
  <2> HIDE DEF l
  <2>5. w' \in [Workers -> Local] /\ RepliesFit'
    BY <1>3, <2>2, <2>3, <2>4, MoveOnType DEF SweepRow
  <2> QED
    BY <1>3, <2>1, <2>5 DEF SweepRow, TypeOK, db, provider, bounds
<1>4. CASE SweepCommit
  <2>1. row' \in [Docs -> Row]
    BY <1>4, MarkStaleType DEF SweepCommit, TypeOK
  <2>2. sweep' \in Sweeps
    BY <1>0, <1>4 DEF SweepCommit
  <2> QED
    BY <1>4, <2>1, <2>2 DEF SweepCommit, TypeOK, RepliesFit, provider, bounds
<1>5. CASE SweepCrash
  <2>1. faults' \in Nat
    BY <1>5, SpendType DEF SweepCrash
  <2>2. sweep' \in Sweeps
    BY <1>5 DEF SweepCrash, Nothing
  <2> QED
    BY <1>5, <2>1, <2>2 DEF SweepCrash, TypeOK, RepliesFit, db, provider
<1> QED
  BY <1>1, <1>2, <1>3, <1>4, <1>5 DEF Sweep

LEMMA UserType ==
    ASSUME TypeOK, NEW o \in Operators, NEW d \in Docs, User(o, d)
    PROVE  TypeOK'
<1>0. o \in Workers /\ d \in Workers /\ Rest(d) \in Local
  BY RestType DEF Workers
<1>1. requests' \in Nat
  <2>1. Asked
    BY DEF User, Submit, Refresh, Retry, QueryStatus
  <2>2. requests \in Nat
    BY DEF TypeOK
  <2> QED
    BY <2>1, <2>2 DEF Asked
<1>2. /\ [Rest(d) EXCEPT !.pc = "reconcile", !.resendMissing = TRUE] \in Local
      /\ [Rest(d) EXCEPT !.pc = "send"] \in Local
      /\ [Rest(d) EXCEPT !.pc = "reconcile"] \in Local
      /\ [Rest(d) EXCEPT !.pc = "query"] \in Local
  BY <1>0 DEF Local, PC
<1>3. /\ [Rest(d) EXCEPT !.pc = "reconcile", !.resendMissing = TRUE].pc # "reply"
      /\ [Rest(d) EXCEPT !.pc = "send"].pc # "reply"
      /\ [Rest(d) EXCEPT !.pc = "reconcile"].pc # "reply"
      /\ [Rest(d) EXCEPT !.pc = "query"].pc # "reply"
  BY <1>0 DEF Local
<1>4. CASE Submit(o, d) \/ Refresh(o, d) \/ QueryStatus(o, d)
  <2>1. PICK l \in Local : l.pc # "reply" /\ w' = [w EXCEPT ![o] = l]
    BY <1>2, <1>3, <1>4 DEF Submit, Refresh, QueryStatus
  <2>2. w' \in [Workers -> Local] /\ RepliesFit'
    BY <1>0, <1>4, <2>1, MoveOnType DEF Submit, Refresh, QueryStatus, tasks
  <2> QED
    BY <1>1, <1>4, <2>2 DEF Submit, Refresh, QueryStatus, TypeOK, db, tasks, provider
<1>5. CASE Retry(o, d)
  <2>1. /\ Enqueue(w[d], "reconcile", TRUE) \in Local
        /\ Enqueue(w[d], "reconcile", TRUE).pc = "reply"
              => Enqueue(w[d], "reconcile", TRUE) = w[d]
    BY <1>0, EnqueueType DEF TypeOK
  <2> DEFINE l == Enqueue(w[d], "reconcile", TRUE)
  <2>2. w' = [w EXCEPT ![d] = l]
    BY <1>5 DEF Retry
  <2> HIDE DEF l
  <2>3. w' \in [Workers -> Local] /\ RepliesFit'
    <3>1. l \in Local /\ (l.pc = "reply" => l = w[d])
      BY <2>1 DEF l
    <3> QED
      BY <1>0, <1>5, <2>2, <3>1, MoveOnType DEF Retry, tasks
  <2> QED
    BY <1>1, <1>5, <2>3 DEF Retry, TypeOK, db, tasks, provider
<1> QED
  BY <1>4, <1>5 DEF User

LEMMA TimeType ==
    ASSUME TypeOK, NEW d \in Docs, Time(d) \/ ProviderWorks(d)
    PROVE  TypeOK'
<1>0. row[d] \in Row
  BY DEF TypeOK
<1>1. CASE TwoMinutesPass(d)
  <2>1. /\ row' \in [Docs -> Row]
        /\ evidence' \in [Docs -> Evidence]
    BY <1>0, <1>1 DEF TwoMinutesPass, TypeOK, Row, Evidence
  <2> QED
    BY <1>1, <2>1 DEF TwoMinutesPass, TypeOK, RepliesFit, tasks, bounds
<1>2. CASE RetryFallsDue(d) \/ CheckFallsDue(d) \/ AttemptGoesStale(d)
  <2>1. /\ [row[d] EXCEPT !.retry = "due"] \in Row
        /\ [row[d] EXCEPT !.check = "due"] \in Row
        /\ [row[d] EXCEPT !.attempted = "stale"] \in Row
    BY <1>0 DEF Row
  <2>2. row' \in [Docs -> Row]
    BY <1>2, <2>1 DEF RetryFallsDue, CheckFallsDue, AttemptGoesStale, TypeOK
  <2> QED
    BY <1>2, <2>2 DEF RetryFallsDue, CheckFallsDue, AttemptGoesStale, TypeOK, RepliesFit,
                      tasks, provider, bounds
<1>3. CASE LeaseExpires(d)
  BY <1>3 DEF LeaseExpires, TypeOK, RepliesFit, tasks, provider, bounds
<1>4. CASE ProviderWorks(d)
  BY <1>4 DEF ProviderWorks, TypeOK, RepliesFit, db, tasks, bounds, Remote
<1> QED
  BY <1>1, <1>2, <1>3, <1>4 DEF Time

LEMMA NextType == TypeOK /\ [Next]_vars => TypeOK'
<1> SUFFICES ASSUME TypeOK, [Next]_vars PROVE TypeOK'
  OBVIOUS
<1>1. ASSUME NEW p \in Workers, Step(p) PROVE TypeOK'
  BY <1>1, SendStepType, ReconcileStepType DEF Step
<1>2. ASSUME NEW p \in Workers, Crash(p) \/ ProviderUnavailable(p) \/ WaitTimesOut(p)
      PROVE  TypeOK'
  BY <1>2, CutShortType
<1>3. CASE UNCHANGED vars
  BY <1>3 DEF vars, TypeOK, RepliesFit
<1> QED
  BY <1>1, <1>2, <1>3, PollType, SweepType, UserType, TimeType DEF Next

\* In every behaviour, for any documents, users, faults and bounds, the rows, the
\* lock, the workers and the tasks keep their types, and whoever handles a reply
\* finds one of the kind it handles: the status write-back of poll_pending_documents
\* never meets a document it did not ask for.
THEOREM TypeCorrect == Spec => []TypeOK
  BY InitType, NextType, PTL DEF Spec

-----------------------------------------------------------------------------
(* The send lock.  Held relates the two records of who is inside the lock,    *)
(* Redis's and the worker's own; it is what fails when a lease may expire     *)
(* under a live worker.                                                       *)

Held ==
    /\ \A p \in Workers : w[p].held => lock[w[p].doc] = p
    /\ \A p \in Workers : Sending(p) => w[p].held

LEMMA HeldInit == Init => Held
<1> SUFFICES ASSUME Init PROVE Held
  OBVIOUS
<1>1. PICK queued \in SUBSET Docs :
         w = [p \in Workers |->
                 IF p \in Docs THEN [Rest(p) EXCEPT !.pc = IF p \in queued THEN "send"
                                                           ELSE "idle"]
                               ELSE Rest(AnyDoc)]
  BY DEF Init
<1>2. \A p \in Workers : ~w[p].held /\ w[p].pc \in {"send", "idle"}
  BY <1>1 DEF Rest
<1> QED
  BY <1>2 DEF Held, Sending

\* A worker that does not enter the lock and does not get nearer to the POST.
LEMMA HeldMove ==
    ASSUME TypeOK, Held, NEW p \in Workers, NEW l \in Local,
           w' = [w EXCEPT ![p] = l], lock' = lock,
           l.held => w[p].held /\ l.doc = w[p].doc,
           l.pc \in {"mark", "post", "reply"} => l.held
    PROVE  Held'
  BY DEF Held, Sending, TypeOK

LEMMA HeldFinish ==
    ASSUME TypeOK, Held, NEW p \in Workers, Finish(p)
    PROVE  Held'
<1> DEFINE d == w[p].doc
<1>1. d \in Docs /\ Rest(d) \in Local /\ Rest(d).pc = "idle" /\ ~Rest(d).held
  BY WorkerType DEF Rest
<1>2. w' = [w EXCEPT ![p] = Rest(d)]
  BY DEF Finish
<1>3. \/ lock' = lock
      \/ lock[d] = p /\ lock' = [lock EXCEPT ![d] = NoWorker]
  BY DEF Finish
<1>4. ASSUME NEW q \in Workers, w'[q].held PROVE lock'[w'[q].doc] = q
  <2>1. q # p /\ w'[q] = w[q] /\ lock[w[q].doc] = q /\ w[q].doc \in Docs
    BY <1>1, <1>2, <1>4, WorkerType DEF Held, TypeOK
  <2> QED
    BY <1>3, <2>1 DEF TypeOK
<1>5. ASSUME NEW q \in Workers, Sending(q)' PROVE w'[q].held
  BY <1>1, <1>2, <1>5 DEF Held, Sending, TypeOK
<1> QED
  BY <1>4, <1>5 DEF Held

LEMMA HeldForceSend ==
    ASSUME TypeOK, Held, NEW p \in Workers, ForceSend(p)
    PROVE  Held'
<1> DEFINE l == [Rest(w[p].doc) EXCEPT !.pc = "send", !.force = TRUE]
<1>1. l \in Local /\ l.pc = "send" /\ ~l.held
  BY WorkerType DEF Local, PC, Rest
<1>2. w' = [w EXCEPT ![p] = l] /\ lock' = lock
  BY DEF ForceSend
<1> HIDE DEF l
<1> QED
  BY <1>1, <1>2, HeldMove

LEMMA HeldAcquire ==
    ASSUME TypeOK, Held, NEW p \in Workers, AcquireSend(p)
    PROVE  Held'
<1> DEFINE d == w[p].doc
<1>0. /\ d \in Docs /\ w[p] \in Local /\ Rest(d) \in Local /\ Rest(d).doc = d
      /\ Rest(d).pc = "idle" /\ ~Rest(d).held
      /\ \A r \in Visible(p) : r \in Row
  BY WorkerType DEF Rest
<1>1. \A q \in Workers : w[q].held => w[q].doc # d
  BY DocsAssumption DEF AcquireSend, Held, Workers
<1>2. PICK r \in Visible(p) :
         \/ w' = [w EXCEPT ![p] = Rest(d)] /\ lock' = lock
         \/ /\ w' = [w EXCEPT ![p] = [Rest(d) EXCEPT !.pc = "reconcile", !.held = TRUE,
                                                     !.resendMissing = TRUE]]
            /\ lock' = [lock EXCEPT ![d] = p]
         \/ /\ w' = [w EXCEPT ![p].pc = "mark", ![p].held = TRUE, ![p].snap = r]
            /\ lock' = [lock EXCEPT ![d] = p]
  BY DEF AcquireSend
<1>3. CASE w' = [w EXCEPT ![p] = Rest(d)] /\ lock' = lock
  BY <1>0, <1>3, HeldMove
<1>4. CASE lock' = [lock EXCEPT ![d] = p]
  <2>1. /\ [Rest(d) EXCEPT !.pc = "reconcile", !.held = TRUE, !.resendMissing = TRUE].held
        /\ [Rest(d) EXCEPT !.pc = "reconcile", !.held = TRUE, !.resendMissing = TRUE].doc = d
        /\ [w[p] EXCEPT !.pc = "mark", !.held = TRUE, !.snap = r].held
        /\ [w[p] EXCEPT !.pc = "mark", !.held = TRUE, !.snap = r].doc = d
    BY <1>0 DEF Local
  <2>2. CASE \E l : l.held /\ l.doc = d /\ w' = [w EXCEPT ![p] = l]
    <3>1. PICK l : l.held /\ l.doc = d /\ w' = [w EXCEPT ![p] = l]
      BY <2>2
    <3>2. \A q \in Workers : w'[q].held => lock'[w'[q].doc] = q
      BY <1>0, <1>1, <1>4, <3>1, WorkerType DEF Held, TypeOK
    <3>3. \A q \in Workers : Sending(q)' => w'[q].held
      BY <3>1 DEF Held, Sending, TypeOK
    <3> QED
      BY <3>2, <3>3 DEF Held
  <2>3. CASE w' = [w EXCEPT ![p] = Rest(d)] /\ lock' = lock
    BY <1>3, <2>3
  <2> QED
    BY <1>2, <2>1, <2>2, <2>3
<1> QED
  BY <1>2, <1>3, <1>4

LEMMA HeldStep ==
    ASSUME TypeOK, Held, NEW p \in Workers,
           Step(p) \/ Crash(p) \/ ProviderUnavailable(p) \/ WaitTimesOut(p)
    PROVE  Held'
<1> DEFINE d == w[p].doc
<1>0. /\ w[p] \in Local /\ Rest(d) \in Local /\ Rest(d).pc = "idle" /\ ~Rest(d).held
      /\ w[p].pc \in PC /\ \A r \in Visible(p) : r \in Row
  BY WorkerType DEF Rest, Local
<1>1. CASE Finish(p) \/ ForceSend(p)
  BY <1>1, HeldFinish, HeldForceSend
<1>2. CASE AcquireSend(p)
  BY <1>2, HeldAcquire
<1>3. CASE Crash(p) \/ WaitTimesOut(p)
  BY <1>0, <1>3, HeldMove DEF Crash, WaitTimesOut
<1>4. ASSUME NEW l \in Local, w' = [w EXCEPT ![p] = l], lock' = lock, l.held = w[p].held,
             l.doc = d, l.pc \in {"mark", "post", "reply"} => Sending(p)
      PROVE  Held'
  BY <1>4, HeldMove DEF Held
<1>5. CASE EnterSend(p) \/ BeginReconcile(p) \/ HandleMissing(p)
  <2>1. \/ Finish(p)
        \/ \E pc \in {"lock", "ask", "miss"}, r \in Row :
              w' = [w EXCEPT ![p].pc = pc, ![p].snap = r] /\ lock' = lock
    BY <1>0, <1>5, WorkerType DEF EnterSend, BeginReconcile, HandleMissing
  <2>2. CASE \E pc \in {"lock", "ask", "miss"}, r \in Row :
                w' = [w EXCEPT ![p].pc = pc, ![p].snap = r] /\ lock' = lock
    <3>1. PICK pc \in {"lock", "ask", "miss"}, r \in Row :
             w' = [w EXCEPT ![p].pc = pc, ![p].snap = r] /\ lock' = lock
      BY <2>2
    <3> DEFINE l == [w[p] EXCEPT !.pc = pc, !.snap = r]
    <3>2. l \in Local /\ l.held = w[p].held /\ l.doc = d /\ l.pc = pc
      BY <1>0 DEF Local, PC
    <3>3. w' = [w EXCEPT ![p] = l]
      BY <3>1
    <3> HIDE DEF l
    <3> QED
      BY <1>4, <3>1, <3>2, <3>3
  <2> QED
    BY <1>1, <2>1, <2>2
<1>6. CASE MarkSubmitting(p)
  <2> DEFINE l == [w[p] EXCEPT !.pc = "post"]
  <2>1. l \in Local /\ l.held = w[p].held /\ l.doc = d
    BY <1>0 DEF Local, PC
  <2>2. w' = [w EXCEPT ![p] = l] /\ lock' = lock /\ Sending(p)
    BY <1>6 DEF MarkSubmitting, Goto, Sending
  <2> HIDE DEF l
  <2> QED
    BY <1>4, <2>1, <2>2
<1>7. CASE Post(p) \/ Ask(p) \/ Query(p)
  <2>1. PICK pc \in {"reply", "answer", "queryReply"}, s \in Reply :
           /\ w' = [w EXCEPT ![p].pc = pc, ![p].reply = s] /\ lock' = lock
           /\ pc = "reply" => Sending(p)
    <3>1. d \in Docs /\ remote[d] \in Remote
      BY WorkerType DEF TypeOK
    <3>2. CASE Post(p)
      <4>1. PICK o \in PostOutcomes(remote[d]) :
               w' = [w EXCEPT ![p].pc = "reply", ![p].reply = o.reply]
        BY <3>2 DEF Post
      <4>2. o.reply \in Reply
        BY <3>1, <4>1, OutcomesType DEF Reply, Status, REMOTE_IN_FLIGHT_STATUSES
      <4> QED
        BY <3>2, <4>1, <4>2 DEF Post, Sending
    <3>3. CASE Ask(p) \/ Query(p)
      BY <3>1, <3>3, OutcomesType DEF Ask, Query
    <3> QED
      BY <1>7, <3>2, <3>3
  <2> DEFINE l == [w[p] EXCEPT !.pc = pc, !.reply = s]
  <2>2. l \in Local /\ l.held = w[p].held /\ l.doc = d /\ l.pc = pc
    BY <1>0 DEF Local, PC
  <2>3. w' = [w EXCEPT ![p] = l]
    BY <2>1
  <2> HIDE DEF l
  <2> QED
    BY <1>4, <2>1, <2>2, <2>3
<1>8. CASE HandlePostReply(p) \/ HandleAnswer(p) \/ RecordMiss(p) \/ HandleQueryReply(p)
           \/ ProviderUnavailable(p)
  BY <1>1, <1>8 DEF HandlePostReply, HandleAnswer, RecordMiss, HandleQueryReply,
                    ProviderUnavailable
<1> QED
  BY <1>2, <1>3, <1>5, <1>6, <1>7, <1>8 DEF Step

\* A new job or request is not inside the lock.
LEMMA HeldNewJob ==
    ASSUME TypeOK, Held, lock' = lock, w' \in [Workers -> Local],
           \A q \in Workers : \/ w'[q].held = w[q].held /\ w'[q].doc = w[q].doc
                              \/ ~w'[q].held,
           \A q \in Workers : w'[q].pc \notin {"mark", "post", "reply"} \/ w'[q] = w[q]
    PROVE  Held'
  BY DEF Held, Sending, TypeOK

LEMMA HeldNext ==
    ASSUME TypeOK, Held, [Next]_vars, SlowWorkers = FALSE
    PROVE  Held'
<1>1. CASE UNCHANGED vars
  BY <1>1 DEF vars, Held, Sending
<1>2. ASSUME NEW p \in Workers,
             Step(p) \/ Crash(p) \/ ProviderUnavailable(p) \/ WaitTimesOut(p)
      PROVE  Held'
  BY <1>2, HeldStep
<1>3. CASE Poller
  BY <1>3 DEF Poller, PollSelect, PollFails, PollAsk, PollApply, PollCrash, db, Held, Sending
<1>4. ASSUME NEW l \in Local, NEW verdict, NEW b \in BOOLEAN
      PROVE  /\ EnqueueFor(l, verdict).held = l.held /\ EnqueueFor(l, verdict).doc = l.doc
             /\ Enqueue(l, "reconcile", b).held = l.held
             /\ Enqueue(l, "reconcile", b).doc = l.doc
             /\ \/ EnqueueFor(l, verdict).pc \notin {"mark", "post", "reply"}
                \/ EnqueueFor(l, verdict) = l
             /\ \/ Enqueue(l, "reconcile", b).pc \notin {"mark", "post", "reply"}
                \/ Enqueue(l, "reconcile", b) = l
  BY DEF EnqueueFor, Enqueue, Local
<1>5. CASE Sweep
  <2>1. w' \in [Workers -> Local]
    BY <1>5, SweepType DEF TypeOK
  <2>2. CASE SweepAtOnce
    <3>1. \A p \in Workers : w'[p] = w[p] \/ w'[p] = EnqueueFor(w[p], Verdict(row[p]))
      BY <2>2 DEF SweepAtOnce
    <3>2. \A p \in Workers : /\ w'[p].held = w[p].held /\ w'[p].doc = w[p].doc
                             /\ w'[p].pc \notin {"mark", "post", "reply"} \/ w'[p] = w[p]
      <4> SUFFICES ASSUME NEW p \in Workers
                   PROVE  /\ w'[p].held = w[p].held /\ w'[p].doc = w[p].doc
                          /\ w'[p].pc \notin {"mark", "post", "reply"} \/ w'[p] = w[p]
        OBVIOUS
      <4> DEFINE l == EnqueueFor(w[p], Verdict(row[p]))
      <4>1. w[p] \in Local
        BY DEF TypeOK
      <4>2. /\ l.held = w[p].held /\ l.doc = w[p].doc
            /\ l.pc \notin {"mark", "post", "reply"} \/ l = w[p]
        BY <1>4, <4>1
      <4>3. w'[p] = w[p] \/ w'[p] = l
        BY <3>1
      <4> HIDE DEF l
      <4> QED
        BY <4>2, <4>3
    <3>3. lock' = lock
      BY <2>2 DEF SweepAtOnce
    <3> QED
      BY <2>1, <3>2, <3>3, HeldNewJob
  <2>3. ASSUME NEW d \in Docs, SweepRow(d) PROVE Held'
    <3>1. w[d] \in Local /\ d \in Workers
      BY DEF Workers, TypeOK
    <3> DEFINE l == EnqueueFor(w[d], sweep.todo[d])
    <3>2. w' = [w EXCEPT ![d] = l] /\ lock' = lock
      BY <2>3 DEF SweepRow, db
    <3>3. /\ l.held = w[d].held /\ l.doc = w[d].doc
          /\ l.pc \notin {"mark", "post", "reply"} \/ l = w[d]
      BY <1>4, <3>1
    <3> HIDE DEF l
    <3> QED
      BY <2>1, <3>1, <3>2, <3>3, HeldNewJob DEF TypeOK
  <2>4. CASE SweepRead \/ SweepCommit \/ SweepCrash
    BY <2>4 DEF SweepRead, SweepCommit, SweepCrash, db, Held, Sending
  <2> QED
    BY <1>5, <2>2, <2>3, <2>4 DEF Sweep
<1>6. ASSUME NEW o \in Operators, NEW d \in Docs, User(o, d) PROVE Held'
  <2>1. w' \in [Workers -> Local]
    BY <1>6, UserType DEF TypeOK
  <2>2. o \in Workers /\ d \in Workers /\ Rest(d) \in Local /\ ~Rest(d).held /\ w[d] \in Local
    BY RestType DEF Workers, Rest, TypeOK
  <2>3. CASE Submit(o, d) \/ Refresh(o, d) \/ QueryStatus(o, d)
    <3>1. PICK l \in {[Rest(d) EXCEPT !.pc = "reconcile", !.resendMissing = TRUE],
                      [Rest(d) EXCEPT !.pc = "send"], [Rest(d) EXCEPT !.pc = "reconcile"],
                      [Rest(d) EXCEPT !.pc = "query"]} :
             w' = [w EXCEPT ![o] = l]
      BY <2>3 DEF Submit, Refresh, QueryStatus
    <3>2. ~l.held /\ l.pc \notin {"mark", "post", "reply"}
      BY <2>2, <3>1 DEF Local
    <3>3. lock' = lock
      BY <2>3 DEF Submit, Refresh, QueryStatus, db
    <3> QED
      BY <2>1, <2>2, <3>1, <3>2, <3>3, HeldNewJob DEF TypeOK
  <2>4. CASE Retry(o, d)
    <3> DEFINE l == Enqueue(w[d], "reconcile", TRUE)
    <3>1. w' = [w EXCEPT ![d] = l] /\ lock' = lock
      BY <2>4 DEF Retry, db
    <3>2. /\ l.held = w[d].held /\ l.doc = w[d].doc
          /\ l.pc \notin {"mark", "post", "reply"} \/ l = w[d]
      BY <1>4, <2>2
    <3> HIDE DEF l
    <3> QED
      BY <2>1, <2>2, <3>1, <3>2, HeldNewJob DEF TypeOK
  <2> QED
    BY <1>6, <2>3, <2>4 DEF User
<1>7. ASSUME NEW d \in Docs, Time(d) \/ ProviderWorks(d) PROVE Held'
  <2>1. CASE LeaseExpires(d)
    <3>1. \A p \in Workers : w[p].held => w[p].doc # d
      BY <2>1, SlowWorkers = FALSE DEF LeaseExpires, Holds, Held
    <3> QED
      BY <2>1, <3>1, WorkerType DEF LeaseExpires, Held, Sending, TypeOK
  <2>2. CASE ~LeaseExpires(d)
    <3>1. w' = w /\ lock' = lock
      BY <1>7, <2>2 DEF Time, TwoMinutesPass, RetryFallsDue, CheckFallsDue, AttemptGoesStale,
                        ProviderWorks, db
    <3> QED
      BY <3>1 DEF Held, Sending
  <2> QED
    BY <2>1, <2>2
<1> QED
  BY <1>1, <1>2, <1>3, <1>5, <1>6, <1>7 DEF Next

\* While no worker outlives the lease of the lock it holds (180 s), one outbox row
\* never has two workers between the attempt marker and the handling of the POST's
\* answer, whatever crashes, jobs, sweeps, users and lost answers come together.
THEOREM SendLock ==
    ASSUME SlowWorkers = FALSE
    PROVE  Spec => []OneSender
<1>1. TypeOK /\ Held /\ [Next]_vars => (TypeOK /\ Held)'
  BY NextType, HeldNext, SlowWorkers = FALSE
<1>2. TypeOK /\ Held => OneSender
  BY DEF Held, OneSender
<1> QED
  BY <1>1, <1>2, InitType, HeldInit, PTL DEF Spec

-----------------------------------------------------------------------------
(* The attempt counter.  Counted adds to the property what the worker on its  *)
(* way to the POST relies on: nobody counts between its read and its write,   *)
(* and the attempt it is about to spend is counted.                           *)

Counted ==
    /\ AttemptsCoverPosts
    /\ \A p \in Workers :
          /\ w[p].pc = "mark" => w[p].snap.attempts = row[w[p].doc].attempts
          /\ w[p].pc = "post" => posts[w[p].doc] < row[w[p].doc].attempts

\* The steps that neither count, nor POST, nor start doing so.
Uncounted ==
    /\ \A d \in Docs : row'[d].attempts = row[d].attempts
    /\ posts' = posts
    /\ \A p \in Workers : w'[p].pc \in {"mark", "post"} => w'[p] = w[p]

LEMMA CountedKept ==
    ASSUME TypeOK, Counted, Uncounted
    PROVE  Counted'
<1>1. \A d \in Docs : posts'[d] <= row'[d].attempts
  BY DEF Uncounted, Counted, AttemptsCoverPosts
<1>2. ASSUME NEW p \in Workers, w'[p].pc \in {"mark", "post"}
      PROVE  /\ w'[p] = w[p] /\ w[p].doc \in Docs
             /\ row'[w[p].doc].attempts = row[w[p].doc].attempts
             /\ posts'[w[p].doc] = posts[w[p].doc]
  BY <1>2, WorkerType DEF Uncounted
<1> QED
  BY <1>1, <1>2 DEF Counted, AttemptsCoverPosts

LEMMA SetRowAttempts ==
    ASSUME TypeOK, NEW d \in Docs, NEW r \in Row, SetRow(d, r), r.attempts = row[d].attempts
    PROVE  \A e \in Docs : row'[e].attempts = row[e].attempts
  BY DEF SetRow, TypeOK

LEMMA StepUncounted ==
    ASSUME TypeOK, NEW p \in Workers,
           \/ EnterSend(p) \/ HandlePostReply(p) \/ BeginReconcile(p) \/ Ask(p)
           \/ HandleAnswer(p) \/ HandleMissing(p) \/ RecordMiss(p) \/ Query(p)
           \/ HandleQueryReply(p) \/ Crash(p) \/ ProviderUnavailable(p) \/ WaitTimesOut(p)
    PROVE  Uncounted
<1> DEFINE d == w[p].doc
<1>0. /\ d \in Docs /\ w[p] \in Local /\ row[d] \in Row /\ w[p].snap \in Row
      /\ Rest(d).pc = "idle" /\ Rest(d) \in Local
  BY WorkerType
<1>1. posts' = posts
  BY DEF EnterSend, HandlePostReply, BeginReconcile, Ask, HandleAnswer, HandleMissing,
         RecordMiss, Query, HandleQueryReply, Crash, ProviderUnavailable, WaitTimesOut, provider
<1>2. \A e \in Docs : row'[e].attempts = row[e].attempts
  <2>1. CASE UNCHANGED row
    BY <2>1
  <2>2. CASE \E r \in Row : SetRow(d, r) /\ r.attempts = row[d].attempts
    BY <1>0, <2>2, SetRowAttempts
  <2>3. CASE HandlePostReply(p)
    <3>1. w[p].reply \in {"lost", "denied"} \/ w[p].reply \in Status \cup {"untyped"}
      BY <2>3 DEF HandlePostReply, TypeOK, RepliesFit, Status, REMOTE_IN_FLIGHT_STATUSES
    <3> QED
      BY <1>0, <2>2, <2>3, <3>1, FailureType, RemoteResultType DEF HandlePostReply
  <2>4. CASE HandleAnswer(p)
    BY <1>0, <2>2, <2>4, FailureType, RemoteResultType, AmbiguousType DEF HandleAnswer
  <2>5. CASE HandleMissing(p)
    BY <1>0, <2>1, <2>2, <2>5, AmbiguousType DEF HandleMissing
  <2>6. CASE RecordMiss(p)
    BY <1>0, <2>2, <2>6, NotFoundType DEF RecordMiss
  <2>7. CASE HandleQueryReply(p)
    BY <1>0, <2>1, <2>2, <2>7, RemoteResultType DEF HandleQueryReply
  <2> QED
    BY <2>1, <2>3, <2>4, <2>5, <2>6, <2>7
       DEF EnterSend, BeginReconcile, Ask, Query, Crash, ProviderUnavailable, WaitTimesOut
<1>3. \A q \in Workers : w'[q].pc \in {"mark", "post"} => w'[q] = w[q]
  <2>1. CASE Finish(p) \/ w' = [w EXCEPT ![p] = Rest(d)]
    BY <1>0, <2>1 DEF Finish, TypeOK
  <2>2. CASE ForceSend(p)
    <3>1. [Rest(d) EXCEPT !.pc = "send", !.force = TRUE].pc = "send"
      BY <1>0 DEF Local
    <3> QED
      BY <2>2, <3>1 DEF ForceSend, TypeOK
  <2>3. CASE \E pc \in {"lock", "ask", "miss"}, r \in Row :
                w' = [w EXCEPT ![p].pc = pc, ![p].snap = r]
    BY <1>0, <2>3 DEF TypeOK, Local
  <2>4. CASE \E pc \in {"answer", "queryReply"} : \E s : w' = [w EXCEPT ![p].pc = pc, ![p].reply = s]
    BY <1>0, <2>4 DEF TypeOK, Local
  <2>5. CASE EnterSend(p) \/ BeginReconcile(p) \/ HandleMissing(p)
    BY <1>0, <2>1, <2>3, <2>5, WorkerType DEF EnterSend, BeginReconcile, HandleMissing
  <2>6. CASE Ask(p) \/ Query(p)
    BY <2>4, <2>6 DEF Ask, Query
  <2> QED
    BY <2>1, <2>2, <2>5, <2>6
       DEF HandlePostReply, HandleAnswer, RecordMiss, HandleQueryReply, Crash,
           ProviderUnavailable, WaitTimesOut
<1> QED
  BY <1>1, <1>2, <1>3 DEF Uncounted

LEMMA EnqueueKeeps ==
    ASSUME NEW l \in Local, NEW verdict, NEW b \in BOOLEAN
    PROVE  /\ EnqueueFor(l, verdict).pc \in {"mark", "post"} => EnqueueFor(l, verdict) = l
           /\ Enqueue(l, "reconcile", b).pc \in {"mark", "post"} => Enqueue(l, "reconcile", b) = l
  BY DEF EnqueueFor, Enqueue, Local

LEMMA PollUncounted ==
    ASSUME TypeOK, Poller
    PROVE  Uncounted
<1>1. posts' = posts /\ w' = w
  BY DEF Poller, PollSelect, PollFails, PollAsk, PollApply, PollCrash, provider
<1>2. CASE PollApply
  <2>1. ASSUME NEW d \in Docs
        PROVE  PollResult(row[d], poll.seen[d], poll.replies[d]).attempts = row[d].attempts
    <3>1. row[d] \in Row
      BY DEF TypeOK
    <3>2. CASE poll.replies[d] \in {"none", "missing"}
      BY <3>1, <3>2, NotFoundType DEF PollResult
    <3>3. CASE poll.replies[d] = "ambiguous"
      <4>1. poll.seen[d] \in Status
        BY <3>3 DEF TypeOK, RepliesFit
      <4>2. /\ [row[d] EXCEPT !.checked = "recent"] \in Row
            /\ [row[d] EXCEPT !.checked = "recent"].attempts = row[d].attempts
        BY <3>1 DEF Row
      <4>3. apply_transition([row[d] EXCEPT !.checked = "recent"], poll.seen[d]).attempts
              = row[d].attempts
        BY <4>1, <4>2, TransitionType
      <4> QED
        BY <3>3, <4>3 DEF PollResult
    <3>4. CASE poll.replies[d] \in Status \cup {"untyped"}
      <4>1. apply_remote_result(row[d], poll.replies[d]).attempts = row[d].attempts
        BY <3>1, <3>4, RemoteResultType
      <4>2. poll.replies[d] \notin {"none", "missing", "ambiguous"}
        BY <3>4 DEF Status, REMOTE_IN_FLIGHT_STATUSES, ACCEPTED_STATUSES, BLOCKED_STATUSES
      <4> QED
        BY <4>1, <4>2 DEF PollResult
    <3> QED
      BY <3>2, <3>3, <3>4 DEF TypeOK
  <2> QED
    BY <1>1, <1>2, <2>1 DEF PollApply, Uncounted
<1>3. CASE ~PollApply
  BY <1>1, <1>3 DEF Poller, PollSelect, PollFails, PollAsk, PollCrash, db, Uncounted
<1> QED
  BY <1>2, <1>3

LEMMA SweepUncounted ==
    ASSUME TypeOK, Sweep
    PROVE  Uncounted
<1>1. posts' = posts
  BY DEF Sweep, SweepAtOnce, SweepRead, SweepRow, SweepCommit, SweepCrash, provider
<1>2. \A d \in Docs : row'[d].attempts = row[d].attempts
  <2>1. \A d \in Docs : MarkStale(row[d]).attempts = row[d].attempts
    BY MarkStaleType DEF TypeOK
  <2>2. CASE SweepAtOnce
    BY <2>1, <2>2 DEF SweepAtOnce
  <2>3. CASE SweepCommit
    BY <2>1, <2>3 DEF SweepCommit
  <2>4. CASE SweepRead \/ (\E d \in Docs : SweepRow(d)) \/ SweepCrash
    BY <2>4 DEF SweepRead, SweepRow, SweepCrash, db
  <2> QED
    BY <2>2, <2>3, <2>4 DEF Sweep
<1>3. ASSUME NEW q \in Workers, w'[q].pc \in {"mark", "post"} PROVE w'[q] = w[q]
  <2>1. \A l \in Local : \A v : EnqueueFor(l, v).pc \in {"mark", "post"} => EnqueueFor(l, v) = l
    BY EnqueueKeeps
  <2>2. w \in [Workers -> Local]
    BY DEF TypeOK
  <2>3. CASE SweepAtOnce
    BY <1>3, <2>1, <2>2, <2>3 DEF SweepAtOnce
  <2>4. ASSUME NEW d \in Docs, SweepRow(d) PROVE w'[q] = w[q]
    BY <1>3, <2>1, <2>2, <2>4 DEF SweepRow
  <2> QED
    BY <2>3, <2>4 DEF Sweep, SweepRead, SweepCommit, SweepCrash
<1> QED
  BY <1>1, <1>2, <1>3 DEF Uncounted

LEMMA UserUncounted ==
    ASSUME TypeOK, NEW o \in Operators, NEW d \in Docs, User(o, d)
    PROVE  Uncounted
<1>1. row' = row /\ posts' = posts
  BY DEF User, Submit, Refresh, Retry, QueryStatus, db, provider
<1>2. Rest(d) \in Local /\ w \in [Workers -> Local]
  BY RestType DEF TypeOK
<1>3. CASE Submit(o, d) \/ Refresh(o, d) \/ QueryStatus(o, d)
  <2>1. PICK l \in {[Rest(d) EXCEPT !.pc = "reconcile", !.resendMissing = TRUE],
                    [Rest(d) EXCEPT !.pc = "send"], [Rest(d) EXCEPT !.pc = "reconcile"],
                    [Rest(d) EXCEPT !.pc = "query"]} :
           w' = [w EXCEPT ![o] = l]
    BY <1>3 DEF Submit, Refresh, QueryStatus
  <2>2. l.pc \notin {"mark", "post"}
    BY <1>2, <2>1 DEF Local
  <2> QED
    BY <1>1, <1>2, <2>1, <2>2 DEF Uncounted
<1>4. CASE Retry(o, d)
  <2> DEFINE l == Enqueue(w[d], "reconcile", TRUE)
  <2>1. w' = [w EXCEPT ![d] = l]
    BY <1>4 DEF Retry
  <2>2. l.pc \in {"mark", "post"} => l = w[d]
    BY <1>2, EnqueueKeeps DEF Workers
  <2> HIDE DEF l
  <2> QED
    BY <1>1, <1>2, <2>1, <2>2 DEF Uncounted
<1> QED
  BY <1>3, <1>4 DEF User

LEMMA TimeUncounted ==
    ASSUME TypeOK, NEW d \in Docs, Time(d) \/ ProviderWorks(d)
    PROVE  Uncounted
<1>1. w' = w /\ posts' = posts
  <2>1. CASE Time(d)
    BY <2>1 DEF Time, TwoMinutesPass, RetryFallsDue, CheckFallsDue, AttemptGoesStale,
                LeaseExpires, provider
  <2>2. CASE ProviderWorks(d)
    BY <2>2 DEF ProviderWorks
  <2> QED
    BY <2>1, <2>2
<1>2. \A e \in Docs : row'[e].attempts = row[e].attempts
  <2>1. row \in [Docs -> Row]
    BY DEF TypeOK
  <2>2. CASE UNCHANGED row
    BY <2>2
  <2>3. CASE TwoMinutesPass(d)
    BY <2>1, <2>3 DEF TwoMinutesPass, Row
  <2>4. CASE RetryFallsDue(d) \/ CheckFallsDue(d) \/ AttemptGoesStale(d)
    BY <2>1, <2>4 DEF RetryFallsDue, CheckFallsDue, AttemptGoesStale, Row
  <2> QED
    BY <2>2, <2>3, <2>4 DEF Time, LeaseExpires, ProviderWorks, db
<1> QED
  BY <1>1, <1>2 DEF Uncounted

LEMMA CountedNext ==
    ASSUME TypeOK, Held, Counted, [Next]_vars, SnapshotReads = FALSE
    PROVE  Counted'
<1>1. ASSUME Uncounted PROVE Counted'
  BY <1>1, CountedKept
<1>2. ASSUME NEW p \in Workers, NEW q \in Workers, Sending(p), Sending(q), w[p].doc = w[q].doc
      PROVE  p = q
  BY <1>2 DEF Held
<1>3. ASSUME NEW p \in Workers, AcquireSend(p) PROVE Counted'
  <2> DEFINE d == w[p].doc
  <2>1. w[p] \in Local /\ Rest(d) \in Local /\ Rest(d).pc = "idle" /\ Visible(p) = {row[d]}
    BY WorkerType, SnapshotReads = FALSE DEF Visible
  <2>2. row' = row /\ posts' = posts
    BY <1>3 DEF AcquireSend, provider
  <2>3. PICK l : /\ w' = [w EXCEPT ![p] = l]
                 /\ l.pc \in {"mark", "post"} => /\ l.pc = "mark" /\ l.doc = d
                                                 /\ l.snap = row[d]
    <3>1. \/ w' = [w EXCEPT ![p] = Rest(d)]
          \/ w' = [w EXCEPT ![p] = [Rest(d) EXCEPT !.pc = "reconcile", !.held = TRUE,
                                                   !.resendMissing = TRUE]]
          \/ w' = [w EXCEPT ![p] = [w[p] EXCEPT !.pc = "mark", !.held = TRUE, !.snap = row[d]]]
      BY <1>3, <2>1 DEF AcquireSend
    <3>2. [Rest(d) EXCEPT !.pc = "reconcile", !.held = TRUE, !.resendMissing = TRUE].pc
            = "reconcile"
      BY <2>1 DEF Local
    <3>3. /\ [w[p] EXCEPT !.pc = "mark", !.held = TRUE, !.snap = row[d]].pc = "mark"
          /\ [w[p] EXCEPT !.pc = "mark", !.held = TRUE, !.snap = row[d]].doc = d
          /\ [w[p] EXCEPT !.pc = "mark", !.held = TRUE, !.snap = row[d]].snap = row[d]
      BY <2>1 DEF Local
    <3> QED
      BY <2>1, <3>1, <3>2, <3>3
  <2>4. ASSUME NEW q \in Workers
        PROVE  /\ w'[q].pc = "mark" => w'[q].snap.attempts = row'[w'[q].doc].attempts
               /\ w'[q].pc = "post" => posts'[w'[q].doc] < row'[w'[q].doc].attempts
    BY <2>2, <2>3 DEF Counted, TypeOK
  <2> QED
    BY <2>2, <2>4 DEF Counted, AttemptsCoverPosts
<1>4. ASSUME NEW p \in Workers, MarkSubmitting(p) PROVE Counted'
  <2> DEFINE d == w[p].doc
             r == [row[d] EXCEPT !.attempts = w[p].snap.attempts + 1, !.attempted = "recent",
                                 !.retry = "none", !.notFound = 0]
  <2>1. /\ w[p] \in Local /\ d \in Docs /\ row[d] \in Row /\ w[p].snap \in Row
        /\ row \in [Docs -> Row] /\ w \in [Workers -> Local] /\ posts \in [Docs -> Nat]
    BY WorkerType DEF TypeOK
  <2>2. r \in Row
    BY <2>1, AttemptType
  <2>3. r.attempts = row[d].attempts + 1 /\ row[d].attempts \in Nat
    BY <1>4, <2>1 DEF MarkSubmitting, Counted, Row
  <2> HIDE DEF r
  <2>4. PICK n \in Row : row' = [row EXCEPT ![d] = n] /\ n.attempts = row[d].attempts + 1
    <3>1. row' = [row EXCEPT ![d] = apply_transition(r, "SUBMITTING")]
      BY <1>4 DEF MarkSubmitting, SetRow, r
    <3>2. "SUBMITTING" \in Status
      BY DEF Status
    <3>3. /\ apply_transition(r, "SUBMITTING") \in Row
          /\ apply_transition(r, "SUBMITTING").attempts = r.attempts
      BY <2>2, <3>2, TransitionType
    <3> QED
      BY <2>3, <3>1, <3>3
  <2>5. posts' = posts /\ w' = [w EXCEPT ![p].pc = "post"]
    BY <1>4 DEF MarkSubmitting, Goto, provider
  <2>6. \A e \in Docs : row[e].attempts \in Nat /\ posts[e] <= row[e].attempts
    BY <2>1 DEF Row, Counted, AttemptsCoverPosts
  <2>7. AttemptsCoverPosts'
    BY <2>1, <2>3, <2>4, <2>5, <2>6 DEF AttemptsCoverPosts
  <2>8. ASSUME NEW q \in Workers, q # p, w[q].pc \in {"mark", "post"}
        PROVE  w[q].doc \in Docs /\ row'[w[q].doc] = row[w[q].doc]
    BY <1>2, <1>4, <2>1, <2>4, <2>8, WorkerType DEF MarkSubmitting, Sending
  <2>9. /\ w'[p].pc = "post" /\ w'[p].doc = d
        /\ posts'[d] < row'[d].attempts
    BY <2>1, <2>3, <2>4, <2>5, <2>6 DEF Local
  <2>10. \A q \in Workers : q # p => w'[q] = w[q]
    BY <2>1, <2>5
  <2>11. ASSUME NEW q \in Workers
         PROVE  /\ w'[q].pc = "mark" => w'[q].snap.attempts = row'[w'[q].doc].attempts
                /\ w'[q].pc = "post" => posts'[w'[q].doc] < row'[w'[q].doc].attempts
    <3>1. CASE q = p
      BY <2>9, <3>1
    <3>2. CASE q # p
      BY <2>5, <2>8, <2>10, <3>2 DEF Counted
    <3> QED
      BY <3>1, <3>2
  <2> QED
    BY <2>7, <2>11 DEF Counted
<1>5. ASSUME NEW p \in Workers, Post(p) PROVE Counted'
  <2> DEFINE d == w[p].doc
  <2>1. /\ w[p] \in Local /\ d \in Docs /\ row \in [Docs -> Row]
        /\ w \in [Workers -> Local] /\ posts \in [Docs -> Nat]
    BY WorkerType DEF TypeOK
  <2>2. row' = row /\ \A e \in Docs : row[e].attempts \in Nat /\ posts[e] <= row[e].attempts
    BY <1>5, <2>1 DEF Post, Row, Counted, AttemptsCoverPosts
  <2>3. posts[d] < row[d].attempts
    BY <1>5 DEF Post, Counted
  <2>4. PICK n \in {posts[d], posts[d] + 1} :
           /\ posts' = [posts EXCEPT ![d] = n]
           /\ \E s : w' = [w EXCEPT ![p].pc = "reply", ![p].reply = s]
    BY <1>5, <2>1 DEF Post
  <2>5. AttemptsCoverPosts'
    BY <2>1, <2>2, <2>3, <2>4 DEF AttemptsCoverPosts
  <2>6. ASSUME NEW q \in Workers, w'[q].pc \in {"mark", "post"}
        PROVE  w'[q] = w[q] /\ q # p
    BY <2>1, <2>4, <2>6 DEF Local
  <2>7. ASSUME NEW q \in Workers, w'[q].pc \in {"mark", "post"}
        PROVE  posts'[w[q].doc] = posts[w[q].doc]
    BY <1>2, <1>5, <2>1, <2>4, <2>6, <2>7, WorkerType DEF Post, Sending
  <2> QED
    BY <2>2, <2>5, <2>6, <2>7 DEF Counted
<1>6. CASE UNCHANGED vars
  BY <1>1, <1>6 DEF vars, Uncounted
<1>7. ASSUME NEW p \in Workers,
             Step(p) \/ Crash(p) \/ ProviderUnavailable(p) \/ WaitTimesOut(p)
      PROVE  Counted'
  BY <1>1, <1>3, <1>4, <1>5, <1>7, StepUncounted DEF Step
<1> QED
  BY <1>1, <1>6, <1>7, PollUncounted, SweepUncounted, UserUncounted, TimeUncounted DEF Next

LEMMA CountedInit == Init => Counted
<1> SUFFICES ASSUME Init PROVE Counted
  OBVIOUS
<1>1. AttemptsCoverPosts
  BY DEF Init, NewRow, AttemptsCoverPosts
<1>2. PICK queued \in SUBSET Docs :
         w = [p \in Workers |->
                 IF p \in Docs THEN [Rest(p) EXCEPT !.pc = IF p \in queued THEN "send"
                                                           ELSE "idle"]
                               ELSE Rest(AnyDoc)]
  BY DEF Init
<1>3. \A p \in Workers : w[p].pc \in {"send", "idle"}
  BY <1>2 DEF Rest
<1> QED
  BY <1>1, <1>3 DEF Counted

\* While no worker outlives its lease, and a worker reads the row that is
\* committed, every POST that left for the provider is counted in
\* submission_attempts, over all crashes, resends and users: the counter, and the
\* backoff and the audit trail that quote it, never miss one.
THEOREM AttemptsCounted ==
    ASSUME SlowWorkers = FALSE, SnapshotReads = FALSE
    PROVE  Spec => []AttemptsCoverPosts
<1>1. TypeOK /\ Held /\ Counted /\ [Next]_vars => (TypeOK /\ Held /\ Counted)'
  BY NextType, HeldNext, CountedNext, SlowWorkers = FALSE, SnapshotReads = FALSE
<1>2. Counted => AttemptsCoverPosts
  BY DEF Counted
<1> QED
  BY <1>1, <1>2, InitType, HeldInit, CountedInit, PTL DEF Spec

-----------------------------------------------------------------------------
(* Verdicts.  Without users, and when no row changes under the sweep's feet,  *)
(* the statuses alone keep the job of a document and the poller apart         *)
(* (OneOwner), so neither meets a document that has its verdict.              *)

Automatic ==
    /\ OneOwner
    /\ \A d \in Docs : w[d].doc = d /\ ~w[d].resendFailure
    /\ sweep.todo = Nothing /\ sweep.marked = {}

\* What AcceptedIsTerminal and BlockedStaysBlocked say of one step.
VerdictsKept ==
    \A d \in Docs :
        /\ row[d].status \in ACCEPTED_STATUSES => row'[d].status \in ACCEPTED_STATUSES
        /\ row[d].status \in BLOCKED_STATUSES => row'[d].status \in BLOCKED_STATUSES

LEMMA AutomaticInit ==
    ASSUME Init, Operators = {}
    PROVE  Automatic
<1>1. PICK queued \in SUBSET Docs :
         w = [p \in Workers |->
                 IF p \in Docs THEN [Rest(p) EXCEPT !.pc = IF p \in queued THEN "send"
                                                           ELSE "idle"]
                               ELSE Rest(AnyDoc)]
  BY DEF Init
<1>2. \A d \in Docs : w[d].doc = d /\ ~w[d].resendFailure
  BY <1>1 DEF Rest, Workers
<1>3. \A d \in Docs : row[d].status = "Pending" /\ poll.seen[d] = "none"
  BY DEF Init, NewRow, Nothing
<1> QED
  BY <1>2, <1>3 DEF Init, Automatic, OneOwner

\* A step of the job of p that ends it, or that leaves the row before the provider.
LEMMA AutomaticStep ==
    ASSUME TypeOK, Automatic, NEW p \in Docs, Workers = Docs, w[p].pc # "idle",
           \A e \in Docs \ {p} : row'[e] = row[e] /\ w'[e] = w[e],
           w'[p].doc = p, ~w'[p].resendFailure, poll' = poll, sweep' = sweep,
           w'[p].pc # "idle" => row'[p].status \in {"Pending", "SUBMITTING", "UNCONFIRMED"}
    PROVE  Automatic' /\ VerdictsKept
<1>1. /\ row[p].status \in {"Pending", "SUBMITTING", "UNCONFIRMED"}
      /\ poll.seen[p] = "none"
  BY DEF Automatic, OneOwner, REMOTE_IN_FLIGHT_STATUSES
<1>2. VerdictsKept
  BY <1>1 DEF VerdictsKept, ACCEPTED_STATUSES, BLOCKED_STATUSES
<1>3. OneOwner'
  BY <1>1 DEF Automatic, OneOwner
<1> QED
  BY <1>2, <1>3 DEF Automatic

LEMMA AutomaticWorker ==
    ASSUME TypeOK, Automatic, NEW p \in Docs, Workers = Docs,
           Step(p) \/ Crash(p) \/ ProviderUnavailable(p) \/ WaitTimesOut(p)
    PROVE  Automatic' /\ VerdictsKept
<1>0. /\ w[p] \in Local /\ row[p] \in Row /\ w[p].snap \in Row /\ w[p].doc = p
      /\ ~w[p].resendFailure /\ Rest(p) \in Local /\ Rest(p).doc = p
      /\ Rest(p).pc = "idle" /\ ~Rest(p).resendFailure
      /\ row \in [Docs -> Row] /\ w \in [Docs -> Local]
  BY WorkerType DEF Automatic, Rest, TypeOK
<1>1. w[p].pc # "idle"
  BY DEF Step, EnterSend, AcquireSend, MarkSubmitting, Post, HandlePostReply, BeginReconcile,
         Ask, HandleAnswer, HandleMissing, RecordMiss, Query, HandleQueryReply, Crash,
         ProviderUnavailable, WaitTimesOut
<1>2. row[p].status \in {"Pending", "SUBMITTING", "UNCONFIRMED"}
  BY <1>1 DEF Automatic, OneOwner
<1>3. poll' = poll /\ sweep' = sweep
  <2>1. CASE Step(p)
    BY <2>1 DEF Step, EnterSend, AcquireSend, MarkSubmitting, Post, HandlePostReply,
                BeginReconcile, Ask, HandleAnswer, HandleMissing, RecordMiss, Query,
                HandleQueryReply, tasks
  <2> QED
    BY <2>1 DEF Crash, ProviderUnavailable, WaitTimesOut, tasks
<1>4. \A e \in Docs \ {p} : row'[e] = row[e]
  <2>1. row' = row \/ \E r : row' = [row EXCEPT ![p] = r]
    <3>1. CASE Step(p)
      BY <1>0, <3>1 DEF Step, EnterSend, AcquireSend, MarkSubmitting, Post, HandlePostReply,
                        BeginReconcile, Ask, HandleAnswer, HandleMissing, RecordMiss, Query,
                        HandleQueryReply, SetRow
    <3> QED
      BY <3>1 DEF Crash, ProviderUnavailable, WaitTimesOut
  <2> QED
    BY <1>0, <2>1
<1>5. \* the worker goes on, and its row is as it was
      ASSUME row' = row,
             NEW l \in Local, w' = [w EXCEPT ![p] = l], l.doc = p, ~l.resendFailure
      PROVE  Automatic' /\ VerdictsKept
  BY <1>0, <1>1, <1>2, <1>3, <1>5, AutomaticStep
<1>6. CASE Finish(p)
  <2>1. w' = [w EXCEPT ![p] = Rest(p)]
    BY <1>0, <1>6 DEF Finish
  <2> QED
    BY <1>0, <1>1, <1>3, <1>4, <2>1, AutomaticStep
<1>7. CASE EnterSend(p) \/ BeginReconcile(p) \/ HandleMissing(p)
  <2>1. \/ Finish(p)
        \/ /\ row' = row
           /\ \E pc \in {"lock", "ask", "miss"}, r \in Row :
                 w' = [w EXCEPT ![p].pc = pc, ![p].snap = r]
    BY <1>0, <1>7, WorkerType DEF EnterSend, BeginReconcile, HandleMissing
  <2>2. ASSUME row' = row, NEW pc \in {"lock", "ask", "miss"}, NEW r \in Row,
               w' = [w EXCEPT ![p].pc = pc, ![p].snap = r]
        PROVE  Automatic' /\ VerdictsKept
    <3> DEFINE l == [w[p] EXCEPT !.pc = pc, !.snap = r]
    <3>1. l \in Local /\ l.doc = p /\ ~l.resendFailure
      BY <1>0 DEF Local, PC
    <3>2. w' = [w EXCEPT ![p] = l]
      BY <2>2
    <3> HIDE DEF l
    <3> QED
      BY <1>5, <2>2, <3>1, <3>2
  <2> QED
    BY <1>6, <2>1, <2>2
<1>8. CASE AcquireSend(p)
  <2>1. PICK r \in Visible(p) :
           \/ w' = [w EXCEPT ![p] = Rest(p)]
           \/ w' = [w EXCEPT ![p] = [Rest(p) EXCEPT !.pc = "reconcile", !.held = TRUE,
                                                    !.resendMissing = TRUE]]
           \/ w' = [w EXCEPT ![p] = [w[p] EXCEPT !.pc = "mark", !.held = TRUE, !.snap = r]]
    BY <1>0, <1>8 DEF AcquireSend
  <2>2. row' = row /\ r \in Row
    BY <1>8, <2>1, WorkerType DEF AcquireSend
  <2> DEFINE a == [Rest(p) EXCEPT !.pc = "reconcile", !.held = TRUE, !.resendMissing = TRUE]
             b == [w[p] EXCEPT !.pc = "mark", !.held = TRUE, !.snap = r]
  <2>3. /\ a \in Local /\ a.doc = p /\ ~a.resendFailure
        /\ b \in Local /\ b.doc = p /\ ~b.resendFailure
    BY <1>0, <2>2 DEF Local, PC
  <2>4. w' = [w EXCEPT ![p] = Rest(p)] \/ w' = [w EXCEPT ![p] = a] \/ w' = [w EXCEPT ![p] = b]
    BY <2>1
  <2> HIDE DEF a, b
  <2> QED
    BY <1>0, <1>5, <2>2, <2>3, <2>4
<1>9. CASE MarkSubmitting(p)
  <2> DEFINE q == [row[p] EXCEPT !.attempts = w[p].snap.attempts + 1, !.attempted = "recent",
                                 !.retry = "none", !.notFound = 0]
             l == [w[p] EXCEPT !.pc = "post"]
  <2>1. q \in Row
    BY <1>0, AttemptType
  <2>2. apply_transition(q, "SUBMITTING").status = "SUBMITTING"
    BY <2>1, TransitionType DEF Status
  <2>3. row' = [row EXCEPT ![p] = apply_transition(q, "SUBMITTING")]
    BY <1>0, <1>9 DEF MarkSubmitting, SetRow
  <2>4. l.doc = p /\ ~l.resendFailure
    BY <1>0 DEF Local
  <2>5. w' = [w EXCEPT ![p] = l]
    BY <1>9 DEF MarkSubmitting, Goto
  <2> HIDE DEF q, l
  <2> QED
    BY <1>0, <1>1, <1>3, <1>4, <2>2, <2>3, <2>4, <2>5, AutomaticStep
<1>10. CASE Post(p) \/ Ask(p) \/ Query(p)
  <2>1. PICK pc \in {"reply", "answer", "queryReply"}, s \in Reply :
           w' = [w EXCEPT ![p].pc = pc, ![p].reply = s]
    <3>1. remote[p] \in Remote
      BY DEF TypeOK
    <3>2. CASE Post(p)
      <4>1. PICK o \in PostOutcomes(remote[p]) :
               w' = [w EXCEPT ![p].pc = "reply", ![p].reply = o.reply]
        BY <1>0, <3>2 DEF Post
      <4>2. o.reply \in Reply
        BY <3>1, <4>1, OutcomesType DEF Reply, Status, REMOTE_IN_FLIGHT_STATUSES
      <4> QED
        BY <4>1, <4>2
    <3>3. CASE Ask(p) \/ Query(p)
      BY <1>0, <3>1, <3>3, OutcomesType DEF Ask, Query
    <3> QED
      BY <1>10, <3>2, <3>3
  <2>2. row' = row
    BY <1>10 DEF Post, Ask, Query
  <2> DEFINE l == [w[p] EXCEPT !.pc = pc, !.reply = s]
  <2>3. l \in Local /\ l.doc = p /\ ~l.resendFailure
    BY <1>0 DEF Local, PC
  <2>4. w' = [w EXCEPT ![p] = l]
    BY <2>1
  <2> HIDE DEF l
  <2> QED
    BY <1>5, <2>2, <2>3, <2>4
<1>11. CASE HandleAnswer(p)
  BY <1>0, <1>6, <1>11 DEF HandleAnswer
<1>12. CASE RecordMiss(p)
  <2>1. CASE ForceSend(p)
    <3> DEFINE l == [Rest(p) EXCEPT !.pc = "send", !.force = TRUE]
    <3>1. l.doc = p /\ ~l.resendFailure
      BY <1>0 DEF Local
    <3>2. w' = [w EXCEPT ![p] = l]
      BY <1>0, <2>1 DEF ForceSend
    <3>3. row'[p].status = "UNCONFIRMED"
      BY <1>0, <1>12, NotFoundType DEF RecordMiss, SetRow
    <3> HIDE DEF l
    <3> QED
      BY <1>0, <1>1, <1>3, <1>4, <3>1, <3>2, <3>3, AutomaticStep
  <2> QED
    BY <1>6, <1>12, <2>1 DEF RecordMiss
<1>13. CASE Crash(p) \/ WaitTimesOut(p)
  <2>1. row' = row /\ w' = [w EXCEPT ![p] = Rest(p)]
    BY <1>0, <1>13 DEF Crash, WaitTimesOut
  <2> QED
    BY <1>0, <1>5, <2>1
<1>14. CASE HandlePostReply(p) \/ HandleQueryReply(p) \/ ProviderUnavailable(p)
  BY <1>6, <1>14 DEF HandlePostReply, HandleQueryReply, ProviderUnavailable
<1> QED
  BY <1>7, <1>8, <1>9, <1>10, <1>11, <1>12, <1>13, <1>14 DEF Step

LEMMA AutomaticPoll ==
    ASSUME TypeOK, Automatic, Workers = Docs, Poller
    PROVE  Automatic' /\ VerdictsKept
<1>1. w' = w /\ sweep' = sweep
  BY DEF Poller, PollSelect, PollFails, PollAsk, PollApply, PollCrash
<1>2. CASE PollSelect
  <2>1. row' = row /\ \A d \in Docs : poll'.seen[d] # "none"
                                        => row[d].status \in REMOTE_IN_FLIGHT_STATUSES
    BY <1>2 DEF PollSelect, db, TypeOK
  <2> QED
    BY <1>1, <2>1 DEF Automatic, OneOwner, VerdictsKept
<1>3. CASE PollFails \/ PollCrash
  <2>1. row' = row /\ poll' = [pc |-> "idle", seen |-> Nothing, replies |-> Nothing]
    BY <1>3 DEF PollFails, PollCrash, db
  <2>2. poll'.seen = Nothing
    BY <2>1
  <2> QED
    BY <1>1, <2>1, <2>2 DEF Automatic, OneOwner, VerdictsKept, Nothing
<1>4. CASE PollAsk
  <2>1. row' = row /\ poll'.seen = poll.seen
    BY <1>4 DEF PollAsk, TypeOK, db
  <2> QED
    BY <1>1, <2>1 DEF Automatic, OneOwner, VerdictsKept
<1>5. CASE PollApply
  <2>1. \A d \in Docs : poll'.seen[d] = "none"
    BY <1>5 DEF PollApply, Nothing
  <2>2. ASSUME NEW d \in Docs, row[d].status \notin REMOTE_IN_FLIGHT_STATUSES
        PROVE  row'[d] = row[d]
    <3>1. poll.replies[d] = "none"
      BY <2>2 DEF Automatic, OneOwner, TypeOK, RepliesFit
    <3> QED
      BY <1>5, <3>1 DEF PollApply, PollResult
  <2>3. ASSUME NEW d \in Docs, w[d].pc # "idle"
        PROVE  row'[d] = row[d]
    BY <2>2, <2>3 DEF Automatic, OneOwner, REMOTE_IN_FLIGHT_STATUSES
  <2>4. VerdictsKept
    BY <2>2 DEF VerdictsKept, REMOTE_IN_FLIGHT_STATUSES, ACCEPTED_STATUSES, BLOCKED_STATUSES
  <2> QED
    BY <1>1, <2>1, <2>3, <2>4 DEF Automatic, OneOwner
<1> QED
  BY <1>2, <1>3, <1>4, <1>5 DEF Poller

LEMMA AutomaticSweep ==
    ASSUME TypeOK, Automatic, Workers = Docs, SlowSweep = FALSE, Sweep
    PROVE  Automatic' /\ VerdictsKept
<1>1. SweepAtOnce
  <2>1. ~SweepRead
    BY SlowSweep = FALSE DEF SweepRead
  <2>2. ~(\E d \in Docs : SweepRow(d))
    BY DEF SweepRow, Automatic, Nothing
  <2>3. ~SweepCommit
    BY DEF SweepCommit, Automatic
  <2>4. ~SweepCrash
    BY DEF SweepCrash, Automatic, TypeOK
  <2> QED
    BY <2>1, <2>2, <2>3, <2>4 DEF Sweep
<1>2. poll' = poll /\ sweep' = sweep
  BY <1>1 DEF SweepAtOnce, tasks
<1>3. ASSUME NEW d \in Docs
      PROVE  \/ row'[d] = row[d] /\ w'[d] = w[d]
             \/ /\ row[d].status \in {"Pending", "SUBMITTING", "UNCONFIRMED"}
                /\ row'[d].status \in {"Pending", "SUBMITTING", "UNCONFIRMED"}
                /\ w'[d].doc = w[d].doc /\ (w'[d].resendFailure => w[d].resendFailure)
  <2>1. row[d] \in Row /\ w[d] \in Local /\ d \in Workers
    BY DEF TypeOK
  <2>2. /\ row'[d] = IF Verdict(row[d]) = "stale" THEN MarkStale(row[d]) ELSE row[d]
        /\ w'[d] = EnqueueFor(w[d], Verdict(row[d]))
    BY <1>1, <2>1 DEF SweepAtOnce
  <2>3. CASE Verdict(row[d]) = "none"
    BY <2>2, <2>3 DEF EnqueueFor
  <2>4. CASE Verdict(row[d]) # "none"
    <3>1. row[d].status \in {"Pending", "SUBMITTING", "UNCONFIRMED"}
      BY <2>4 DEF Verdict
    <3>2. row'[d].status \in {"Pending", "SUBMITTING", "UNCONFIRMED"}
      BY <2>1, <2>2, <3>1, MarkStaleType
    <3>3. w'[d].doc = w[d].doc /\ (w'[d].resendFailure => w[d].resendFailure)
      BY <2>1, <2>2 DEF EnqueueFor, Enqueue, Local
    <3> QED
      BY <3>1, <3>2, <3>3
  <2> QED
    BY <2>3, <2>4
<1>4. VerdictsKept
  BY <1>3 DEF VerdictsKept, ACCEPTED_STATUSES, BLOCKED_STATUSES
<1>5. OneOwner'
  BY <1>2, <1>3 DEF Automatic, OneOwner, REMOTE_IN_FLIGHT_STATUSES
<1> QED
  BY <1>2, <1>3, <1>4, <1>5 DEF Automatic

LEMMA AutomaticTime ==
    ASSUME TypeOK, Automatic, NEW d \in Docs, Time(d) \/ ProviderWorks(d)
    PROVE  Automatic' /\ VerdictsKept
<1>1. w' = w /\ poll' = poll /\ sweep' = sweep
  <2>1. CASE Time(d)
    BY <2>1 DEF Time, TwoMinutesPass, RetryFallsDue, CheckFallsDue, AttemptGoesStale,
                LeaseExpires, tasks
  <2>2. CASE ProviderWorks(d)
    BY <2>2 DEF ProviderWorks, tasks
  <2> QED
    BY <2>1, <2>2
<1>2. \A e \in Docs : row'[e].status = row[e].status
  <2>1. row \in [Docs -> Row]
    BY DEF TypeOK
  <2>2. CASE UNCHANGED row
    BY <2>2
  <2>3. CASE TwoMinutesPass(d)
    BY <2>1, <2>3 DEF TwoMinutesPass, Row
  <2>4. CASE RetryFallsDue(d) \/ CheckFallsDue(d) \/ AttemptGoesStale(d)
    BY <2>1, <2>4 DEF RetryFallsDue, CheckFallsDue, AttemptGoesStale, Row
  <2> QED
    BY <2>2, <2>3, <2>4 DEF Time, LeaseExpires, ProviderWorks, db
<1> QED
  BY <1>1, <1>2 DEF Automatic, OneOwner, VerdictsKept

LEMMA AutomaticNext ==
    ASSUME TypeOK, Automatic, [Next]_vars, Operators = {}, SlowSweep = FALSE
    PROVE  Automatic' /\ VerdictsKept
<1>1. Workers = Docs
  BY Operators = {} DEF Workers
<1>2. CASE UNCHANGED vars
  BY <1>2 DEF vars, Automatic, OneOwner, VerdictsKept
<1> QED
  BY <1>1, <1>2, AutomaticWorker, AutomaticPoll, AutomaticSweep, AutomaticTime,
     Operators = {}, SlowSweep = FALSE DEF Next

\* When no user acts, and rows do not change between the sweep's SELECT and its
\* jobs, the submission jobs, poll_pending_documents and retry_failed_documents,
\* with every fault, crash, expired lease and stale snapshot, never take an
\* accepted document back.
THEOREM AcceptedStays ==
    ASSUME Operators = {}, SlowSweep = FALSE
    PROVE  Spec => AcceptedIsTerminal
<1>1. TypeOK /\ Automatic /\ [Next]_vars => (TypeOK /\ Automatic)'
  BY NextType, AutomaticNext, Operators = {}, SlowSweep = FALSE
<1>2. TypeOK /\ Automatic /\ [Next]_vars
         => [\A d \in Docs : row[d].status \in ACCEPTED_STATUSES
                                => row'[d].status \in ACCEPTED_STATUSES]_vars
  BY AutomaticNext, Operators = {}, SlowSweep = FALSE DEF VerdictsKept
<1>3. Init => TypeOK /\ Automatic
  BY InitType, AutomaticInit, Operators = {}
<1> QED
  BY <1>1, <1>2, <1>3, PTL DEF Spec, AcceptedIsTerminal

\* Under the same conditions nothing but a user moves a blocked document.
THEOREM BlockedStays ==
    ASSUME Operators = {}, SlowSweep = FALSE
    PROVE  Spec => BlockedStaysBlocked
<1>1. TypeOK /\ Automatic /\ [Next]_vars => (TypeOK /\ Automatic)'
  BY NextType, AutomaticNext, Operators = {}, SlowSweep = FALSE
<1>2. TypeOK /\ Automatic /\ [Next]_vars
         => [\A d \in Docs : row[d].status \in BLOCKED_STATUSES
                                => row'[d].status \in BLOCKED_STATUSES]_vars
  BY AutomaticNext, Operators = {}, SlowSweep = FALSE DEF VerdictsKept
<1>3. Init => TypeOK /\ Automatic
  BY InitType, AutomaticInit, Operators = {}
<1> QED
  BY <1>1, <1>2, <1>3, PTL DEF Spec, BlockedStaysBlocked

\* Under the same conditions a row has one owner at a time: its job, or the poller.
THEOREM OwnersApart ==
    ASSUME Operators = {}, SlowSweep = FALSE
    PROVE  Spec => []OneOwner
<1>1. TypeOK /\ Automatic /\ [Next]_vars => (TypeOK /\ Automatic)'
  BY NextType, AutomaticNext, Operators = {}, SlowSweep = FALSE
<1>2. Init => TypeOK /\ Automatic
  BY InitType, AutomaticInit, Operators = {}
<1>3. Automatic => OneOwner
  BY DEF Automatic
<1> QED
  BY <1>1, <1>2, <1>3, PTL DEF Spec

-----------------------------------------------------------------------------
(* A person is asked for on the blocked rows, and on no others               *)

ActionFits(r) == r.action <=> r.status \in BLOCKED_STATUSES

\* Every way the code writes a row leaves the two columns in step.
LEMMA TransitionAsks ==
    ASSUME NEW r \in Row, NEW s \in Status
    PROVE  ActionFits(apply_transition(r, s))
<1>1. /\ apply_transition(r, s).status = s
      /\ apply_transition(r, s).action = (s \in BLOCKED_STATUSES)
  BY DEF apply_transition, Row
<1> QED
  BY <1>1 DEF ActionFits

LEMMA WritesAsk ==
    ASSUME NEW r \in Row, NEW seen \in Row, NEW s \in Status
    PROVE  /\ ActionFits(apply_remote_result(r, s))
           /\ ActionFits(apply_remote_result(r, "untyped"))
           /\ ActionFits(record_not_found(r, seen))
           /\ \A kind : ActionFits(record_failure(r, kind))
           /\ ActionFits(record_ambiguous(r, seen))
           /\ ActionFits(record_blocked_not_found(r, seen))
           /\ ActionFits(MarkStale(r))
           /\ ActionFits(apply_transition([r EXCEPT !.checked = "recent"], s))
           /\ ActionFits(apply_transition([r EXCEPT !.attempts = seen.attempts + 1,
                              !.attempted = "recent", !.retry = "none", !.notFound = 0],
                              "SUBMITTING"))
<1>1. /\ r.status \in Status /\ seen.status \in Status /\ seen.notFound \in Nat
      /\ seen.retry \in {"none", "later", "due"}
  BY DEF Row
<1>2. {"UNCONFIRMED", "ERROR", "SUBMITTING"} \subseteq Status
  BY DEF Status, BLOCKED_STATUSES
<1>3. [r EXCEPT !.checked = "recent", !.notFound = 0] \in Row
  BY DEF Row
<1>4. /\ ActionFits(apply_remote_result(r, s))
      /\ ActionFits(apply_remote_result(r, "untyped"))
  <2>1. "untyped" \notin Status
    BY DEF Status, REMOTE_IN_FLIGHT_STATUSES, ACCEPTED_STATUSES, BLOCKED_STATUSES
  <2>2. /\ apply_remote_result(r, s)
             = apply_transition([r EXCEPT !.checked = "recent", !.notFound = 0], s)
        /\ apply_remote_result(r, "untyped")
             = apply_transition([r EXCEPT !.checked = "recent", !.notFound = 0], r.status)
    BY <1>3, <2>1 DEF apply_remote_result, Row
  <2> QED
    BY <1>1, <1>3, <2>2, TransitionAsks
<1>5. ActionFits(record_not_found(r, seen))
  <2> DEFINE a == [r EXCEPT !.notFound = seen.notFound + 1, !.checked = "recent",
                            !.retry = "none"]
             b == [r EXCEPT !.notFound = Max2(seen.notFound, 1), !.checked = "recent",
                            !.retry = "later"]
  <2>1. a \in Row /\ b \in Row
    <3>1. seen.notFound + 1 \in Nat /\ Max2(seen.notFound, 1) \in Nat
      BY <1>1 DEF Max2
    <3> QED
      BY <3>1 DEF Row
  <2>2. \/ record_not_found(r, seen) = apply_transition(a, "UNCONFIRMED")
        \/ record_not_found(r, seen) = apply_transition(b, "UNCONFIRMED")
    BY DEF record_not_found
  <2> HIDE DEF a, b
  <2> QED
    BY <1>2, <2>1, <2>2, TransitionAsks
<1>6. ASSUME NEW kind
      PROVE  ActionFits(record_failure(r, kind))
  <2>1. [r EXCEPT !.retry = "later"] \in Row /\ [r EXCEPT !.retry = "none"] \in Row
    BY DEF Row
  <2> QED
    BY <1>2, <2>1, TransitionAsks DEF record_failure
<1>7. /\ ActionFits(record_ambiguous(r, seen))
      /\ ActionFits(record_blocked_not_found(r, seen))
  <2> DEFINE a == [r EXCEPT !.checked = "recent",
                            !.retry = IF seen.status = "UNCONFIRMED" THEN "later"
                                      ELSE seen.retry]
             b == [r EXCEPT !.checked = "recent", !.retry = "none"]
  <2>1. a \in Row /\ b \in Row
    BY <1>1 DEF Row
  <2>2. /\ record_ambiguous(r, seen) = apply_transition(a, seen.status)
        /\ record_blocked_not_found(r, seen) = apply_transition(b, seen.status)
    BY DEF record_ambiguous, record_blocked_not_found
  <2> HIDE DEF a, b
  <2> QED
    BY <1>1, <2>1, <2>2, TransitionAsks
<1>8. ActionFits(MarkStale(r))
  <2>1. [r EXCEPT !.retry = "due"] \in Row
    BY DEF Row
  <2> QED
    BY <1>2, <2>1, TransitionAsks DEF MarkStale
<1>9. ActionFits(apply_transition([r EXCEPT !.checked = "recent"], s))
  <2>1. [r EXCEPT !.checked = "recent"] \in Row
    BY DEF Row
  <2> QED
    BY <2>1, TransitionAsks
<1>10. ActionFits(apply_transition([r EXCEPT !.attempts = seen.attempts + 1,
                      !.attempted = "recent", !.retry = "none", !.notFound = 0],
                      "SUBMITTING"))
  BY <1>2, AttemptType, TransitionAsks
<1> QED
  BY <1>4, <1>5, <1>6, <1>7, <1>8, <1>9, <1>10

LEMMA SetRowAsks ==
    ASSUME TypeOK, BlockedRowsAskForAction, NEW d \in Docs, NEW r, ActionFits(r), SetRow(d, r)
    PROVE  BlockedRowsAskForAction'
  BY DEF SetRow, TypeOK, BlockedRowsAskForAction, ActionFits

LEMMA StepAsks ==
    ASSUME TypeOK, BlockedRowsAskForAction, NEW p \in Workers,
           Step(p) \/ Crash(p) \/ ProviderUnavailable(p) \/ WaitTimesOut(p)
    PROVE  BlockedRowsAskForAction'
<1> DEFINE d == w[p].doc
           s == w[p].reply
<1>0. d \in Docs /\ row[d] \in Row /\ w[p].snap \in Row /\ s \in Reply
  BY WorkerType
<1>1. CASE row' = row
  BY <1>1 DEF BlockedRowsAskForAction
<1>2. CASE MarkSubmitting(p)
  <2>1. PICK r : ActionFits(r) /\ SetRow(d, r)
    BY <1>0, <1>2, WritesAsk DEF MarkSubmitting, Status
  <2> QED
    BY <1>0, <2>1, SetRowAsks
<1>3. CASE HandlePostReply(p)
  <2>1. s \in {"RECIBIDO", "lost", "denied"}
    BY <1>3 DEF HandlePostReply, TypeOK, RepliesFit
  <2>2. PICK r : ActionFits(r) /\ SetRow(d, r)
    BY <1>0, <1>3, <2>1, WritesAsk DEF HandlePostReply, Status, REMOTE_IN_FLIGHT_STATUSES
  <2> QED
    BY <1>0, <2>2, SetRowAsks
<1>4. CASE HandleAnswer(p)
  <2>1. PICK r : ActionFits(r) /\ SetRow(d, r)
    BY <1>0, <1>4, WritesAsk DEF HandleAnswer, Status
  <2> QED
    BY <1>0, <2>1, SetRowAsks
<1>5. CASE HandleMissing(p)
  <2>1. row' = row \/ SetRow(d, record_blocked_not_found(row[d], w[p].snap))
    BY <1>5 DEF HandleMissing
  <2>2. ActionFits(record_blocked_not_found(row[d], w[p].snap))
    BY <1>0, WritesAsk DEF Status
  <2> QED
    BY <1>0, <1>1, <2>1, <2>2, SetRowAsks
<1>6. CASE RecordMiss(p)
  <2>1. ActionFits(record_not_found(row[d], w[p].snap))
    BY <1>0, WritesAsk DEF Status
  <2> QED
    BY <1>0, <1>6, <2>1, SetRowAsks DEF RecordMiss
<1>7. CASE HandleQueryReply(p)
  <2>1. row' = row \/ (s \in Status /\ SetRow(d, apply_remote_result(row[d], s)))
    BY <1>7 DEF HandleQueryReply
  <2>2. s \in Status => ActionFits(apply_remote_result(row[d], s))
    BY <1>0, WritesAsk
  <2> QED
    BY <1>0, <1>1, <2>1, <2>2, SetRowAsks
<1> QED
  BY <1>1, <1>2, <1>3, <1>4, <1>5, <1>6, <1>7
     DEF Step, EnterSend, AcquireSend, Post, BeginReconcile, Ask, Query, Crash,
         ProviderUnavailable, WaitTimesOut

LEMMA PollAsks ==
    ASSUME TypeOK, BlockedRowsAskForAction, Poller
    PROVE  BlockedRowsAskForAction'
<1>1. CASE row' = row
  BY <1>1 DEF BlockedRowsAskForAction
<1>2. CASE PollApply
  <2> SUFFICES ASSUME NEW d \in Docs PROVE ActionFits(row'[d])
    BY DEF BlockedRowsAskForAction, ActionFits
  <2> DEFINE s == poll.replies[d]
  <2>1. /\ row[d] \in Row /\ ActionFits(row[d])
        /\ s \in Status \cup {"none", "missing", "untyped", "ambiguous"}
        /\ s # "none" => poll.seen[d] \in Status
    BY DEF TypeOK, RepliesFit, BlockedRowsAskForAction, ActionFits
  <2>2. row'[d] = PollResult(row[d], poll.seen[d], s)
    BY <1>2 DEF PollApply
  <2>3. CASE s = "none"
    BY <2>1, <2>2, <2>3 DEF PollResult
  <2>4. CASE s = "missing"
    <3>1. row'[d] = record_not_found(row[d], row[d])
      BY <2>2, <2>4 DEF PollResult
    <3> QED
      BY <2>1, <3>1, WritesAsk DEF Status
  <2>5. CASE s = "ambiguous"
    <3>1. row'[d] = apply_transition([row[d] EXCEPT !.checked = "recent"], poll.seen[d])
      BY <2>2, <2>5 DEF PollResult
    <3> QED
      BY <2>1, <2>5, <3>1, WritesAsk
  <2>6. CASE s \notin {"none", "missing", "ambiguous"}
    <3>1. row'[d] = apply_remote_result(row[d], s) /\ s \in Status \cup {"untyped"}
      BY <2>1, <2>2, <2>6 DEF PollResult
    <3>2. CASE s = "untyped"
      BY <2>1, <3>1, <3>2, WritesAsk DEF Status
    <3> QED
      BY <2>1, <3>1, <3>2, WritesAsk
  <2> QED
    BY <2>3, <2>4, <2>5, <2>6
<1> QED
  BY <1>1, <1>2 DEF Poller, PollSelect, PollFails, PollAsk, PollCrash, db

LEMMA SweepAsks ==
    ASSUME TypeOK, BlockedRowsAskForAction, Sweep
    PROVE  BlockedRowsAskForAction'
<1>1. CASE row' = row
  BY <1>1 DEF BlockedRowsAskForAction
<1>2. CASE SweepAtOnce \/ SweepCommit
  <2> SUFFICES ASSUME NEW d \in Docs PROVE ActionFits(row'[d])
    BY DEF BlockedRowsAskForAction, ActionFits
  <2>1. row[d] \in Row /\ ActionFits(row[d])
    BY DEF TypeOK, BlockedRowsAskForAction, ActionFits
  <2>2. row'[d] = row[d] \/ row'[d] = MarkStale(row[d])
    BY <1>2 DEF SweepAtOnce, SweepCommit
  <2>3. ActionFits(MarkStale(row[d]))
    BY <2>1, WritesAsk DEF Status
  <2> QED
    BY <2>1, <2>2, <2>3
<1> QED
  BY <1>1, <1>2 DEF Sweep, SweepRead, SweepRow, SweepCrash, db

LEMMA TimeAsks ==
    ASSUME TypeOK, BlockedRowsAskForAction, NEW d \in Docs, Time(d) \/ ProviderWorks(d)
    PROVE  BlockedRowsAskForAction'
<1>0. row \in [Docs -> Row] /\ row[d] \in Row
  BY DEF TypeOK
<1>1. CASE row' = row
  BY <1>1 DEF BlockedRowsAskForAction
<1>2. CASE TwoMinutesPass(d) \/ RetryFallsDue(d) \/ CheckFallsDue(d) \/ AttemptGoesStale(d)
  <2>1. \A e \in Docs : row'[e].action = row[e].action /\ row'[e].status = row[e].status
    BY <1>0, <1>2 DEF TwoMinutesPass, RetryFallsDue, CheckFallsDue, AttemptGoesStale, Row
  <2> QED
    BY <2>1 DEF BlockedRowsAskForAction
<1> QED
  BY <1>1, <1>2 DEF Time, LeaseExpires, ProviderWorks, db

\* operator_action_required is set exactly on blocked rows, for any number of
\* workers and users, every fault, crash, expired lease and stale read.
THEOREM BlockedAsk == Spec => []BlockedRowsAskForAction
<1>1. Init => BlockedRowsAskForAction
  BY DEF Init, NewRow, BlockedRowsAskForAction, BLOCKED_STATUSES
<1>2. TypeOK /\ BlockedRowsAskForAction /\ [Next]_vars => BlockedRowsAskForAction'
  <2> SUFFICES ASSUME TypeOK, BlockedRowsAskForAction, [Next]_vars
               PROVE  BlockedRowsAskForAction'
    OBVIOUS
  <2>1. CASE row' = row
    BY <2>1 DEF BlockedRowsAskForAction
  <2>2. ASSUME NEW o \in Operators, NEW d \in Docs, User(o, d)
        PROVE  row' = row
    BY <2>2 DEF User, Submit, Refresh, Retry, QueryStatus, db
  <2>3. UNCHANGED vars => row' = row
    BY DEF vars
  <2> QED
    BY <2>1, <2>2, <2>3, StepAsks, PollAsks, SweepAsks, TimeAsks DEF Next
<1> QED
  BY <1>1, <1>2, TypeCorrect, PTL DEF Spec

=============================================================================
