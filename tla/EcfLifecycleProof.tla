------------------------- MODULE EcfLifecycleProof -------------------------
(* The automatic tasks of EcfDelivery implement FiscalLifecycle.  What makes  *)
(* it true is that every reply, snapshot and answered batch that says         *)
(* "accepted" says so of a document the provider did accept, and that this    *)
(* cannot grow old: acceptance is final there.                                *)
EXTENDS EcfDeliveryProof

-----------------------------------------------------------------------------
(* Nothing is taken for accepted that is not *)

Honest(l, r) == l.reply = "Aceptado" \/ l.snap.status = "Aceptado" => r[l.doc] = "Aceptado"

HonestPoll(q, r) ==
    \A d \in Docs : q.replies[d] = "Aceptado" \/ q.seen[d] = "Aceptado" => r[d] = "Aceptado"

Truthful ==
    /\ AcceptedThere
    /\ \A p \in Workers : Honest(w[p], remote)
    /\ HonestPoll(poll, remote)

\* The provider does not take an acceptance back.
Final == \A d \in Docs : remote[d] = "Aceptado" => remote'[d] = "Aceptado"

LEMMA WriteStatus ==
    ASSUME NEW r \in Row, NEW seen \in Row, NEW kind
    PROVE  /\ record_failure(r, kind).status \in {"UNCONFIRMED", "ERROR"}
           /\ record_ambiguous(r, seen).status = seen.status
           /\ record_blocked_not_found(r, seen).status = seen.status
           /\ record_not_found(r, seen).status = "UNCONFIRMED"
<1> DEFINE a == [r EXCEPT !.retry = "later"]
           b == [r EXCEPT !.retry = "none"]
           c == [r EXCEPT !.checked = "recent",
                          !.retry = IF seen.status = "UNCONFIRMED" THEN "later" ELSE seen.retry]
           e == [r EXCEPT !.checked = "recent", !.retry = "none"]
<1>1. a \in Row /\ b \in Row /\ c \in Row /\ e \in Row
  BY DEF Row
<1>2. seen.status \in Status /\ "UNCONFIRMED" \in Status /\ "ERROR" \in Status
  BY DEF Row, Status, BLOCKED_STATUSES
<1>3. /\ record_failure(r, kind) = IF kind = "lost" THEN apply_transition(a, "UNCONFIRMED")
                                                   ELSE apply_transition(b, "ERROR")
      /\ record_ambiguous(r, seen) = apply_transition(c, seen.status)
      /\ record_blocked_not_found(r, seen) = apply_transition(e, seen.status)
  BY DEF record_failure, record_ambiguous, record_blocked_not_found
<1> HIDE DEF a, b, c, e
<1>4. /\ apply_transition(a, "UNCONFIRMED").status = "UNCONFIRMED"
      /\ apply_transition(b, "ERROR").status = "ERROR"
      /\ apply_transition(c, seen.status).status = seen.status
      /\ apply_transition(e, seen.status).status = seen.status
  BY <1>1, <1>2, TransitionType
<1>5. record_failure(r, kind).status \in {"UNCONFIRMED", "ERROR"}
  BY <1>3, <1>4
<1>6. record_not_found(r, seen).status = "UNCONFIRMED"
  BY NotFoundType
<1> QED
  BY <1>3, <1>4, <1>5, <1>6

LEMMA TruthfulInit == Init => Truthful
<1> SUFFICES ASSUME Init PROVE Truthful
  OBVIOUS
<1>1. PICK queued \in SUBSET Docs :
         w = [p \in Workers |->
                 IF p \in Docs THEN [Rest(p) EXCEPT !.pc = IF p \in queued THEN "send"
                                                           ELSE "idle"]
                               ELSE Rest(AnyDoc)]
  BY DEF Init
<1>2. \A d : Rest(d).reply = "none" /\ Rest(d).snap.status = "Pending"
  BY DEF Rest, NewRow
<1>3. \A p \in Workers : w[p].reply = "none" /\ w[p].snap.status = "Pending"
  BY <1>1, <1>2 DEF Rest
<1>4. \A d \in Docs : row[d].status = "Pending"
  BY DEF Init, NewRow
<1> QED
  BY <1>3, <1>4 DEF Init, Truthful, AcceptedThere, ACCEPTED_STATUSES, Honest, HonestPoll, Nothing

\* A step of a worker: it writes its row at most, and ends as honest as it was.
LEMMA TruthfulMove ==
    ASSUME TypeOK, Truthful, Final, NEW p \in Workers, NEW l \in Local,
           w' = [w EXCEPT ![p] = l], poll' = poll, Honest(l, remote'),
           \A d \in Docs : row'[d].status = "Aceptado" => remote'[d] = "Aceptado"
    PROVE  Truthful'
<1>1. ASSUME NEW q \in Workers PROVE Honest(w'[q], remote')
  <2>1. CASE q = p
    BY <2>1 DEF TypeOK
  <2>2. CASE q # p
    <3>1. w'[q] = w[q] /\ w[q].doc \in Docs
      BY <2>2, WorkerType DEF TypeOK
    <3> QED
      BY <3>1 DEF Truthful, Honest, Final
  <2> QED
    BY <2>1, <2>2
<1>2. HonestPoll(poll', remote')
  BY DEF Truthful, HonestPoll, Final
<1> QED
  BY <1>1, <1>2 DEF Truthful, AcceptedThere, ACCEPTED_STATUSES

\* Nothing but the answers of the provider says that a document is accepted.
LEMMA HonestOutcomes ==
    ASSUME NEW r \in Remote
    PROVE  /\ \A o \in PostOutcomes(r) : r = "Aceptado" => o.remote = "Aceptado"
           /\ \A o \in PostOutcomes(r) : o.remote # r => o.remote \in {Received(r), ReceivedUnseen(r)}
           /\ \A o \in QueryOutcomes(r) : o.reply = "Aceptado" => r = "Aceptado"
           /\ View(r) = "Aceptado" => r = "Aceptado"
<1>1. View(r) = "Aceptado" => r = "Aceptado"
  BY DEF View
<1>2. r = "Aceptado" => Received(r) = r /\ ReceivedUnseen(r) = r
  BY DEF Received, ReceivedUnseen
<1>3. ASSUME NEW o \in PostOutcomes(r) PROVE o.remote \in {r, Received(r), ReceivedUnseen(r)}
  BY <1>3 DEF PostOutcomes
<1>4. ASSUME NEW o \in QueryOutcomes(r)
      PROVE  o.reply \in {View(r), "lost", "denied", "ambiguous", "untyped"}
  BY <1>4 DEF QueryOutcomes
<1> QED
  BY <1>1, <1>2, <1>3, <1>4

LEMMA RestHonest ==
    ASSUME NEW d, NEW r
    PROVE  /\ Honest(Rest(d), r)
           /\ Honest([Rest(d) EXCEPT !.pc = "send", !.force = TRUE], r)
           /\ Honest([Rest(d) EXCEPT !.pc = "reconcile", !.held = TRUE, !.resendMissing = TRUE], r)
  BY DEF Rest, NewRow, Honest

LEMMA MoveHonest ==
    ASSUME NEW l \in Local, NEW pc \in PC, NEW r \in Row, NEW there,
           Honest(l, there), r.status = "Aceptado" => there[l.doc] = "Aceptado"
    PROVE  /\ [l EXCEPT !.pc = pc, !.snap = r] \in Local
           /\ [l EXCEPT !.pc = pc, !.held = TRUE, !.snap = r] \in Local
           /\ Honest([l EXCEPT !.pc = pc, !.snap = r], there)
           /\ Honest([l EXCEPT !.pc = pc, !.held = TRUE, !.snap = r], there)
<1> DEFINE a == [l EXCEPT !.pc = pc, !.snap = r]
           b == [l EXCEPT !.pc = pc, !.held = TRUE, !.snap = r]
<1>1. a \in Local /\ b \in Local
  BY DEF Local
<1>2. /\ a.doc = l.doc /\ a.reply = l.reply /\ a.snap = r
      /\ b.doc = l.doc /\ b.reply = l.reply /\ b.snap = r
  BY DEF Local
<1> HIDE DEF a, b
<1>3. Honest(a, there) /\ Honest(b, there)
  BY <1>2 DEF Honest
<1> QED
  BY <1>1, <1>3 DEF a, b

LEMMA TruthfulWorker ==
    ASSUME TypeOK, Truthful, NEW p \in Workers,
           Step(p) \/ Crash(p) \/ ProviderUnavailable(p) \/ WaitTimesOut(p)
    PROVE  Truthful'
<1> DEFINE d == w[p].doc
<1>0. /\ w[p] \in Local /\ d \in Docs /\ row[d] \in Row /\ w[p].snap \in Row
      /\ remote[d] \in Remote /\ Rest(d) \in Local /\ Honest(w[p], remote)
      /\ \A r \in Visible(p) : r \in Row /\ (r.status = "Aceptado" => remote[d] = "Aceptado")
      /\ \A e \in Docs : row[e].status = "Aceptado" => remote[e] = "Aceptado"
  BY WorkerType DEF TypeOK, Truthful, AcceptedThere, ACCEPTED_STATUSES, Visible, Honest
<1>1. poll' = poll
  <2>1. CASE Step(p)
    BY <2>1 DEF Step, EnterSend, AcquireSend, MarkSubmitting, Post, HandlePostReply,
                BeginReconcile, Ask, HandleAnswer, HandleMissing, RecordMiss, Query,
                HandleQueryReply, tasks
  <2> QED
    BY <2>1 DEF Crash, ProviderUnavailable, WaitTimesOut, tasks
<1>2. \* it goes on, with its row as it was
      ASSUME row' = row, remote' = remote,
             NEW l \in Local, w' = [w EXCEPT ![p] = l], Honest(l, remote)
      PROVE  Truthful'
  BY <1>0, <1>1, <1>2, TruthfulMove DEF Final
<1>3. \* it writes the row, and ends or sends again
      ASSUME NEW r, SetRow(d, r), remote' = remote,
             r.status = "Aceptado" => remote[d] = "Aceptado",
             NEW l \in Local, w' = [w EXCEPT ![p] = l], Honest(l, remote)
      PROVE  Truthful'
  <2>1. \A e \in Docs : row'[e].status = "Aceptado" => remote'[e] = "Aceptado"
    BY <1>0, <1>3 DEF SetRow, TypeOK
  <2> QED
    BY <1>1, <1>3, <2>1, TruthfulMove DEF Final
<1>4. \* which is how these two leave it
      /\ Finish(p) => w' = [w EXCEPT ![p] = Rest(d)]
      /\ ForceSend(p) => w' = [w EXCEPT ![p] = [Rest(d) EXCEPT !.pc = "send", !.force = TRUE]]
      /\ [Rest(d) EXCEPT !.pc = "send", !.force = TRUE] \in Local
  BY <1>0 DEF Finish, ForceSend, Local, PC
<1>5. ASSUME NEW r, SetRow(d, r), remote' = remote, Finish(p) \/ ForceSend(p),
             r.status = "Aceptado" => remote[d] = "Aceptado"
      PROVE  Truthful'
  <2>1. CASE Finish(p)
    BY <1>0, <1>3, <1>4, <1>5, <2>1, RestHonest
  <2>2. CASE ForceSend(p)
    <3> DEFINE l == [Rest(d) EXCEPT !.pc = "send", !.force = TRUE]
    <3>1. l \in Local /\ w' = [w EXCEPT ![p] = l] /\ Honest(l, remote)
      BY <1>4, <2>2, RestHonest
    <3> HIDE DEF l
    <3> QED
      BY <1>3, <1>5, <3>1
  <2> QED
    BY <1>5, <2>1, <2>2
<1>6. CASE Crash(p) \/ WaitTimesOut(p) \/ ProviderUnavailable(p)
  <2>1. row' = row /\ remote' = remote /\ w' = [w EXCEPT ![p] = Rest(d)]
    BY <1>4, <1>6 DEF Crash, WaitTimesOut, ProviderUnavailable, provider
  <2> QED
    BY <1>0, <1>2, <2>1, RestHonest
<1>7. CASE EnterSend(p) \/ BeginReconcile(p) \/ (HandleMissing(p) /\ row' = row)
  <2>1. remote' = remote /\ row' = row
    BY <1>7 DEF EnterSend, BeginReconcile, HandleMissing, provider
  <2>2. \/ Finish(p)
        \/ \E pc \in {"lock", "ask", "miss"}, r \in Row :
              /\ r.status = "Aceptado" => remote[d] = "Aceptado"
              /\ w' = [w EXCEPT ![p].pc = pc, ![p].snap = r]
    BY <1>0, <1>7 DEF EnterSend, BeginReconcile, HandleMissing
  <2>3. CASE Finish(p)
    BY <1>0, <1>2, <1>4, <2>1, <2>3, RestHonest
  <2>4. ASSUME NEW pc \in {"lock", "ask", "miss"}, NEW r \in Row,
               r.status = "Aceptado" => remote[d] = "Aceptado",
               w' = [w EXCEPT ![p].pc = pc, ![p].snap = r]
        PROVE  Truthful'
    <3> DEFINE l == [w[p] EXCEPT !.pc = pc, !.snap = r]
    <3>1. l \in Local /\ Honest(l, remote)
      BY <1>0, <2>4, MoveHonest DEF PC
    <3>2. w' = [w EXCEPT ![p] = l]
      BY <2>4
    <3> HIDE DEF l
    <3> QED
      BY <1>2, <2>1, <3>1, <3>2
  <2> QED
    BY <2>2, <2>3, <2>4
<1>8. CASE AcquireSend(p)
  <2>1. PICK r \in Visible(p) :
           \/ w' = [w EXCEPT ![p] = Rest(d)]
           \/ w' = [w EXCEPT ![p] = [Rest(d) EXCEPT !.pc = "reconcile", !.held = TRUE,
                                                    !.resendMissing = TRUE]]
           \/ w' = [w EXCEPT ![p] = [w[p] EXCEPT !.pc = "mark", !.held = TRUE, !.snap = r]]
    BY <1>8 DEF AcquireSend
  <2> DEFINE a == [Rest(d) EXCEPT !.pc = "reconcile", !.held = TRUE, !.resendMissing = TRUE]
             b == [w[p] EXCEPT !.pc = "mark", !.held = TRUE, !.snap = r]
  <2>2. a \in Local /\ Honest(a, remote)
    BY <1>0, RestHonest DEF Local, PC
  <2>5. b \in Local /\ Honest(b, remote)
    BY <1>0, <2>1, MoveHonest DEF PC
  <2>3. w' = [w EXCEPT ![p] = Rest(d)] \/ w' = [w EXCEPT ![p] = a] \/ w' = [w EXCEPT ![p] = b]
    BY <2>1
  <2>4. row' = row /\ remote' = remote
    BY <1>8 DEF AcquireSend, provider
  <2> HIDE DEF a, b
  <2> QED
    BY <1>0, <1>2, <2>2, <2>3, <2>4, <2>5, RestHonest
<1>9. CASE MarkSubmitting(p)
  <2> DEFINE q == [row[d] EXCEPT !.attempts = w[p].snap.attempts + 1, !.attempted = "recent",
                                 !.retry = "none", !.notFound = 0]
             l == [w[p] EXCEPT !.pc = "post"]
             r == apply_transition(q, "SUBMITTING")
  <2>1. r.status = "SUBMITTING"
    BY <1>0, AttemptType, TransitionType DEF Status
  <2>2. SetRow(d, r) /\ w' = [w EXCEPT ![p] = l] /\ remote' = remote
    BY <1>9 DEF MarkSubmitting, Goto, provider
  <2>3. l \in Local /\ Honest(l, remote)
    BY <1>0 DEF Local, PC, Honest
  <2> HIDE DEF l, r
  <2> QED
    BY <1>3, <2>1, <2>2, <2>3
<1>10. CASE Post(p)
  <2>1. PICK o \in PostOutcomes(remote[d]) :
           /\ remote' = [remote EXCEPT ![d] = o.remote]
           /\ w' = [w EXCEPT ![p].pc = "reply", ![p].reply = o.reply]
    BY <1>10 DEF Post
  <2> DEFINE l == [w[p] EXCEPT !.pc = "reply", !.reply = o.reply]
  <2>2. Final
    BY <1>0, <2>1, HonestOutcomes DEF Final, TypeOK
  <2>3. o.reply \in Reply /\ o.reply # "Aceptado"
    BY <1>0, <2>1, OutcomesType DEF Reply, Status, REMOTE_IN_FLIGHT_STATUSES
  <2>4. l \in Local /\ Honest(l, remote')
    BY <1>0, <2>2, <2>3 DEF Local, PC, Honest, Final
  <2>5. row' = row /\ w' = [w EXCEPT ![p] = l]
    <3>1. row' = row
      BY <1>10 DEF Post
    <3>2. w' = [w EXCEPT ![p] = l]
      BY <2>1
    <3> QED
      BY <3>1, <3>2
  <2>6. \A e \in Docs : row'[e].status = "Aceptado" => remote'[e] = "Aceptado"
    BY <1>0, <2>2, <2>5 DEF Final
  <2> HIDE DEF l
  <2> QED
    BY <1>1, <2>2, <2>4, <2>5, <2>6, TruthfulMove
<1>11. CASE Ask(p) \/ Query(p)
  <2>1. PICK o \in QueryOutcomes(remote[d]), pc \in {"answer", "queryReply"} :
           w' = [w EXCEPT ![p].pc = pc, ![p].reply = o.reply]
    BY <1>11 DEF Ask, Query
  <2> DEFINE l == [w[p] EXCEPT !.pc = pc, !.reply = o.reply]
  <2>2. o.reply \in Reply /\ (o.reply = "Aceptado" => remote[d] = "Aceptado")
    BY <1>0, <2>1, OutcomesType, HonestOutcomes
  <2>3. l \in Local /\ Honest(l, remote)
    BY <1>0, <2>2 DEF Local, PC, Honest
  <2>4. row' = row /\ remote' = remote /\ w' = [w EXCEPT ![p] = l]
    BY <1>11, <2>1 DEF Ask, Query, provider
  <2> HIDE DEF l
  <2> QED
    BY <1>2, <2>3, <2>4
<1>12. CASE HandlePostReply(p) \/ HandleAnswer(p) \/ HandleQueryReply(p) \/ RecordMiss(p)
            \/ (HandleMissing(p) /\ row' # row)
  <2>1. remote' = remote
    BY <1>12 DEF HandlePostReply, HandleAnswer, HandleQueryReply, RecordMiss, HandleMissing,
                 provider
  <2>2. CASE row' = row /\ Finish(p)
    BY <1>0, <1>2, <1>4, <2>1, <2>2, RestHonest
  <2> DEFINE s == w[p].reply
             writes == {record_failure(row[d], s), record_ambiguous(row[d], w[p].snap),
                        record_blocked_not_found(row[d], w[p].snap),
                        record_not_found(row[d], w[p].snap)}
  <2>3. s = "Aceptado" \/ w[p].snap.status = "Aceptado" \/ row[d].status = "Aceptado"
            => remote[d] = "Aceptado"
    BY <1>0 DEF Honest
  <2>4. ASSUME NEW r \in writes PROVE r.status = "Aceptado" => remote[d] = "Aceptado"
    <3>1. r.status \in {"UNCONFIRMED", "ERROR"} \/ r.status = w[p].snap.status
      <4>1. /\ record_failure(row[d], s).status \in {"UNCONFIRMED", "ERROR"}
            /\ record_ambiguous(row[d], w[p].snap).status = w[p].snap.status
            /\ record_blocked_not_found(row[d], w[p].snap).status = w[p].snap.status
            /\ record_not_found(row[d], w[p].snap).status = "UNCONFIRMED"
        BY <1>0, WriteStatus
      <4> QED
        BY <2>4, <4>1
    <3> QED
      BY <2>3, <3>1
  <2>5. ASSUME s \in Status \cup {"untyped"}
        PROVE  apply_remote_result(row[d], s).status = "Aceptado" => remote[d] = "Aceptado"
    BY <1>0, <2>3, <2>5, RemoteResultType
  <2>6. \/ row' = row /\ Finish(p)
        \/ \E r \in writes : SetRow(d, r) /\ (Finish(p) \/ ForceSend(p))
        \/ /\ s \in Status \cup {"untyped"}
           /\ SetRow(d, apply_remote_result(row[d], s))
           /\ Finish(p) \/ ForceSend(p)
    <3>1. CASE HandlePostReply(p)
      <4>1. s \in {"RECIBIDO", "lost", "denied"}
        BY <3>1 DEF HandlePostReply, TypeOK, RepliesFit
      <4>2. s \in {"lost", "denied"} \/ s \in Status
        BY <4>1 DEF Status, REMOTE_IN_FLIGHT_STATUSES
      <4> QED
        BY <3>1, <4>2 DEF HandlePostReply
    <3>2. CASE HandleAnswer(p)
      BY <3>2 DEF HandleAnswer
    <3>3. CASE HandleQueryReply(p)
      BY <3>3 DEF HandleQueryReply
    <3>4. CASE RecordMiss(p)
      BY <3>4 DEF RecordMiss
    <3>5. CASE HandleMissing(p) /\ row' # row
      BY <3>5 DEF HandleMissing
    <3> QED
      BY <1>12, <3>1, <3>2, <3>3, <3>4, <3>5
  <2> HIDE DEF writes
  <2> QED
    BY <1>5, <2>1, <2>2, <2>4, <2>5, <2>6
<1>13. CASE HandleMissing(p)
  BY <1>7, <1>12, <1>13
<1>14. CASE Step(p)
  BY <1>7, <1>8, <1>9, <1>10, <1>11, <1>12, <1>13, <1>14 DEF Step
<1> QED
  BY <1>6, <1>14

LEMMA TruthfulPoll ==
    ASSUME TypeOK, Truthful, Poller
    PROVE  Truthful'
<1> USE DEF Truthful
<1>1. w' = w /\ remote' = remote
  BY DEF Poller, PollSelect, PollFails, PollAsk, PollApply, PollCrash, provider
<1>2. ASSUME row' = row, HonestPoll(poll', remote)
      PROVE  Truthful'
  BY <1>1, <1>2 DEF AcceptedThere
<1>3. CASE PollSelect
  <2>1. /\ row' = row /\ poll'.replies = poll.replies
        /\ \A d \in Docs : poll'.seen[d] = row[d].status \/ poll'.seen[d] = "none"
    BY <1>3 DEF PollSelect, db, TypeOK
  <2> QED
    BY <1>2, <2>1 DEF HonestPoll, AcceptedThere, ACCEPTED_STATUSES
<1>4. ASSUME poll' = [pc |-> "idle", seen |-> Nothing, replies |-> Nothing]
      PROVE  HonestPoll(poll', remote)
  <2>1. poll'.seen = Nothing /\ poll'.replies = Nothing
    BY <1>4
  <2> QED
    BY <2>1 DEF HonestPoll, Nothing
<1>5. CASE PollFails \/ PollCrash
  BY <1>2, <1>4, <1>5 DEF PollFails, PollCrash, db
<1>6. CASE PollAsk
  <2>1. PICK replies \in PollOutcomes : poll' = [poll EXCEPT !.pc = "apply", !.replies = replies]
    BY <1>6 DEF PollAsk
  <2>2. row' = row /\ poll'.seen = poll.seen /\ poll'.replies = replies
    BY <1>6, <2>1 DEF PollAsk, db, TypeOK
  <2>3. ASSUME NEW d \in Docs, replies[d] = "Aceptado" PROVE remote[d] = "Aceptado"
    <3>1. replies[d] = ClearAnswers[d]
      <4>1. ClearAnswers = [e \in Docs |-> ClearAnswers[e]]
        BY DEF ClearAnswers
      <4>2. \/ replies = ClearAnswers
            \/ \E e \in Docs, k \in {"ambiguous", "untyped"} :
                   replies = [ClearAnswers EXCEPT ![e] = k]
        BY <2>1 DEF PollOutcomes
      <4> HIDE DEF ClearAnswers
      <4> QED
        BY <2>3, <4>1, <4>2
    <3>2. View(remote[d]) = "Aceptado"
      BY <2>3, <3>1 DEF ClearAnswers
    <3> QED
      BY <3>2, HonestOutcomes DEF TypeOK
  <2> QED
    BY <1>2, <2>2, <2>3 DEF HonestPoll
<1>7. CASE PollApply
  <2>1. ASSUME NEW d \in Docs, row'[d].status = "Aceptado"
        PROVE  remote[d] = "Aceptado"
    <3> DEFINE r == [row[d] EXCEPT !.checked = "recent"]
               s == poll.replies[d]
    <3>1. row[d] \in Row /\ s \in Status \cup {"none", "missing", "untyped", "ambiguous"}
      BY DEF TypeOK
    <3>2. row'[d] = PollResult(row[d], poll.seen[d], s)
      BY <1>7 DEF PollApply
    <3>3. CASE s = "none"
      BY <2>1, <3>2, <3>3 DEF PollResult, AcceptedThere, ACCEPTED_STATUSES
    <3>4. CASE s = "missing"
      BY <2>1, <3>1, <3>2, <3>4, NotFoundType DEF PollResult
    <3>5. CASE s = "ambiguous"
      <4>1. row'[d] = apply_transition(r, poll.seen[d])
        BY <3>2, <3>5 DEF PollResult
      <4>2. r \in Row /\ poll.seen[d] \in Status
        BY <3>1, <3>5 DEF Row, TypeOK, RepliesFit
      <4>3. row'[d].status = poll.seen[d]
        BY <4>1, <4>2, TransitionType
      <4> QED
        BY <2>1, <4>3 DEF HonestPoll
    <3>6. CASE s \in Status \cup {"untyped"}
      <4>1. s \notin {"none", "missing", "ambiguous"}
        BY <3>6 DEF Status, REMOTE_IN_FLIGHT_STATUSES, ACCEPTED_STATUSES, BLOCKED_STATUSES
      <4>2. row'[d] = apply_remote_result(row[d], s)
        BY <3>2, <4>1 DEF PollResult
      <4>3. row'[d].status = IF s = "untyped" THEN row[d].status ELSE s
        BY <3>1, <3>6, <4>2, RemoteResultType
      <4> QED
        BY <2>1, <4>3 DEF HonestPoll, AcceptedThere, ACCEPTED_STATUSES
    <3> QED
      BY <3>1, <3>3, <3>4, <3>5, <3>6
  <2>2. HonestPoll(poll', remote)
    BY <1>4, <1>7 DEF PollApply
  <2> QED
    BY <1>1, <2>1, <2>2 DEF AcceptedThere, ACCEPTED_STATUSES
<1> QED
  BY <1>3, <1>5, <1>6, <1>7 DEF Poller

\* Steps that give jobs to workers and mark rows for the sweep.
LEMMA TruthfulJobs ==
    ASSUME Truthful, remote' = remote, poll' = poll,
           \A d \in Docs : row'[d] = row[d] \/ row'[d].status # "Aceptado",
           \A p \in Workers : \/ w'[p] = w[p]
                              \/ \E d \in Docs : w'[p].reply = "none" /\ w'[p].snap.status = "Pending"
                              \/ /\ w'[p].doc = w[p].doc /\ w'[p].reply = w[p].reply
                                 /\ w'[p].snap = w[p].snap
    PROVE  Truthful'
  BY DEF Truthful, AcceptedThere, ACCEPTED_STATUSES, Honest

LEMMA EnqueueHonest ==
    ASSUME NEW l \in Local, NEW verdict, NEW pc, NEW b
    PROVE  /\ Enqueue(l, pc, b).doc = l.doc /\ Enqueue(l, pc, b).reply = l.reply
           /\ Enqueue(l, pc, b).snap = l.snap
           /\ EnqueueFor(l, verdict).doc = l.doc /\ EnqueueFor(l, verdict).reply = l.reply
           /\ EnqueueFor(l, verdict).snap = l.snap
<1>1. ASSUME NEW q, NEW f
      PROVE  /\ Enqueue(l, q, f).doc = l.doc /\ Enqueue(l, q, f).reply = l.reply
             /\ Enqueue(l, q, f).snap = l.snap
  BY DEF Enqueue, Local
<1> QED
  BY <1>1 DEF EnqueueFor

LEMMA TruthfulSweep ==
    ASSUME TypeOK, Truthful, Sweep
    PROVE  Truthful'
<1>1. remote' = remote /\ poll' = poll
  BY DEF Sweep, SweepAtOnce, SweepRead, SweepRow, SweepCommit, SweepCrash, provider, tasks
<1>2. ASSUME NEW d \in Docs PROVE row'[d] = row[d] \/ row'[d].status # "Aceptado"
  <2>1. row'[d] = row[d] \/ row'[d] = MarkStale(row[d])
    BY DEF Sweep, SweepAtOnce, SweepRead, SweepRow, SweepCommit, SweepCrash, db
  <2>2. MarkStale(row[d]).status = "UNCONFIRMED"
    BY MarkStaleType DEF TypeOK
  <2> QED
    BY <2>1, <2>2
<1>3. ASSUME NEW p \in Workers
      PROVE  w'[p] = w[p] \/ \E verdict : w'[p] = EnqueueFor(w[p], verdict)
  <2>1. CASE SweepAtOnce
    BY <2>1 DEF SweepAtOnce
  <2>2. CASE \E d \in Docs : SweepRow(d)
    BY <2>2 DEF SweepRow, TypeOK
  <2> QED
    BY <2>1, <2>2 DEF Sweep, SweepRead, SweepCommit, SweepCrash
<1>4. ASSUME NEW p \in Workers
      PROVE  /\ w'[p].doc = w[p].doc /\ w'[p].reply = w[p].reply
             /\ w'[p].snap = w[p].snap
  <2>1. w[p] \in Local
    BY DEF TypeOK
  <2> QED
    BY <1>3, <2>1, EnqueueHonest
<1> QED
  BY <1>1, <1>2, <1>4, TruthfulJobs

LEMMA TruthfulUser ==
    ASSUME TypeOK, Truthful, NEW o \in Operators, NEW d \in Docs, User(o, d)
    PROVE  Truthful'
<1>1. remote' = remote /\ poll' = poll /\ row' = row
  BY DEF User, Submit, Refresh, Retry, QueryStatus, provider, tasks, db
<1>2. ASSUME NEW p \in Workers
      PROVE  \/ w'[p] = w[p]
             \/ w'[p].reply = "none" /\ w'[p].snap.status = "Pending"
             \/ /\ w'[p].doc = w[p].doc /\ w'[p].reply = w[p].reply
                /\ w'[p].snap = w[p].snap
  <2>1. w \in [Workers -> Local] /\ w[d] \in Local /\ w[p] \in Local
    BY DEF TypeOK, Workers
  <2>2. CASE Retry(o, d)
    <3> DEFINE l == Enqueue(w[d], "reconcile", TRUE)
    <3>1. w' = [w EXCEPT ![d] = l]
      BY <2>2 DEF Retry
    <3>2. l.doc = w[d].doc /\ l.reply = w[d].reply /\ l.snap = w[d].snap
      BY <2>1 DEF Enqueue, Local
    <3>3. \A q \in Workers : w'[q] = IF q = d THEN l ELSE w[q]
      BY <2>1, <3>1
    <3> HIDE DEF l
    <3> QED
      BY <3>2, <3>3
  <2>3. CASE Submit(o, d) \/ Refresh(o, d) \/ QueryStatus(o, d)
    <3>1. \E l : w' = [w EXCEPT ![o] = l] /\ l.reply = "none" /\ l.snap.status = "Pending"
      <4> DEFINE q == Rest(d)
                 a == [q EXCEPT !.pc = "reconcile", !.resendMissing = TRUE]
                 b == [q EXCEPT !.pc = "send"]
                 c == [q EXCEPT !.pc = "reconcile"]
                 e == [q EXCEPT !.pc = "query"]
      <4>1. /\ a.reply = "none" /\ a.snap.status = "Pending"
            /\ b.reply = "none" /\ b.snap.status = "Pending"
            /\ c.reply = "none" /\ c.snap.status = "Pending"
            /\ e.reply = "none" /\ e.snap.status = "Pending"
        BY DEF Rest, NewRow
      <4>2. \/ w' = [w EXCEPT ![o] = a] \/ w' = [w EXCEPT ![o] = b]
            \/ w' = [w EXCEPT ![o] = c] \/ w' = [w EXCEPT ![o] = e]
        BY <2>3 DEF Submit, Refresh, QueryStatus
      <4> HIDE DEF a, b, c, e
      <4> QED
        BY <4>1, <4>2
    <3> QED
      BY <2>1, <3>1
  <2> QED
    BY <2>2, <2>3 DEF User
<1> QED
  BY <1>1, <1>2, TruthfulJobs

LEMMA TruthfulTime ==
    ASSUME TypeOK, Truthful, NEW d \in Docs, Time(d) \/ ProviderWorks(d)
    PROVE  Truthful'
<1>1. w' = w /\ poll' = poll
  BY DEF Time, TwoMinutesPass, RetryFallsDue, CheckFallsDue, AttemptGoesStale, LeaseExpires,
         ProviderWorks, tasks
<1>2. \A e \in Docs : row'[e].status = row[e].status
  <2>1. row \in [Docs -> Row]
    BY DEF TypeOK
  <2>2. CASE UNCHANGED row
    BY <2>2
  <2>3. CASE TwoMinutesPass(d)
    BY <2>1, <2>3 DEF TwoMinutesPass, Row
  <2>4. CASE RetryFallsDue(d) \/ CheckFallsDue(d) \/ AttemptGoesStale(d)
    BY <2>1, <2>4 DEF RetryFallsDue, CheckFallsDue, AttemptGoesStale, Row
  <2> QED
    BY <2>2, <2>3, <2>4 DEF Time, LeaseExpires, ProviderWorks, db
<1>3. Final
  <2>1. CASE Time(d)
    <3>1. remote' = remote
      BY <2>1 DEF Time, TwoMinutesPass, RetryFallsDue, CheckFallsDue, AttemptGoesStale,
                  LeaseExpires, provider
    <3> QED
      BY <3>1 DEF Final
  <2>2. CASE ProviderWorks(d)
    BY <2>2 DEF ProviderWorks, Final, TypeOK
  <2> QED
    BY <2>1, <2>2
<1>4. \A p \in Workers : w[p].doc \in Docs
  BY WorkerType
<1> QED
  BY <1>1, <1>2, <1>3, <1>4 DEF Truthful, AcceptedThere, ACCEPTED_STATUSES, Honest, HonestPoll,
                                Final

LEMMA TruthfulNext ==
    ASSUME TypeOK, Truthful, [Next]_vars
    PROVE  Truthful'
<1>1. CASE UNCHANGED vars
  BY <1>1 DEF vars, Truthful, AcceptedThere
<1> QED
  BY <1>1, TruthfulWorker, TruthfulPoll, TruthfulSweep, TruthfulUser, TruthfulTime DEF Next

\* No document is accepted in the books unless the provider accepted it: for every
\* user, fault, expired lease, stale snapshot and interleaving of the tasks.
THEOREM NothingAcceptedUnheard == Spec => []AcceptedThere
<1>1. TypeOK /\ Truthful /\ [Next]_vars => (TypeOK /\ Truthful)'
  BY NextType, TruthfulNext
<1>2. Init => TypeOK /\ Truthful
  BY InitType, TruthfulInit
<1>3. Truthful => AcceptedThere
  BY DEF Truthful
<1> QED
  BY <1>1, <1>2, <1>3, PTL DEF Spec

-----------------------------------------------------------------------------
(* The refinement *)

\* How a step changes the provider: by a POST of the row's job, or by itself.
RemoteMoves ==
    \A d \in Docs :
        \/ remote'[d] = remote[d]
        \/ /\ \E p \in Workers : w[p].doc = d /\ w[p].pc = "post"
           /\ remote'[d] \in {Received(remote[d]), ReceivedUnseen(remote[d])}
        \/ remote[d] = "hidden" /\ remote'[d] = "PROCESANDO"
        \/ remote[d] = "PROCESANDO" /\ remote'[d] \in {"Aceptado", "Rechazado"}

\* A step changes the books or the provider, not both.
OneSide == row' = row \/ remote' = remote

LEMMA NextMoves ==
    ASSUME TypeOK, [Next]_vars
    PROVE  RemoteMoves /\ OneSide
<1>1. ASSUME remote' = remote PROVE RemoteMoves /\ OneSide
  BY <1>1 DEF RemoteMoves, OneSide
<1>2. CASE UNCHANGED vars
  BY <1>1, <1>2 DEF vars
<1>3. ASSUME NEW p \in Workers,
             Step(p) \/ Crash(p) \/ ProviderUnavailable(p) \/ WaitTimesOut(p)
      PROVE  RemoteMoves /\ OneSide
  <2>1. CASE Post(p)
    <3>1. w[p].doc \in Docs /\ remote[w[p].doc] \in Remote /\ row' = row /\ w[p].pc = "post"
      BY <2>1, WorkerType DEF Post, TypeOK
    <3>2. PICK o \in PostOutcomes(remote[w[p].doc]) :
             remote' = [remote EXCEPT ![w[p].doc] = o.remote]
      BY <2>1 DEF Post
    <3>3. ASSUME NEW d \in Docs, remote'[d] # remote[d]
          PROVE  /\ w[p].doc = d
                 /\ remote'[d] \in {Received(remote[d]), ReceivedUnseen(remote[d])}
      BY <3>1, <3>2, <3>3, HonestOutcomes DEF TypeOK
    <3> QED
      BY <3>1, <3>3 DEF RemoteMoves, OneSide
  <2>2. CASE ~Post(p)
    <3>1. remote' = remote
      <4>1. CASE Step(p)
        BY <2>2, <4>1 DEF Step, EnterSend, AcquireSend, MarkSubmitting, HandlePostReply,
                          BeginReconcile, Ask, HandleAnswer, HandleMissing, RecordMiss, Query,
                          HandleQueryReply, provider
      <4> QED
        BY <1>3, <4>1 DEF Crash, ProviderUnavailable, WaitTimesOut, provider
    <3> QED
      BY <1>1, <3>1
  <2> QED
    BY <2>1, <2>2
<1>4. CASE Poller \/ Sweep
  BY <1>1, <1>4 DEF Poller, PollSelect, PollFails, PollAsk, PollApply, PollCrash, Sweep,
                    SweepAtOnce, SweepRead, SweepRow, SweepCommit, SweepCrash, provider
<1>5. ASSUME NEW o \in Operators, NEW d \in Docs, User(o, d)
      PROVE  RemoteMoves /\ OneSide
  BY <1>1, <1>5 DEF User, Submit, Refresh, Retry, QueryStatus, provider
<1>6. ASSUME NEW d \in Docs, Time(d) \/ ProviderWorks(d)
      PROVE  RemoteMoves /\ OneSide
  <2>1. CASE Time(d)
    BY <1>1, <2>1 DEF Time, TwoMinutesPass, RetryFallsDue, CheckFallsDue, AttemptGoesStale,
                      LeaseExpires, provider
  <2>2. CASE ProviderWorks(d)
    <3>1. row' = row
      BY <2>2 DEF ProviderWorks, db
    <3>2. RemoteMoves
      BY <2>2 DEF ProviderWorks, RemoteMoves, TypeOK
    <3> QED
      BY <3>1, <3>2 DEF OneSide
  <2> QED
    BY <1>6, <2>1, <2>2
<1> QED
  BY <1>2, <1>3, <1>4, <1>5, <1>6 DEF Next

LEMMA PlaceType ==
    ASSUME TypeOK
    PROVE  \A d \in Docs : /\ Here(row[d].status) \in {"open", "accepted", "blocked"}
                           /\ There(remote[d]) \in {"nothing", "request", "acceptance", "rejection"}
  BY DEF Here, There

\* The documents of the specification that is implemented.
Places == [d \in Docs |-> [here |-> Here(row[d].status), there |-> There(remote[d])]]

\* A step moves every document as FiscalLifecycle allows.
LEMMA StepRefines ==
    ASSUME TypeOK, TypeOK', Automatic, VerdictsKept, Truthful', RemoteMoves, OneSide,
           Operators = {}, NEW d \in Docs
    PROVE  Lifecycle!Send(d) \/ Lifecycle!Decide(d) \/ Lifecycle!Accept(d) \/ Lifecycle!Block(d)
              \/ Places'[d] = Places[d]
<1> DEFINE h == Here(row[d].status)
           t == There(remote[d])
           h1 == Here(row'[d].status)
           t1 == There(remote'[d])
<1>1. /\ Places[d] = [here |-> h, there |-> t]
      /\ Places'[d] = [here |-> h1, there |-> t1]
  BY DEF Places
<1>2. /\ h \in {"open", "accepted", "blocked"} /\ h1 \in {"open", "accepted", "blocked"}
      /\ t \in {"nothing", "request", "acceptance", "rejection"}
  BY PlaceType DEF Here
<1>3. CASE remote' = remote
  <2>1. h = h1 \/ (h = "open" /\ h1 = "blocked") \/ (h = "open" /\ h1 = "accepted")
    BY DEF VerdictsKept, Here, ACCEPTED_STATUSES, BLOCKED_STATUSES
  <2>2. h1 = "accepted" => t = "acceptance"
    <3>1. h1 = "accepted" => remote[d] = "Aceptado"
      BY <1>3 DEF Truthful, AcceptedThere, Here
    <3> QED
      BY <3>1 DEF There
  <2>3. t1 = t
    BY <1>3
  <2> HIDE DEF h, h1, t, t1
  <2>4. CASE h = h1
    BY <1>1, <2>3, <2>4
  <2>5. CASE h = "open" /\ h1 = "blocked"
    <3>1. Lifecycle!Block(d)
      BY <1>1, <1>2, <2>3, <2>5 DEF Lifecycle!Block, Lifecycle!Moves, Places
    <3> QED
      BY <3>1
  <2>6. CASE h = "open" /\ h1 = "accepted"
    <3>1. Lifecycle!Accept(d)
      BY <1>1, <1>2, <2>2, <2>3, <2>6 DEF Lifecycle!Accept, Lifecycle!Moves, Places
    <3> QED
      BY <3>1
  <2> QED
    BY <2>1, <2>4, <2>5, <2>6
<1>4. CASE remote' # remote
  <2>1. row' = row /\ h1 = h
    BY <1>4 DEF OneSide
  <2>2. CASE remote'[d] = remote[d]
    BY <1>1, <2>1, <2>2
  <2>3. CASE /\ \E p \in Workers : w[p].doc = d /\ w[p].pc = "post"
             /\ remote'[d] \in {Received(remote[d]), ReceivedUnseen(remote[d])}
    <3>1. h = "open"
      <4>1. PICK p \in Workers : w[p].doc = d /\ w[p].pc = "post"
        BY <2>3
      <4>2. p = d
        BY <4>1 DEF Automatic, Workers
      <4>3. row[d].status \in {"Pending", "SUBMITTING", "UNCONFIRMED"}
        BY <4>1, <4>2 DEF Automatic, OneOwner
      <4> QED
        BY <4>3 DEF Here, ACCEPTED_STATUSES, BLOCKED_STATUSES
    <3>2. t1 = t \/ (t \in {"nothing", "rejection"} /\ t1 = "request")
      BY <2>3 DEF There, Received, ReceivedUnseen
    <3>3. ASSUME t \in {"nothing", "rejection"}, t1 = "request"
          PROVE  Lifecycle!Send(d)
      <4> HIDE DEF h, h1, t, t1
      <4> QED
        BY <1>1, <2>1, <3>1, <3>3 DEF Lifecycle!Send, Lifecycle!Moves, Places
    <3>4. ASSUME t1 = t PROVE Places'[d] = Places[d]
      BY <1>1, <2>1, <3>4
    <3> QED
      BY <3>2, <3>3, <3>4
  <2>4. CASE remote[d] = "hidden" /\ remote'[d] = "PROCESANDO"
    <3>1. t1 = t
      BY <2>4 DEF There
    <3> QED
      BY <1>1, <2>1, <3>1
  <2>5. CASE remote[d] = "PROCESANDO" /\ remote'[d] \in {"Aceptado", "Rechazado"}
    <3>1. t = "request" /\ t1 \in {"acceptance", "rejection"}
      BY <2>5 DEF There
    <3>2. Lifecycle!Decide(d)
      <4> HIDE DEF h, h1, t, t1
      <4> QED
        BY <1>1, <1>2, <2>1, <3>1 DEF Lifecycle!Decide, Lifecycle!Moves, Places
    <3> QED
      BY <3>2
  <2> QED
    BY <2>2, <2>3, <2>4, <2>5 DEF RemoteMoves
<1> QED
  BY <1>3, <1>4

\* When no user acts and the sweep is quick, the jobs, the poller and the sweep
\* implement the life of a document: whatever the faults, crashes, expired leases
\* and stale snapshots, what is not open is never sent, and is accepted or blocked
\* for good.
THEOREM AutomaticImplements ==
    ASSUME Operators = {}, SlowSweep = FALSE
    PROVE  Spec => ImplementsLifecycle
<1>1. Init => TypeOK /\ Automatic /\ Truthful
  BY InitType, AutomaticInit, TruthfulInit, Operators = {}
<1>2. TypeOK /\ Automatic /\ Truthful /\ [Next]_vars => (TypeOK /\ Automatic /\ Truthful)'
  BY NextType, AutomaticNext, TruthfulNext, Operators = {}, SlowSweep = FALSE
<1>3. Init => Lifecycle!Init
  <2> SUFFICES ASSUME Init PROVE Lifecycle!Init
    OBVIOUS
  <2>1. \A d \in Docs : Here(row[d].status) = "open" /\ There(remote[d]) = "nothing"
    BY DEF Init, NewRow, Here, There, ACCEPTED_STATUSES, BLOCKED_STATUSES
  <2> QED
    BY <2>1 DEF Lifecycle!Init
<1>4. ASSUME TypeOK, Automatic, Truthful, [Next]_vars
      PROVE  [Lifecycle!Next]_Places
  <2>1. TypeOK' /\ Automatic' /\ VerdictsKept /\ Truthful' /\ RemoteMoves /\ OneSide
    BY <1>4, NextType, AutomaticNext, TruthfulNext, NextMoves, Operators = {}, SlowSweep = FALSE
  <2>2. Places' \in [Docs -> Lifecycle!Document]
    BY <2>1, PlaceType DEF Places, Lifecycle!Document, Here, There
  <2>3. ASSUME NEW d \in Docs
        PROVE  Lifecycle!Send(d) \/ Lifecycle!Decide(d) \/ Lifecycle!Accept(d)
                  \/ Lifecycle!Block(d) \/ Places'[d] = Places[d]
    BY <1>4, <2>1, StepRefines, Operators = {}
  <2> QED
    BY <2>2, <2>3 DEF Lifecycle!Next, Places
<1> QED
  BY <1>1, <1>2, <1>3, <1>4, PTL DEF Spec, ImplementsLifecycle, Lifecycle!Spec, Places

=============================================================================
