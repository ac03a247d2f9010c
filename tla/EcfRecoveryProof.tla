------------------------- MODULE EcfRecoveryProof -------------------------
(* What recovery may and must do in EcfDelivery: a document is sent again only *)
(* on what the provider answered about it, and no row is left without a task  *)
(* that will take it up.                                                      *)
(*                                                                            *)
(* Both are said of one document at a time, so the invariants are predicates  *)
(* on the values that belong to it: its row r, its job l, what the poller saw *)
(* (q) and was answered (a) of it, what the provider has (m), the POSTs made  *)
(* (n) and the evidence since (e).                                            *)
EXTENDS EcfDeliveryProof

-----------------------------------------------------------------------------
(* What the writes of a row leave in it *)

LEMMA TransitionFields ==
    ASSUME NEW r \in Row, NEW s \in Status
    PROVE  /\ apply_transition(r, s).status = s
           /\ apply_transition(r, s).checked = r.checked
           /\ apply_transition(r, s).attempted = r.attempted
           /\ apply_transition(r, s).notFound =
                 IF s \in ACCEPTED_STATUSES \cup REMOTE_IN_FLIGHT_STATUSES THEN 0 ELSE r.notFound
           /\ apply_transition(r, s).retry =
                 IF s \in {"Pending", "SUBMITTING", "UNCONFIRMED"} THEN r.retry ELSE "none"
<1> DEFINE retry == IF s \in {"Pending", "SUBMITTING", "UNCONFIRMED"} THEN r.retry ELSE "none"
           check == IF s \in REMOTE_IN_FLIGHT_STATUSES THEN "later" ELSE "none"
           notFound == IF s \in ACCEPTED_STATUSES \cup REMOTE_IN_FLIGHT_STATUSES
                       THEN 0 ELSE r.notFound
           action == s \in BLOCKED_STATUSES
<1>1. apply_transition(r, s) = [r EXCEPT !.status = s, !.action = action, !.retry = retry,
                                        !.check = check, !.notFound = notFound]
  BY DEF apply_transition
<1> HIDE DEF retry, check, notFound, action
<1>2. /\ apply_transition(r, s).status = s
      /\ apply_transition(r, s).checked = r.checked
      /\ apply_transition(r, s).attempted = r.attempted
      /\ apply_transition(r, s).notFound = notFound
      /\ apply_transition(r, s).retry = retry
  BY <1>1 DEF Row
<1> QED
  BY <1>2 DEF notFound, retry

LEMMA RemoteResultFields ==
    ASSUME NEW r \in Row, NEW s \in Status \cup {"untyped"}
    PROVE  /\ apply_remote_result(r, s).status = IF s = "untyped" THEN r.status ELSE s
           /\ apply_remote_result(r, s).notFound = 0
           /\ apply_remote_result(r, s).checked = "recent"
           /\ apply_remote_result(r, s).attempted = r.attempted
           /\ apply_remote_result(r, s).status = "UNCONFIRMED"
                 => apply_remote_result(r, s).retry = r.retry
<1> DEFINE b == [r EXCEPT !.checked = "recent", !.notFound = 0]
           t == IF s = "untyped" THEN r.status ELSE s
<1>1. /\ b \in Row /\ b.status = r.status /\ b.checked = "recent" /\ b.notFound = 0
      /\ b.attempted = r.attempted /\ b.retry = r.retry
  BY DEF Row
<1>2. t \in Status
  BY DEF Row
<1>3. apply_remote_result(r, s) = apply_transition(b, t)
  BY <1>1 DEF apply_remote_result
<1> HIDE DEF b, t
<1>4. /\ apply_remote_result(r, s).status = t
      /\ apply_remote_result(r, s).notFound = 0
      /\ apply_remote_result(r, s).checked = "recent"
      /\ apply_remote_result(r, s).attempted = r.attempted
      /\ t = "UNCONFIRMED" => apply_remote_result(r, s).retry = r.retry
  BY <1>1, <1>2, <1>3, TransitionFields
<1> QED
  BY <1>4 DEF t

LEMMA FailureFields ==
    ASSUME NEW r \in Row, NEW kind
    PROVE  /\ record_failure(r, kind).notFound = r.notFound
           /\ record_failure(r, kind).checked = r.checked
           /\ record_failure(r, kind).attempted = r.attempted
           /\ \/ /\ record_failure(r, kind).status = "UNCONFIRMED"
                 /\ record_failure(r, kind).retry = "later"
              \/ record_failure(r, kind).status = "ERROR"
<1> DEFINE b == [r EXCEPT !.retry = "later"]
           c == [r EXCEPT !.retry = "none"]
<1>1. /\ b \in Row /\ b.notFound = r.notFound /\ b.checked = r.checked
      /\ b.attempted = r.attempted /\ b.retry = "later"
      /\ c \in Row /\ c.notFound = r.notFound /\ c.checked = r.checked
      /\ c.attempted = r.attempted
  BY DEF Row
<1>2. \/ record_failure(r, kind) = apply_transition(b, "UNCONFIRMED")
      \/ record_failure(r, kind) = apply_transition(c, "ERROR")
  BY DEF record_failure
<1>3. "UNCONFIRMED" \in Status /\ "ERROR" \in Status
  BY DEF Status, BLOCKED_STATUSES
<1>4. /\ "ERROR" \notin ACCEPTED_STATUSES \cup REMOTE_IN_FLIGHT_STATUSES
      /\ "UNCONFIRMED" \notin ACCEPTED_STATUSES \cup REMOTE_IN_FLIGHT_STATUSES
  BY DEF ACCEPTED_STATUSES, REMOTE_IN_FLIGHT_STATUSES
<1> HIDE DEF b, c
<1>5. CASE record_failure(r, kind) = apply_transition(b, "UNCONFIRMED")
  BY <1>1, <1>3, <1>4, <1>5, TransitionFields
<1>6. CASE record_failure(r, kind) = apply_transition(c, "ERROR")
  BY <1>1, <1>3, <1>4, <1>6, TransitionFields
<1> QED
  BY <1>2, <1>5, <1>6

LEMMA NotFoundFields ==
    ASSUME NEW r \in Row, NEW seen \in Row
    PROVE  /\ record_not_found(r, seen).status = "UNCONFIRMED"
           /\ record_not_found(r, seen).notFound >= 1
           /\ record_not_found(r, seen).checked = "recent"
           /\ record_not_found(r, seen).attempted = r.attempted
           /\ ~AbsenceConfirmed(seen) => record_not_found(r, seen).retry = "later"
<1> DEFINE b == [r EXCEPT !.notFound = seen.notFound + 1, !.checked = "recent", !.retry = "none"]
           c == [r EXCEPT !.notFound = Max2(seen.notFound, 1), !.checked = "recent",
                          !.retry = "later"]
<1>1. /\ seen.notFound + 1 \in Nat /\ seen.notFound + 1 >= 1
      /\ Max2(seen.notFound, 1) \in Nat /\ Max2(seen.notFound, 1) >= 1
  BY DEF Row, Max2
<1>2. /\ b \in Row /\ b.notFound >= 1 /\ b.checked = "recent" /\ b.attempted = r.attempted
      /\ c \in Row /\ c.notFound >= 1 /\ c.checked = "recent" /\ c.attempted = r.attempted
      /\ c.retry = "later"
  BY <1>1 DEF Row
<1>3. /\ record_not_found(r, seen) = IF AbsenceConfirmed(seen)
                                     THEN apply_transition(b, "UNCONFIRMED")
                                     ELSE apply_transition(c, "UNCONFIRMED")
      /\ "UNCONFIRMED" \in Status
      /\ "UNCONFIRMED" \notin ACCEPTED_STATUSES \cup REMOTE_IN_FLIGHT_STATUSES
  BY DEF record_not_found, Status, ACCEPTED_STATUSES, REMOTE_IN_FLIGHT_STATUSES
<1> HIDE DEF b, c
<1> QED
  BY <1>2, <1>3, TransitionFields

LEMMA SeenStatusFields ==
    ASSUME NEW r \in Row, NEW seen \in Row
    PROVE  /\ record_ambiguous(r, seen).status = seen.status
           /\ record_ambiguous(r, seen).notFound \in {0, r.notFound}
           /\ seen.status \in REMOTE_IN_FLIGHT_STATUSES => record_ambiguous(r, seen).notFound = 0
           /\ record_ambiguous(r, seen).checked = "recent"
           /\ record_ambiguous(r, seen).attempted = r.attempted
           /\ seen.status = "UNCONFIRMED" => record_ambiguous(r, seen).retry = "later"
           /\ record_blocked_not_found(r, seen).status = seen.status
           /\ record_blocked_not_found(r, seen).notFound \in {0, r.notFound}
           /\ record_blocked_not_found(r, seen).checked = "recent"
           /\ record_blocked_not_found(r, seen).attempted = r.attempted
<1> DEFINE b == [r EXCEPT !.checked = "recent",
                          !.retry = IF seen.status = "UNCONFIRMED" THEN "later" ELSE seen.retry]
           c == [r EXCEPT !.checked = "recent", !.retry = "none"]
<1>1. /\ b \in Row /\ b.checked = "recent" /\ b.notFound = r.notFound
      /\ b.attempted = r.attempted /\ (seen.status = "UNCONFIRMED" => b.retry = "later")
      /\ c \in Row /\ c.checked = "recent" /\ c.notFound = r.notFound
      /\ c.attempted = r.attempted
  BY DEF Row
<1>2. seen.status \in Status
  BY DEF Row
<1>3. /\ record_ambiguous(r, seen) = apply_transition(b, seen.status)
      /\ record_blocked_not_found(r, seen) = apply_transition(c, seen.status)
  BY DEF record_ambiguous, record_blocked_not_found
<1> HIDE DEF b, c
<1> QED
  BY <1>1, <1>2, <1>3, TransitionFields

LEMMA MarkStaleFields ==
    ASSUME NEW r \in Row
    PROVE  /\ MarkStale(r).status = "UNCONFIRMED"
           /\ MarkStale(r).notFound = r.notFound
           /\ MarkStale(r).checked = r.checked
           /\ MarkStale(r).attempted = r.attempted
           /\ MarkStale(r).retry = "due"
<1> DEFINE b == [r EXCEPT !.retry = "due"]
<1>1. /\ b \in Row /\ b.notFound = r.notFound /\ b.checked = r.checked
      /\ b.attempted = r.attempted /\ b.retry = "due"
  BY DEF Row
<1>2. /\ MarkStale(r) = apply_transition(b, "UNCONFIRMED")
      /\ "UNCONFIRMED" \in Status
      /\ "UNCONFIRMED" \notin ACCEPTED_STATUSES \cup REMOTE_IN_FLIGHT_STATUSES
  BY DEF MarkStale, Status, ACCEPTED_STATUSES, REMOTE_IN_FLIGHT_STATUSES
<1> HIDE DEF b
<1> QED
  BY <1>1, <1>2, TransitionFields

\* The row of an attempt that is about to be made.
LEMMA AttemptFields ==
    ASSUME NEW r \in Row, NEW n \in Nat
    PROVE  LET b == [r EXCEPT !.attempts = n + 1, !.attempted = "recent", !.retry = "none",
                              !.notFound = 0]
           IN  /\ apply_transition(b, "SUBMITTING") \in Row
               /\ apply_transition(b, "SUBMITTING").status = "SUBMITTING"
               /\ apply_transition(b, "SUBMITTING").notFound = 0
               /\ apply_transition(b, "SUBMITTING").attempted = "recent"
<1> DEFINE b == [r EXCEPT !.attempts = n + 1, !.attempted = "recent", !.retry = "none",
                          !.notFound = 0]
<1>1. b \in Row /\ b.attempted = "recent" /\ b.notFound = 0
  <2>1. PICK k \in Nat : k = n + 1
    OBVIOUS
  <2> QED
    BY <2>1 DEF Row
<1>2. "SUBMITTING" \in Status
  BY DEF Status
<1> HIDE DEF b
<1>3. /\ apply_transition(b, "SUBMITTING") \in Row
      /\ apply_transition(b, "SUBMITTING").status = "SUBMITTING"
      /\ apply_transition(b, "SUBMITTING").notFound = 0
      /\ apply_transition(b, "SUBMITTING").attempted = "recent"
  BY <1>1, <1>2, TransitionType, TransitionFields
<1> QED
  BY <1>3 DEF b

\* What the poller writes of a document it asked about.
LEMMA PollFields ==
    ASSUME NEW r \in Row, NEW q \in REMOTE_IN_FLIGHT_STATUSES,
           NEW s \in Status \cup {"missing", "untyped", "ambiguous"}
    PROVE  /\ PollResult(r, q, s) \in Row
           /\ PollResult(r, q, s).checked = "recent"
           /\ PollResult(r, q, s).attempted = r.attempted
           /\ PollResult(r, q, s).status =
                 CASE s = "missing" -> "UNCONFIRMED"
                   [] s = "ambiguous" -> q
                   [] s = "untyped" -> r.status
                   [] OTHER -> s
           /\ s # "missing" => PollResult(r, q, s).notFound = 0
           /\ s = "missing" /\ ~AbsenceConfirmed(r) => PollResult(r, q, s).retry = "later"
           /\ s = "untyped" /\ r.status = "UNCONFIRMED" => PollResult(r, q, s).retry = r.retry
<1>1. /\ "missing" \notin Status /\ "ambiguous" \notin Status /\ "untyped" \notin Status
      /\ "none" \notin Status /\ q \in Status
  BY DEF Status, REMOTE_IN_FLIGHT_STATUSES, ACCEPTED_STATUSES, BLOCKED_STATUSES
<1>2. CASE s = "missing"
  <2>1. PollResult(r, q, s) = record_not_found(r, r)
    BY <1>2 DEF PollResult
  <2> QED
    BY <1>2, <2>1, NotFoundType, NotFoundFields
<1>3. CASE s = "ambiguous"
  <2> DEFINE b == [r EXCEPT !.checked = "recent"]
  <2>1. b \in Row /\ b.checked = "recent" /\ b.attempted = r.attempted
    BY DEF Row
  <2>2. PollResult(r, q, s) = apply_transition(b, q)
    BY <1>3 DEF PollResult
  <2> HIDE DEF b
  <2> QED
    BY <1>1, <1>3, <2>1, <2>2, TransitionType, TransitionFields
<1>4. CASE s \in Status \cup {"untyped"}
  <2>1. PollResult(r, q, s) = apply_remote_result(r, s)
    BY <1>1, <1>4 DEF PollResult
  <2> QED
    BY <1>1, <1>4, <2>1, RemoteResultType, RemoteResultFields
<1> QED
  BY <1>2, <1>3, <1>4

-----------------------------------------------------------------------------
(* On what grounds a document is sent again.  Two misses count only if the    *)
(* second was asked for after the first grew old, so a row that shows a miss  *)
(* must not be ahead of the evidence (Spaced).  It may be when Retry runs     *)
(* beside the poller, whose answer of before a POST is written after it; then *)
(* the poller has forgotten the document and does not ask again (Unpolled).   *)

\* Status queries show the document.
Listed(m) == m \notin {"absent", "hidden"}

Conclusive(e) == e \in {"spaced", "rejected"}

Missed(m, e) == Listed(m) \/ e # "none"

Unpolled(q) == Operators # {} /\ q = "none"

Spaced(r, e) ==
    \/ r.checked = "recent" /\ e # "none"
    \/ r.checked = "old" /\ e \in {"aged", "spaced", "rejected"}

Ripe(e) == e \in {"aged", "spaced", "rejected"}

\* What entitles a job to another POST.
Justified(r, q, e) ==
    \/ Conclusive(e)
    \/ Unpolled(q) /\ e # "none" /\ r.status \notin REMOTE_IN_FLIGHT_STATUSES

\* What makes a miss that the job sees now the second of two.
Due(r, q, m, e) ==
    \/ Listed(m)
    \/ Ripe(e)
    \/ Unpolled(q) /\ r.status \notin REMOTE_IN_FLIGHT_STATUSES

RowGrounds(r, q, a, m, n, e) ==
    /\ q \in {"none"} \cup REMOTE_IN_FLIGHT_STATUSES
    /\ a # "Pending"
    /\ r.status = "Pending" => n = 0 /\ q = "none"
    /\ r.status \in REMOTE_IN_FLIGHT_STATUSES => r.notFound = 0
    /\ r.notFound >= 1 => Listed(m) \/ Spaced(r, e) \/ Unpolled(q)
    /\ Operators = {} /\ a = "missing" => Missed(m, e)

JobGrounds(r, l, q, m, n, e) ==
    /\ l.pc \notin {"query", "queryReply"}
    /\ l.pc \in {"send", "lock", "mark"} => n = 0 \/ Justified(r, q, e)
    /\ l.pc = "post" => /\ r.status # "Pending"
                        /\ r.notFound = 0 \/ Listed(m) \/ Unpolled(q)
    /\ l.pc \in {"ask", "answer"} =>
          /\ l.snap.status = "Pending" => r.status = "Pending"
          /\ AbsenceConfirmed(l.snap) => Due(r, q, m, e)
    /\ l.pc = "answer" =>
          /\ l.reply # "Pending"
          /\ l.reply \in BLOCKED_STATUSES => Conclusive(e)
          /\ l.reply = "missing" =>
                /\ Missed(m, e)
                /\ AbsenceConfirmed(r) \/ AbsenceConfirmed(l.snap) => Justified(r, q, e)
    /\ l.pc = "miss" => /\ Missed(m, e)
                        /\ AbsenceConfirmed(l.snap) => Justified(r, q, e)

Grounds(r, l, q, a, m, n, e) == RowGrounds(r, q, a, m, n, e) /\ JobGrounds(r, l, q, m, n, e)

\* Without users a document whose job is under way is not polled (OneOwner).
Apart(l, q) == Operators = {} /\ l.pc # "idle" => q = "none"

LEMMA LearnKeeps ==
    ASSUME NEW r, NEW m, NEW e \in Evidence, NEW s,
           s \in REMOTE_IN_FLIGHT_STATUSES \cup ACCEPTED_STATUSES => Listed(m)
    PROVE  /\ Learn(e, s) \in Evidence
           /\ Conclusive(e) => Conclusive(Learn(e, s))
           /\ Missed(m, e) => Missed(m, Learn(e, s))
           /\ Listed(m) \/ Spaced(r, e) => Listed(m) \/ Spaced(r, Learn(e, s))
           /\ Listed(m) \/ Ripe(e) => Listed(m) \/ Ripe(Learn(e, s))
           /\ s = "missing" => Learn(e, s) # "none" /\ (e = "aged" => Learn(e, s) = "spaced")
           /\ s \in BLOCKED_STATUSES => Conclusive(Learn(e, s))
<1> DEFINE ee == Learn(e, s)
<1>1. /\ Conclusive(e) => ee = e
      /\ ~Conclusive(e) /\ s = "missing" => ee = IF e = "aged" THEN "spaced" ELSE "missed"
      /\ ~Conclusive(e) /\ s \in BLOCKED_STATUSES => ee = "rejected"
      /\ ~Conclusive(e) /\ s \in REMOTE_IN_FLIGHT_STATUSES \cup ACCEPTED_STATUSES => ee = "none"
      /\ s \notin {"missing"} \cup BLOCKED_STATUSES \cup REMOTE_IN_FLIGHT_STATUSES
                    \cup ACCEPTED_STATUSES => ee = e
  BY DEF Learn, Conclusive, REMOTE_IN_FLIGHT_STATUSES, ACCEPTED_STATUSES, BLOCKED_STATUSES
<1> HIDE DEF ee
<1>2. ee \in Evidence
  BY LearnType DEF ee
<1>3. CASE Conclusive(e)
  BY <1>1, <1>2, <1>3 DEF Conclusive, Ripe, ee
<1>4. CASE ~Conclusive(e) /\ s = "missing"
  BY <1>1, <1>2, <1>4 DEF Conclusive, Missed, Spaced, Ripe, BLOCKED_STATUSES, ee
<1>5. CASE ~Conclusive(e) /\ s \in BLOCKED_STATUSES
  BY <1>1, <1>2, <1>5 DEF Conclusive, Missed, Spaced, Ripe, BLOCKED_STATUSES, ee
<1>6. CASE ~Conclusive(e) /\ s \in REMOTE_IN_FLIGHT_STATUSES \cup ACCEPTED_STATUSES
  BY <1>1, <1>2, <1>6 DEF Conclusive, Missed, Ripe, REMOTE_IN_FLIGHT_STATUSES, ACCEPTED_STATUSES,
                          BLOCKED_STATUSES, ee
<1>7. CASE s \notin {"missing"} \cup BLOCKED_STATUSES \cup REMOTE_IN_FLIGHT_STATUSES
                       \cup ACCEPTED_STATUSES
  BY <1>1, <1>2, <1>7 DEF ee
<1> QED
  BY <1>3, <1>4, <1>5, <1>6, <1>7

\* A job that has ended needs no grounds.
LEMMA RestGrounds ==
    ASSUME NEW r, NEW l, NEW q, NEW a, NEW m, NEW n, NEW e,
           RowGrounds(r, q, a, m, n, e), l.pc = "idle"
    PROVE  Grounds(r, l, q, a, m, n, e)
  BY DEF Grounds, JobGrounds

\* Nor does one that is about to ask.
LEMMA ReconcileGrounds ==
    ASSUME NEW r \in Row, NEW l \in Local, NEW q, NEW a, NEW m, NEW n, NEW e,
           RowGrounds(r, q, a, m, n, e), l.pc = "reconcile" \/ (l.pc = "ask" /\ l.snap = r)
    PROVE  Grounds(r, l, q, a, m, n, e)
<1>1. AbsenceConfirmed(r) => Due(r, q, m, e)
  BY DEF AbsenceConfirmed, RowGrounds, Spaced, Due, Ripe
<1> QED
  BY <1>1 DEF Grounds, JobGrounds

\* The job moves from one step before the POST to the next.
LEMMA SendGrounds ==
    ASSUME NEW r \in Row, NEW l \in Local, NEW x \in Local, NEW q, NEW a, NEW m, NEW n, NEW e,
           Grounds(r, l, q, a, m, n, e),
           l.pc \in {"send", "lock"}, x.pc \in {"lock", "mark"}
    PROVE  Grounds(r, x, q, a, m, n, e)
  BY DEF Grounds, JobGrounds

LEMMA MarkGrounds ==
    ASSUME NEW r \in Row, NEW l \in Local, NEW q, NEW a, NEW m, NEW n, NEW e,
           Grounds(r, l, q, a, m, n, e), l.pc = "mark",
           NEW y \in Row, y.status = "SUBMITTING", y.notFound = 0,
           NEW x \in Local, x.pc = "post"
    PROVE  Grounds(y, x, q, a, m, n, e)
  BY DEF Grounds, RowGrounds, JobGrounds, REMOTE_IN_FLIGHT_STATUSES

LEMMA PostGrounds ==
    ASSUME NEW r \in Row, NEW l \in Local, NEW q, NEW a, NEW m, NEW n, NEW e,
           Grounds(r, l, q, a, m, n, e), l.pc = "post", Apart(l, q),
           a # "none" => q # "none",
           NEW x \in Local, x.pc = "reply",
           NEW mm, Listed(m) => Listed(mm), NEW nn, NEW ee, ee \in {e, "none"}
    PROVE  Grounds(r, x, q, a, mm, nn, ee)
<1>1. JobGrounds(r, x, q, mm, nn, ee)
  BY DEF JobGrounds
<1>2. r.notFound >= 1 => Listed(mm) \/ Unpolled(q)
  BY DEF Grounds, JobGrounds, Row
<1>3. r.status # "Pending"
  BY DEF Grounds, JobGrounds
<1>4. ~(Operators = {} /\ a = "missing")
  BY DEF Apart
<1> QED
  BY <1>1, <1>2, <1>3, <1>4 DEF Grounds, RowGrounds

LEMMA AskGrounds ==
    ASSUME NEW r \in Row, NEW l \in Local, NEW q, NEW a, NEW m, NEW n, NEW e \in Evidence,
           Grounds(r, l, q, a, m, n, e), l.pc = "ask",
           NEW s, s # "Pending",
           s \in REMOTE_IN_FLIGHT_STATUSES \cup ACCEPTED_STATUSES => Listed(m),
           s = "missing" => ~Listed(m),
           NEW x \in Local, x.pc = "answer", x.reply = s, x.snap = l.snap
    PROVE  Grounds(r, x, q, a, m, n, Learn(e, s))
<1> DEFINE ee == Learn(e, s)
<1>1. /\ ee \in Evidence
      /\ Missed(m, e) => Missed(m, ee)
      /\ Listed(m) \/ Spaced(r, e) => Listed(m) \/ Spaced(r, ee)
      /\ Listed(m) \/ Ripe(e) => Listed(m) \/ Ripe(ee)
      /\ s = "missing" => ee # "none" /\ (e = "aged" => ee = "spaced")
      /\ s \in BLOCKED_STATUSES => Conclusive(ee)
      /\ Conclusive(e) => Conclusive(ee)
  BY LearnKeeps
<1> HIDE DEF ee
<1>2. RowGrounds(r, q, a, m, n, ee)
  BY <1>1 DEF Grounds, RowGrounds
<1>3. ASSUME s = "missing", AbsenceConfirmed(r)
      PROVE  Justified(r, q, ee)
  <2>1. r.notFound >= 1 /\ r.checked = "old" /\ r.status \notin REMOTE_IN_FLIGHT_STATUSES
    BY <1>3 DEF AbsenceConfirmed, Grounds, RowGrounds
  <2>2. Spaced(r, e) \/ Unpolled(q)
    BY <1>3, <2>1 DEF Grounds, RowGrounds
  <2>3. CASE Spaced(r, e)
    BY <1>1, <1>3, <2>1, <2>3 DEF Spaced, Justified, Conclusive
  <2>4. CASE Unpolled(q)
    BY <1>1, <1>3, <2>1, <2>4 DEF Justified
  <2> QED
    BY <2>2, <2>3, <2>4
<1>4. ASSUME AbsenceConfirmed(l.snap)
      PROVE  Due(r, q, m, ee) /\ (s = "missing" => Justified(r, q, ee))
  <2>1. Due(r, q, m, e)
    BY <1>4 DEF Grounds, JobGrounds
  <2>2. Ripe(e) => Ripe(ee) \/ Listed(m)
    BY <1>1
  <2> QED
    BY <1>1, <2>1, <2>2 DEF Due, Justified, Ripe, Conclusive
<1>5. JobGrounds(r, x, q, m, n, ee)
  BY <1>1, <1>3, <1>4 DEF Grounds, JobGrounds, Missed
<1> QED
  BY <1>2, <1>5 DEF Grounds, ee

\* The job records what it was told: a failure, a status, or nothing it can use.
LEMMA AnswerGrounds ==
    ASSUME NEW r \in Row, NEW l \in Local, NEW q, NEW a, NEW m, NEW n, NEW e,
           Grounds(r, l, q, a, m, n, e), l.pc = "answer", NEW s, s = l.reply,
           NEW y, \/ y = record_failure(r, s)
                  \/ s \in Status \cup {"untyped"} /\ y = apply_remote_result(r, s)
                  \/ y = record_ambiguous(r, l.snap)
    PROVE  RowGrounds(y, q, a, m, n, e)
<1>1. l.snap \in Row
  BY DEF Local
<1>2. CASE y = record_failure(r, s)
  <2>1. /\ y.notFound = r.notFound /\ y.checked = r.checked
        /\ y.status \in {"UNCONFIRMED", "ERROR"}
    BY <1>2, FailureFields
  <2> QED
    BY <2>1 DEF Grounds, RowGrounds, Spaced, REMOTE_IN_FLIGHT_STATUSES
<1>3. CASE s \in Status \cup {"untyped"} /\ y = apply_remote_result(r, s)
  <2>1. y.notFound = 0 /\ (y.status = "Pending" => r.status = "Pending")
    BY <1>3, RemoteResultFields DEF Grounds, JobGrounds
  <2> QED
    BY <2>1 DEF Grounds, RowGrounds
<1>4. CASE y = record_ambiguous(r, l.snap)
  <2>1. /\ y.status = l.snap.status /\ y.checked = "recent"
        /\ y.notFound \in {0, r.notFound}
        /\ y.status \in REMOTE_IN_FLIGHT_STATUSES => y.notFound = 0
    BY <1>1, <1>4, SeenStatusFields
  <2>2. y.status = "Pending" => r.status = "Pending"
    BY <2>1 DEF Grounds, JobGrounds
  <2>3. y.notFound >= 1 => Listed(m) \/ Spaced(y, e) \/ Unpolled(q)
    BY <2>1 DEF Grounds, RowGrounds, Spaced
  <2> QED
    BY <2>1, <2>2, <2>3 DEF Grounds, RowGrounds
<1> QED
  BY <1>2, <1>3, <1>4

\* A blocked row the provider does not know.
LEMMA BlockedMissGrounds ==
    ASSUME NEW r \in Row, NEW l \in Local, NEW q, NEW a, NEW m, NEW n, NEW e,
           Grounds(r, l, q, a, m, n, e), l.pc = "answer", l.snap.status \in BLOCKED_STATUSES,
           NEW y, y = record_blocked_not_found(r, l.snap)
    PROVE  RowGrounds(y, q, a, m, n, e)
<1>1. l.snap \in Row
  BY DEF Local
<1>2. /\ y.status \in BLOCKED_STATUSES /\ y.checked = "recent"
      /\ y.notFound \in {0, r.notFound}
  BY <1>1, SeenStatusFields
<1>3. y.notFound >= 1 => Listed(m) \/ Spaced(y, e) \/ Unpolled(q)
  BY <1>2 DEF Grounds, RowGrounds, Spaced
<1> QED
  BY <1>2, <1>3 DEF Grounds, RowGrounds, BLOCKED_STATUSES, REMOTE_IN_FLIGHT_STATUSES

\* record_not_found reads the row again: as it is, or as it was.
LEMMA MissGrounds ==
    ASSUME NEW r \in Row, NEW l \in Local, NEW q, NEW a, NEW m, NEW n, NEW e,
           Grounds(r, l, q, a, m, n, e), l.pc = "answer", l.reply = "missing",
           NEW x \in Local, x.pc = "miss",
           x.snap \in {r, l.snap}
    PROVE  Grounds(r, x, q, a, m, n, e)
  BY DEF Grounds, JobGrounds

LEMMA RecordMissGrounds ==
    ASSUME NEW r \in Row, NEW l \in Local, NEW q, NEW a, NEW m, NEW n, NEW e,
           Grounds(r, l, q, a, m, n, e), l.pc = "miss", NEW y, y = record_not_found(r, l.snap)
    PROVE  /\ RowGrounds(y, q, a, m, n, e)
           /\ AbsenceConfirmed(l.snap) => Justified(y, q, e)
<1>1. l.snap \in Row
  BY DEF Local
<1>2. y.status = "UNCONFIRMED" /\ y.checked = "recent"
  BY <1>1, NotFoundFields
<1>3. Missed(m, e)
  BY DEF Grounds, JobGrounds
<1> QED
  BY <1>2, <1>3 DEF Grounds, RowGrounds, JobGrounds, Justified, Missed, Spaced,
                    REMOTE_IN_FLIGHT_STATUSES

LEMMA ForceGrounds ==
    ASSUME NEW r, NEW x, NEW q, NEW a, NEW m, NEW n, NEW e,
           RowGrounds(r, q, a, m, n, e), Justified(r, q, e), x.pc = "send"
    PROVE  Grounds(r, x, q, a, m, n, e)
  BY DEF Grounds, JobGrounds

\* The poller selects a document.
LEMMA SelectGrounds ==
    ASSUME NEW r \in Row, NEW l \in Local, NEW q, NEW a, NEW m, NEW n, NEW e,
           Grounds(r, l, q, a, m, n, e), r.status \in REMOTE_IN_FLIGHT_STATUSES,
           NEW u \in REMOTE_IN_FLIGHT_STATUSES
    PROVE  Grounds(r, l, u, "none", m, n, e)
<1>1. r.notFound = 0 /\ r.status # "Pending" /\ ~AbsenceConfirmed(r)
  BY DEF Grounds, RowGrounds, AbsenceConfirmed, REMOTE_IN_FLIGHT_STATUSES
<1>2. \A z : Justified(r, z, e) => Conclusive(e)
  BY DEF Justified
<1>3. Conclusive(e) => Justified(r, u, e)
  BY DEF Justified
<1>4. RowGrounds(r, u, "none", m, n, e)
  BY <1>1 DEF RowGrounds
<1>5. Due(r, q, m, e) => Due(r, u, m, e)
  BY DEF Due
<1>6. JobGrounds(r, l, u, m, n, e)
  BY <1>1, <1>2, <1>3, <1>5 DEF Grounds, JobGrounds
<1> QED
  BY <1>4, <1>6 DEF Grounds

\* The poll lets a document go, or did not have it.
LEMMA ForgetGrounds ==
    ASSUME NEW r \in Row, NEW l \in Local, NEW q, NEW a, NEW m, NEW n, NEW e,
           Grounds(r, l, q, a, m, n, e)
    PROVE  Grounds(r, l, "none", "none", m, n, e)
<1>1. /\ Unpolled(q) => Unpolled("none")
      /\ Justified(r, q, e) => Justified(r, "none", e)
      /\ Due(r, q, m, e) => Due(r, "none", m, e)
  BY DEF Unpolled, Justified, Due
<1>2. RowGrounds(r, "none", "none", m, n, e)
  BY <1>1 DEF Grounds, RowGrounds
<1>3. JobGrounds(r, l, "none", m, n, e)
  BY <1>1 DEF Grounds, JobGrounds
<1> QED
  BY <1>2, <1>3 DEF Grounds

\* The batch is answered, with s for this document.
LEMMA PollAskGrounds ==
    ASSUME NEW r \in Row, NEW l \in Local, NEW q, NEW a, NEW m, NEW n, NEW e \in Evidence,
           Grounds(r, l, q, a, m, n, e), q # "none", NEW s, s # "Pending",
           s \in REMOTE_IN_FLIGHT_STATUSES \cup ACCEPTED_STATUSES => Listed(m)
    PROVE  Grounds(r, l, q, s, m, n, Learn(e, s))
<1> DEFINE ee == Learn(e, s)
<1>1. /\ Conclusive(e) => Conclusive(ee)
      /\ Missed(m, e) => Missed(m, ee)
      /\ Listed(m) \/ Spaced(r, e) => Listed(m) \/ Spaced(r, ee)
      /\ Listed(m) \/ Ripe(e) => Listed(m) \/ Ripe(ee)
      /\ s = "missing" => ee # "none"
  BY LearnKeeps
<1> HIDE DEF ee
<1>2. ~Unpolled(q)
  BY DEF Unpolled
<1>3. Justified(r, q, e) => Justified(r, q, ee)
  BY <1>1, <1>2 DEF Justified
<1>4. RowGrounds(r, q, s, m, n, ee)
  BY <1>1, <1>2 DEF Grounds, RowGrounds, Missed
<1>5. JobGrounds(r, l, q, m, n, ee)
  BY <1>1, <1>2, <1>3 DEF Grounds, JobGrounds, Due, Missed
<1> QED
  BY <1>4, <1>5 DEF Grounds, ee

\* The poller writes what it was answered, whatever happened to the row since.
LEMMA PollApplyGrounds ==
    ASSUME NEW r \in Row, NEW l \in Local, NEW q, NEW a, NEW m, NEW n, NEW e,
           Grounds(r, l, q, a, m, n, e), q # "none", Apart(l, q),
           a \in Status \cup {"missing", "untyped", "ambiguous"},
           NEW y, y = PollResult(r, q, a)
    PROVE  Grounds(y, l, "none", "none", m, n, e)
<1>1. q \in REMOTE_IN_FLIGHT_STATUSES /\ a # "Pending" /\ r.status # "Pending"
  BY DEF Grounds, RowGrounds
<1>2. /\ y.checked = "recent" /\ (a # "missing" => y.notFound = 0)
      /\ y.status = CASE a = "missing" -> "UNCONFIRMED" [] a = "ambiguous" -> q
                      [] a = "untyped" -> r.status [] OTHER -> a
  BY <1>1, PollFields
<1>3. y.status # "Pending" /\ (y.status \in REMOTE_IN_FLIGHT_STATUSES => y.notFound = 0)
  BY <1>1, <1>2 DEF REMOTE_IN_FLIGHT_STATUSES
<1>4. y.notFound >= 1 => Listed(m) \/ Spaced(y, e) \/ Unpolled("none")
  BY <1>2 DEF Grounds, RowGrounds, Missed, Spaced, Unpolled
<1>5. RowGrounds(y, "none", "none", m, n, e)
  BY <1>3, <1>4 DEF RowGrounds
<1>6. CASE l.pc = "idle"
  BY <1>5, <1>6, RestGrounds
<1>7. CASE Operators # {}
  <2>1. ~AbsenceConfirmed(y)
    BY <1>2 DEF AbsenceConfirmed
  <2>2. /\ Justified(r, q, e) => Justified(y, "none", e)
        /\ Due(r, q, m, e) => Due(y, "none", m, e)
    BY DEF Justified, Due, Unpolled
  <2>3. JobGrounds(y, l, "none", m, n, e)
    BY <1>1, <1>7, <2>1, <2>2, <1>3 DEF Grounds, JobGrounds, Unpolled
  <2> QED
    BY <1>5, <2>3 DEF Grounds
<1> QED
  BY <1>6, <1>7 DEF Apart

\* The answer to a POST: a failure, or the provider has the document.
LEMMA ReplyGrounds ==
    ASSUME NEW r \in Row, NEW l \in Local, NEW q, NEW a, NEW m, NEW n, NEW e,
           Grounds(r, l, q, a, m, n, e), NEW s,
           NEW y, y = record_failure(r, s) \/ y = apply_remote_result(r, "RECIBIDO")
    PROVE  RowGrounds(y, q, a, m, n, e)
<1>1. CASE y = record_failure(r, s)
  <2>1. /\ y.notFound = r.notFound /\ y.checked = r.checked
        /\ y.status \in {"UNCONFIRMED", "ERROR"}
    BY <1>1, FailureFields
  <2> QED
    BY <2>1 DEF Grounds, RowGrounds, Spaced, REMOTE_IN_FLIGHT_STATUSES
<1>2. CASE y = apply_remote_result(r, "RECIBIDO")
  <2>1. "RECIBIDO" \in Status \cup {"untyped"}
    BY DEF Status, REMOTE_IN_FLIGHT_STATUSES
  <2>2. y.notFound = 0 /\ y.status = "RECIBIDO"
    BY <1>2, <2>1, RemoteResultFields
  <2> QED
    BY <2>2 DEF Grounds, RowGrounds
<1> QED
  BY <1>1, <1>2

\* The sweep marks a stale row, or queues the job of a row that is due.
LEMMA SweepGrounds ==
    ASSUME NEW r \in Row, NEW l \in Local, NEW q, NEW a, NEW m, NEW n, NEW e,
           Grounds(r, l, q, a, m, n, e)
    PROVE  Grounds(IF Verdict(r) = "stale" THEN MarkStale(r) ELSE r,
                   EnqueueFor(l, Verdict(r)), q, a, m, n, e)
<1> DEFINE x == EnqueueFor(l, Verdict(r))
           y == IF Verdict(r) = "stale" THEN MarkStale(r) ELSE r
<1>1. Verdict(r) \in {"none", "send", "stale", "reconcile"}
  BY VerdictType
<1>2. \/ x = l
      \/ l.pc = "idle" /\ Verdict(r) = "send" /\ x.pc = "send"
      \/ l.pc = "idle" /\ Verdict(r) \in {"stale", "reconcile"} /\ x.pc = "reconcile"
  BY <1>1 DEF EnqueueFor, Enqueue, Local
<1>3. Verdict(r) = "send" => r.status = "Pending"
  BY DEF Verdict
<1>4. Verdict(r) = "stale" => /\ r.status = "SUBMITTING" /\ y.status = "UNCONFIRMED"
                              /\ y.notFound = r.notFound /\ y.checked = r.checked
  BY MarkStaleFields DEF Verdict
<1>5. Verdict(r) # "stale" => y = r
  OBVIOUS
<1> HIDE DEF x, y
<1>6. RowGrounds(y, q, a, m, n, e)
  BY <1>4, <1>5 DEF Grounds, RowGrounds, Spaced, REMOTE_IN_FLIGHT_STATUSES
<1>7. AbsenceConfirmed(y) <=> AbsenceConfirmed(r)
  BY <1>4, <1>5 DEF AbsenceConfirmed
<1>8. /\ Justified(r, q, e) => Justified(y, q, e)
      /\ Due(r, q, m, e) => Due(y, q, m, e)
  BY <1>4, <1>5 DEF Justified, Due, REMOTE_IN_FLIGHT_STATUSES
<1>9. JobGrounds(y, l, q, m, n, e)
  BY <1>4, <1>5, <1>7, <1>8 DEF Grounds, JobGrounds
<1>10. CASE x = l
  BY <1>6, <1>9, <1>10 DEF Grounds, x, y
<1>11. CASE x.pc = "send" /\ Verdict(r) = "send"
  BY <1>3, <1>5, <1>6, <1>11 DEF Grounds, RowGrounds, JobGrounds, x, y
<1>12. CASE x.pc = "reconcile"
  BY <1>6, <1>12 DEF Grounds, JobGrounds, x, y
<1> QED
  BY <1>2, <1>10, <1>11, <1>12

\* Deadlines other than the two minutes between misses.
LEMMA DeadlineGrounds ==
    ASSUME NEW r \in Row, NEW l, NEW q, NEW a, NEW m, NEW n, NEW e, Grounds(r, l, q, a, m, n, e),
           NEW y, y.status = r.status, y.notFound = r.notFound, y.checked = r.checked
    PROVE  Grounds(y, l, q, a, m, n, e)
<1>1. Spaced(y, e) <=> Spaced(r, e)
  BY DEF Spaced
<1>2. AbsenceConfirmed(y) <=> AbsenceConfirmed(r)
  BY DEF AbsenceConfirmed
<1>3. /\ Justified(y, q, e) <=> Justified(r, q, e)
      /\ Due(y, q, m, e) <=> Due(r, q, m, e)
  BY DEF Justified, Due
<1> QED
  BY <1>1, <1>2, <1>3 DEF Grounds, RowGrounds, JobGrounds

\* The two minutes pass for the row and for the evidence, when nobody is about to
\* record an answer.
LEMMA TwoMinutesGrounds ==
    ASSUME NEW r \in Row, NEW l, NEW q, NEW m, NEW n, NEW e \in Evidence,
           Grounds(r, l, q, "none", m, n, e), l.pc \notin {"answer", "miss"},
           NEW y, y = [r EXCEPT !.checked = IF @ = "recent" THEN "old" ELSE @]
    PROVE  Grounds(y, l, q, "none", m, n, IF e = "missed" THEN "aged" ELSE e)
<1> DEFINE ee == IF e = "missed" THEN "aged" ELSE e
<1>1. /\ y.status = r.status /\ y.notFound = r.notFound
      /\ y.checked = IF r.checked = "recent" THEN "old" ELSE r.checked
  BY DEF Row
<1>2. AbsenceConfirmed(r) => AbsenceConfirmed(y)
  BY <1>1 DEF AbsenceConfirmed
<1>3. ee # "none" <=> e # "none"
  OBVIOUS
<1>4. Spaced(r, e) => Spaced(y, ee)
  BY <1>1 DEF Spaced, Evidence
<1>5. /\ Conclusive(ee) <=> Conclusive(e)
      /\ Due(r, q, m, e) => Due(y, q, m, ee)
  BY <1>1 DEF Conclusive, Due, Ripe
<1> HIDE DEF ee
<1>6. RowGrounds(y, q, "none", m, n, ee)
  BY <1>1, <1>4 DEF Grounds, RowGrounds
<1>7. JobGrounds(y, l, q, m, n, ee)
  BY <1>1, <1>2, <1>3, <1>5 DEF Grounds, JobGrounds, Justified
<1> QED
  BY <1>6, <1>7 DEF Grounds, ee

LEMMA ListedGrounds ==
    ASSUME NEW r, NEW l, NEW q, NEW a, NEW m, NEW n, NEW e, Grounds(r, l, q, a, m, n, e),
           NEW mm, Listed(mm)
    PROVE  Grounds(r, l, q, a, mm, n, e)
  BY DEF Grounds, RowGrounds, JobGrounds, Missed, Due

-----------------------------------------------------------------------------
(* The same of the system *)

\* No user but for the Retry button, answers that are recorded within two minutes,
\* a sweep that works on what it read.
Prompt ==
    /\ SlowWorkers = FALSE /\ SlowSweep = FALSE
    /\ Operators = {} \/ Requests \subseteq {"retry"}

Jobs ==
    /\ \A d \in Docs : w[d].doc = d
    /\ \A o \in Operators : w[o].pc = "idle"
    /\ sweep.todo = Nothing /\ sweep.marked = {}

GroundsOf(d) ==
    Grounds(row[d], w[d], poll.seen[d], poll.replies[d], remote[d], posts[d], evidence[d])

Grounded ==
    /\ Jobs
    /\ Operators = {} => Automatic
    /\ \A d \in Docs : GroundsOf(d)

LEMMA GroundedInit ==
    ASSUME Init
    PROVE  Grounded
<1>1. PICK queued \in SUBSET Docs :
         w = [p \in Workers |->
                 IF p \in Docs THEN [Rest(p) EXCEPT !.pc = IF p \in queued THEN "send"
                                                           ELSE "idle"]
                               ELSE Rest(AnyDoc)]
  BY DEF Init
<1>2. Docs \subseteq Workers /\ Operators \subseteq Workers /\ Docs \cap Operators = {}
  BY OperatorsAssumption DEF Workers
<1>3. ASSUME NEW d \in Docs
      PROVE  w[d].doc = d /\ w[d].pc \in {"send", "idle"}
  BY <1>1, <1>2 DEF Rest
<1>4. ASSUME NEW o \in Operators
      PROVE  w[o].pc = "idle"
  BY <1>1, <1>2 DEF Rest
<1>5. Jobs
  BY <1>3, <1>4 DEF Init, Jobs
<1>6. ASSUME NEW d \in Docs
      PROVE  GroundsOf(d)
  <2>1. /\ row[d].status = "Pending" /\ row[d].notFound = 0 /\ posts[d] = 0
        /\ poll.seen[d] = "none" /\ poll.replies[d] = "none"
    BY DEF Init, NewRow, Nothing
  <2> QED
    BY <1>3, <2>1 DEF GroundsOf, Grounds, RowGrounds, JobGrounds, REMOTE_IN_FLIGHT_STATUSES
<1> QED
  BY <1>5, <1>6, AutomaticInit DEF Grounded

\* A step of the job of p that leaves its row as y and the job as x.
LEMMA JobStep ==
    ASSUME TypeOK, Jobs, \A d \in Docs : GroundsOf(d), NEW p \in Docs,
           NEW y, row' = [row EXCEPT ![p] = y], NEW x, w' = [w EXCEPT ![p] = x], x.doc = p,
           poll' = poll, sweep' = sweep, UNCHANGED provider,
           Grounds(y, x, poll.seen[p], poll.replies[p], remote[p], posts[p], evidence[p])
    PROVE  Jobs' /\ \A d \in Docs : GroundsOf(d)'
<1>1. p \in Workers /\ p \notin Operators
  BY OperatorsAssumption DEF Workers
<1>2. Jobs'
  BY <1>1 DEF Jobs, TypeOK
<1>3. ASSUME NEW d \in Docs
      PROVE  GroundsOf(d)'
  <2>1. remote' = remote /\ posts' = posts /\ evidence' = evidence
    BY DEF provider
  <2>2. CASE d = p
    <3>1. row'[d] = y /\ w'[d] = x
      BY <1>1, <2>2 DEF TypeOK
    <3> QED
      BY <2>1, <2>2, <3>1 DEF GroundsOf
  <2>3. CASE d # p
    <3>1. row'[d] = row[d] /\ w'[d] = w[d] /\ d \in Workers
      BY <1>1, <2>3 DEF TypeOK, Workers
    <3>2. GroundsOf(d)
      OBVIOUS
    <3> QED
      BY <2>1, <3>1, <3>2 DEF GroundsOf
  <2> QED
    BY <2>2, <2>3
<1> QED
  BY <1>2, <1>3

\* What a job may do once it has the lock.
LEMMA AcquireChoices ==
    ASSUME NEW p \in Docs, w[p].doc = p, AcquireSend(p)
    PROVE  \E s \in Visible(p) :
              \/ w' = [w EXCEPT ![p] = Rest(p)]
              \/ w' = [w EXCEPT ![p] = [Rest(p) EXCEPT !.pc = "reconcile", !.held = TRUE,
                                                       !.resendMissing = TRUE]]
              \/ w' = [w EXCEPT ![p].pc = "mark", ![p].held = TRUE, ![p].snap = s]
  BY DEF AcquireSend

LEMMA GroundedWorker ==
    ASSUME TypeOK, Jobs, \A d \in Docs : GroundsOf(d), \A d \in Docs : Apart(w[d], poll.seen[d]),
           NEW p \in Docs, Step(p) \/ Crash(p) \/ ProviderUnavailable(p) \/ WaitTimesOut(p)
    PROVE  Jobs' /\ \A d \in Docs : GroundsOf(d)'
<1> DEFINE l == w[p]
           v == row[p]
           q == poll.seen[p]
           a == poll.replies[p]
           Holds2(y, x) == Grounds(y, x, q, a, remote[p], posts[p], evidence[p])
<1>0. /\ p \in Workers /\ l \in Local /\ v \in Row /\ l.snap \in Row /\ l.doc = p
      /\ Rest(p) \in Local /\ Rest(p).doc = p /\ Rest(p).pc = "idle"
      /\ remote[p] \in Remote /\ evidence[p] \in Evidence
      /\ row \in [Docs -> Row] /\ w \in [Workers -> Local]
  BY WorkerType DEF Jobs, Rest, TypeOK, Workers
<1>1. Holds2(v, l)
  BY DEF GroundsOf
<1>2. RowGrounds(v, q, a, remote[p], posts[p], evidence[p])
  BY <1>1 DEF Grounds
<1>3. \* the job goes on, and its row is as it was
      ASSUME row' = row, poll' = poll, sweep' = sweep, UNCHANGED provider,
             NEW x \in Local, w' = [w EXCEPT ![p] = x], x.doc = p, Holds2(v, x)
      PROVE  Jobs' /\ \A d \in Docs : GroundsOf(d)'
  <2>1. row' = [row EXCEPT ![p] = v]
    BY <1>0, <1>3
  <2> QED
    BY <1>3, <2>1, JobStep
<1>4. \* the job ends with its row as y
      ASSUME poll' = poll, sweep' = sweep, UNCHANGED provider,
             NEW y, row' = [row EXCEPT ![p] = y], w' = [w EXCEPT ![p] = Rest(p)],
             RowGrounds(y, q, a, remote[p], posts[p], evidence[p])
      PROVE  Jobs' /\ \A d \in Docs : GroundsOf(d)'
  <2>1. Holds2(y, Rest(p))
    BY <1>0, <1>4, RestGrounds
  <2> QED
    BY <1>0, <1>4, <2>1, JobStep
<1>5. Finish(p) => w' = [w EXCEPT ![p] = Rest(p)]
  BY <1>0 DEF Finish
<1>6. CASE EnterSend(p)
  <2> DEFINE x == [l EXCEPT !.pc = "lock", !.snap = v]
  <2>1. x \in Local /\ x.doc = p /\ x.pc = "lock"
    BY <1>0 DEF Local, PC
  <2>2. w' = [w EXCEPT ![p] = x] /\ l.pc = "send"
    BY <1>0, <1>6 DEF EnterSend
  <2> HIDE DEF x
  <2>3. Holds2(v, x)
    BY <1>0, <1>1, <2>1, <2>2, SendGrounds
  <2> QED
    BY <1>3, <1>6, <2>1, <2>2, <2>3 DEF EnterSend, tasks
<1>7. CASE AcquireSend(p)
  <2>1. PICK s \in Visible(p) :
           \/ w' = [w EXCEPT ![p] = Rest(p)]
           \/ w' = [w EXCEPT ![p] = [Rest(p) EXCEPT !.pc = "reconcile", !.held = TRUE,
                                                    !.resendMissing = TRUE]]
           \/ w' = [w EXCEPT ![p].pc = "mark", ![p].held = TRUE, ![p].snap = s]
    BY <1>0, <1>7, AcquireChoices
  <2>2. s \in Row /\ l.pc = "lock"
    BY <1>0, <1>7, <2>1, WorkerType DEF AcquireSend
  <2> DEFINE x == [Rest(p) EXCEPT !.pc = "reconcile", !.held = TRUE, !.resendMissing = TRUE]
             z == [l EXCEPT !.pc = "mark", !.held = TRUE, !.snap = s]
  <2>3. /\ x \in Local /\ x.doc = p /\ x.pc = "reconcile"
        /\ z \in Local /\ z.doc = p /\ z.pc = "mark"
    BY <1>0, <2>2 DEF Local, PC
  <2>4. w' = [w EXCEPT ![p] = Rest(p)] \/ w' = [w EXCEPT ![p] = x] \/ w' = [w EXCEPT ![p] = z]
    BY <1>0, <2>1
  <2> HIDE DEF x, z
  <2>5. Holds2(v, Rest(p)) /\ Holds2(v, x) /\ Holds2(v, z)
    BY <1>0, <1>1, <1>2, <2>2, <2>3, RestGrounds, ReconcileGrounds, SendGrounds
  <2> QED
    BY <1>0, <1>3, <1>7, <2>3, <2>4, <2>5 DEF AcquireSend, tasks
<1>8. CASE MarkSubmitting(p)
  <2> DEFINE x == [l EXCEPT !.pc = "post"]
  <2>1. PICK y : /\ row' = [row EXCEPT ![p] = y]
                 /\ y = apply_transition([v EXCEPT !.attempts = l.snap.attempts + 1,
                                                   !.attempted = "recent", !.retry = "none",
                                                   !.notFound = 0], "SUBMITTING")
    BY <1>0, <1>8 DEF MarkSubmitting, SetRow
  <2>2. y \in Row /\ y.status = "SUBMITTING" /\ y.notFound = 0
    <3>1. l.snap.attempts \in Nat
      BY <1>0 DEF Row
    <3> HIDE DEF l, v
    <3> QED
      BY <1>0, <2>1, <3>1, AttemptFields
  <2>3. x \in Local /\ x.doc = p /\ x.pc = "post"
    BY <1>0 DEF Local, PC
  <2>4. w' = [w EXCEPT ![p] = x] /\ l.pc = "mark"
    BY <1>0, <1>8 DEF MarkSubmitting, Goto
  <2> HIDE DEF x
  <2>5. Holds2(y, x)
    BY <1>0, <1>1, <2>2, <2>3, <2>4, MarkGrounds
  <2> QED
    BY <1>8, <2>1, <2>3, <2>4, <2>5, JobStep DEF MarkSubmitting, tasks
<1>9. CASE Post(p)
  <2>1. PICK o \in PostOutcomes(remote[p]) :
           /\ remote' = [remote EXCEPT ![p] = o.remote]
           /\ posts' = [posts EXCEPT ![p] = IF o.sent THEN @ + 1 ELSE @]
           /\ evidence' = [evidence EXCEPT ![p] = IF o.sent THEN "none" ELSE @]
           /\ w' = [w EXCEPT ![p].pc = "reply", ![p].reply = o.reply]
    BY <1>0, <1>9 DEF Post
  <2>2. o.reply \in Reply
    BY <1>0, <2>1, OutcomesType DEF Reply, Status, REMOTE_IN_FLIGHT_STATUSES
  <2>3. Listed(remote[p]) => Listed(o.remote)
    BY <1>0, <2>1 DEF PostOutcomes, Listed, Received, ReceivedUnseen, Remote
  <2> DEFINE x == [l EXCEPT !.pc = "reply", !.reply = o.reply]
  <2>4. x \in Local /\ x.doc = p /\ x.pc = "reply"
    BY <1>0, <2>2 DEF Local, PC
  <2>5. w' = [w EXCEPT ![p] = x] /\ l.pc = "post"
    BY <1>0, <1>9, <2>1 DEF Post
  <2> HIDE DEF x
  <2>6. poll.replies[p] # "none" => poll.seen[p] # "none"
    BY DEF TypeOK, RepliesFit
  <2>7. Grounds(v, x, q, a, remote'[p], posts'[p], evidence'[p])
    <3>1. evidence'[p] \in {evidence[p], "none"} /\ (Listed(remote[p]) => Listed(remote'[p]))
      BY <2>1, <2>3 DEF TypeOK
    <3>2. Apart(l, q) /\ (a # "none" => q # "none")
      BY <2>6
    <3> HIDE DEF l, v, q, a
    <3> QED
      BY <1>0, <1>1, <2>4, <2>5, <3>1, <3>2, PostGrounds
  <2>8. \A d \in Docs : GroundsOf(d)'
    <3>1. row' = row /\ poll' = poll
      BY <1>9 DEF Post, tasks
    <3>2. ASSUME NEW d \in Docs, d # p
          PROVE  GroundsOf(d)'
      <4>1. /\ w'[d] = w[d] /\ remote'[d] = remote[d] /\ posts'[d] = posts[d]
            /\ evidence'[d] = evidence[d]
        BY <1>0, <2>1, <2>5, <3>2 DEF TypeOK, Workers
      <4>2. GroundsOf(d)
        OBVIOUS
      <4> QED
        BY <3>1, <4>1, <4>2 DEF GroundsOf
    <3>3. w'[p] = x
      BY <1>0, <2>5
    <3> QED
      BY <2>7, <3>1, <3>2, <3>3 DEF GroundsOf
  <2>9. Jobs'
    BY <1>0, <1>9, <2>4, <2>5, OperatorsAssumption DEF Jobs, Post, tasks, Workers
  <2> QED
    BY <2>8, <2>9
<1>10. CASE HandlePostReply(p)
  <2>1. l.reply \in {"RECIBIDO", "lost", "denied"}
    BY <1>0, <1>10 DEF HandlePostReply, TypeOK, RepliesFit
  <2>2. PICK y : /\ row' = [row EXCEPT ![p] = y]
                 /\ y = record_failure(v, l.reply) \/ y = apply_remote_result(v, "RECIBIDO")
    BY <1>0, <1>10, <2>1 DEF HandlePostReply, SetRow
  <2>3. RowGrounds(y, q, a, remote[p], posts[p], evidence[p])
    BY <1>0, <1>1, <2>2, ReplyGrounds
  <2> QED
    BY <1>4, <1>5, <1>10, <2>2, <2>3 DEF HandlePostReply, tasks
<1>11. CASE BeginReconcile(p)
  <2> DEFINE x == [l EXCEPT !.pc = "ask", !.snap = v]
  <2>1. x \in Local /\ x.doc = p /\ x.pc = "ask" /\ x.snap = v
    BY <1>0 DEF Local, PC
  <2>2. w' = [w EXCEPT ![p] = Rest(p)] \/ w' = [w EXCEPT ![p] = x]
    BY <1>0, <1>5, <1>11 DEF BeginReconcile
  <2> HIDE DEF x
  <2>3. Holds2(v, Rest(p)) /\ Holds2(v, x)
    BY <1>0, <1>2, <2>1, RestGrounds, ReconcileGrounds
  <2> QED
    BY <1>0, <1>3, <1>11, <2>1, <2>2, <2>3 DEF BeginReconcile, tasks
<1>12. CASE Ask(p)
  <2>1. PICK o \in QueryOutcomes(remote[p]) :
           /\ evidence' = [evidence EXCEPT ![p] = Learn(@, o.reply)]
           /\ w' = [w EXCEPT ![p].pc = "answer", ![p].reply = o.reply]
    BY <1>0, <1>12 DEF Ask
  <2>2. /\ o.reply \in Reply /\ o.reply # "Pending"
        /\ o.reply \in REMOTE_IN_FLIGHT_STATUSES \cup ACCEPTED_STATUSES => Listed(remote[p])
        /\ o.reply = "missing" => ~Listed(remote[p])
    BY <1>0, <2>1, OutcomesType DEF QueryOutcomes, View, Listed, Remote,
                                    REMOTE_IN_FLIGHT_STATUSES, ACCEPTED_STATUSES
  <2> DEFINE x == [l EXCEPT !.pc = "answer", !.reply = o.reply]
  <2>3. x \in Local /\ x.doc = p /\ x.pc = "answer" /\ x.reply = o.reply /\ x.snap = l.snap
    BY <1>0, <2>2 DEF Local, PC
  <2>4. w' = [w EXCEPT ![p] = x] /\ l.pc = "ask"
    BY <1>0, <1>12, <2>1 DEF Ask
  <2> HIDE DEF x
  <2>5. Grounds(v, x, q, a, remote[p], posts[p], Learn(evidence[p], o.reply))
    BY <1>0, <1>1, <2>2, <2>3, <2>4, AskGrounds
  <2>6. \A d \in Docs : GroundsOf(d)'
    <3>1. row' = row /\ poll' = poll /\ remote' = remote /\ posts' = posts
      BY <1>12 DEF Ask, tasks
    <3>2. ASSUME NEW d \in Docs, d # p
          PROVE  GroundsOf(d)'
      <4>1. w'[d] = w[d] /\ evidence'[d] = evidence[d]
        BY <1>0, <2>1, <2>4, <3>2 DEF TypeOK, Workers
      <4>2. GroundsOf(d)
        OBVIOUS
      <4> QED
        BY <3>1, <4>1, <4>2 DEF GroundsOf
    <3>3. w'[p] = x /\ evidence'[p] = Learn(evidence[p], o.reply)
      BY <1>0, <2>1, <2>4 DEF TypeOK
    <3> QED
      BY <2>5, <3>1, <3>2, <3>3 DEF GroundsOf
  <2>7. Jobs'
    BY <1>0, <1>12, <2>3, <2>4, OperatorsAssumption DEF Jobs, Ask, tasks, Workers
  <2> QED
    BY <2>6, <2>7
<1>13. CASE HandleAnswer(p)
  <2>1. PICK y : /\ row' = [row EXCEPT ![p] = y]
                 /\ \/ y = record_failure(v, l.reply)
                    \/ /\ l.reply \in Status \cup {"untyped"}
                       /\ y = apply_remote_result(v, l.reply)
                    \/ y = record_ambiguous(v, l.snap)
    BY <1>0, <1>13 DEF HandleAnswer, SetRow
  <2>2. RowGrounds(y, q, a, remote[p], posts[p], evidence[p])
    BY <1>0, <1>1, <1>13, <2>1, AnswerGrounds DEF HandleAnswer
  <2>3. CASE Finish(p)
    BY <1>4, <1>5, <1>13, <2>1, <2>2, <2>3 DEF HandleAnswer, tasks
  <2>4. CASE l.reply \in BLOCKED_STATUSES /\ ForceSend(p)
    <3> DEFINE x == [Rest(p) EXCEPT !.pc = "send", !.force = TRUE]
    <3>1. x.doc = p /\ x.pc = "send"
      BY <1>0 DEF Local
    <3>2. w' = [w EXCEPT ![p] = x]
      BY <1>0, <2>4 DEF ForceSend
    <3> HIDE DEF x
    <3>3. Conclusive(evidence[p])
      BY <1>1, <1>13, <2>4 DEF HandleAnswer, Grounds, JobGrounds
    <3>4. Holds2(y, x)
      BY <2>2, <3>1, <3>3, ForceGrounds DEF Justified
    <3> QED
      BY <1>13, <2>1, <3>1, <3>2, <3>4, JobStep DEF HandleAnswer, tasks
  <2> QED
    BY <1>13, <2>3, <2>4 DEF HandleAnswer
<1>14. CASE HandleMissing(p)
  <2>1. l.pc = "answer" /\ l.reply = "missing"
    BY <1>14 DEF HandleMissing
  <2>2. CASE \E s \in Visible(p) :
                row' = row /\ w' = [w EXCEPT ![p].pc = "miss", ![p].snap = s]
    <3>1. PICK s \in Visible(p) :
             row' = row /\ w' = [w EXCEPT ![p] = [l EXCEPT !.pc = "miss", !.snap = s]]
      BY <1>0, <2>2
    <3>2. s \in {v, l.snap}
      BY <1>0, <3>1 DEF Visible
    <3> DEFINE x == [l EXCEPT !.pc = "miss", !.snap = s]
    <3>3. x \in Local /\ x.doc = p /\ x.pc = "miss" /\ x.snap = s
      BY <1>0, <3>2 DEF Local, PC
    <3> HIDE DEF x
    <3>4. Holds2(v, x)
      BY <1>0, <1>1, <2>1, <3>2, <3>3, MissGrounds
    <3> QED
      BY <1>3, <1>14, <3>1, <3>3, <3>4 DEF HandleMissing, tasks, x
  <2>3. CASE /\ l.snap.status \in BLOCKED_STATUSES
             /\ SetRow(p, record_blocked_not_found(v, l.snap)) /\ Finish(p)
    <3>1. PICK y : y = record_blocked_not_found(v, l.snap) /\ row' = [row EXCEPT ![p] = y]
      BY <2>3 DEF SetRow
    <3>2. RowGrounds(y, q, a, remote[p], posts[p], evidence[p])
      BY <1>0, <1>1, <2>1, <2>3, <3>1, BlockedMissGrounds
    <3> QED
      BY <1>4, <1>5, <1>14, <2>3, <3>1, <3>2 DEF HandleMissing, tasks
  <2> QED
    BY <1>0, <1>14, <2>2, <2>3 DEF HandleMissing
<1>15. CASE RecordMiss(p)
  <2>1. PICK y : y = record_not_found(v, l.snap) /\ row' = [row EXCEPT ![p] = y]
    BY <1>0, <1>15 DEF RecordMiss, SetRow
  <2>2. /\ RowGrounds(y, q, a, remote[p], posts[p], evidence[p])
        /\ AbsenceConfirmed(l.snap) => Justified(y, q, evidence[p])
    BY <1>0, <1>1, <1>15, <2>1, RecordMissGrounds DEF RecordMiss
  <2>3. CASE Finish(p)
    BY <1>4, <1>5, <1>15, <2>1, <2>2, <2>3 DEF RecordMiss, tasks
  <2>4. CASE AbsenceConfirmed(l.snap) /\ ForceSend(p)
    <3> DEFINE x == [Rest(p) EXCEPT !.pc = "send", !.force = TRUE]
    <3>1. x.doc = p /\ x.pc = "send"
      BY <1>0 DEF Local
    <3>2. w' = [w EXCEPT ![p] = x]
      BY <1>0, <2>4 DEF ForceSend
    <3> HIDE DEF x
    <3>3. Holds2(y, x)
      BY <2>2, <2>4, <3>1, ForceGrounds
    <3> QED
      BY <1>15, <2>1, <3>1, <3>2, <3>3, JobStep DEF RecordMiss, tasks
  <2> QED
    BY <1>15, <2>3, <2>4 DEF RecordMiss
<1>16. ~Query(p) /\ ~HandleQueryReply(p)
  BY <1>1 DEF Query, HandleQueryReply, Grounds, JobGrounds
<1>17. CASE Crash(p) \/ WaitTimesOut(p) \/ ProviderUnavailable(p)
  <2>1. /\ row' = row /\ w' = [w EXCEPT ![p] = Rest(p)] /\ poll' = poll /\ sweep' = sweep
        /\ UNCHANGED provider
    BY <1>0, <1>5, <1>17 DEF Crash, WaitTimesOut, ProviderUnavailable, tasks
  <2>2. Holds2(v, Rest(p))
    BY <1>0, <1>2, RestGrounds
  <2> QED
    BY <1>0, <1>3, <2>1, <2>2
<1> QED
  BY <1>6, <1>7, <1>8, <1>9, <1>10, <1>11, <1>12, <1>13, <1>14, <1>15, <1>16, <1>17 DEF Step

LEMMA GroundedPoll ==
    ASSUME TypeOK, Jobs, \A d \in Docs : GroundsOf(d), \A d \in Docs : Apart(w[d], poll.seen[d]),
           Poller
    PROVE  Jobs' /\ \A d \in Docs : GroundsOf(d)'
<1>1. /\ w' = w /\ sweep' = sweep /\ remote' = remote /\ posts' = posts
      /\ \A d \in Docs : d \in Workers /\ row[d] \in Row /\ w[d] \in Local
                         /\ remote[d] \in Remote /\ evidence[d] \in Evidence
  BY DEF Poller, PollSelect, PollFails, PollAsk, PollApply, PollCrash, provider, TypeOK, Workers
<1>2. Jobs'
  BY <1>1 DEF Jobs
<1>3. ASSUME NEW d \in Docs
      PROVE  GroundsOf(d)'
  <2>0. /\ d \in Workers /\ row[d] \in Row /\ w[d] \in Local /\ remote[d] \in Remote
        /\ evidence[d] \in Evidence
        /\ Grounds(row[d], w[d], poll.seen[d], poll.replies[d], remote[d], posts[d], evidence[d])
    BY <1>1 DEF GroundsOf
  <2>1. Grounds(row[d], w[d], "none", "none", remote[d], posts[d], evidence[d])
    BY <2>0, ForgetGrounds
  <2>2. CASE PollSelect
    <3>1. /\ row' = row /\ evidence' = evidence
          /\ poll'.replies[d] = "none"
          /\ \/ poll'.seen[d] = "none"
             \/ /\ row[d].status \in REMOTE_IN_FLIGHT_STATUSES
                /\ poll'.seen[d] = row[d].status
      BY <2>2 DEF PollSelect, TypeOK, RepliesFit, db, provider
    <3>2. CASE poll'.seen[d] = "none"
      BY <1>1, <2>1, <3>1, <3>2 DEF GroundsOf
    <3>3. CASE /\ row[d].status \in REMOTE_IN_FLIGHT_STATUSES
               /\ poll'.seen[d] = row[d].status
      <4>1. Grounds(row[d], w[d], row[d].status, "none", remote[d], posts[d], evidence[d])
        BY <2>0, <3>3, SelectGrounds
      <4> QED
        BY <1>1, <3>1, <3>3, <4>1 DEF GroundsOf
    <3> QED
      BY <3>1, <3>2, <3>3
  <2>3. CASE PollFails \/ PollCrash
    <3>1. /\ row' = row /\ evidence' = evidence
          /\ poll' = [pc |-> "idle", seen |-> Nothing, replies |-> Nothing]
      BY <2>3 DEF PollFails, PollCrash, db, provider
    <3>2. poll'.seen[d] = "none" /\ poll'.replies[d] = "none"
      BY <3>1 DEF Nothing
    <3> QED
      BY <1>1, <2>1, <3>1, <3>2 DEF GroundsOf
  <2>4. CASE PollAsk
    <3>1. PICK replies \in PollOutcomes :
             /\ poll' = [poll EXCEPT !.pc = "apply", !.replies = replies]
             /\ evidence' = [x \in Docs |-> IF Polled(x) THEN Learn(evidence[x], replies[x])
                                                         ELSE evidence[x]]
      BY <2>4 DEF PollAsk
    <3>2. row' = row /\ poll'.seen = poll.seen /\ poll'.replies = replies
      BY <2>4, <3>1 DEF PollAsk, TypeOK, db
    <3>3. \/ replies[d] = ClearAnswers[d]
          \/ Polled(d) /\ replies[d] \in {"ambiguous", "untyped"}
      <4>1. CASE replies = ClearAnswers
        BY <4>1
      <4>2. ASSUME NEW x \in {y \in Docs : Polled(y)},
                   NEW k \in Faults \cap {"ambiguous", "untyped"},
                   replies = [ClearAnswers EXCEPT ![x] = k]
            PROVE  replies[d] = ClearAnswers[d] \/ (d = x /\ replies[d] = k)
        <5>1. DOMAIN ClearAnswers = Docs
          BY DEF ClearAnswers
        <5> QED
          BY <4>2, <5>1
      <4> QED
        BY <3>1, <4>1, <4>2 DEF PollOutcomes
    <3>4. CASE ~Polled(d)
      <4>1. ClearAnswers[d] = "none"
        BY <3>4 DEF ClearAnswers
      <4>2. replies[d] = "none"
        BY <3>4, <3>3, <4>1
      <4>3. evidence'[d] = evidence[d] /\ poll.seen[d] = "none"
        BY <3>1, <3>4 DEF Polled
      <4> QED
        BY <1>1, <2>1, <3>2, <4>2, <4>3 DEF GroundsOf
    <3>5. CASE Polled(d)
      <4>1. replies[d] \in {View(remote[d]), "ambiguous", "untyped"}
        BY <3>5, <3>3 DEF ClearAnswers
      <4>2. /\ replies[d] # "Pending"
            /\ replies[d] \in REMOTE_IN_FLIGHT_STATUSES \cup ACCEPTED_STATUSES
                  => Listed(remote[d])
        BY <2>0, <4>1 DEF View, Listed, Remote, REMOTE_IN_FLIGHT_STATUSES, ACCEPTED_STATUSES
      <4>3. Grounds(row[d], w[d], poll.seen[d], replies[d], remote[d], posts[d],
                    Learn(evidence[d], replies[d]))
        BY <2>0, <3>5, <4>2, PollAskGrounds DEF Polled
      <4>4. evidence'[d] = Learn(evidence[d], replies[d])
        BY <3>1, <3>5
      <4> QED
        BY <1>1, <3>2, <4>3, <4>4 DEF GroundsOf
    <3> QED
      BY <3>4, <3>5
  <2>5. CASE PollApply
    <3>1. /\ row'[d] = PollResult(row[d], poll.seen[d], poll.replies[d])
          /\ poll' = [pc |-> "idle", seen |-> Nothing, replies |-> Nothing]
          /\ evidence' = evidence
      BY <2>5 DEF PollApply, provider
    <3>2. poll'.seen[d] = "none" /\ poll'.replies[d] = "none"
      BY <3>1 DEF Nothing
    <3>3. CASE poll.replies[d] = "none"
      <4>1. row'[d] = row[d]
        BY <3>1, <3>3 DEF PollResult
      <4> QED
        BY <1>1, <2>1, <3>1, <3>2, <4>1 DEF GroundsOf
    <3>4. CASE poll.replies[d] # "none"
      <4>1. /\ poll.seen[d] # "none"
            /\ poll.replies[d] \in Status \cup {"missing", "untyped", "ambiguous"}
        BY <3>4 DEF TypeOK, RepliesFit
      <4>2. Apart(w[d], poll.seen[d])
        OBVIOUS
      <4>3. Grounds(row'[d], w[d], "none", "none", remote[d], posts[d], evidence[d])
        BY <2>0, <3>1, <4>1, <4>2, PollApplyGrounds
      <4> QED
        BY <1>1, <3>1, <3>2, <4>3 DEF GroundsOf
    <3> QED
      BY <3>3, <3>4
  <2> QED
    BY <2>2, <2>3, <2>4, <2>5 DEF Poller
<1> QED
  BY <1>2, <1>3

LEMMA SweptAtOnce ==
    ASSUME TypeOK, Jobs, SlowSweep = FALSE, Sweep
    PROVE  SweepAtOnce
<1>1. ~SweepRead
  BY SlowSweep = FALSE DEF SweepRead
<1>2. ~(\E d \in Docs : SweepRow(d))
  BY DEF SweepRow, Jobs, Nothing
<1>3. ~SweepCommit
  BY DEF SweepCommit, Jobs
<1>4. ~SweepCrash
  BY DEF SweepCrash, Jobs, TypeOK
<1> QED
  BY <1>1, <1>2, <1>3, <1>4 DEF Sweep

LEMMA GroundedSweep ==
    ASSUME TypeOK, Jobs, \A d \in Docs : GroundsOf(d), SlowSweep = FALSE, Sweep
    PROVE  Jobs' /\ \A d \in Docs : GroundsOf(d)'
<1>1. /\ poll' = poll /\ sweep' = sweep /\ remote' = remote /\ posts' = posts
      /\ evidence' = evidence
      /\ \A d \in Docs :
            /\ row[d] \in Row /\ w[d] \in Local
            /\ row'[d] = IF Verdict(row[d]) = "stale" THEN MarkStale(row[d]) ELSE row[d]
            /\ w'[d] = EnqueueFor(w[d], Verdict(row[d]))
      /\ \A o \in Operators : w'[o] = w[o]
  <2>1. SweepAtOnce
    BY SweptAtOnce
  <2>2. /\ poll' = poll /\ sweep' = sweep /\ remote' = remote /\ posts' = posts
        /\ evidence' = evidence
    BY <2>1 DEF SweepAtOnce, tasks, provider
  <2>3. \A d \in Docs : row[d] \in Row /\ w[d] \in Local
    BY DEF TypeOK, Workers
  <2>4. /\ \A d \in Docs :
              /\ row'[d] = IF Verdict(row[d]) = "stale" THEN MarkStale(row[d]) ELSE row[d]
              /\ w'[d] = EnqueueFor(w[d], Verdict(row[d]))
        /\ \A o \in Operators : w'[o] = w[o]
    BY <2>1, OperatorsAssumption DEF SweepAtOnce, Workers
  <2> QED
    BY <2>2, <2>3, <2>4
<1>2. ASSUME NEW d \in Docs
      PROVE  GroundsOf(d)'
  <2>1. Grounds(row[d], w[d], poll.seen[d], poll.replies[d], remote[d], posts[d], evidence[d])
    BY DEF GroundsOf
  <2>2. row[d] \in Row /\ w[d] \in Local
    BY <1>1
  <2>3. Grounds(row'[d], w'[d], poll.seen[d], poll.replies[d], remote[d], posts[d], evidence[d])
    BY <1>1, <2>1, <2>2, SweepGrounds
  <2> QED
    BY <1>1, <2>3 DEF GroundsOf
<1>3. ASSUME NEW d \in Docs
      PROVE  w'[d].doc = d
  <2>1. w[d].doc = d /\ w[d] \in Local /\ w'[d] = EnqueueFor(w[d], Verdict(row[d]))
    BY <1>1 DEF Jobs
  <2> QED
    BY <2>1 DEF EnqueueFor, Enqueue, Local
<1> QED
  BY <1>1, <1>2, <1>3 DEF Jobs

\* Only the Retry button: it gives the document a job, unless it has one.
LEMMA GroundedUser ==
    ASSUME TypeOK, Jobs, \A d \in Docs : GroundsOf(d), Requests \subseteq {"retry"},
           NEW o \in Operators, NEW t \in Docs, User(o, t)
    PROVE  Jobs' /\ \A d \in Docs : GroundsOf(d)'
<1>1. Retry(o, t)
  BY Requests \subseteq {"retry"} DEF User, Submit, Refresh, QueryStatus
<1> DEFINE x == Enqueue(w[t], "reconcile", TRUE)
<1>2. /\ t \in Workers /\ w[t] \in Local /\ row[t] \in Row /\ w \in [Workers -> Local]
      /\ row \in [Docs -> Row] /\ w[t].doc = t
  BY DEF TypeOK, Workers, Jobs
<1>3. w' = [w EXCEPT ![t] = x] /\ row' = row /\ poll' = poll /\ sweep' = sweep
  BY <1>1, <1>2 DEF Retry, db, tasks
<1>4. UNCHANGED provider
  BY <1>1 DEF Retry
<1>5. x = w[t] \/ (x \in Local /\ x.pc = "reconcile" /\ x.doc = t)
  BY <1>2 DEF Enqueue, Local, PC
<1>6. Grounds(row[t], w[t], poll.seen[t], poll.replies[t], remote[t], posts[t], evidence[t])
  BY DEF GroundsOf
<1> HIDE DEF x
<1>7. RowGrounds(row[t], poll.seen[t], poll.replies[t], remote[t], posts[t], evidence[t])
  BY <1>6 DEF Grounds
<1>8. Grounds(row[t], x, poll.seen[t], poll.replies[t], remote[t], posts[t], evidence[t])
  BY <1>2, <1>5, <1>6, <1>7, ReconcileGrounds
<1>9. x.doc = t
  BY <1>2, <1>5
<1>10. row' = [row EXCEPT ![t] = row[t]]
  BY <1>2, <1>3
<1> QED
  BY <1>3, <1>4, <1>8, <1>9, <1>10, JobStep

LEMMA GroundedTime ==
    ASSUME TypeOK, Jobs, \A d \in Docs : GroundsOf(d), SlowWorkers = FALSE,
           NEW t \in Docs, Time(t) \/ ProviderWorks(t)
    PROVE  Jobs' /\ \A d \in Docs : GroundsOf(d)'
<1>1. w' = w /\ poll' = poll /\ sweep' = sweep /\ posts' = posts
  BY DEF Time, TwoMinutesPass, RetryFallsDue, CheckFallsDue, AttemptGoesStale, LeaseExpires,
         ProviderWorks, tasks, provider
<1>2. Jobs'
  BY <1>1 DEF Jobs
<1>3. ASSUME NEW d \in Docs
      PROVE  GroundsOf(d)'
  <2>0. /\ row[d] \in Row /\ row[t] \in Row /\ w[d] \in Local /\ remote[d] \in Remote
        /\ evidence[d] \in Evidence /\ t \in Workers /\ row \in [Docs -> Row]
        /\ evidence \in [Docs -> Evidence] /\ remote \in [Docs -> Remote]
        /\ Grounds(row[d], w[d], poll.seen[d], poll.replies[d], remote[d], posts[d], evidence[d])
    BY DEF GroundsOf, TypeOK, Workers
  <2>1. CASE TwoMinutesPass(t)
    <3>1. remote' = remote
      BY <2>1 DEF TwoMinutesPass
    <3>2. CASE d # t
      <4>1. row'[d] = row[d] /\ evidence'[d] = evidence[d]
        BY <2>0, <2>1, <3>2 DEF TwoMinutesPass
      <4> QED
        BY <1>1, <2>0, <3>1, <4>1 DEF GroundsOf
    <3>3. CASE d = t
      <4>1. /\ row'[d] = [row[d] EXCEPT !.checked = IF @ = "recent" THEN "old" ELSE @]
            /\ evidence'[d] = IF evidence[d] = "missed" THEN "aged" ELSE evidence[d]
        BY <2>0, <2>1, <3>3 DEF TwoMinutesPass
      <4>2. ~Recording(d)
        BY <2>1, <3>3, SlowWorkers = FALSE DEF TwoMinutesPass
      <4>3. w[d].pc \notin {"answer", "miss"}
        BY <2>0, <3>3, <4>2 DEF Recording, Jobs
      <4>4. poll.replies[d] = "none"
        BY <4>2 DEF Recording, Polled, TypeOK, RepliesFit
      <4>5. Grounds(row'[d], w[d], poll.seen[d], "none", remote[d], posts[d], evidence'[d])
        BY <2>0, <4>1, <4>3, <4>4, TwoMinutesGrounds
      <4> QED
        BY <1>1, <3>1, <4>4, <4>5 DEF GroundsOf
    <3> QED
      BY <3>2, <3>3
  <2>2. CASE RetryFallsDue(t) \/ CheckFallsDue(t) \/ AttemptGoesStale(t) \/ LeaseExpires(t)
    <3>1. remote' = remote /\ evidence' = evidence
      BY <2>2 DEF RetryFallsDue, CheckFallsDue, AttemptGoesStale, LeaseExpires, provider
    <3>2. /\ row'[d].status = row[d].status /\ row'[d].notFound = row[d].notFound
          /\ row'[d].checked = row[d].checked
      BY <2>0, <2>2 DEF RetryFallsDue, CheckFallsDue, AttemptGoesStale, LeaseExpires, Row
    <3>3. Grounds(row'[d], w[d], poll.seen[d], poll.replies[d], remote[d], posts[d], evidence[d])
      BY <2>0, <3>2, DeadlineGrounds
    <3> QED
      BY <1>1, <3>1, <3>3 DEF GroundsOf
  <2>3. CASE ProviderWorks(t)
    <3>1. /\ row' = row /\ evidence' = evidence
          /\ remote'[d] = remote[d] \/ Listed(remote'[d])
      BY <2>0, <2>3 DEF ProviderWorks, db, Listed
    <3>2. Grounds(row[d], w[d], poll.seen[d], poll.replies[d], remote'[d], posts[d], evidence[d])
      BY <2>0, <3>1, ListedGrounds
    <3> QED
      BY <1>1, <3>1, <3>2 DEF GroundsOf
  <2> QED
    BY <2>1, <2>2, <2>3 DEF Time
<1> QED
  BY <1>2, <1>3

LEMMA GroundedNext ==
    ASSUME TypeOK, Grounded, [Next]_vars, Prompt
    PROVE  Grounded'
<1>0. Jobs /\ (\A d \in Docs : GroundsOf(d)) /\ SlowWorkers = FALSE /\ SlowSweep = FALSE
  BY DEF Grounded, Prompt
<1>1. \A d \in Docs : Apart(w[d], poll.seen[d])
  BY DEF Grounded, Apart, Automatic, OneOwner, REMOTE_IN_FLIGHT_STATUSES
<1>2. Operators = {} => Automatic'
  BY <1>0, AutomaticNext DEF Grounded
<1>3. ASSUME NEW o \in Operators
      PROVE  ~(Step(o) \/ Crash(o) \/ ProviderUnavailable(o) \/ WaitTimesOut(o))
  BY <1>0, <1>3 DEF Jobs, Step, EnterSend, AcquireSend, MarkSubmitting, Post, HandlePostReply,
         BeginReconcile, Ask, HandleAnswer, HandleMissing, RecordMiss, Query, HandleQueryReply,
         Crash, ProviderUnavailable, WaitTimesOut
<1>4. Jobs' /\ \A d \in Docs : GroundsOf(d)'
  <2>1. CASE UNCHANGED vars
    BY <1>0, <2>1 DEF vars, Jobs, GroundsOf
  <2>2. ASSUME NEW p \in Docs, Step(p) \/ Crash(p) \/ ProviderUnavailable(p) \/ WaitTimesOut(p)
        PROVE  Jobs' /\ \A d \in Docs : GroundsOf(d)'
    BY <1>0, <1>1, <2>2, GroundedWorker
  <2>3. CASE Poller
    BY <1>0, <1>1, <2>3, GroundedPoll
  <2>4. CASE Sweep
    BY <1>0, <2>4, GroundedSweep
  <2>5. ASSUME NEW o \in Operators, NEW d \in Docs, User(o, d)
        PROVE  Jobs' /\ \A x \in Docs : GroundsOf(x)'
    <3>1. Requests \subseteq {"retry"}
      BY DEF Prompt
    <3> QED
      BY <1>0, <2>5, <3>1, GroundedUser
  <2>6. ASSUME NEW d \in Docs, Time(d) \/ ProviderWorks(d)
        PROVE  Jobs' /\ \A x \in Docs : GroundsOf(x)'
    BY <1>0, <2>6, GroundedTime
  <2> QED
    BY <1>3, <2>1, <2>2, <2>3, <2>4, <2>5, <2>6 DEF Next, Workers
<1> QED
  BY <1>2, <1>4 DEF Grounded

\* Only a job that is about to POST counts an attempt, so what it stands on is
\* what the resend stands on.
LEMMA ResendOnGrounds ==
    ASSUME TypeOK, Grounded, Prompt, [Next]_vars, NEW d \in Docs, Resends(d)
    PROVE  evidence[d] # "none" /\ (Operators = {} => Conclusive(evidence[d]))
<1>1. row'[d].attempts # row[d].attempts /\ posts[d] > 0
  BY DEF Resends
<1>2. ~Uncounted
  BY <1>1 DEF Uncounted
<1>3. ~UNCHANGED vars
  BY <1>1 DEF vars
<1>4. PICK p \in Workers : AcquireSend(p) \/ MarkSubmitting(p) \/ Post(p)
  <2>1. ~Poller /\ ~Sweep
    BY <1>2, PollUncounted, SweepUncounted
  <2>2. ~\E o \in Operators, x \in Docs : User(o, x)
    BY <1>2, UserUncounted
  <2>3. ~\E x \in Docs : Time(x) \/ ProviderWorks(x)
    BY <1>2, TimeUncounted
  <2> QED
    BY <1>2, <1>3, <2>1, <2>2, <2>3, StepUncounted DEF Next, Step
<1>5. MarkSubmitting(p)
  BY <1>1, <1>4 DEF AcquireSend, Post
<1>6. /\ p \in Docs /\ w[p].doc = p /\ w[p].pc = "mark"
      /\ row \in [Docs -> Row]
  BY <1>5 DEF MarkSubmitting, Grounded, Jobs, Workers, TypeOK
<1>7. p = d
  BY <1>1, <1>5, <1>6 DEF MarkSubmitting, SetRow
<1>8. Justified(row[d], poll.seen[d], evidence[d])
  BY <1>1, <1>6, <1>7 DEF Grounded, GroundsOf, Grounds, JobGrounds
<1> QED
  BY <1>8 DEF Justified, Unpolled, Conclusive

\* When no user acts, a worker records an answer within two minutes and the sweep
\* works on what it read, a POST is repeated only if the provider answered twice
\* since the last one, the second time on a first answer two minutes old, that it
\* does not have the document, or else that the document is rejected: whatever
\* faults, crashes, snapshots, expired leases and polls come between.
THEOREM ResendsHaveEvidence ==
    ASSUME Operators = {}, SlowWorkers = FALSE, SlowSweep = FALSE
    PROVE  Spec => ResendHasEvidence
<1>1. Prompt
  BY Operators = {}, SlowWorkers = FALSE, SlowSweep = FALSE DEF Prompt
<1>2. TypeOK /\ Grounded /\ [Next]_vars => (TypeOK /\ Grounded)'
  BY <1>1, NextType, GroundedNext
<1>3. TypeOK /\ Grounded /\ [Next]_vars
         => [\A d \in Docs : Resends(d) => evidence[d] \in {"spaced", "rejected"}]_vars
  BY <1>1, ResendOnGrounds, Operators = {} DEF Conclusive
<1>4. Init => TypeOK /\ Grounded
  BY InitType, GroundedInit
<1> QED
  BY <1>2, <1>3, <1>4, PTL DEF Spec, ResendHasEvidence

\* With users who only press Retry, whose job runs beside the poll, an uncertain
\* request is still queried before it is sent again.
THEOREM ResendsHaveQuery ==
    ASSUME Requests \subseteq {"retry"}, SlowWorkers = FALSE, SlowSweep = FALSE
    PROVE  Spec => ResendHasQuery
<1>1. Prompt
  BY Requests \subseteq {"retry"}, SlowWorkers = FALSE, SlowSweep = FALSE DEF Prompt
<1>2. TypeOK /\ Grounded /\ [Next]_vars => (TypeOK /\ Grounded)'
  BY <1>1, NextType, GroundedNext
<1>3. TypeOK /\ Grounded /\ [Next]_vars
         => [\A d \in Docs : Resends(d) => evidence[d] # "none"]_vars
  BY <1>1, ResendOnGrounds
<1>4. Init => TypeOK /\ Grounded
  BY InitType, GroundedInit
<1> QED
  BY <1>2, <1>3, <1>4, PTL DEF Spec, ResendHasQuery

-----------------------------------------------------------------------------
(* No row is stranded.  Without users a row that is UNCONFIRMED has a time at *)
(* which the sweep takes it up, or its job is on its way to send it again     *)
(* whatever it reads (force); a row that is SUBMITTING has an attempt that    *)
(* grows stale.  Both are lost only with a worker that dies.                  *)

OpenStatuses == {"Pending", "SUBMITTING", "UNCONFIRMED"}

Resending(l) == l.force /\ l.pc \in {"send", "lock", "mark"}

RowMoves(r) ==
    /\ r.status = "SUBMITTING" => r.attempted # "none"
    /\ r.status \in REMOTE_IN_FLIGHT_STATUSES => r.notFound = 0

\* The job reads no row that would stop a forced send, asks to resend what is
\* missing, and is told no status of ours.
JobMoves(r, l) ==
    /\ l.pc \notin {"query", "queryReply"}
    /\ l.pc = "lock" => l.snap.status \in OpenStatuses
    /\ l.pc \in {"reconcile", "ask", "answer", "miss"} => l.resendMissing
    /\ l.pc \in {"ask", "answer"} /\ l.snap.status = "SUBMITTING" => r.attempted # "none"
    /\ l.pc = "answer" => l.reply \notin OpenStatuses

Moves(r, l, a) ==
    /\ RowMoves(r)
    /\ r.status = "UNCONFIRMED" => r.retry # "none" \/ Resending(l)
    /\ JobMoves(r, l)
    /\ a \notin OpenStatuses

\* The poller only has documents the provider owned when it read them.
MovesOf(d) ==
    /\ Moves(row[d], w[d], poll.replies[d])
    /\ poll.seen[d] \in {"none"} \cup REMOTE_IN_FLIGHT_STATUSES

Moving == \A d \in Docs : MovesOf(d)

\* Statuses of ours are no answers of the provider's.
LEMMA OpenOnly ==
    /\ OpenStatuses \subseteq Status
    /\ OpenStatuses \cap (ACCEPTED_STATUSES \cup REMOTE_IN_FLIGHT_STATUSES
                             \cup BLOCKED_STATUSES) = {}
    /\ {"none", "missing", "untyped", "ambiguous", "lost", "denied", "RECIBIDO", "PROCESANDO",
        "Aceptado", "Rechazado"} \cap OpenStatuses = {}
  BY DEF OpenStatuses, Status, ACCEPTED_STATUSES, REMOTE_IN_FLIGHT_STATUSES, BLOCKED_STATUSES

\* The job has ended, or goes to ask, with its row as y.
LEMMA EndMoves ==
    ASSUME NEW y, NEW x, NEW a, x.pc = "idle" \/ (x.pc = "reconcile" /\ x.resendMissing),
           RowMoves(y), y.status = "UNCONFIRMED" => y.retry # "none", a \notin OpenStatuses
    PROVE  Moves(y, x, a)
  BY DEF Moves, JobMoves

\* The job records what it was told.
LEMMA AnswerMoves ==
    ASSUME NEW r \in Row, NEW l \in Local, NEW a, Moves(r, l, a), l.pc = "answer",
           NEW y, \/ y = record_failure(r, l.reply)
                  \/ l.reply \in Status \cup {"untyped"} /\ y = apply_remote_result(r, l.reply)
                  \/ y = record_ambiguous(r, l.snap)
    PROVE  RowMoves(y) /\ (y.status = "UNCONFIRMED" => y.retry # "none")
<1>1. /\ RowMoves(r) /\ (r.status = "UNCONFIRMED" => r.retry # "none")
      /\ l.reply \notin OpenStatuses /\ l.snap \in Row
      /\ l.snap.status = "SUBMITTING" => r.attempted # "none"
  BY DEF Moves, JobMoves, Resending, Local
<1>2. CASE y = record_failure(r, l.reply)
  <2>1. \/ y.status = "UNCONFIRMED" /\ y.retry = "later"
        \/ y.status = "ERROR"
    BY <1>2, FailureFields
  <2> QED
    BY <2>1 DEF RowMoves, REMOTE_IN_FLIGHT_STATUSES
<1>3. CASE l.reply \in Status \cup {"untyped"} /\ y = apply_remote_result(r, l.reply)
  <2>1. /\ y.status = (IF l.reply = "untyped" THEN r.status ELSE l.reply)
        /\ y.notFound = 0 /\ y.attempted = r.attempted
        /\ y.status = "UNCONFIRMED" => y.retry = r.retry
    BY <1>3, RemoteResultFields
  <2> QED
    BY <1>1, <2>1 DEF RowMoves, OpenStatuses
<1>4. CASE y = record_ambiguous(r, l.snap)
  <2>1. /\ y.status = l.snap.status /\ y.attempted = r.attempted
        /\ y.status \in REMOTE_IN_FLIGHT_STATUSES => y.notFound = 0
        /\ y.status = "UNCONFIRMED" => y.retry = "later"
    BY <1>1, <1>4, SeenStatusFields
  <2> QED
    BY <1>1, <2>1 DEF RowMoves
<1> QED
  BY <1>2, <1>3, <1>4

\* A miss gives the row a time, or is the second and the job sends it again.
LEMMA MissMoves ==
    ASSUME NEW r \in Row, NEW l \in Local, NEW y, y = record_not_found(r, l.snap)
    PROVE  /\ RowMoves(y)
           /\ ~AbsenceConfirmed(l.snap) => y.retry # "none"
<1>1. l.snap \in Row
  BY DEF Local
<1>2. y.status = "UNCONFIRMED" /\ (~AbsenceConfirmed(l.snap) => y.retry = "later")
  BY <1>1, NotFoundFields
<1> QED
  BY <1>2 DEF RowMoves, REMOTE_IN_FLIGHT_STATUSES

LEMMA PollMoves ==
    ASSUME NEW r \in Row, NEW l, NEW q \in REMOTE_IN_FLIGHT_STATUSES,
           NEW a \in Status \cup {"missing", "untyped", "ambiguous"}, Moves(r, l, a),
           r.status \in REMOTE_IN_FLIGHT_STATUSES, l.pc = "idle",
           NEW y, y = PollResult(r, q, a)
    PROVE  Moves(y, l, "none")
<1>1. ~AbsenceConfirmed(r) /\ a \notin OpenStatuses
  BY DEF Moves, RowMoves, AbsenceConfirmed
<1>2. /\ a # "missing" => y.notFound = 0
      /\ a = "missing" => y.retry = "later"
      /\ y.status = CASE a = "missing" -> "UNCONFIRMED" [] a = "ambiguous" -> q
                      [] a = "untyped" -> r.status [] OTHER -> a
  BY <1>1, PollFields
<1>3. /\ a = "missing" => y.status = "UNCONFIRMED"
      /\ a # "missing" => y.status \notin OpenStatuses
  BY <1>1, <1>2 DEF OpenStatuses, REMOTE_IN_FLIGHT_STATUSES
<1>4. RowMoves(y) /\ (y.status = "UNCONFIRMED" => y.retry # "none")
  BY <1>2, <1>3 DEF RowMoves, OpenStatuses, REMOTE_IN_FLIGHT_STATUSES
<1> QED
  BY <1>4, EndMoves, OpenOnly

LEMMA SweepMoves ==
    ASSUME NEW r \in Row, NEW l \in Local, NEW a, Moves(r, l, a)
    PROVE  Moves(IF Verdict(r) = "stale" THEN MarkStale(r) ELSE r, EnqueueFor(l, Verdict(r)), a)
<1> DEFINE x == EnqueueFor(l, Verdict(r))
           y == IF Verdict(r) = "stale" THEN MarkStale(r) ELSE r
<1>1. \/ x = l
      \/ l.pc = "idle" /\ x.pc = "send"
      \/ l.pc = "idle" /\ x.pc = "reconcile" /\ x.resendMissing
  BY DEF EnqueueFor, Enqueue, Local
<1>2. \/ y = r
      \/ y.status = "UNCONFIRMED" /\ y.retry = "due" /\ y.attempted = r.attempted
  BY MarkStaleFields
<1> HIDE DEF x, y
<1>3. RowMoves(y) /\ (y.status = "UNCONFIRMED" => y.retry # "none" \/ Resending(l))
  BY <1>2 DEF Moves, RowMoves, REMOTE_IN_FLIGHT_STATUSES
<1>4. y.attempted = r.attempted
  BY <1>2
<1>5. JobMoves(y, x)
  BY <1>1, <1>4 DEF Moves, JobMoves
<1>6. Resending(l) => x = l
  BY <1>1 DEF Resending
<1> QED
  BY <1>3, <1>5, <1>6 DEF Moves, x, y

LEMMA DeadlineMoves ==
    ASSUME NEW r, NEW l, NEW a, Moves(r, l, a),
           NEW y, y.status = r.status, y.notFound = r.notFound,
           y.retry = "none" => r.retry = "none", y.attempted = "none" => r.attempted = "none"
    PROVE  Moves(y, l, a)
  BY DEF Moves, RowMoves, JobMoves

LEMMA MovingInit ==
    ASSUME Init, Operators = {}
    PROVE  Moving
<1>1. PICK queued \in SUBSET Docs :
         w = [p \in Workers |->
                 IF p \in Docs THEN [Rest(p) EXCEPT !.pc = IF p \in queued THEN "send"
                                                           ELSE "idle"]
                               ELSE Rest(AnyDoc)]
  BY DEF Init
<1>2. \A d \in Docs : w[d].pc \in {"send", "idle"}
  BY <1>1 DEF Rest, Workers
<1>3. \A d \in Docs : /\ row[d].status = "Pending"
                    /\ poll.seen[d] = "none" /\ poll.replies[d] = "none"
  BY DEF Init, NewRow, Nothing
<1> QED
  BY <1>2, <1>3 DEF Moving, MovesOf, Moves, RowMoves, JobMoves, OpenStatuses,
                    REMOTE_IN_FLIGHT_STATUSES

\* A step of the job of p that leaves its row as y and the job as x.
LEMMA MovingJob ==
    ASSUME TypeOK, Moving, NEW p \in Docs,
           NEW y, row' = [row EXCEPT ![p] = y], NEW x, w' = [w EXCEPT ![p] = x], poll' = poll,
           Moves(y, x, poll.replies[p])
    PROVE  Moving'
<1> SUFFICES ASSUME NEW d \in Docs PROVE MovesOf(d)'
  BY DEF Moving
<1>1. row \in [Docs -> Row] /\ w \in [Workers -> Local] /\ p \in Workers /\ d \in Workers
  BY DEF TypeOK, Workers
<1>2. CASE d = p
  <2>1. row'[d] = y /\ w'[d] = x
    BY <1>1, <1>2
  <2> QED
    BY <1>2, <2>1 DEF Moving, MovesOf
<1>3. CASE d # p
  <2>1. row'[d] = row[d] /\ w'[d] = w[d]
    BY <1>1, <1>3
  <2>2. MovesOf(d)
    BY DEF Moving
  <2> QED
    BY <2>1, <2>2 DEF MovesOf
<1> QED
  BY <1>2, <1>3

\* A job that was forced to send finds no row that stops it, so it keeps the row's
\* claim to a resend until it has marked it.
LEMMA AcquireMoves ==
    ASSUME NEW p \in Docs, AcquireSend(p), w[p].doc = p, w[p] \in Local,
           row[p].status \in OpenStatuses, w[p].snap.status \in OpenStatuses
    PROVE  \E s \in Visible(p) :
              \/ ~w[p].force /\ w' = [w EXCEPT ![p] = [Rest(p) EXCEPT !.pc = "reconcile",
                                           !.held = TRUE, !.resendMissing = TRUE]]
              \/ w' = [w EXCEPT ![p].pc = "mark", ![p].held = TRUE, ![p].snap = s]
<1>1. \A s \in Visible(p) : s.status \in OpenStatuses
  BY DEF Visible
<1>2. \A s \in Visible(p) : s.status \notin ACCEPTED_STATUSES \cup REMOTE_IN_FLIGHT_STATUSES
  BY <1>1, OpenOnly
<1> QED
  BY <1>2 DEF AcquireSend

LEMMA MovingWorker ==
    ASSUME TypeOK, Automatic, Moving, Workers = Docs, "crash" \notin Faults, NEW p \in Docs,
           Step(p) \/ Crash(p) \/ ProviderUnavailable(p) \/ WaitTimesOut(p)
    PROVE  Moving'
<1> DEFINE l == w[p]
           r == row[p]
           a == poll.replies[p]
<1>0. /\ l \in Local /\ r \in Row /\ l.snap \in Row /\ l.doc = p /\ ~l.resendFailure
      /\ Rest(p).pc = "idle"
      /\ row \in [Docs -> Row] /\ w \in [Workers -> Local] /\ p \in Workers
  BY WorkerType DEF Automatic, Rest, TypeOK
<1>1. Moves(r, l, a) /\ a \notin OpenStatuses
  BY DEF Moving, MovesOf, Moves
<1>2. l.pc # "idle" => r.status \in OpenStatuses
  BY DEF Automatic, OneOwner, OpenStatuses
<1>3. /\ RowMoves(r) /\ JobMoves(r, l)
      /\ r.status = "UNCONFIRMED" => r.retry # "none" \/ Resending(l)
  BY <1>1 DEF Moves
<1>4. \* the job goes on, and its row is as it was
      ASSUME row' = row, poll' = poll, NEW x, w' = [w EXCEPT ![p] = x], JobMoves(r, x),
             Resending(l) => Resending(x)
      PROVE  Moving'
  <2>1. row' = [row EXCEPT ![p] = r]
    BY <1>0, <1>4
  <2>2. Moves(r, x, a)
    BY <1>1, <1>3, <1>4 DEF Moves
  <2> QED
    BY <1>4, <2>1, <2>2, MovingJob
<1>5. \* the job ends with its row as y
      ASSUME poll' = poll, NEW y, row' = [row EXCEPT ![p] = y], w' = [w EXCEPT ![p] = Rest(p)],
             RowMoves(y), y.status = "UNCONFIRMED" => y.retry # "none"
      PROVE  Moving'
  <2>1. Moves(y, Rest(p), a)
    BY <1>0, <1>1, <1>5, EndMoves
  <2> QED
    BY <1>5, <2>1, MovingJob
<1>6. Finish(p) => w' = [w EXCEPT ![p] = Rest(p)]
  BY <1>0 DEF Finish
<1>7. CASE EnterSend(p)
  <2> DEFINE x == [l EXCEPT !.pc = "lock", !.snap = r]
  <2>1. x.pc = "lock" /\ x.snap = r /\ x.force = l.force
    BY <1>0 DEF Local
  <2>2. w' = [w EXCEPT ![p] = x] /\ l.pc = "send" /\ row' = row /\ poll' = poll
    BY <1>0, <1>7 DEF EnterSend, tasks
  <2> HIDE DEF x
  <2>3. JobMoves(r, x) /\ (Resending(l) => Resending(x))
    BY <1>2, <2>1, <2>2 DEF JobMoves, Resending
  <2> QED
    BY <1>4, <2>2, <2>3
<1>8. CASE AcquireSend(p)
  <2>1. l.pc = "lock" /\ row' = row /\ poll' = poll
    BY <1>8 DEF AcquireSend, tasks
  <2>2. l.snap.status \in OpenStatuses /\ r.status \in OpenStatuses
    BY <1>2, <1>3, <2>1 DEF JobMoves
  <2>3. PICK s \in Visible(p) :
           \/ ~w[p].force /\ w' = [w EXCEPT ![p] = [Rest(p) EXCEPT !.pc = "reconcile",
                                        !.held = TRUE, !.resendMissing = TRUE]]
           \/ w' = [w EXCEPT ![p].pc = "mark", ![p].held = TRUE, ![p].snap = s]
    BY <1>0, <1>8, <2>2, AcquireMoves
  <2> DEFINE x == [Rest(p) EXCEPT !.pc = "reconcile", !.held = TRUE, !.resendMissing = TRUE]
             z == [l EXCEPT !.pc = "mark", !.held = TRUE, !.snap = s]
  <2>4. x.pc = "reconcile" /\ x.resendMissing /\ z.pc = "mark" /\ z.force = l.force
    BY <1>0 DEF Local, Rest
  <2>5. (~l.force /\ w' = [w EXCEPT ![p] = x]) \/ w' = [w EXCEPT ![p] = z]
    BY <1>0, <2>3
  <2> HIDE DEF x, z
  <2>6. JobMoves(r, x) /\ JobMoves(r, z) /\ (Resending(l) => Resending(z) /\ l.force)
    BY <2>4 DEF JobMoves, Resending
  <2> QED
    BY <1>4, <2>1, <2>5, <2>6
<1>9. CASE MarkSubmitting(p)
  <2> DEFINE x == [l EXCEPT !.pc = "post"]
  <2>1. PICK y : /\ row' = [row EXCEPT ![p] = y]
                 /\ y = apply_transition([r EXCEPT !.attempts = l.snap.attempts + 1,
                                                   !.attempted = "recent", !.retry = "none",
                                                   !.notFound = 0], "SUBMITTING")
    BY <1>0, <1>9 DEF MarkSubmitting, SetRow
  <2>2. y.status = "SUBMITTING" /\ y.attempted = "recent"
    <3>1. l.snap.attempts \in Nat
      BY <1>0 DEF Row
    <3> HIDE DEF l, r
    <3> QED
      BY <1>0, <2>1, <3>1, AttemptFields
  <2>3. x.pc = "post"
    BY <1>0 DEF Local
  <2>4. w' = [w EXCEPT ![p] = x] /\ poll' = poll
    BY <1>0, <1>9 DEF MarkSubmitting, Goto, tasks
  <2> HIDE DEF x
  <2>5. Moves(y, x, a)
    BY <1>1, <2>2, <2>3 DEF Moves, RowMoves, JobMoves, REMOTE_IN_FLIGHT_STATUSES
  <2> QED
    BY <2>1, <2>4, <2>5, MovingJob
<1>10. CASE Post(p)
  <2>1. PICK s : w' = [w EXCEPT ![p].pc = "reply", ![p].reply = s]
    BY <1>10 DEF Post
  <2> DEFINE x == [l EXCEPT !.pc = "reply", !.reply = s]
  <2>2. w' = [w EXCEPT ![p] = x] /\ x.pc = "reply" /\ l.pc = "post" /\ row' = row /\ poll' = poll
    BY <1>0, <1>10, <2>1 DEF Local, Post, tasks
  <2> HIDE DEF x
  <2>3. JobMoves(r, x) /\ ~Resending(l)
    BY <2>2 DEF JobMoves, Resending
  <2> QED
    BY <1>4, <2>2, <2>3
<1>11. CASE HandlePostReply(p)
  <2>1. l.reply \in {"RECIBIDO", "lost", "denied"}
    BY <1>0, <1>11 DEF HandlePostReply, TypeOK, RepliesFit
  <2>2. PICK y : /\ row' = [row EXCEPT ![p] = y]
                 /\ y = record_failure(r, l.reply) \/ y = apply_remote_result(r, "RECIBIDO")
    BY <1>0, <1>11, <2>1 DEF HandlePostReply, SetRow
  <2>3. RowMoves(y) /\ (y.status = "UNCONFIRMED" => y.retry # "none")
    <3>1. CASE y = record_failure(r, l.reply)
      <4>1. (y.status = "UNCONFIRMED" /\ y.retry = "later") \/ y.status = "ERROR"
        BY <1>0, <3>1, FailureFields
      <4> QED
        BY <4>1 DEF RowMoves, REMOTE_IN_FLIGHT_STATUSES
    <3>2. CASE y = apply_remote_result(r, "RECIBIDO")
      <4>1. "RECIBIDO" \in Status \cup {"untyped"}
        BY DEF Status, REMOTE_IN_FLIGHT_STATUSES
      <4>2. y.status = "RECIBIDO" /\ y.notFound = 0
        BY <1>0, <3>2, <4>1, RemoteResultFields
      <4> QED
        BY <4>2 DEF RowMoves
    <3> QED
      BY <2>2, <3>1, <3>2
  <2> QED
    BY <1>5, <1>6, <1>11, <2>2, <2>3 DEF HandlePostReply, tasks
<1>12. CASE BeginReconcile(p)
  <2> DEFINE x == [l EXCEPT !.pc = "ask", !.snap = r]
  <2>1. x.pc = "ask" /\ x.snap = r /\ x.resendMissing = l.resendMissing
    BY <1>0 DEF Local
  <2>2. /\ l.pc = "reconcile" /\ row' = row /\ poll' = poll
        /\ w' = [w EXCEPT ![p] = Rest(p)] \/ w' = [w EXCEPT ![p] = x]
    BY <1>0, <1>6, <1>12 DEF BeginReconcile, tasks
  <2> HIDE DEF x
  <2>3. JobMoves(r, x) /\ JobMoves(r, Rest(p)) /\ ~Resending(l)
    BY <1>0, <1>3, <2>1, <2>2 DEF JobMoves, RowMoves, Resending
  <2> QED
    BY <1>4, <2>2, <2>3
<1>13. CASE Ask(p)
  <2>1. PICK o \in QueryOutcomes(remote[p]) :
           w' = [w EXCEPT ![p].pc = "answer", ![p].reply = o.reply]
    BY <1>0, <1>13 DEF Ask
  <2>2. remote[p] \in Remote
    BY DEF TypeOK
  <2>3. o.reply \in {"missing", "untyped", "ambiguous", "lost", "denied", "PROCESANDO", "Aceptado",
                     "Rechazado"}
    BY <2>1, <2>2 DEF QueryOutcomes, View, Remote
  <2>4. o.reply \notin OpenStatuses
    BY <2>3 DEF OpenStatuses
  <2> DEFINE x == [l EXCEPT !.pc = "answer", !.reply = o.reply]
  <2>5. /\ x.pc = "answer" /\ x.reply = o.reply /\ x.snap = l.snap
        /\ x.resendMissing = l.resendMissing
    BY <1>0 DEF Local
  <2>6. w' = [w EXCEPT ![p] = x] /\ l.pc = "ask" /\ row' = row /\ poll' = poll
    BY <1>0, <1>13, <2>1 DEF Ask, tasks
  <2> HIDE DEF x
  <2>7. JobMoves(r, x) /\ ~Resending(l)
    BY <1>3, <2>4, <2>5, <2>6 DEF JobMoves, Resending
  <2> QED
    BY <1>4, <2>6, <2>7
<1>14. CASE HandleAnswer(p)
  <2>1. PICK y : /\ row' = [row EXCEPT ![p] = y]
                 /\ \/ y = record_failure(r, l.reply)
                    \/ l.reply \in Status \cup {"untyped"} /\ y = apply_remote_result(r, l.reply)
                    \/ y = record_ambiguous(r, l.snap)
    BY <1>0, <1>14 DEF HandleAnswer, SetRow
  <2>2. l.pc = "answer" /\ Finish(p) /\ poll' = poll
    BY <1>0, <1>14 DEF HandleAnswer, tasks
  <2>3. RowMoves(y) /\ (y.status = "UNCONFIRMED" => y.retry # "none")
    BY <1>0, <1>1, <2>1, <2>2, AnswerMoves
  <2> QED
    BY <1>5, <1>6, <2>1, <2>2, <2>3
<1>15. CASE HandleMissing(p)
  <2>1. l.pc = "answer" /\ poll' = poll
    BY <1>15 DEF HandleMissing, tasks
  <2>2. CASE \E s \in Visible(p) :
                row' = row /\ w' = [w EXCEPT ![p].pc = "miss", ![p].snap = s]
    <3>1. PICK s : row' = row /\ w' = [w EXCEPT ![p].pc = "miss", ![p].snap = s]
      BY <2>2
    <3> DEFINE x == [l EXCEPT !.pc = "miss", !.snap = s]
    <3>2. w' = [w EXCEPT ![p] = x] /\ x.pc = "miss" /\ x.resendMissing = l.resendMissing
      BY <1>0, <3>1 DEF Local
    <3> HIDE DEF x
    <3>3. JobMoves(r, x) /\ ~Resending(l)
      BY <1>3, <2>1, <3>2 DEF JobMoves, Resending
    <3> QED
      BY <1>4, <2>1, <3>1, <3>2, <3>3
  <2>3. CASE /\ l.snap.status \in BLOCKED_STATUSES
             /\ SetRow(p, record_blocked_not_found(r, l.snap)) /\ Finish(p)
    <3>1. PICK y : y = record_blocked_not_found(r, l.snap) /\ row' = [row EXCEPT ![p] = y]
      BY <2>3 DEF SetRow
    <3>2. y.status \in BLOCKED_STATUSES
      BY <1>0, <2>3, <3>1, SeenStatusFields
    <3>3. RowMoves(y) /\ y.status # "UNCONFIRMED"
      BY <3>2 DEF RowMoves, BLOCKED_STATUSES, REMOTE_IN_FLIGHT_STATUSES
    <3> QED
      BY <1>5, <1>6, <2>1, <2>3, <3>1, <3>3
  <2> QED
    BY <1>0, <1>15, <2>2, <2>3 DEF HandleMissing
<1>16. CASE RecordMiss(p)
  <2>1. PICK y : y = record_not_found(r, l.snap) /\ row' = [row EXCEPT ![p] = y]
    BY <1>0, <1>16 DEF RecordMiss, SetRow
  <2>2. RowMoves(y) /\ (~AbsenceConfirmed(l.snap) => y.retry # "none")
    BY <1>0, <2>1, MissMoves
  <2>3. l.pc = "miss" /\ l.resendMissing /\ poll' = poll
    BY <1>3, <1>16 DEF RecordMiss, JobMoves, tasks
  <2>4. CASE ~AbsenceConfirmed(l.snap)
    <3>1. Finish(p)
      BY <1>16, <2>4 DEF RecordMiss
    <3> QED
      BY <1>5, <1>6, <2>1, <2>2, <2>3, <2>4, <3>1
  <2>5. CASE AbsenceConfirmed(l.snap)
    <3> DEFINE x == [Rest(p) EXCEPT !.pc = "send", !.force = TRUE]
    <3>1. x.pc = "send" /\ x.force
      BY DEF Rest
    <3>2. w' = [w EXCEPT ![p] = x]
      BY <1>0, <1>16, <2>3, <2>5 DEF RecordMiss, ForceSend
    <3> HIDE DEF x
    <3>3. Moves(y, x, a)
      BY <1>1, <2>2, <3>1 DEF Moves, JobMoves, Resending
    <3> QED
      BY <2>1, <2>3, <3>2, <3>3, MovingJob
  <2> QED
    BY <2>4, <2>5
<1>17. CASE ProviderUnavailable(p)
  <2>1. row' = row /\ poll' = poll /\ w' = [w EXCEPT ![p] = Rest(p)]
    BY <1>6, <1>17 DEF ProviderUnavailable, tasks
  <2>2. JobMoves(r, Rest(p)) /\ ~Resending(l)
    BY <1>0, <1>17 DEF ProviderUnavailable, JobMoves, Resending
  <2> QED
    BY <1>4, <2>1, <2>2
<1>18. ~Crash(p)
  BY DEF Crash
<1>19. ~WaitTimesOut(p)
  BY <1>0 DEF WaitTimesOut, Holds, Automatic
<1>20. ~Query(p) /\ ~HandleQueryReply(p)
  BY <1>3 DEF Query, HandleQueryReply, JobMoves
<1> QED
  BY <1>7, <1>8, <1>9, <1>10, <1>11, <1>12, <1>13, <1>14, <1>15, <1>16, <1>17, <1>18, <1>19,
     <1>20 DEF Step

LEMMA MovingPoll ==
    ASSUME TypeOK, Automatic, Moving, Poller
    PROVE  Moving'
<1>1. /\ w' = w
      /\ \A d \in Docs : row[d] \in Row /\ remote[d] \in Remote
  BY DEF Poller, PollSelect, PollFails, PollAsk, PollApply, PollCrash, TypeOK
<1> SUFFICES ASSUME NEW d \in Docs PROVE MovesOf(d)'
  BY DEF Moving
<1>2. /\ Moves(row[d], w[d], poll.replies[d])
      /\ poll.seen[d] \in {"none"} \cup REMOTE_IN_FLIGHT_STATUSES
  BY DEF Moving, MovesOf
<1>3. Moves(row[d], w[d], "none")
  BY <1>2, OpenOnly DEF Moves
<1>4. CASE PollSelect
  <2>1. /\ row' = row /\ poll'.replies = poll.replies
        /\ poll'.seen[d] \in {"none"} \cup REMOTE_IN_FLIGHT_STATUSES
    BY <1>4 DEF PollSelect, TypeOK, db
  <2> QED
    BY <1>1, <1>2, <2>1 DEF MovesOf
<1>5. CASE PollFails \/ PollCrash
  <2>1. /\ row' = row
        /\ poll' = [pc |-> "idle", seen |-> Nothing, replies |-> Nothing]
    BY <1>5 DEF PollFails, PollCrash, db
  <2>2. poll'.replies[d] = "none" /\ poll'.seen[d] = "none"
    BY <2>1 DEF Nothing
  <2> QED
    BY <1>1, <1>3, <2>1, <2>2 DEF MovesOf
<1>6. CASE PollAsk
  <2>1. PICK replies \in PollOutcomes : poll' = [poll EXCEPT !.pc = "apply", !.replies = replies]
    BY <1>6 DEF PollAsk
  <2>2. row' = row /\ poll'.replies = replies /\ poll'.seen = poll.seen
    BY <1>6, <2>1 DEF PollAsk, TypeOK, db
  <2>3. ClearAnswers[d] \in {"none", "missing", "PROCESANDO", "Aceptado", "Rechazado"}
    BY <1>1 DEF ClearAnswers, View, Remote
  <2>4. replies[d] = ClearAnswers[d] \/ replies[d] \in {"ambiguous", "untyped"}
    <3>1. DOMAIN ClearAnswers = Docs
      BY DEF ClearAnswers
    <3>2. CASE replies = ClearAnswers
      BY <3>2
    <3>3. ASSUME NEW x \in {y \in Docs : Polled(y)}, NEW k \in Faults \cap {"ambiguous", "untyped"},
                 replies = [ClearAnswers EXCEPT ![x] = k]
          PROVE  replies[d] = ClearAnswers[d] \/ replies[d] = k
      BY <3>1, <3>3
    <3> QED
      BY <2>1, <3>2, <3>3 DEF PollOutcomes
  <2>5. replies[d] \notin OpenStatuses
    BY <2>3, <2>4, OpenOnly
  <2> QED
    BY <1>1, <1>2, <2>2, <2>5 DEF MovesOf, Moves
<1>7. CASE PollApply
  <2>1. /\ row'[d] = PollResult(row[d], poll.seen[d], poll.replies[d])
        /\ poll' = [pc |-> "idle", seen |-> Nothing, replies |-> Nothing]
    BY <1>7 DEF PollApply
  <2>2. poll'.replies[d] = "none" /\ poll'.seen[d] = "none"
    BY <2>1 DEF Nothing
  <2>3. Moves(row'[d], w[d], "none")
    <3>1. CASE poll.replies[d] = "none"
      BY <1>3, <2>1, <3>1 DEF PollResult
    <3>2. CASE poll.replies[d] # "none"
      <4>1. /\ poll.seen[d] # "none"
            /\ poll.replies[d] \in Status \cup {"missing", "untyped", "ambiguous"}
        BY <3>2 DEF TypeOK, RepliesFit
      <4>2. row[d].status \in REMOTE_IN_FLIGHT_STATUSES /\ w[d].pc = "idle"
        BY <4>1 DEF Automatic, OneOwner, REMOTE_IN_FLIGHT_STATUSES
      <4>3. poll.seen[d] \in REMOTE_IN_FLIGHT_STATUSES
        BY <1>2, <4>1
      <4> QED
        BY <1>1, <1>2, <2>1, <4>1, <4>2, <4>3, PollMoves
    <3> QED
      BY <3>1, <3>2
  <2> QED
    BY <1>1, <2>1, <2>2, <2>3 DEF MovesOf
<1> QED
  BY <1>4, <1>5, <1>6, <1>7 DEF Poller

LEMMA MovingSweep ==
    ASSUME TypeOK, Automatic, Moving, Workers = Docs, SlowSweep = FALSE, Sweep
    PROVE  Moving'
<1>1. SweepAtOnce
  <2>1. Jobs
    <3>1. Operators = {}
      BY OperatorsAssumption, Workers = Docs DEF Workers
    <3> QED
      BY <3>1 DEF Automatic, Jobs
  <2> QED
    BY <2>1, SweptAtOnce
<1>2. poll' = poll
  BY <1>1 DEF SweepAtOnce, tasks
<1>3. ASSUME NEW d \in Docs
      PROVE  MovesOf(d)'
  <2>1. /\ row[d] \in Row /\ w[d] \in Local /\ MovesOf(d)
        /\ row'[d] = IF Verdict(row[d]) = "stale" THEN MarkStale(row[d]) ELSE row[d]
        /\ w'[d] = EnqueueFor(w[d], Verdict(row[d]))
    BY <1>1 DEF SweepAtOnce, TypeOK, Moving
  <2>2. Moves(row'[d], w'[d], poll.replies[d])
    BY <2>1, SweepMoves DEF MovesOf
  <2> QED
    BY <1>2, <2>1, <2>2 DEF MovesOf
<1> QED
  BY <1>3 DEF Moving

LEMMA MovingTime ==
    ASSUME TypeOK, Moving, NEW t \in Docs, Time(t) \/ ProviderWorks(t)
    PROVE  Moving'
<1>1. w' = w /\ poll' = poll
  BY DEF Time, TwoMinutesPass, RetryFallsDue, CheckFallsDue, AttemptGoesStale, LeaseExpires,
         ProviderWorks, tasks
<1>2. ASSUME NEW d \in Docs
      PROVE  MovesOf(d)'
  <2>0. row \in [Docs -> Row] /\ row[d] \in Row /\ row[t] \in Row
    BY DEF TypeOK
  <2>1. /\ row'[d].status = row[d].status /\ row'[d].notFound = row[d].notFound
        /\ row'[d].retry = "none" => row[d].retry = "none"
        /\ row'[d].attempted = "none" => row[d].attempted = "none"
    <3>1. CASE UNCHANGED row
      BY <3>1
    <3>2. CASE TwoMinutesPass(t)
      BY <2>0, <3>2 DEF TwoMinutesPass, Row
    <3>3. CASE RetryFallsDue(t) \/ CheckFallsDue(t) \/ AttemptGoesStale(t)
      BY <2>0, <3>3 DEF RetryFallsDue, CheckFallsDue, AttemptGoesStale, Row
    <3> QED
      BY <3>1, <3>2, <3>3 DEF Time, LeaseExpires, ProviderWorks, db
  <2>2. Moves(row'[d], w[d], poll.replies[d])
    BY <2>0, <2>1, DeadlineMoves DEF Moving, MovesOf
  <2> QED
    BY <1>1, <2>2 DEF Moving, MovesOf
<1> QED
  BY <1>2 DEF Moving

LEMMA MovingNext ==
    ASSUME TypeOK, Automatic, Moving, [Next]_vars, Operators = {}, SlowSweep = FALSE,
           "crash" \notin Faults
    PROVE  Moving'
<1>1. Workers = Docs
  BY Operators = {} DEF Workers
<1>2. CASE UNCHANGED vars
  BY <1>2 DEF vars, Moving, MovesOf
<1> QED
  BY <1>1, <1>2, MovingWorker, MovingPoll, MovingSweep, MovingTime, Operators = {},
     SlowSweep = FALSE, "crash" \notin Faults DEF Next

\* When no user acts, no worker dies and the sweep works on what it read, every
\* row that is not settled has what will move it: with every other fault, expired
\* leases and workers that outlive them, stale snapshots and polls.
THEOREM NoneStranded ==
    ASSUME Operators = {}, SlowSweep = FALSE, "crash" \notin Faults
    PROVE  Spec => []NoRowIsStranded
<1>1. TypeOK /\ Automatic /\ Moving /\ [Next]_vars => (TypeOK /\ Automatic /\ Moving)'
  BY NextType, AutomaticNext, MovingNext, Operators = {}, SlowSweep = FALSE,
     "crash" \notin Faults
<1>2. Init => TypeOK /\ Automatic /\ Moving
  BY InitType, AutomaticInit, MovingInit, Operators = {}
<1>3. Automatic /\ Moving => NoRowIsStranded
  <2> SUFFICES ASSUME Automatic, Moving, NEW d \in Docs
               PROVE  /\ row[d].status = "SUBMITTING" => row[d].attempted # "none"
                      /\ row[d].status = "UNCONFIRMED" => row[d].retry # "none" \/ WillResend(d)
    BY DEF NoRowIsStranded
  <2>1. Moves(row[d], w[d], poll.replies[d]) /\ w[d].doc = d /\ d \in Workers
    BY DEF Moving, MovesOf, Automatic, Workers
  <2>2. Resending(w[d]) => WillResend(d)
    BY <2>1 DEF Resending, WillResend
  <2> QED
    BY <2>1, <2>2 DEF Moves, RowMoves
<1> QED
  BY <1>1, <1>2, <1>3, PTL DEF Spec

=============================================================================
