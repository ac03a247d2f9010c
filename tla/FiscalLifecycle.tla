--------------------------- MODULE FiscalLifecycle ---------------------------
(****************************************************************************)
(* What the delivery of issued documents promises, without how: the place   *)
(* of every document in the company's books, next to what the provider has  *)
(* of it.  EcfDelivery implements it.                                       *)
(****************************************************************************)

CONSTANT Docs

VARIABLE doc    \* [Docs -> [here, there]]

\* here: being delivered, accepted for good, or handed to a person.
\* there: what the provider has, and what came of it.
Document == [here : {"open", "accepted", "blocked"},
             there : {"nothing", "request", "acceptance", "rejection"}]

Init == doc = [d \in Docs |-> [here |-> "open", there |-> "nothing"]]

Moves(d, heres, theres, new) ==
    /\ doc[d].here \in heres
    /\ doc[d].there \in theres
    /\ doc'[d] = new

\* A document is sent while it is open, and again only if nothing came of it.
Send(d) == Moves(d, {"open"}, {"nothing", "rejection"}, [doc[d] EXCEPT !.there = "request"])

\* The provider decides, whatever became of the document here.
Decide(d) ==
    \E verdict \in {"acceptance", "rejection"} :
        Moves(d, {"open", "accepted", "blocked"}, {"request"},
              [doc[d] EXCEPT !.there = verdict])

\* Nothing is accepted here that was not accepted there.
Accept(d) == Moves(d, {"open"}, {"acceptance"}, [doc[d] EXCEPT !.here = "accepted"])

\* A rejection or an error of ours: a person has to act.
Block(d) == Moves(d, {"open"}, {"nothing", "request", "acceptance", "rejection"},
                  [doc[d] EXCEPT !.here = "blocked"])

\* Documents move on their own, and several of them at once.
Next ==
    /\ doc' \in [Docs -> Document]
    /\ \A d \in Docs : Send(d) \/ Decide(d) \/ Accept(d) \/ Block(d) \/ doc'[d] = doc[d]

Spec == Init /\ [][Next]_doc

\* The provider decides about what it has, and no document stays open.
Fairness ==
    \A d \in Docs : /\ WF_doc(Next /\ Decide(d))
                    /\ WF_doc(Next /\ (Accept(d) \/ Block(d)))

FairSpec == Spec /\ Fairness

=============================================================================
