--------------------------- MODULE FiscalNumbering ---------------------------
(****************************************************************************)
(* What the allocation of fiscal numbers promises, without how: a range     *)
(* that DGII authorized is a book whose pages are numbered; its numbers are *)
(* used in their order, each by one document, and the document keeps it.    *)
(* EcfAllocation implements it.                                             *)
(****************************************************************************)
EXTENDS Naturals, Sequences

CONSTANTS Offers, Invoices

VARIABLE book   \* [Offers -> Seq(Document)]: page n bears number from + n - 1

Document == [inv : Invoices, verdict : {"owed", "accepted", "failed"}]

Init == book = [o \in Offers |-> <<>>]

\* The next page is taken, unless the book is full.
Issue(o, i) ==
    /\ o.from + Len(book[o]) <= o.to
    /\ book' = [book EXCEPT ![o] = Append(@, [inv |-> i, verdict |-> "owed"])]

\* A document fails, is sent again under its number, is accepted for good.
Settle(o, n) ==
    /\ book[o][n].verdict # "accepted"
    /\ \E v \in {"accepted", "failed"} : book' = [book EXCEPT ![o][n].verdict = v]

Next ==
    \E o \in Offers : \/ \E i \in Invoices : Issue(o, i)
                      \/ \E n \in 1..Len(book[o]) : Settle(o, n)

Spec == Init /\ [][Next]_book

=============================================================================
