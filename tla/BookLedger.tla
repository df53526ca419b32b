----------------------------- MODULE BookLedger -----------------------------
(***************************************************************************)
(* What the tables of books and their authors promise to a reader, with    *)
(* every request atomic: a book is created with all it has, then changed   *)
(* as a whole, and deleted for good; a commit touches one book.            *)
(***************************************************************************)

CONSTANTS Book,
          Content,            \* what a stored book has
          Unborn, Deleted     \* no row yet, no row any more

VARIABLE catalogue            \* the content of each book, or that it has none

Init == catalogue = [b \in Book |-> Unborn]

Create(b, c) == catalogue[b] = Unborn /\ catalogue' = [catalogue EXCEPT ![b] = c]

Update(b, c) == catalogue[b] \in Content /\ catalogue' = [catalogue EXCEPT ![b] = c]

Delete(b) == catalogue[b] \in Content /\ catalogue' = [catalogue EXCEPT ![b] = Deleted]

Next ==
    \E b \in Book :
        \/ \E c \in Content : Create(b, c) \/ Update(b, c)
        \/ Delete(b)

Spec == Init /\ [][Next]_catalogue

=============================================================================
