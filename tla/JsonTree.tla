-------------------------------- MODULE JsonTree --------------------------------
(***************************************************************************)
(* What src/utils/json/cJSON.h promises of a tree of items: an array or an *)
(* object has a sequence of children, an operation changes one of them at  *)
(* one place, and an operation that fails changes none.                    *)
(***************************************************************************)
EXTENDS Sequences, SequencesExt

VARIABLES
    kids,   \* the children of each item that the program can reach
    ok      \* what the last operation has returned
vars == <<kids, ok>>

Init == kids = <<>> /\ ok = TRUE

Known == DOMAIN kids
IsRoot(i) == i \in Known /\ \A p \in Known : ~Contains(kids[p], i)

\* The other items keep their children; those of the set Gone have gone.
Change(list, Gone) ==
    /\ ok' = TRUE
    /\ kids' = [p \in Known \ Gone |-> IF p \in DOMAIN list THEN list[p] ELSE kids[p]]
One(p, list) == [q \in {p} |-> list]

\* A new tree, beside the others.
Create ==
    /\ ok' = TRUE
    /\ Known # DOMAIN kids'
    /\ \A p \in Known : p \in DOMAIN kids' /\ kids'[p] = kids[p]

Append_(p, i) == IsRoot(i) /\ Change(One(p, Append(kids[p], i)), {})

\* A child that is made for it.
AppendNew(p) ==
    /\ ok' = TRUE
    /\ \E new \in DOMAIN kids' \ Known :
        /\ DOMAIN kids' = Known \cup {new}
        /\ \A q \in Known : kids'[q] = IF q = p THEN Append(kids[p], new) ELSE kids[q]

Insert(p, n, i) == IsRoot(i) /\ Change(One(p, InsertAt(kids[p], n, i)), {})

Detach(p, n) == Change(One(p, RemoveAt(kids[p], n)), {})

\* The items that go are those that the new tree does not know, and no other item
\* has one of them.
Gone == Known \ DOMAIN kids'
Deleted(i) ==
    /\ i \in Gone
    /\ \A q \in DOMAIN kids' : \A c \in Gone : ~Contains(kids'[q], c)

Delete(p, n) == Deleted(kids[p][n]) /\ p \notin Gone /\ Change(One(p, RemoveAt(kids[p], n)), Gone)

Replace(p, n, i) ==
    /\ IsRoot(i) /\ {p, i} \cap Gone = {}
    /\ Deleted(kids[p][n])
    /\ Change(One(p, ReplaceAt(kids[p], n, i)), Gone)

DeleteRoot(i) == IsRoot(i) /\ Deleted(i) /\ Change(<<>>, Gone)

Fail == ok' = FALSE /\ UNCHANGED kids

Next ==
    \/ Fail \/ Create
    \/ \E i \in Known : DeleteRoot(i)
    \/ \E p \in Known : AppendNew(p) \/ \E i \in Known : Append_(p, i)
    \/ \E p \in Known : \E n \in 1..Len(kids[p]) :
        Detach(p, n) \/ Delete(p, n) \/ \E i \in Known : Insert(p, n, i) \/ Replace(p, n, i)

Spec == Init /\ [][Next]_vars
===============================================================================
