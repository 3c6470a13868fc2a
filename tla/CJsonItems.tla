------------------------------- MODULE CJsonItems -------------------------------
(***************************************************************************)
(* The items of src/utils/json/cJSON.c in memory: the linked lists, the    *)
(* ownership of items and names, and what is left when an allocation       *)
(* fails.  The children of an item are a list through next; prev is the    *)
(* item before, and in the first child it is the last one.                 *)
(*                                                                         *)
(* An operator takes the memory m and returns the memory it leaves.  The   *)
(* memory is the items, the number of blocks that hold strings, and room,  *)
(* how many allocations of the call will succeed.  The client adds only    *)
(* items that it holds, and edits or deletes no list that a reference of   *)
(* its own shows, as cJSON.h asks.                                         *)
(***************************************************************************)
EXTENDS Integers, Sequences, FiniteSets, Functions, TLC

CONSTANTS
    Item,       \* the addresses that an item may have
    Type,       \* the types of the items that a client creates
    Key,        \* the names a client uses
    Literal,    \* those that it gives as constants, which are not copied
    Lower(_),   \* a name as tolower leaves it
    MaxRoom,    \* the most allocations that a call makes
    MaxHeld,    \* the most trees that a client has
    MaxMixed    \* the most items that there are when some have names or are references

NULL == 0
NoName == "NULL"
Bare == [type |-> "Invalid", ref |-> FALSE, const |-> FALSE, next |-> NULL, prev |-> NULL,
         child |-> NULL, string |-> NoName, text |-> FALSE]

VARIABLES
    heap,       \* the items that are allocated
    strings,    \* how many blocks hold a name or a value
    held,       \* the roots that the client has pointers to
    ok          \* whether the last call has returned something else than NULL or false
vars == <<heap, strings, held, ok>>

Ret(value, m) == [value |-> value, m |-> m]

-------------------------------------------------------------------------------
(* Memory. *)

Unused(m) == Item \ DOMAIN m.heap

cJSON_New_Item(m) ==
    IF m.room = 0 \/ Unused(m) = {} THEN Ret(NULL, [m EXCEPT !.room = 0])
    ELSE LET a == CHOOSE a \in Unused(m) : TRUE
         IN  Ret(a, [m EXCEPT !.heap = @ @@ (a :> Bare), !.room = @ - 1])

cJSON_strdup(m) ==
    IF m.room = 0 THEN Ret(FALSE, m) ELSE Ret(TRUE, [m EXCEPT !.strings = @ + 1, !.room = @ - 1])

HasName(c) == ~c.const /\ c.string # NoName
HasText(c) == ~c.ref /\ c.text
OwnStrings(c) == (IF HasName(c) THEN 1 ELSE 0) + (IF HasText(c) THEN 1 ELSE 0)

\* The item, what it owns, and the items after it.
RECURSIVE cJSON_Delete(_, _)
cJSON_Delete(m, item) ==
    IF item = NULL THEN m
    ELSE LET c     == m.heap[item]
             below == IF c.ref THEN m ELSE cJSON_Delete(m, c.child)
         IN  cJSON_Delete([below EXCEPT !.heap = Restrict(@, DOMAIN @ \ {item}),
                                        !.strings = @ - OwnStrings(c)], c.next)

-------------------------------------------------------------------------------
(* Looking. *)

\* The children of an item, in the order of the list.
RECURSIVE ListFrom(_, _)
ListFrom(h, i) == IF i = NULL THEN <<>> ELSE <<i>> \o ListFrom(h, h[i].next)
Children(h, p) == ListFrom(h, h[p].child)

get_array_item(m, array, index) ==
    LET list == Children(m.heap, array) IN IF index < Len(list) THEN list[index + 1] ELSE NULL

\* With case, the search ends at a child that has no name.
get_object_item(m, object, name, case_sensitive) ==
    LET list  == Children(m.heap, object)
        Of(n) == m.heap[list[n]].string
        Same(n) == IF case_sensitive THEN Of(n) \in {name, NoName}
                   ELSE Of(n) # NoName /\ Lower(Of(n)) = Lower(name)
        Hits  == {n \in 1..Len(list) : Same(n) /\ \A k \in 1..n - 1 : ~Same(k)}
    IN  IF \E n \in Hits : Of(n) # NoName THEN list[CHOOSE n \in Hits : TRUE] ELSE NULL

-------------------------------------------------------------------------------
(* Adding. *)

suffix_object(m, prev, item) == [m EXCEPT !.heap[prev].next = item, !.heap[item].prev = prev]

add_item_to_array(m, array, item) ==
    LET child == m.heap[array].child
        last  == m.heap[child].prev
    IN  IF item = NULL \/ array = item THEN Ret(FALSE, m)
        ELSE IF child = NULL
          THEN Ret(TRUE, [m EXCEPT !.heap[array].child = item,
                                   !.heap[item].prev = item, !.heap[item].next = NULL])
        ELSE IF last = NULL THEN Ret(TRUE, m)
        ELSE Ret(TRUE, [suffix_object(m, last, item) EXCEPT !.heap[child].prev = item])

\* Mutant: the name that the item had is not freed.
Renamed_Leaks(m, item, string, const) ==
    [m EXCEPT !.heap[item].string = string, !.heap[item].const = const]

Renamed(m, item, string, const) ==
    [m EXCEPT !.strings = @ - (IF HasName(m.heap[item]) THEN 1 ELSE 0),
              !.heap[item].string = string, !.heap[item].const = const]

add_item_to_object(m, object, string, item, constant_key) ==
    LET key == IF constant_key THEN Ret(TRUE, m) ELSE cJSON_strdup(m)
    IN  IF item = NULL \/ object = item \/ ~key.value THEN Ret(FALSE, m)
        ELSE add_item_to_array(Renamed(key.m, item, string, constant_key), object, item)

create_reference(m, item) ==
    LET new == cJSON_New_Item(m)
    IN  IF new.value = NULL THEN new
        ELSE Ret(new.value, [new.m EXCEPT !.heap[new.value] =
                    [m.heap[item] EXCEPT !.string = NoName, !.ref = TRUE, !.next = NULL, !.prev = NULL]])

cJSON_AddItemReferenceToArray(m, array, item) ==
    LET reference == create_reference(m, item) IN add_item_to_array(reference.m, array, reference.value)

\* When the name cannot be copied, nobody has the reference any more.
cJSON_AddItemReferenceToObject(m, object, string, item) ==
    LET reference == create_reference(m, item)
        added     == add_item_to_object(reference.m, object, string, reference.value, FALSE)
    IN  IF added.value THEN added ELSE Ret(FALSE, reference.m)

-------------------------------------------------------------------------------
(* Creating. *)

\* cJSON_CreateNull, True, False, Bool, Number, Array, Object, and with a value
\* of its own String and Raw.
Create(m, type) ==
    LET new  == cJSON_New_Item(m)
        item == [new.m EXCEPT !.heap[new.value].type = type]
        text == cJSON_strdup(item)
    IN  IF new.value = NULL THEN new
        ELSE IF type # "String" THEN Ret(new.value, item)
        ELSE IF ~text.value THEN Ret(NULL, cJSON_Delete(item, new.value))
        ELSE Ret(new.value, [text.m EXCEPT !.heap[new.value].text = TRUE])

\* cJSON_CreateStringReference, ObjectReference and ArrayReference.
CreateReference(m, type, child) ==
    LET new == cJSON_New_Item(m)
    IN  IF new.value = NULL THEN new
        ELSE Ret(new.value, [new.m EXCEPT !.heap[new.value] =
                    [@ EXCEPT !.type = type, !.ref = TRUE, !.child = child, !.text = (type = "String")]])

\* cJSON_CreateIntArray, FloatArray and DoubleArray, of numbers, and StringArray.
CreateArrayOf(m, type, count) ==
    LET array == Create(m, "Array")
        a     == array.value
        \* the memory and the last item after i of them
        Loop[i \in 0..count] ==
            LET before == Loop[i - 1]
                n      == Create(before.m, type)
            IN  IF i = 0 THEN array
                ELSE IF before.value = NULL THEN before
                ELSE IF n.value = NULL THEN Ret(NULL, cJSON_Delete(n.m, a))
                ELSE IF i = 1 THEN Ret(n.value, [n.m EXCEPT !.heap[a].child = n.value])
                ELSE Ret(n.value, suffix_object(n.m, before.value, n.value))
        done  == Loop[count]
    IN  IF done.value = NULL THEN done
        ELSE IF count = 0 THEN Ret(a, done.m)
        ELSE Ret(a, [done.m EXCEPT !.heap[done.m.heap[a].child].prev = done.value])

\* cJSON_AddNullToObject, True, False, Bool, Number, String, Raw, Object, Array.
AddToObject(m, object, name, type) ==
    LET new   == Create(m, type)
        added == add_item_to_object(new.m, object, name, new.value, FALSE)
    IN  IF added.value THEN added ELSE Ret(FALSE, cJSON_Delete(new.m, new.value))

RECURSIVE cJSON_Duplicate(_, _, _)
\* The copies of child and of what follows it, after the copy last.
RECURSIVE DuplicateAll(_, _, _, _)
DuplicateAll(m, newitem, last, child) ==
    LET new == cJSON_Duplicate(m, child, TRUE)
        h   == m.heap[newitem].child
    IN  IF child = NULL
          THEN Ret(newitem, IF h = NULL THEN m ELSE [m EXCEPT !.heap[h].prev = last])
        ELSE IF new.value = NULL THEN Ret(NULL, cJSON_Delete(new.m, newitem))
        ELSE DuplicateAll(IF last # NULL THEN suffix_object(new.m, last, new.value)
                          ELSE [new.m EXCEPT !.heap[newitem].child = new.value],
                          newitem, new.value, m.heap[child].next)

cJSON_Duplicate(m, item, recurse) ==
    LET c    == m.heap[item]
        new  == cJSON_New_Item(m)
        n    == new.value
        bare == [new.m EXCEPT !.heap[n] = [@ EXCEPT !.type = c.type, !.const = c.const]]
        text == IF c.text THEN cJSON_strdup(bare) ELSE Ret(TRUE, bare)
        told == [text.m EXCEPT !.heap[n].text = c.text]
        name == IF HasName(c) THEN cJSON_strdup(told) ELSE Ret(TRUE, told)
        full == [name.m EXCEPT !.heap[n].string = c.string]
    IN  IF n = NULL THEN new
        ELSE IF ~text.value THEN Ret(NULL, cJSON_Delete(bare, n))
        ELSE IF ~name.value THEN Ret(NULL, cJSON_Delete(told, n))
        ELSE IF recurse THEN DuplicateAll(full, n, NULL, c.child) ELSE Ret(n, full)

-------------------------------------------------------------------------------
(* Taking out and replacing. *)

\* Mutant: the last child is taken out, and the first still points to it.
cJSON_DetachItemViaPointer_LastKept(m, parent, item) ==
    LET i      == m.heap[item]
        first  == m.heap[parent].child
        before == IF item = first THEN m ELSE [m EXCEPT !.heap[i.prev].next = i.next]
        after  == IF i.next = NULL THEN before ELSE [before EXCEPT !.heap[i.next].prev = i.prev]
        owner  == IF item = first THEN [after EXCEPT !.heap[parent].child = i.next] ELSE after
    IN  IF item = NULL THEN Ret(NULL, m)
        ELSE Ret(item, [owner EXCEPT !.heap[item].prev = NULL, !.heap[item].next = NULL])

cJSON_DetachItemViaPointer(m, parent, item) ==
    LET i      == m.heap[item]
        first  == m.heap[parent].child
        before == IF item = first THEN m ELSE [m EXCEPT !.heap[i.prev].next = i.next]
        after  == IF i.next = NULL THEN before ELSE [before EXCEPT !.heap[i.next].prev = i.prev]
        owner  == IF item = first THEN [after EXCEPT !.heap[parent].child = i.next]
                  ELSE IF i.next = NULL THEN [after EXCEPT !.heap[first].prev = i.prev]
                  ELSE after
    IN  IF item = NULL THEN Ret(NULL, m)
        ELSE Ret(item, [owner EXCEPT !.heap[item].prev = NULL, !.heap[item].next = NULL])

cJSON_InsertItemInArray(m, array, which, newitem) ==
    LET after == get_array_item(m, array, which)
        prev  == m.heap[after].prev
        put   == [m EXCEPT !.heap[newitem].next = after, !.heap[newitem].prev = prev,
                           !.heap[after].prev = newitem]
    IN  IF after = NULL THEN add_item_to_array(m, array, newitem)
        ELSE IF after = m.heap[array].child THEN Ret(TRUE, [put EXCEPT !.heap[array].child = newitem])
        ELSE Ret(TRUE, [put EXCEPT !.heap[prev].next = newitem])

cJSON_ReplaceItemViaPointer(m, parent, item, replacement) ==
    LET i     == m.heap[item]
        first == m.heap[parent].child
        put   == [m EXCEPT !.heap[replacement].next = i.next, !.heap[replacement].prev = i.prev]
        after == IF i.next = NULL THEN put ELSE [put EXCEPT !.heap[i.next].prev = replacement]
        alone == IF after.heap[first].prev = first
                   THEN [after EXCEPT !.heap[replacement].prev = replacement] ELSE after
        inner == IF i.prev = NULL THEN after ELSE [after EXCEPT !.heap[i.prev].next = replacement]
        owner == IF item = first THEN [alone EXCEPT !.heap[parent].child = replacement]
                 ELSE IF i.next = NULL THEN [inner EXCEPT !.heap[first].prev = replacement]
                 ELSE inner
    IN  IF item = NULL THEN Ret(FALSE, m)
        ELSE Ret(TRUE, cJSON_Delete([owner EXCEPT !.heap[item].next = NULL, !.heap[item].prev = NULL], item))

\* The replacement is given the name first, or none when it cannot be copied.
replace_item_in_object(m, object, string, replacement, case_sensitive) ==
    LET key  == cJSON_strdup(m)
        name == Renamed(key.m, replacement, IF key.value THEN string ELSE NoName, FALSE)
    IN  cJSON_ReplaceItemViaPointer(name, object, get_object_item(name, object, string, case_sensitive),
                                    replacement)

-------------------------------------------------------------------------------
(* The client. *)

\* The items below i, itself included: those it owns, and those it shows.
RECURSIVE Owned(_, _)
Owned(h, i) ==
    IF i = NULL THEN {}
    ELSE {i} \cup (IF h[i].ref THEN {} ELSE UNION {Owned(h, c) : c \in Range(Children(h, i))})
RECURSIVE Shown(_, _)
Shown(h, i) == {i} \cup UNION {Shown(h, c) : c \in Range(Children(h, i))}

Reached == UNION {Owned(heap, i) : i \in held}
Containers == {i \in Reached : heap[i].type \in {"Array", "Object"}}
Shows(r, i) == heap[r].ref /\ heap[r].child = i /\ i # NULL

\* The lists that the client may change, and the items it may delete.
Editable(p) == ~heap[p].ref /\ \A r \in Reached : ~Shows(r, heap[p].child)
Deletable(i) == \A c \in Owned(heap, i), r \in Reached \ Owned(heap, i) : ~Shows(r, c)

Memory(room) == [heap |-> heap, strings |-> strings, room |-> room]
Plain(h) == \A i \in DOMAIN h : h[i].string = NoName /\ ~h[i].ref
Left(m, success, roots) ==
    /\ Cardinality(DOMAIN m.heap) <= MaxMixed \/ Plain(m.heap)
    /\ heap' = m.heap /\ strings' = m.strings /\ ok' = success /\ held' = roots

Init == heap = <<>> /\ strings = 0 /\ held = {} /\ ok = TRUE

\* The call has made a new root, or has failed.
NewRoot(r) ==
    /\ r.value # NULL => Cardinality(held) < MaxHeld
    /\ Left(r.m, r.value # NULL, held \cup ({r.value} \ {NULL}))
\* The call has taken the root i.
Taken(r, i) == Left(r.m, r.value, IF r.value THEN held \ {i} ELSE held)

CreateItem == \E room \in 0..2, type \in Type : NewRoot(Create(Memory(room), type))

CreateAnyReference == \E room \in 0..1 :
    \/ NewRoot(CreateReference(Memory(room), "String", NULL))
    \/ \E p \in Containers : NewRoot(CreateReference(Memory(room), heap[p].type, heap[p].child))

CreateFilledArray == \E room \in 0..MaxRoom, type \in Type \cap {"Number", "String"}, count \in 0..2 :
    NewRoot(CreateArrayOf(Memory(room), type, count))

Duplicate == \E room \in 0..MaxRoom, i \in Reached, recurse \in BOOLEAN :
    NewRoot(cJSON_Duplicate(Memory(room), i, recurse))

\* An item may be added below p: the client holds it, and p is not below it.
Free(i, p) == i \in held /\ p \notin Shown(heap, i) \ {i}

AddItem == \E p \in Containers : Editable(p) /\ \E i \in held : Free(i, p) /\
    IF heap[p].type = "Array" THEN Taken(add_item_to_array(Memory(0), p, i), i)
    ELSE \E name \in Key, const \in BOOLEAN, room \in 0..1 :
            (const => name \in Literal) /\ Taken(add_item_to_object(Memory(room), p, name, i, const), i)

\* At most one reference is lost at a time.
AddReference == DOMAIN heap = Reached /\ \E p \in Containers : Editable(p) /\ \E i \in Reached : p \notin Shown(heap, i) /\
    \E room \in 0..2 :
        IF heap[p].type = "Array" THEN Taken(cJSON_AddItemReferenceToArray(Memory(room), p, i), NULL)
        ELSE \E name \in Key : Taken(cJSON_AddItemReferenceToObject(Memory(room), p, name, i), NULL)

AddNewToObject == \E p \in Containers : Editable(p) /\ heap[p].type = "Object" /\
    \E room \in 0..3, name \in Key, type \in Type :
        Taken(AddToObject(Memory(room), p, name, type), NULL)

\* How the client tells the child: by its place in an array, by its name in an
\* object, and then NULL where there is none.
Found(p) ==
    IF heap[p].type = "Array" THEN {get_array_item(Memory(0), p, n) : n \in 0..Cardinality(Item)}
    ELSE {get_object_item(Memory(0), p, name, exact) : name \in Key, exact \in BOOLEAN}

DetachItem == \E p \in Containers : Editable(p) /\ \E i \in Found(p) :
    NewRoot(cJSON_DetachItemViaPointer(Memory(0), p, i))

DeleteItem == \E p \in Containers : Editable(p) /\ \E i \in Found(p) :
    /\ Deletable(i)
    /\ LET r == cJSON_DetachItemViaPointer(Memory(0), p, i)
       IN  Left(cJSON_Delete(r.m, r.value), r.value # NULL, held)

InsertItem == \E p \in Containers : Editable(p) /\ heap[p].type = "Array" /\
    \E i \in held \ {p}, which \in 0..Cardinality(Item) :
        Free(i, p) /\ Taken(cJSON_InsertItemInArray(Memory(0), p, which, i), i)

ReplaceItem == \E p \in Containers : Editable(p) /\ \E i \in held \ {p} : Free(i, p) /\
    IF heap[p].type = "Array"
      THEN \E c \in Found(p) : Deletable(c) /\
            Taken(cJSON_ReplaceItemViaPointer(Memory(0), p, c, i), i)
      ELSE \E name \in Key, exact \in BOOLEAN, room \in 0..1 :
            /\ Deletable(get_object_item(Memory(0), p, name, exact))
            /\ Taken(replace_item_in_object(Memory(room), p, name, i, exact), i)

DeleteRoot == \E i \in held : Deletable(i) /\ Left(cJSON_Delete(Memory(0), i), TRUE, held \ {i})

Next ==
    \/ CreateItem \/ CreateAnyReference \/ CreateFilledArray \/ Duplicate
    \/ AddItem \/ AddReference \/ AddNewToObject \/ InsertItem
    \/ DetachItem \/ DeleteItem \/ ReplaceItem \/ DeleteRoot

Spec == Init /\ [][Next]_vars

-------------------------------------------------------------------------------
(* Properties. *)

Tree == INSTANCE JsonTree WITH kids <- [i \in Reached |-> Children(heap, i)], ok <- ok

\* The linked lists are the sequences of children that the header promises: every
\* call changes one of them at one place, one that fails changes none, and a list
\* is whole for the next call, the one that finds its end through the first child.
ImplementsTree == Tree!Spec

\* The children of an object have names, by which they are found.  This does not
\* hold: cJSON_ReplaceItemInObject puts in a replacement whose name could not be
\* copied, and from then on a search with case does not get past it.
ObjectsAreNamed ==
    \A p \in Reached : heap[p].type = "Object" =>
        \A c \in Range(Children(heap, p)) : heap[c].string # NoName

\* Nothing that is allocated is lost, and nothing is freed that is still there,
\* whatever allocation fails: what the client cannot reach is the reference that
\* cJSON_AddItemReferenceToObject has made and could not name.
NothingIsLost ==
    /\ Reached \subseteq DOMAIN heap
    /\ \A i \in DOMAIN heap \ Reached : heap[i].ref /\ heap[i].string = NoName
    /\ strings = Cardinality({i \in DOMAIN heap : HasName(heap[i])})
               + Cardinality({i \in DOMAIN heap : HasText(heap[i])})
===============================================================================
