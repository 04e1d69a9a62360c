--------------------------------- MODULE List ---------------------------------
(***************************************************************************)
(* The sorted lists of the kernel (threads/list.cc): elements linked by    *)
(* pointers.  A list is a record of the fields of List and of the elements *)
(* that exist; its size counts Append and Remove, which sorted lists do    *)
(* not use.                                                                *)
(***************************************************************************)
EXTENDS Integers, FiniteSetsExt, SequencesExt

CONSTANTS
    Elements,       \* the addresses a ListElement can have
    NULL

ASSUME ListAssumption ==
    Elements \subseteq Nat /\ IsFiniteSet(Elements) /\ NULL \notin Elements

\* the result of a Remove from an empty list
Nothing == [item |-> NULL, key |-> 0]

EmptyList == [first |-> NULL, last |-> NULL,
              next |-> [e \in {} |-> NULL], content |-> [e \in {} |-> Nothing]]

IsEmptyList(l) == l.first = NULL

\* the elements, from first along next
Chain(l) ==
    LET at[i \in 1 .. Cardinality(Elements)] ==
            IF i = 1 THEN l.first
            ELSE IF at[i - 1] = NULL THEN NULL ELSE l.next[at[i - 1]]
    IN  [i \in 1 .. Cardinality({k \in DOMAIN at : at[k] # NULL}) |-> at[i]]

-----------------------------------------------------------------------------

\* new ListElement
Fresh(l) == Min(Elements \ DOMAIN l.next)

With(f, e, value) == [x \in DOMAIN f \cup {e} |-> IF x = e THEN value ELSE f[x]]

WithElement(l, item, key) ==
    [l EXCEPT !.next = With(@, Fresh(l), NULL),
              !.content = With(@, Fresh(l), [item |-> item, key |-> key])]

\* the element is the only one, is put after the last, or before the first
Only(l, e) == [l EXCEPT !.first = e, !.last = e]
AfterLast(l, e) == [l EXCEPT !.next[l.last] = e, !.last = e]
BeforeFirst(l, e) == [l EXCEPT !.next[e] = l.first, !.first = e]

SortedInsertAtEnds(l, item, key) ==     \* bug: the loop over the list is left out
    LET e == Fresh(l)
        n == WithElement(l, item, key)
    IN  CASE IsEmptyList(l) -> Only(n, e)
          [] ~ IsEmptyList(l) /\ key < l.content[l.first].key -> BeforeFirst(n, e)
          [] OTHER -> AfterLast(n, e)

\* List::SortedInsert: in front of the first element whose key is greater
SortedInsert(l, item, key) ==
    LET e == Fresh(l)
        n == WithElement(l, item, key)
        chain == Chain(l)
        greater == {i \in DOMAIN chain : key < l.content[chain[i]].key}
    IN  CASE IsEmptyList(l) -> Only(n, e)
          [] 1 \in greater -> BeforeFirst(n, e)
          [] greater # {} /\ 1 \notin greater ->
                LET ptr == chain[Min(greater) - 1] IN
                [n EXCEPT !.next[e] = l.next[ptr], !.next[ptr] = e]
          [] greater = {} /\ ~ IsEmptyList(l) -> AfterLast(n, e)

\* List::SortedRemove: what it returns, and the list it leaves
SortedFirst(l) == IF IsEmptyList(l) THEN Nothing ELSE l.content[l.first]

SortedRemove(l) ==
    IF IsEmptyList(l) THEN l
    ELSE [l EXCEPT !.first = IF @ = l.last THEN NULL ELSE l.next[@],
                   !.last = IF l.first = @ THEN NULL ELSE @,
                   !.next = [e \in DOMAIN @ \ {l.first} |-> @[e]],
                   !.content = [e \in DOMAIN @ \ {l.first} |-> @[e]]]

-----------------------------------------------------------------------------
(* What the pointers lead to.                                              *)

\* the items and their keys, in order
Contents(l) == LET chain == Chain(l) IN [i \in DOMAIN chain |-> l.content[chain[i]]]

Items(l) == LET chain == Chain(l) IN [i \in DOMAIN chain |-> l.content[chain[i]].item]

\* every element is on the chain once, and last is its end
WellLinked(l) ==
    LET chain == Chain(l) IN
    /\ ToSet(chain) = DOMAIN l.next
    /\ IsInjective(chain)
    /\ l.last = IF chain = <<>> THEN NULL ELSE chain[Len(chain)]
=============================================================================
