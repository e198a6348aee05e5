--------------------------- MODULE ContainerLists ---------------------------
(***************************************************************************)
(* GNUnet's doubly linked lists (GNUNET_CONTAINER_DLL_insert and _remove), *)
(* a library the backend uses.  A list is a head, a tail and the next and  *)
(* prev fields of its possible elements; Nil is the null pointer.          *)
(***************************************************************************)
EXTENDS Integers, FiniteSets

Nil == "nil"

EmptyList(S) ==
    [head |-> Nil, tail |-> Nil, next |-> [e \in S |-> Nil], prev |-> [e \in S |-> Nil]]

\* GNUNET_CONTAINER_DLL_insert (head, tail, e): e becomes the first element.
Inserted(l, e) ==
    [head |-> e,
     tail |-> IF l.tail = Nil THEN e ELSE l.tail,
     next |-> [l.next EXCEPT ![e] = l.head],
     prev |-> IF l.tail = Nil THEN [l.prev EXCEPT ![e] = Nil]
              ELSE [l.prev EXCEPT ![e] = Nil, ![l.head] = e]]

\* The same list read from its other end: what a macro does that is called
\* with head and tail exchanged.
Exchanged(l) == [l EXCEPT !.head = l.tail, !.tail = l.head]

\* The assertions of GNUNET_CONTAINER_DLL_remove ...
Removable(l, e) ==
    /\ l.prev[e] # Nil \/ l.head = e
    /\ l.next[e] # Nil \/ l.tail = e

\* ... and what it does.
Removed(l, e) ==
    LET n == l.next[e]
        p == l.prev[e]
    IN  [head |-> IF p = Nil THEN n ELSE l.head,
         tail |-> IF n = Nil THEN p ELSE l.tail,
         next |-> [x \in DOMAIN l.next |->
                     IF x = e THEN Nil ELSE IF x = p THEN n ELSE l.next[x]],
         prev |-> [x \in DOMAIN l.prev |->
                     IF x = e THEN Nil ELSE IF x = n THEN p ELSE l.prev[x]]]

\* R has the first element, and with an element its successor.
Closed(l, R) == l.head \in R \cup {Nil} /\ \A e \in R : l.next[e] \in R \cup {Nil}

\* The elements that are reached from head by following next: the least closed set.
Reached(l) ==
    {e \in DOMAIN l.next : \A R \in SUBSET DOMAIN l.next : Closed(l, R) => e \in R}

\* The list is a proper list of exactly the elements of S.
IsListOf(l, S) ==
    /\ Reached(l) = S
    /\ \A e \in DOMAIN l.next \ S : l.next[e] = Nil /\ l.prev[e] = Nil
    /\ \A e \in S : /\ l.prev[e] = Nil <=> l.head = e
                    /\ l.next[e] = Nil <=> l.tail = e
                    /\ l.next[e] # Nil => l.prev[l.next[e]] = e
    /\ IF S = {} THEN l.tail = Nil ELSE l.tail \in S
=============================================================================
