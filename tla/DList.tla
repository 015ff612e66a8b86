------------------------------- MODULE DList -------------------------------
(***************************************************************************)
(* The intrusive circular doubly linked lists of kernel/list.c, as pure    *)
(* operators.  A heap of list_heads is a pair of functions nx and pv (the  *)
(* fields next and prev); every C function becomes two operators that      *)
(* return the new nx and the new pv.  The fields never alias each other,   *)
(* so the order of the C assignments matters only within one field, and    *)
(* there EXCEPT applies its updates from left to right as the code does.   *)
(***************************************************************************)

\* list_init, INIT_LIST_HEAD: the node points to itself in both directions
\* (f is nx in one use and pv in the other).
ListInit(f, node) == [f EXCEPT ![node] = node]

\* __list_del(prev, next), called by list_del with the links of the entry.
\* The entry keeps its own links.
DelNext(nx, pv, entry) == [nx EXCEPT ![pv[entry]] = nx[entry]]
DelPrev(nx, pv, entry) == [pv EXCEPT ![nx[entry]] = pv[entry]]

\* __list_add(new, prev, next)
LinkNext(nx, new, p, n) == [nx EXCEPT ![new] = n, ![p] = new]
LinkPrev(pv, new, p, n) == [pv EXCEPT ![n] = new, ![new] = p]

\* list_add: new comes right after head.
AddNext(nx, pv, new, head) == LinkNext(nx, new, head, nx[head])
AddPrev(nx, pv, new, head) == LinkPrev(pv, new, head, nx[head])

\* list_add_tail: new comes right before head.
AddTailNext(nx, pv, new, head) == LinkNext(nx, new, pv[head], head)
AddTailPrev(nx, pv, new, head) == LinkPrev(pv, new, pv[head], head)

\* list_empty
ListEmpty(nx, head) == nx[head] = head

\* list_remove_chain: the chain ch..ct leaves its list, its inner links and
\* its two outer links stay as they are.
RemoveChainNext(nx, pv, ch, ct) == [nx EXCEPT ![pv[ch]] = nx[ct]]
RemoveChainPrev(nx, pv, ch, ct) == [pv EXCEPT ![nx[ct]] = pv[ch]]

\* list_add_chain: the chain ch..ct comes right after head.
AddChainNext(nx, pv, ch, ct, head) ==
    [nx EXCEPT ![ct] = nx[head], ![head] = ch]
AddChainPrev(nx, pv, ch, ct, head) ==
    [pv EXCEPT ![ch] = head, ![nx[head]] = ct]

\* list_add_chain_tail: the chain ch..ct comes right before head.
AddChainTailNext(nx, pv, ch, ct, head) ==
    [nx EXCEPT ![pv[head]] = ch, ![ct] = head]
AddChainTailPrev(nx, pv, ch, ct, head) ==
    [pv EXCEPT ![ch] = pv[head], ![head] = ct]

-----------------------------------------------------------------------------
(* What the kernel wants of a list: the nodes of R, and only they, are the *)
(* nodes of one circular list.                                             *)

\* The links of R stay in R and are inverse of each other.
WellLinked(nx, pv, R) ==
    \A r \in R : /\ nx[r] \in R /\ pv[nx[r]] = r
                 /\ pv[r] \in R /\ nx[pv[r]] = r

\* R is a single circle: no proper part of R is closed under next, so that
\* a walk along next from any node of R meets every node of R.
OneCircle(nx, R) ==
    \A S \in SUBSET R : (S # {} /\ \A s \in S : nx[s] \in S) => S = R

IsRing(nx, pv, R) == WellLinked(nx, pv, R) /\ OneCircle(nx, R)
=============================================================================
