----------------------------- MODULE KmemLayout -----------------------------
(***************************************************************************)
(* How mm/mem.c lays out a cache: find_right_order looks for the order of  *)
(* the blocks, kmem_cache_line_object strings the objects of one block     *)
(* together, a loop turn at a time.  Sizes and offsets are in bytes.       *)
(***************************************************************************)
EXTENDS Integers

CONSTANTS PageSize,    \* PAGE_SIZE
          Waste,       \* KMEM_CACHE_MAX_WAST
          MaxOrder,    \* KMEM_CACHE_MAX_ORDER
          Sizes        \* the object sizes a cache is made for

ASSUME LayoutAssumption ==
    /\ PageSize \in Nat \ {0}
    /\ Waste \in Nat
    /\ MaxOrder \in Nat
    /\ Sizes \subseteq Nat \ {0}
    /\ \A o \in 0 .. MaxOrder + 1 : 2^o \in Nat \ {0}

VARIABLES size,    \* the size asked for
          order,   \* the order found or tried
          at,      \* where the code is: "find", "line", "done", "none" (-1)
          i, s,    \* the locals of kmem_cache_line_object
          pl       \* the offset of the word a turn writes to

vars == <<size, order, at, i, s, pl>>

Total(o) == PageSize * 2^o

Init ==
    /\ size \in Sizes
    /\ order = 0
    /\ at = "find"
    /\ i = 0 /\ s = 0 /\ pl = 0

\* Slip: the order tried stays the same.
FindTurnStays ==
    /\ at = "find"
    /\ order <= MaxOrder
    /\ IF size <= Waste * 2^order
       THEN at' = "line" /\ s' = Total(order)
       ELSE UNCHANGED <<at, s>>
    /\ UNCHANGED <<size, order, i, pl>>

\* One turn of the loop of find_right_order, mem.c:237-241
FindTurn ==
    /\ at = "find"
    /\ order <= MaxOrder
    /\ IF size <= Waste * 2^order
       THEN /\ at' = "line"
            /\ s' = Total(order)
            /\ UNCHANGED order
       ELSE order' = order + 1 /\ UNCHANGED <<at, s>>
    /\ UNCHANGED <<size, i, pl>>

\* mem.c:242-244; order is one past the largest here.
FindNone ==
    /\ at = "find"
    /\ order > MaxOrder
    /\ IF size > 2^order
       THEN at' = "none" /\ UNCHANGED s
       ELSE at' = "line" /\ s' = Total(order)
    /\ UNCHANGED <<size, order, i, pl>>

\* Slip: the loop goes on until nothing is left.
LineTurnToTheEnd ==
    /\ at = "line"
    /\ s > 0
    /\ i' = i + 1
    /\ s' = s - size
    /\ pl' = pl + size
    /\ UNCHANGED <<size, order, at>>

\* One turn of the loop of kmem_cache_line_object, mem.c:254-258
LineTurn ==
    /\ at = "line"
    /\ s > size
    /\ i' = i + 1
    /\ s' = s - size
    /\ pl' = pl + size
    /\ UNCHANGED <<size, order, at>>

\* Slip: an object that fits exactly is not counted.
LineEndForgetsLast ==
    /\ at = "line"
    /\ s <= size
    /\ at' = "done"
    /\ UNCHANGED <<size, order, i, s, pl>>

\* mem.c:259-261
LineEnd ==
    /\ at = "line"
    /\ s <= size
    /\ i' = IF s = size THEN i + 1 ELSE i
    /\ at' = "done"
    /\ UNCHANGED <<size, order, s, pl>>

Next == FindTurn \/ FindNone \/ LineTurn \/ LineEnd

Spec == Init /\ [][Next]_vars

-----------------------------------------------------------------------------
TypeOK ==
    /\ size \in Sizes
    /\ order \in 0 .. MaxOrder + 1
    /\ at \in {"find", "line", "done", "none"}
    /\ i \in Nat /\ s \in Nat /\ pl \in Nat

\* The number kmem_cache_line_object returns is the number of whole objects
\* that fit into the block: obj_nr never promises an object that hangs over.
CountsWholeObjects ==
    at = "done" => i * size <= Total(order) /\ Total(order) < (i + 1) * size

\* A turn writes its link inside the block, and inside an object that is whole.
LinksInside == [][pl' # pl => pl + size <= Total(order)]_vars
=============================================================================
