------------------------------ MODULE PagePool ------------------------------
(***************************************************************************)
(* What get_free_pages and put_free_pages of mm/mem.c promise their        *)
(* callers, whatever the lists behind them look like: a caller is given    *)
(* 2^order consecutive pages that nobody else has, keeps them until it     *)
(* puts them back, and no page is ever lost.                               *)
(***************************************************************************)
EXTENDS Integers

CONSTANTS NPages,     \* KERNEL_PAGE_NUM
          MaxOrder,   \* MAX_BUDDY_PAGE_NUM - 1, the largest order
          Handle,     \* the places a caller keeps a block in (bound: as many
                      \* blocks can be out at a time)
          None        \* a handle with no block

Page  == 0 .. NPages - 1
Order == 0 .. MaxOrder

VARIABLES free,   \* the pages nobody has
          held    \* the block in each handle

poolVars == <<free, held>>

\* The pages of the block of 2^o pages that starts at p
Size(o) == 2^o
Pages(p, o) == p .. p + Size(o) - 1
Block == [pg : Page, order : Order]
Held(h) == IF held[h] = None THEN {} ELSE Pages(held[h].pg, held[h].order)

PoolInit ==
    /\ free = Page
    /\ held = [h \in Handle |-> None]

\* get_free_pages; when it returns NULL nothing has happened
PoolGet(h, p, o) ==
    /\ held[h] = None
    /\ held' = [held EXCEPT ![h] = [pg |-> p, order |-> o]]
    /\ Pages(p, o) \subseteq free
    /\ free' = free \ Pages(p, o)

\* put_free_pages
PoolPut(h) ==
    /\ held[h] # None
    /\ held' = [held EXCEPT ![h] = None]
    /\ free' = free \cup Held(h)

PoolNext ==
    \E h \in Handle : \/ \E p \in Page, o \in Order : PoolGet(h, p, o)
                      \/ PoolPut(h)

PoolSpec == PoolInit /\ [][PoolNext]_poolVars

-----------------------------------------------------------------------------
PoolTypeOK ==
    /\ free \subseteq Page
    /\ held \in [Handle -> Block \cup {None}]

\* No page is in two handles, or both free and in a handle (what
\* get_pages_from_list and put_pages_to_list are for).
NoSharing ==
    /\ \A g, h \in Handle : g # h => Held(g) \cap Held(h) = {}
    /\ \A h \in Handle : Held(h) \cap free = {}

\* No page gets lost: what nobody has can be handed out again.
NoLeak == Page = free \cup UNION {Held(h) : h \in Handle}
=============================================================================
