------------------------------- MODULE Buddy -------------------------------
(***************************************************************************)
(* The page allocator of mm/mem.c: one circular list of free pages for     *)
(* each order, every page of a free block linked in it one after the       *)
(* other, the head page of a block carrying its order.                     *)
(*                                                                         *)
(* A call is one action up to its loop, one for each turn of the loop, and *)
(* one for what follows the loop.  Only the boot task calls the allocator, *)
(* so calls do not overlap.  The flag PAGE_DIRTY, which nothing reads, is  *)
(* left out.                                                               *)
(*                                                                         *)
(* put_pages_to_list goes wrong in three ways, which the ghost breach      *)
(* records:                                                                *)
(*   "backward" it merged a block with the free block before it: that one  *)
(*              stays on its old list, and the stale links of the block    *)
(*              that is put back are used as if it were on a list          *)
(*   "top"      it merged two blocks of the largest order and goes on to   *)
(*              page_buddy[MAX_BUDDY_PAGE_NUM], which does not exist       *)
(*   "outside"  the neighbour it looked at lies outside the page array,    *)
(*              and the memory there looked like a free block              *)
(* wild says that memory outside the page array and the list heads has     *)
(* been used; from there on nothing is known.                              *)
(***************************************************************************)
EXTENDS Integers, FiniteSets, DList

CONSTANTS NPages, MaxOrder, Handle, None,   \* as in PagePool
          MaxAfter    \* bound: calls begun after the heap has gone bad

VARIABLES next, prev,   \* page.list and page_buddy[]
          busy,         \* page.flags & PAGE_BUDDY_BUSY
          order,        \* page.order
          held,         \* the block each caller has been given
          call,         \* the call in progress and its local variables
          refused,      \* ghost: a put was refused with the message of line 154
          breach, wild, \* ghosts, see above
          after         \* ghost: calls begun since breach is not empty

Page    == 0 .. NPages - 1
Order   == 0 .. MaxOrder

ASSUME BuddyAssumption ==
    /\ NPages \in Nat
    /\ MaxOrder \in Nat
    /\ None \notin [pg : Page, order : Order]

heap == <<next, prev, busy, order>>
vars == <<next, prev, busy, order, held, call, refused, breach, wild, after>>

Anchor(o) == -1 - o                 \* &page_buddy[o]
Node    == Page \cup {Anchor(o) : o \in Order}
Size(o) == 2^o

\* BUDDY_END, NEXT_BUDDY_START, PREV_BUDDY_START
End(p, o)       == p + Size(o) - 1
NextBuddy(p, o) == p + Size(o)
PrevBuddy(p, o) == p - Size(o)
Pages(p, o)     == p .. End(p, o)

Idle == [op |-> "idle", h |-> None, pg |-> 0, at |-> 0, want |-> 0]
Calling(op) == call.op = op /\ ~wild

\* A call begins.
Begin == /\ Calling("idle")
         /\ breach = {} \/ after < MaxAfter
         /\ after' = IF breach = {} THEN 0 ELSE after + 1

-----------------------------------------------------------------------------
(* init_page_map, mem.c:77-106                                             *)

\* The pages below Top are linked as blocks of the largest order, the
\* others as single pages.  The mask of line 92 covers two largest blocks,
\* so only every second one has its head page marked.
Gap == 2 * Size(MaxOrder)
Top == (NPages \div Gap) * Gap

InitOrder(p) == IF p >= Top THEN 0 ELSE IF p % Gap = 0 THEN MaxOrder ELSE -1

\* The list of each order when pages lo..hi-1 have been added to its tail
\* one by one, for each node of it.
Span(o) == (IF o = MaxOrder THEN 0 .. Top - 1 ELSE {})
           \cup (IF o = 0 THEN Top .. NPages - 1 ELSE {})
ListOf(p) == IF p < Top THEN MaxOrder ELSE 0
First(o) == IF Span(o) = {} THEN Anchor(o)
            ELSE CHOOSE p \in Span(o) : \A q \in Span(o) : p <= q
Last(o)  == IF Span(o) = {} THEN Anchor(o)
            ELSE CHOOSE p \in Span(o) : \A q \in Span(o) : p >= q

Init ==
    /\ next = [n \in Node |-> IF n < 0 THEN First(-1 - n)
                              ELSE IF n = Last(ListOf(n)) THEN Anchor(ListOf(n)) ELSE n + 1]
    /\ prev = [n \in Node |-> IF n < 0 THEN Last(-1 - n)
                              ELSE IF n = First(ListOf(n)) THEN Anchor(ListOf(n)) ELSE n - 1]
    /\ busy = [p \in Page |-> FALSE]
    /\ order = [p \in Page |-> InitOrder(p)]
    /\ held = [h \in Handle |-> None]
    /\ call = Idle
    /\ refused = FALSE
    /\ breach = {}
    /\ wild = FALSE
    /\ after = 0

-----------------------------------------------------------------------------
(* get_free_pages: alloc_pages and get_pages_from_list, mem.c:115-147.     *)
(* When every list from o on is empty it returns NULL and changes nothing. *)

\* The first block of the first list that has one is cut off the front.
GetFind(h, o) ==
    \E j \in o .. MaxOrder :
        LET p == next[Anchor(j)]
            e == End(p, j)
        IN  /\ Begin
            /\ held[h] = None
            /\ ~ListEmpty(next, Anchor(j))
            /\ \A i \in o .. j - 1 : ListEmpty(next, Anchor(i))
            /\ IF p \in Page /\ e \in Page
               THEN /\ next' = [next EXCEPT ![Anchor(j)] = next[e]]
                    /\ prev' = [prev EXCEPT ![next[e]] = Anchor(j)]
                    /\ call' = [op |-> "get", h |-> h, pg |-> p, at |-> j, want |-> o]
                    /\ UNCHANGED wild
               ELSE wild' = TRUE /\ UNCHANGED <<next, prev, call>>
            /\ UNCHANGED <<busy, order, held, refused, breach>>

\* Slip: the lower half goes to the list and is kept as well.
SplitKeepsLower ==
    LET j == call.at - 1
        p == call.pg
    IN  /\ Calling("get")
        /\ call.at > call.want
        /\ next' = AddChainTailNext(next, prev, p, End(p, j), Anchor(j))
        /\ prev' = AddChainTailPrev(next, prev, p, End(p, j), Anchor(j))
        /\ order' = [order EXCEPT ![p] = j]
        /\ call' = [call EXCEPT !.at = j]
        /\ UNCHANGED <<busy, held, refused, breach, wild, after>>

\* One turn of the loop of line 134: the lower half goes to the list of its
\* order, the upper half is kept.
Split ==
    LET j == call.at - 1
        p == call.pg
    IN  /\ Calling("get")
        /\ call.at > call.want
        /\ next' = AddChainTailNext(next, prev, p, End(p, j), Anchor(j))
        /\ prev' = AddChainTailPrev(next, prev, p, End(p, j), Anchor(j))
        /\ order' = [order EXCEPT ![p] = j]
        /\ call' = [call EXCEPT !.pg = NextBuddy(p, j), !.at = j]
        /\ UNCHANGED <<busy, held, refused, breach, wild, after>>

GetDone ==
    /\ Calling("get")
    /\ call.at = call.want
    /\ busy' = [busy EXCEPT ![call.pg] = TRUE]
    /\ order' = [order EXCEPT ![call.pg] = call.want]
    /\ held' = [held EXCEPT ![call.h] = [pg |-> call.pg, order |-> call.want]]
    /\ call' = Idle
    /\ UNCHANGED <<next, prev, refused, breach, wild, after>>

-----------------------------------------------------------------------------
(* put_free_pages: free_pages and put_pages_to_list, mem.c:151-185, called *)
(* with a block the caller has been given.                                 *)

PutStart(h) ==
    LET p == held[h].pg
    IN  /\ Begin
        /\ held[h] # None
        /\ held' = [held EXCEPT ![h] = None]
        /\ IF busy[p]
           THEN /\ busy' = [busy EXCEPT ![p] = FALSE]
                /\ call' = [Idle EXCEPT !.op = "put", !.pg = p, !.at = held[h].order]
                /\ UNCHANGED refused
           ELSE refused' = TRUE /\ UNCHANGED <<busy, call>>
        /\ UNCHANGED <<next, prev, order, breach, wild>>

\* A page that looks like the head of a free block of order o
LooksFree(p, o) == p \in Page /\ ~busy[p] /\ order[p] = o

\* Slip: the block after the one in hand stays on its list.
MergeNextStaysListed ==
    LET p == call.pg
        o == call.at
        t == NextBuddy(p, o)
    IN  /\ Calling("put")
        /\ o <= MaxOrder
        /\ LooksFree(t, o)
        /\ End(t, o) \in Page
        /\ next' = [next EXCEPT ![End(p, o)] = t]
        /\ prev' = [prev EXCEPT ![t] = End(p, o)]
        /\ order' = [order EXCEPT ![p] = @ + 1, ![t] = -1]
        /\ call' = [call EXCEPT !.at = o + 1]
        /\ breach' = IF o = MaxOrder THEN breach \cup {"top"} ELSE breach
        /\ UNCHANGED <<busy, held, refused, wild, after>>

\* Slip: the second half of the new block keeps the mark of a head.
MergeNextKeepsMark ==
    LET p == call.pg
        o == call.at
        t == NextBuddy(p, o)
    IN  /\ Calling("put")
        /\ o <= MaxOrder
        /\ LooksFree(t, o)
        /\ End(t, o) \in Page
        /\ next' = [RemoveChainNext(next, prev, t, End(t, o)) EXCEPT ![End(p, o)] = t]
        /\ prev' = [RemoveChainPrev(next, prev, t, End(t, o)) EXCEPT ![t] = End(p, o)]
        /\ order' = [order EXCEPT ![p] = @ + 1]
        /\ call' = [call EXCEPT !.at = o + 1]
        /\ breach' = IF o = MaxOrder THEN breach \cup {"top"} ELSE breach
        /\ UNCHANGED <<busy, held, refused, wild, after>>

\* The block after the one in hand is free: it leaves its list and the two
\* become one block.
MergeNext ==
    LET p == call.pg
        o == call.at
        t == NextBuddy(p, o)
    IN  /\ Calling("put")
        /\ o <= MaxOrder
        /\ LooksFree(t, o)
        /\ IF End(t, o) \in Page
           THEN /\ next' = [RemoveChainNext(next, prev, t, End(t, o)) EXCEPT ![End(p, o)] = t]
                /\ prev' = [RemoveChainPrev(next, prev, t, End(t, o)) EXCEPT ![t] = End(p, o)]
                /\ order' = [order EXCEPT ![p] = @ + 1, ![t] = -1]
                /\ call' = [call EXCEPT !.at = o + 1]
                /\ UNCHANGED wild
           ELSE wild' = TRUE /\ UNCHANGED <<next, prev, order, call>>
        /\ breach' = IF o = MaxOrder THEN breach \cup {"top"} ELSE breach
        /\ UNCHANGED <<busy, held, refused, after>>

\* The block before the one in hand is free: the code unlinks the block in
\* hand, which is on no list, and leaves the other one on its list.
MergePrev ==
    LET p == call.pg
        o == call.at
        t == PrevBuddy(p, o)
    IN  /\ Calling("put")
        /\ o <= MaxOrder
        /\ ~LooksFree(NextBuddy(p, o), o)
        /\ LooksFree(t, o)
        /\ next' = [RemoveChainNext(next, prev, p, End(p, o)) EXCEPT ![End(t, o)] = p]
        /\ prev' = [RemoveChainPrev(next, prev, p, End(p, o)) EXCEPT ![p] = End(t, o)]
        /\ order' = [order EXCEPT ![p] = -1, ![t] = @ + 1]
        /\ call' = [call EXCEPT !.pg = t, !.at = o + 1]
        /\ breach' = breach \cup {"backward"}
                       \cup (IF o = MaxOrder THEN {"top"} ELSE {})
        /\ UNCHANGED <<busy, held, refused, wild, after>>

\* Neither neighbour is free: the block goes to the front of its list.
PutDone ==
    LET p == call.pg
        o == call.at
    IN  /\ Calling("put")
        /\ o <= MaxOrder
        /\ ~LooksFree(NextBuddy(p, o), o)
        /\ ~LooksFree(PrevBuddy(p, o), o)
        /\ next' = AddChainNext(next, prev, p, End(p, o), Anchor(o))
        /\ prev' = AddChainPrev(next, prev, p, End(p, o), Anchor(o))
        /\ call' = Idle
        /\ UNCHANGED <<busy, order, held, refused, breach, wild, after>>

\* The loop ran past the largest order.
PutTop ==
    /\ Calling("put")
    /\ call.at > MaxOrder
    /\ wild' = TRUE
    /\ UNCHANGED <<heap, held, call, refused, breach, after>>

\* A neighbour outside the page array happens to look free.
PutOutside ==
    /\ Calling("put")
    /\ call.at <= MaxOrder
    /\ \/ NextBuddy(call.pg, call.at) \notin Page
       \/ /\ ~LooksFree(NextBuddy(call.pg, call.at), call.at)
          /\ PrevBuddy(call.pg, call.at) \notin Page
    /\ wild' = TRUE
    /\ breach' = breach \cup {"outside"}
    /\ UNCHANGED <<heap, held, call, refused, after>>

Wild == wild /\ UNCHANGED vars

-----------------------------------------------------------------------------
Get == \/ \E h \in Handle, o \in Order : GetFind(h, o)
       \/ Split \/ GetDone
Put == \/ \E h \in Handle : PutStart(h)
       \/ MergeNext \/ MergePrev \/ PutDone \/ PutTop \/ PutOutside

Next == Get \/ Put \/ Wild

Spec == Init /\ [][Next]_vars

-----------------------------------------------------------------------------
(* Properties                                                              *)

\* The n-th node after &page_buddy[o] along next; on a ring the walk comes
\* round at the latest after NPages + 1 steps.
Walk(o) ==
    LET at[n \in 0 .. NPages + 1] == IF n = 0 THEN Anchor(o) ELSE next[at[n - 1]]
    IN  at
OnList(o) == LET at == Walk(o) IN {at[n] : n \in DOMAIN at} \ {Anchor(o)}

\* The pages of the block a call is working on
InHand == IF call.op = "idle" THEN {} ELSE Pages(call.pg, call.at)

FreePages == (UNION {OnList(o) : o \in Order}) \cup InHand

\* Each list is one ring that closes at its head, and is made of whole blocks
\* of its order, their pages in ascending order; no page is on two lists or in
\* a block being worked on.  This is what cutting 2^order pages off the front
\* (mem.c:124-127) and linking chains by their two ends (list.c:78-95) rest on.
ListsOfBlocks ==
    breach = {} =>
        /\ \A o \in Order :
              LET at == Walk(o)
                  on == OnList(o)
              IN  /\ on \subseteq Page \ InHand
                  /\ WellLinked(next, prev, on \cup {Anchor(o)})
                  /\ Cardinality(on) % Size(o) = 0
                  /\ \A n \in 1 .. Cardinality(on) :
                         (n - 1) % Size(o) # 0 => at[n] = at[n - 1] + 1
        /\ \A o, j \in Order : o # j => OnList(o) \cap OnList(j) = {}

\* A page that looks like the head of a free block of some order is the head of
\* one on the list of that order, so that the merge test of line 162 never
\* takes a page out of a block somebody has.
MarksTrue ==
    breach = {} =>
        \A o \in Order :
            LET at == Walk(o)
                on == OnList(o)
            IN  \A p \in Page \ InHand :
                    LooksFree(p, o) =>
                        \E n \in 1 .. Cardinality(on) : at[n] = p /\ (n - 1) % Size(o) = 0

\* The message of line 154 "probably means you are forcing to release a page that
\* was not alloc at all": a caller that puts back, once, what it was given never
\* sees it.
HonestPutAccepted == ~refused

\* Until put_pages_to_list goes wrong, get_free_pages and put_free_pages keep
\* the promise of PagePool: what is handed out was on a list and in no caller's
\* hands, what is put back is on a list again, and splitting and merging only
\* move pages between lists (mem.c:115-185).
Pool == INSTANCE PagePool WITH free <- FreePages
PoolImplemented ==
    /\ Pool!PoolInit
    /\ [][breach' = {} => Pool!PoolNext \/ UNCHANGED Pool!poolVars]_vars
=============================================================================
