-------------------------------- MODULE Slab --------------------------------
(***************************************************************************)
(* The object caches of mm/mem.c and kmalloc and kfree on top of them.     *)
(*                                                                         *)
(* A cache takes blocks of pages from the page allocator, cuts each into   *)
(* objects and strings the free ones together through their own first      *)
(* word.  obj_nr, and not a NULL link, says where the string ends: what    *)
(* follows the last object is whatever was in memory.  The blocks of a     *)
(* cache are strung together from head_page through list.next of the last  *)
(* page of each.                                                           *)
(*                                                                         *)
(* The page allocator is external here: alloc_pages gives some pages that  *)
(* nobody has, or NULL (PagePool).  Only the boot task calls kmalloc, so a *)
(* call is one action.  A kmalloc that returns NULL (size too large, no    *)
(* pages) changes nothing and is no action; kmem_cache_destroy has no      *)
(* caller.  wild says that a pointer nobody has set has been followed.     *)
(***************************************************************************)
EXTENDS Integers, FiniteSets

CONSTANTS NCache,     \* KMALLOC_CACHE_SIZE
          Unit,       \* KMALLOC_MINIMAL_SIZE_BIAS
          PageSize,   \* PAGE_SIZE
          Waste,      \* KMEM_CACHE_MAX_WAST
          MaxOrder,   \* KMEM_CACHE_MAX_ORDER
          NPages,     \* bound: the pages the caches may use
          Request,    \* bound: the sizes callers ask for
          Handle,     \* bound: the places a caller keeps an address in
          None        \* a handle with no address

Cache == 0 .. NCache - 1
Page  == 0 .. NPages - 1
Addr  == 0 .. NPages * PageSize - 1
Junk  == -1           \* an address nobody has set
NoPage == -2          \* NULL

Size(c)   == (c + 1) * Unit        \* obj_size of kmalloc_cache[c]
PageOf(a) == a \div PageSize       \* virt_to_page
AddrOf(p) == p * PageSize          \* page_address

\* find_right_order, mem.c:235-245: the least order of which an object fills
\* no more than the part that may be wasted.  The sizes of kmalloc always
\* have one (the code's other outcome is -1).
Fits(c) == {o \in 0 .. MaxOrder : Size(c) <= Waste * 2^o}
OrderOf(c) == CHOOSE o \in Fits(c) : \A q \in Fits(c) : o <= q

ASSUME SlabAssumption ==
    /\ {NCache, Unit, PageSize, Waste, NPages} \subseteq Nat \ {0}
    /\ MaxOrder \in Nat
    /\ Waste <= PageSize
    /\ \A c \in Cache : Fits(c) # {}
    /\ Request \subseteq Nat
    /\ None \notin [at : Int, want : Int]

\* The pages and the units of a block that cache c takes at page p
BlockEnd(p, c) == p + 2^OrderOf(c) - 1
Block(p, c)    == p .. BlockEnd(p, c)
Total(c)       == 2^OrderOf(c) * PageSize

VARIABLES free,       \* the pages nobody has, external
          made,       \* number of caches kmalloc_init has made
          ready,      \* kmalloc_init is over
          nr, nf,     \* obj_nr and nf_block of each cache
          head, end,  \* head_page and end_page of each cache
          chain,      \* list.next of each page
          cachep,     \* cachep of each page
          link,       \* the word at each address
          held,       \* the block in each handle
          wild        \* ghost, see above

caches == <<nr, nf, head, end>>
vars   == <<free, made, ready, nr, nf, head, end, chain, cachep, link, held, wild>>

Init ==
    /\ free = Page
    /\ made = 0
    /\ ready = FALSE
    /\ nr = [c \in Cache |-> 0]
    /\ nf = [c \in Cache |-> Junk]
    /\ head = [c \in Cache |-> NoPage]
    /\ end = [c \in Cache |-> NoPage]
    /\ chain = [p \in Page |-> Junk]
    /\ cachep = [p \in Page |-> Junk]
    /\ link = [a \in Addr |-> Junk]
    /\ held = [h \in Handle |-> None]
    /\ wild = FALSE

-----------------------------------------------------------------------------
\* kmem_cache_line_object, mem.c:248-262: the loop runs as long as more than
\* one object is left, and links each object it passes to the next place,
\* even when no whole object fits there.  See LineObject for the loop itself.
Turns(c)   == (Total(c) - 1) \div Size(c)
\* Slip: what is left over counts as an object.
ObjectsRoundedUp(c) == Turns(c) + 1
Objects(c) == IF Total(c) - Turns(c) * Size(c) = Size(c) THEN Turns(c) + 1 ELSE Turns(c)
Lined(p, c) ==
    [a \in Addr |-> IF \E k \in 0 .. Turns(c) - 1 : a = AddrOf(p) + k * Size(c)
                    THEN a + Size(c) ELSE link[a]]

\* kmalloc_init, one turn: kmem_cache_create, mem.c:264-282
Create(c) ==
    /\ ~ready /\ made = c
    /\ \E p \in Page :
          /\ Block(p, c) \subseteq free
          /\ free' = free \ Block(p, c)
          /\ link' = Lined(p, c)
          /\ nf' = [nf EXCEPT ![c] = AddrOf(p)]
          /\ nr' = [nr EXCEPT ![c] = Objects(c)]
          /\ head' = [head EXCEPT ![c] = p]
          /\ end' = [end EXCEPT ![c] = BlockEnd(p, c)]
          /\ chain' = [chain EXCEPT ![BlockEnd(p, c)] = NoPage]
    /\ made' = c + 1
    /\ ready' = (c = NCache - 1)
    /\ UNCHANGED <<cachep, held, wild>>

\* alloc_pages returned NULL: kmalloc_init returns -1, which init() ignores.
CreateFails ==
    /\ ~ready
    /\ ready' = TRUE
    /\ UNCHANGED <<free, made, caches, chain, cachep, link, held, wild>>

-----------------------------------------------------------------------------
\* kmalloc_cache_size_to_index
Index(n) == n \div Unit

\* kmalloc(n) may go ahead and put the address into handle h.
Asks(h, n) == ready /\ ~wild /\ held[h] = None /\ Index(n) \in Cache

\* Slip: the string still starts with the object that is given out.
TakeKeepsFront(h, n, a, k, lk) ==
    LET c == Index(n)
    IN  /\ nr' = [nr EXCEPT ![c] = k - 1]
        /\ nf' = [nf EXCEPT ![c] = a]
        /\ cachep' = [cachep EXCEPT ![PageOf(a)] = c]
        /\ held' = [held EXCEPT ![h] = [at |-> a, want |-> n]]
        /\ link' = [b \in Addr |-> IF b \in a .. a + n - 1 THEN Junk ELSE lk[b]]

\* The end of kmem_cache_alloc, mem.c:326-331, on a string of k objects that
\* starts at a, with the words lk in memory; then the caller fills its block.
Take(h, n, a, k, lk) ==
    LET c == Index(n)
    IN  /\ nr' = [nr EXCEPT ![c] = k - 1]
        /\ nf' = [nf EXCEPT ![c] = lk[a]]
        /\ cachep' = [cachep EXCEPT ![PageOf(a)] = c]
        /\ held' = [held EXCEPT ![h] = [at |-> a, want |-> n]]
        /\ link' = [b \in Addr |-> IF b \in a .. a + n - 1 THEN Junk ELSE lk[b]]

\* kmalloc, the cache has an object
Kmalloc(h, n) ==
    LET c == Index(n)
    IN  /\ Asks(h, n)
        /\ c < made
        /\ nr[c] > 0
        /\ IF nf[c] \in Addr
           THEN Take(h, n, nf[c], nr[c], link) /\ UNCHANGED wild
           ELSE wild' = TRUE /\ UNCHANGED <<nr, nf, cachep, held, link>>
        /\ UNCHANGED <<free, made, ready, head, end, chain>>

\* Slip: end_page still names the last page of the block before.
KmallocGrowsUnstrung(h, n) ==
    LET c == Index(n)
    IN  /\ Asks(h, n)
        /\ c < made
        /\ nr[c] = 0
        /\ \E p \in Page :
              /\ Block(p, c) \subseteq free
              /\ free' = free \ Block(p, c)
              /\ chain' = [chain EXCEPT ![end[c]] = p, ![BlockEnd(p, c)] = NoPage]
              /\ Take(h, n, AddrOf(p), nr[c] + Objects(c), Lined(p, c))
        /\ UNCHANGED <<made, ready, head, end, wild>>

\* kmalloc, the cache takes another block
KmallocGrows(h, n) ==
    LET c == Index(n)
    IN  /\ Asks(h, n)
        /\ c < made
        /\ nr[c] = 0
        /\ \E p \in Page :
              /\ Block(p, c) \subseteq free
              /\ free' = free \ Block(p, c)
              /\ chain' = [chain EXCEPT ![end[c]] = p, ![BlockEnd(p, c)] = NoPage]
              /\ end' = [end EXCEPT ![c] = BlockEnd(p, c)]
              /\ Take(h, n, AddrOf(p), nr[c] + Objects(c), Lined(p, c))
        /\ UNCHANGED <<made, ready, head, wild>>

\* kmalloc from a cache that kmalloc_init did not get to: its fields are
\* whatever was in memory.
KmallocUnmade(h, n) ==
    /\ Asks(h, n)
    /\ Index(n) >= made
    /\ wild' = TRUE
    /\ UNCHANGED <<free, made, ready, caches, chain, cachep, link, held>>

\* kfree: kmem_cache_free on the cache the page names
Kfree(h) ==
    LET a == held[h].at
        c == cachep[PageOf(a)]
    IN  /\ ~wild
        /\ held[h] # None
        /\ held' = [held EXCEPT ![h] = None]
        /\ IF c \in Cache
           THEN /\ link' = [link EXCEPT ![a] = nf[c]]
                /\ nf' = [nf EXCEPT ![c] = a]
                /\ nr' = [nr EXCEPT ![c] = @ + 1]
                /\ UNCHANGED wild
           ELSE wild' = TRUE /\ UNCHANGED <<link, nf, nr>>
        /\ UNCHANGED <<free, made, ready, head, end, chain, cachep>>

Wild == wild /\ UNCHANGED vars

Next ==
    \/ \E c \in Cache : Create(c)
    \/ CreateFails
    \/ \E h \in Handle, n \in Request :
          Kmalloc(h, n) \/ KmallocGrows(h, n) \/ KmallocUnmade(h, n)
    \/ \E h \in Handle : Kfree(h)
    \/ Wild

Spec == Init /\ [][Next]_vars

-----------------------------------------------------------------------------
(* Properties                                                              *)

\* The first pages of the blocks of cache c, in the order of the string
FirstPages(c) ==
    LET at[k \in 0 .. NPages] ==
            IF k = 0 THEN head[c]
            ELSE IF at[k - 1] \in Page /\ BlockEnd(at[k - 1], c) \in Page
                 THEN chain[BlockEnd(at[k - 1], c)] ELSE NoPage
    IN  at
BlocksOf(c) == {FirstPages(c)[k] : k \in 0 .. NPages} \ {NoPage}

\* The k-th object on the string of free objects of cache c
FreeObject(c) ==
    LET at[k \in 0 .. nr[c]] ==
            IF k = 0 THEN nf[c]
            ELSE IF at[k - 1] \in Addr THEN link[at[k - 1]] ELSE Junk
    IN  at
FreeObjects(c) == {FreeObject(c)[k] : k \in 0 .. nr[c] - 1}

\* All objects of cache c, and those that callers have
ObjectsOf(c) == {AddrOf(p) + k * Size(c) : p \in BlocksOf(c), k \in 0 .. Objects(c) - 1}
Taken(c)     == {h \in Handle : held[h] # None /\ Index(held[h].want) = c}

\* Every object of a cache is on its string of free objects, once, or with one
\* caller, and with nobody else: none is lost, none is given out twice, although
\* the string lives in memory that callers write to and ends in a link that
\* leads nowhere (mem.c:248-262, 300-331).  Once kmalloc_init has made every
\* cache, no link or field that nobody has set is followed.
ObjectsAccounted ==
    /\ made = NCache => ~wild
    /\ \A c \in 0 .. made - 1 :
          /\ Cardinality(FreeObjects(c)) = nr[c]
          /\ FreeObjects(c) \cap {held[h].at : h \in Taken(c)} = {}
          /\ FreeObjects(c) \cup {held[h].at : h \in Taken(c)} = ObjectsOf(c)
          /\ \A g, h \in Taken(c) : held[g].at = held[h].at => g = h

\* The string of blocks from head_page to end_page, which kmem_cache_destroy
\* would walk, holds every page a cache has taken, and no page twice.
BlocksStrung ==
    /\ \A c \in 0 .. made - 1 :
          \E p \in BlocksOf(c) : BlockEnd(p, c) = end[c] /\ chain[end[c]] = NoPage
    /\ \A c, d \in 0 .. made - 1 : \A p \in BlocksOf(c), q \in BlocksOf(d) :
          <<p, c>> # <<q, d>> => Block(p, c) \cap Block(q, d) = {}
    /\ Page \ free = UNION {UNION {Block(p, c) : p \in BlocksOf(c)} : c \in 0 .. made - 1}

\* kfree finds the cache an object came from, although the page that names it
\* may be shared by objects that were given out long before (mem.c:330, 366).
KfreeFindsCache ==
    \A h \in Handle : held[h] # None => cachep[PageOf(held[h].at)] = Index(held[h].want)

\* kmalloc and kfree keep the promise of KHeap.
Heap == INSTANCE KHeap
HeapImplemented == Heap!HeapSpec
=============================================================================
