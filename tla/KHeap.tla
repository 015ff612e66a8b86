------------------------------- MODULE KHeap -------------------------------
(***************************************************************************)
(* What kmalloc and kfree of mm/mem.c promise: the memory a caller is      *)
(* given is its own until it is freed.                                     *)
(***************************************************************************)
EXTENDS Integers

CONSTANTS Addr,      \* the memory the heap may use, in units of allocation
          Request,   \* the sizes callers ask for
          Handle,    \* the places a caller keeps an address in
          None       \* a handle with no address

VARIABLE held        \* [at, want] for each handle

Bytes(a, n) == a .. a + n - 1
Mine(h) == IF held[h] = None THEN {} ELSE Bytes(held[h].at, held[h].want)

HeapInit == held = [h \in Handle |-> None]

\* kmalloc; when it returns NULL nothing has happened
HeapAlloc(h, a, n) ==
    /\ held[h] = None
    /\ held' = [held EXCEPT ![h] = [at |-> a, want |-> n]]
    /\ Bytes(a, n) \subseteq Addr
    /\ \A g \in Handle : /\ Mine(g) \cap Bytes(a, n) = {}
                         /\ held[g] # None => held[g].at # a

\* kfree
HeapFree(h) ==
    /\ held[h] # None
    /\ held' = [held EXCEPT ![h] = None]

HeapNext ==
    \E h \in Handle : \/ \E a \in Addr, n \in Request : HeapAlloc(h, a, n)
                      \/ HeapFree(h)

HeapSpec == HeapInit /\ [][HeapNext]_held
=============================================================================
