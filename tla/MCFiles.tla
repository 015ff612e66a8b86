------------------------------ MODULE MCFiles ------------------------------
EXTENDS Romfs, TLC
CONSTANTS romfs, simple_ext2

Operations == (romfs :> {"open", "read", "release"}) @@ (simple_ext2 :> Op \cup {"open"})

File(name, units, size, next) ==
    [name |-> name, units |-> units, size |-> size, next |-> next, spec |-> 0]
Image ==
    (2  :> File("a", 1, 1, 5)) @@
    (5  :> File("b", 1, 10, 17)) @@
    (17 :> [File("d", 1, 0, 19) EXCEPT !.spec = 36]) @@
    (19 :> File("w", 4, 1, 25)) @@
    (25 :> File("c", 1, 4, 31)) @@
    (31 :> File("e", 1, 1, 34)) @@
    (34 :> File("z", 1, 0, 0)) @@
    (36 :> File("g", 1, 1, 0))
SomePaths == {<<"a">>, <<"b">>, <<"c">>, <<"w">>, <<"z">>, <<"x">>, <<"d", "g">>, <<"d", "d">>}
TaskSymmetry == Permutations(Task)
=============================================================================
