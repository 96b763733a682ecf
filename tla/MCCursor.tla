------------------------------ MODULE MCCursor ------------------------------
\* Small instances of Cursor: packages of MCEditSession, and packages whose groups need
\* not nest.
EXTENDS MCEditSession, Cursor

Shapeless ==
  {PackageOf(<<Plain(1, a), Plain(2, b), Record(Own(3), 0), Plain(3, c), Record(Own(4), 0)>>,
             <<"base">>, "Full", 5) : a \in {0, 2, 3, 5}, b \in {1, 2, 4}, c \in 1 .. 2}

ReadPackages == {p \in Shapeless : Aligned(p)}
=============================================================================
