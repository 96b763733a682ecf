------------------------- MODULE MCLoadOrderRepair -------------------------
\* Small instances of LoadOrderRepair.
EXTENDS LoadOrderRepair

\* Which package is which does not matter, so one order stands for all that are
\* made from it by renaming: four packages; three and two, which may depend on
\* missing ones; and orders that list a package twice.
Orders == {<<1, 2, 3, 4>>, <<1, 2, 3>>, <<1, 2>>, <<1, 2, 1>>, <<1, 1, 2>>, <<1, 2, 2>>}

AllGraphs ==
  {graph \in [PackageIds -> SUBSET PackageIds] : \A p \in PackageIds : p \notin graph[p]}
=============================================================================
