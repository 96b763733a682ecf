-------------------------- MODULE LoadOrderRepair --------------------------
(***************************************************************************)
(* repair_load_order (load_order.rs): moves packages behind their          *)
(* dependencies until every dependency is loaded before its dependents.    *)
(* One action is one iteration of the loop.  An order seen before means    *)
(* that the moves go round in circles.  Packages are told apart by their   *)
(* id; positions count from 1.                                             *)
(***************************************************************************)
EXTENDS Integers, Sequences, SequencesExt

CONSTANTS
  PackageIds,      \* ids of packages and of the dependencies they name
  InitialOrders,   \* load orders to repair
  Graphs,          \* dependencies of the packages: PackageIds -> SUBSET PackageIds
  MaxMoves         \* bound: moves of one repair

ASSUME RepairAssumption ==
  /\ InitialOrders \subseteq Seq(PackageIds)
  /\ Graphs \subseteq [PackageIds -> SUBSET PackageIds]
  \* PackageHeader refuses a package that depends on itself.
  /\ \A graph \in Graphs : \A p \in PackageIds : p \notin graph[p]
  /\ MaxMoves \in Nat

VARIABLES
  dependencies,    \* the package headers: they never change
  initial,         \* the order the caller passed in
  packages,        \* the order as repaired so far, the caller's vector
  previousOrders,
  moves,           \* the report
  outcome

vars == <<dependencies, initial, packages, previousOrders, moves, outcome>>

Outcomes == {"running", "Ok", "DependencyCycle", "DependencyNotLoaded"}

Loaded == ToSet(packages)

MissesDependency(i) == ~ dependencies[packages[i]] \subseteq Loaded

\* Where the dependencies of the i-th package are; positions keeps the last place
\* of a package listed twice, which is the one that counts here too.
DependencyPlaces(i) == {j \in DOMAIN packages : packages[j] \in dependencies[packages[i]]}

\* Mutant: only the dependency that is loaded first is looked at.
FirstLoadsTooEarly(i) ==
  \E j \in DependencyPlaces(i) : j >= i /\ \A k \in DependencyPlaces(i) : j <= k

LoadsTooEarly(i) == \E j \in DependencyPlaces(i) : j >= i

\* Where the scan of the packages ends early: the first place that has a reason.
ScanStopsAt(i) ==
  /\ MissesDependency(i) \/ LoadsTooEarly(i)
  /\ \A j \in 1 .. i - 1 : ~ MissesDependency(j) /\ ~ LoadsTooEarly(j)

IsLastDependency(last, i) ==
  last \in DependencyPlaces(i) /\ \A j \in DependencyPlaces(i) : j <= last

\* Mutant: a package moved twice is taken for a cycle.
MovedBefore == \E i, j \in DOMAIN moves : i < j /\ moves[i].package = moves[j].package

\* Mutant: no order is remembered.
NeverSeen == FALSE

SeenBefore == packages \in previousOrders

---------------------------------------------------------------------------
Init ==
  /\ dependencies \in Graphs
  /\ initial \in InitialOrders
  /\ packages = initial
  /\ previousOrders = {}
  /\ moves = <<>>
  /\ outcome = "running"

FindCycle ==
  /\ outcome = "running"
  /\ SeenBefore
  /\ outcome' = "DependencyCycle"
  /\ UNCHANGED <<dependencies, initial, packages, previousOrders, moves>>

FindMissing ==
  /\ outcome = "running"
  /\ ~ SeenBefore
  /\ \E i \in DOMAIN packages : ScanStopsAt(i) /\ MissesDependency(i)
  /\ previousOrders' = previousOrders \cup {packages}
  /\ outcome' = "DependencyNotLoaded"
  /\ UNCHANGED <<dependencies, initial, packages, moves>>

\* The dependency index counts in the vector the package was removed from.
Destination(from, last) == (IF last > from THEN last - 1 ELSE last) + 1

MovedTo(order, from, to) == InsertAt(RemoveAt(order, from), to, order[from])

\* Mutant: the report names the dependency's place, not the package's.
ReportDependency(from, to) == [package |-> packages[from], from |-> from, to |-> to - 1]

Report(from, to) == [package |-> packages[from], from |-> from, to |-> to]

MovePackage ==
  /\ outcome = "running"
  /\ ~ SeenBefore
  /\ Len(moves) < MaxMoves
  /\ \E from, last \in DOMAIN packages :
       /\ ScanStopsAt(from)
       /\ ~ MissesDependency(from)
       /\ IsLastDependency(last, from)
       /\ packages' = MovedTo(packages, from, Destination(from, last))
       /\ moves' = Append(moves, Report(from, Destination(from, last)))
  /\ previousOrders' = previousOrders \cup {packages}
  /\ UNCHANGED <<dependencies, initial, outcome>>

Finish ==
  /\ outcome = "running"
  /\ ~ SeenBefore
  /\ \A i \in DOMAIN packages : ~ MissesDependency(i) /\ ~ LoadsTooEarly(i)
  /\ previousOrders' = previousOrders \cup {packages}
  /\ outcome' = "Ok"
  /\ UNCHANGED <<dependencies, initial, packages, moves>>

Next == FindCycle \/ FindMissing \/ MovePackage \/ Finish

Spec == Init /\ [][Next]_vars

\* The loop runs in the caller's thread until it returns.
FairSpec == Spec /\ WF_vars(Next)

---------------------------------------------------------------------------
(* Properties.                                                             *)

TypeOK ==
  /\ dependencies \in [PackageIds -> SUBSET PackageIds]
  /\ initial \in Seq(PackageIds)
  /\ packages \in Seq(PackageIds)
  /\ previousOrders \subseteq Seq(PackageIds)
  /\ moves \in Seq([package : PackageIds, from : 1 .. Len(initial), to : 1 .. Len(initial)])
  /\ outcome \in Outcomes

\* What LoadOrder::build demands of a sequence of packages: every dependency is
\* at an earlier place.
DependenciesFirst(order) ==
  \A i \in DOMAIN order : \A d \in dependencies[order[i]] :
    \E j \in 1 .. i - 1 : order[j] = d

\* Ok is only answered for an order that can be built.
RepairedOrderIsLoadable == outcome = "Ok" => DependenciesFirst(packages)

\* An editor's replay of one move: nothing is left of an order it does not fit.
Replay(move, order) ==
  IF /\ move.from \in DOMAIN order
     /\ order[move.from] = move.package
     /\ move.to \in DOMAIN order
  THEN MovedTo(order, move.from, move.to)
  ELSE <<>>

\* The order after each of the moves of the report.
Replayed[k \in 0 .. Len(moves)] ==
  IF k = 0 THEN initial ELSE Replay(moves[k], Replayed[k - 1])

\* The report is complete and exact: an editor that replays its moves on the
\* order it passed in gets the repaired order, so no package is lost or doubled.
ReportReplays == packages = Replayed[Len(moves)]

\* The dependencies of some loaded packages lead in a circle.
Cyclic == \E S \in SUBSET Loaded : S # {} /\ \A p \in S : dependencies[p] \cap S # {}

\* A repair is refused only for a reason: a cycle is reported only when there is
\* one (no acyclic graph ever brings an order back), a missing dependency only
\* when it is missing.
RefusalIsJustified ==
  /\ outcome = "DependencyCycle" => Cyclic
  /\ outcome = "DependencyNotLoaded" => \E p \in Loaded : ~ dependencies[p] \subseteq Loaded

\* The repair ends: it cannot move packages around for ever.
RepairEnds == <>(outcome # "running")
=============================================================================
