----------------------- MODULE LoadOrderRepairProofs -----------------------
(***************************************************************************)
(* Proofs about LoadOrderRepair, for every number of packages, every graph *)
(* and every order, packages listed twice included.                        *)
(***************************************************************************)
EXTENDS LoadOrderRepair, Places, TLAPS

(***************************************************************************)
(* Taking a package out of an order and putting it in elsewhere.           *)
(***************************************************************************)

\* The order t is s with e inserted at i.
IsInserted(t, s, i, e, S) ==
  /\ t \in Seq(S) /\ Len(t) = Len(s) + 1
  /\ \A k \in 1 .. Len(s) + 1 :
       t[k] = IF k < i THEN s[k] ELSE IF k = i THEN e ELSE s[k - 1]

\* What Places says of an insertion, for all orders at once.
LEMMA InsertAtInserts ==
  ASSUME NEW S
  PROVE  \A s \in Seq(S) : \A i \in 1 .. Len(s) + 1 : \A e \in S :
           IsInserted(InsertAt(s, i, e), s, i, e, S)
<1> SUFFICES ASSUME NEW s \in Seq(S), NEW i \in 1 .. Len(s) + 1, NEW e \in S
             PROVE  IsInserted(InsertAt(s, i, e), s, i, e, S)
  OBVIOUS
<1>1. /\ InsertAt(s, i, e) \in Seq(S)
      /\ Len(InsertAt(s, i, e)) = Len(s) + 1
      /\ \A k \in 1 .. Len(s) + 1 :
           InsertAt(s, i, e)[k] = IF k < i THEN s[k] ELSE IF k = i THEN e ELSE s[k - 1]
  BY InsertedAt
<1> QED
  BY <1>1 DEF IsInserted

\* A package moved behind a later one: those between move down.
LEMMA MovedBehind ==
  ASSUME NEW S, NEW s \in Seq(S), NEW from \in 1 .. Len(s), NEW to \in from .. Len(s)
  PROVE  /\ MovedTo(s, from, to) \in Seq(S)
         /\ Len(MovedTo(s, from, to)) = Len(s)
         /\ \A k \in 1 .. Len(s) :
              MovedTo(s, from, to)[k] =
                IF k < from \/ k > to THEN s[k] ELSE IF k = to THEN s[from] ELSE s[k + 1]
<1>1. PICK r : r = RemoveAt(s, from)
  OBVIOUS
<1>2. /\ r \in Seq(S) /\ Len(r) = Len(s) - 1
      /\ \A k \in 1 .. Len(s) - 1 : r[k] = IF k < from THEN s[k] ELSE s[k + 1]
  BY <1>1, RemovedAt
<1>3. PICK e \in S : e = s[from]
  OBVIOUS
<1>4. r \in Seq(S) /\ to \in 1 .. Len(r) + 1
  BY <1>2
<1>5. PICK t : t = InsertAt(r, to, e)
  OBVIOUS
<1>6. MovedTo(s, from, to) = t
  BY <1>1, <1>3, <1>5 DEF MovedTo
<1>7. /\ t \in Seq(S) /\ Len(t) = Len(s)
      /\ \A k \in 1 .. Len(s) :
           t[k] = IF k < to THEN r[k] ELSE IF k = to THEN e ELSE r[k - 1]
  <2>1. /\ t \in Seq(S) /\ Len(t) = Len(r) + 1
        /\ \A k \in 1 .. Len(r) + 1 :
             t[k] = IF k < to THEN r[k] ELSE IF k = to THEN e ELSE r[k - 1]
    <3>1. IsInserted(InsertAt(r, to, e), r, to, e, S)
      BY <1>3, <1>4, InsertAtInserts, Zenon
    <3>2. IsInserted(t, r, to, e, S)
      BY <1>5, <3>1, Zenon
    <3> QED
      BY <3>2 DEF IsInserted
  <2>2. Len(r) + 1 = Len(s)
    BY <1>2
  <2> QED
    BY <2>1, <2>2, Zenon
<1>8. ASSUME NEW k \in 1 .. Len(s)
      PROVE  t[k] = IF k < from \/ k > to THEN s[k] ELSE IF k = to THEN s[from] ELSE s[k + 1]
  <2>1. CASE k < to
    <3>1. k \in 1 .. Len(s) - 1
      BY <2>1
    <3>2. r[k] = IF k < from THEN s[k] ELSE s[k + 1]
      BY <1>2, <3>1, Zenon
    <3>3. t[k] = r[k]
      BY <1>7, <2>1, Zenon
    <3> QED
      BY <2>1, <3>2, <3>3
  <2>2. CASE k = to
    BY <1>3, <1>7, <2>2
  <2>3. CASE k > to
    <3>1. k - 1 \in 1 .. Len(s) - 1 /\ ~ (k - 1 < from) /\ k - 1 + 1 = k
      BY <2>3
    <3> QED
      BY <1>2, <1>7, <2>3, <3>1
  <2> QED
    BY <2>1, <2>2, <2>3
<1> QED
  BY <1>6, <1>7, <1>8

(***************************************************************************)
(* The invariant without the orders: types, and where the moves lead.      *)
(***************************************************************************)

\* Types, and as many packages as at first.
TInv == TypeOK /\ dependencies \in Graphs /\ Len(packages) = Len(initial)

\* A move is to the place of the last dependency, which is behind the package.
LEMMA MoveIsBehind ==
  ASSUME TInv, NEW from \in DOMAIN packages, NEW last \in DOMAIN packages,
         ScanStopsAt(from), ~ MissesDependency(from), IsLastDependency(last, from)
  PROVE  from < last /\ Destination(from, last) = last
<1>1. DOMAIN packages = 1 .. Len(packages) /\ Len(packages) \in Nat
  BY DEF TInv, TypeOK
<1>2. PICK j \in DependencyPlaces(from) : j >= from
  BY DEF ScanStopsAt, LoadsTooEarly
<1>3. j <= last /\ j \in DOMAIN packages
  BY <1>2 DEF IsLastDependency, DependencyPlaces
<1>4. packages[last] \in dependencies[packages[from]]
  BY DEF IsLastDependency, DependencyPlaces
<1>5. packages[from] \in PackageIds
  BY <1>1 DEF TInv, TypeOK
<1>6. packages[last] # packages[from]
  BY <1>4, <1>5, RepairAssumption DEF TInv
<1>7. from < last
  BY <1>1, <1>2, <1>3, <1>6
<1> QED
  BY <1>1, <1>7 DEF Destination

\* An order to repair.
LEMMA InitTyped == Init => TInv
  BY RepairAssumption DEF Init, TInv, TypeOK, Outcomes

\* A move keeps the packages.
LEMMA NextTyped == TInv /\ [Next]_vars => TInv'
<1> SUFFICES ASSUME TInv, [Next]_vars PROVE TInv'
  OBVIOUS
<1> USE DEF TInv
<1>1. CASE FindCycle
  BY <1>1 DEF FindCycle, TypeOK, Outcomes
<1>2. CASE FindMissing
  BY <1>2 DEF FindMissing, TypeOK, Outcomes
<1>3. CASE MovePackage
  <2>1. PICK from, last \in DOMAIN packages :
          /\ ScanStopsAt(from) /\ ~ MissesDependency(from) /\ IsLastDependency(last, from)
          /\ packages' = MovedTo(packages, from, Destination(from, last))
          /\ moves' = Append(moves, Report(from, Destination(from, last)))
    BY <1>3 DEF MovePackage
  <2>2. from < last /\ Destination(from, last) = last
    BY <2>1, MoveIsBehind
  <2>3. /\ packages \in Seq(PackageIds) /\ DOMAIN packages = 1 .. Len(packages)
        /\ from \in 1 .. Len(packages) /\ last \in from .. Len(packages)
    BY <2>2 DEF TypeOK
  <2>4. packages' \in Seq(PackageIds) /\ Len(packages') = Len(packages)
    BY <2>1, <2>2, <2>3, MovedBehind
  <2>5. Report(from, last) \in
          [package : PackageIds, from : 1 .. Len(initial), to : 1 .. Len(initial)]
    BY <2>3 DEF Report
  <2>6. moves' \in Seq([package : PackageIds, from : 1 .. Len(initial), to : 1 .. Len(initial)])
    BY <2>1, <2>2, <2>5 DEF TypeOK
  <2> QED
    BY <1>3, <2>4, <2>6 DEF MovePackage, TypeOK
<1>4. CASE Finish
  BY <1>4 DEF Finish, TypeOK, Outcomes
<1>5. CASE UNCHANGED vars
  BY <1>5 DEF vars, TypeOK
<1> QED
  BY <1>1, <1>2, <1>3, <1>4, <1>5 DEF Next

\* The state of a repair is well-formed; no move leaves the vector.
THEOREM TypeAlwaysCorrect == Spec => []TypeOK
<1>1. TInv => TypeOK
  BY DEF TInv
<1> QED
  BY <1>1, InitTyped, NextTyped, PTL DEF Spec

(***************************************************************************)
(* What a repair answers.                                                  *)
(***************************************************************************)

\* Ok is only answered for an order that can be built.
THEOREM RepairedOrderAlwaysLoadable == Spec => []RepairedOrderIsLoadable
<1>1. Init => RepairedOrderIsLoadable
  BY DEF Init, RepairedOrderIsLoadable
<1>2. TInv /\ RepairedOrderIsLoadable /\ [Next]_vars => RepairedOrderIsLoadable'
  <2> SUFFICES ASSUME TInv, RepairedOrderIsLoadable, [Next]_vars, outcome' = "Ok"
               PROVE  DependenciesFirst(packages)'
    BY DEF RepairedOrderIsLoadable
  <2>1. CASE Finish
    <3>1. /\ packages' = packages /\ dependencies' = dependencies
          /\ \A i \in DOMAIN packages : ~ MissesDependency(i) /\ ~ LoadsTooEarly(i)
      BY <2>1 DEF Finish
    <3>2. packages \in Seq(PackageIds)
      BY DEF TInv, TypeOK
    <3>3. ASSUME NEW i \in DOMAIN packages, NEW d \in dependencies[packages[i]]
          PROVE  \E j \in 1 .. i - 1 : packages[j] = d
      <4>1. PICK j \in DOMAIN packages : packages[j] = d
        BY <3>1 DEF MissesDependency, Loaded, ToSet
      <4>2. j \in DependencyPlaces(i)
        BY <4>1 DEF DependencyPlaces
      <4>3. ~ (j >= i)
        BY <3>1, <4>2 DEF LoadsTooEarly
      <4> QED
        BY <3>2, <4>1, <4>3
    <3> QED
      BY <3>1, <3>3 DEF DependenciesFirst
  <2>2. CASE UNCHANGED vars
    BY <2>2 DEF vars, RepairedOrderIsLoadable, DependenciesFirst
  <2> QED
    BY <2>1, <2>2 DEF Next, FindCycle, FindMissing, MovePackage
<1> QED
  BY <1>1, <1>2, InitTyped, NextTyped, PTL DEF Spec

(***************************************************************************)
(* What a repair reports.                                                  *)
(***************************************************************************)

\* f[k] is the order after k of the moves.
IsReplay(f) ==
  f = [k \in 0 .. Len(moves) |-> IF k = 0 THEN initial ELSE Replay(moves[k], f[k - 1])]

\* The report, replayed, leads to where the repair stands.
ReplayInv == \E f : IsReplay(f) /\ f[Len(moves)] = packages

\* The replay is unique: the recursive definition of Replayed names it.
LEMMA ReplayIsReplayed ==
  ASSUME Len(moves) \in Nat, ReplayInv
  PROVE  ReportReplays
<1> DEFINE n == Len(moves)
<1>1. PICK f : IsReplay(f) /\ f[n] = packages
  BY DEF ReplayInv
<1>2. IsReplay(Replayed)
  <2>1. Replayed = CHOOSE g : IsReplay(g)
    BY DEF Replayed, IsReplay
  <2> QED
    BY <1>1, <2>1
<1> DEFINE S == {k \in Nat : k <= n => Replayed[k] = f[k]}
<1>3. 0 \in S
  <2>1. 0 \in 0 .. n
    OBVIOUS
  <2>2. f[0] = initial
    BY <1>1, <2>1 DEF IsReplay
  <2>3. Replayed[0] = initial
    BY <1>2, <2>1 DEF IsReplay
  <2> HIDE DEF n
  <2> QED
    BY <2>2, <2>3
<1>4. ASSUME NEW k \in Nat, k \in S PROVE k + 1 \in S
  <2> SUFFICES ASSUME k + 1 <= n PROVE Replayed[k + 1] = f[k + 1]
    OBVIOUS
  <2>1. k + 1 \in 0 .. n /\ k + 1 # 0 /\ k + 1 - 1 = k /\ k <= n
    OBVIOUS
  <2>2. f[k + 1] = Replay(moves[k + 1], f[k])
    BY <1>1, <2>1 DEF IsReplay
  <2>3. Replayed[k + 1] = Replay(moves[k + 1], Replayed[k])
    BY <1>2, <2>1 DEF IsReplay
  <2> QED
    BY <1>4, <2>1, <2>2, <2>3
<1>5. n \in S
  <2>1. n \in Nat
    OBVIOUS
  <2> HIDE DEF S, n
  <2> QED
    BY <1>3, <1>4, <2>1, EveryNumber
<1> QED
  BY <1>1, <1>5 DEF ReportReplays

\* One more move of the report is one more turn of the replay.
LEMMA ReplayGoesOn ==
  ASSUME TInv, ReplayInv, initial' = initial,
         NEW move, moves' = Append(moves, move), packages' = Replay(move, packages)
  PROVE  ReplayInv'
<1> DEFINE n == Len(moves)
<1>1. PICK f : IsReplay(f) /\ f[n] = packages
  BY DEF ReplayInv
<1> DEFINE g == [k \in 0 .. n + 1 |-> IF k <= n THEN f[k] ELSE packages']
<1>2. /\ n \in Nat /\ Len(moves') = n + 1
      /\ \A k \in 1 .. n : moves'[k] = moves[k]
      /\ moves'[n + 1] = move
  BY DEF TInv, TypeOK
<1>3. ASSUME NEW k \in 0 .. n + 1
      PROVE  g[k] = IF k = 0 THEN initial' ELSE Replay(moves'[k], g[k - 1])
  <2>1. CASE k = 0
    <3>1. k \in 0 .. n /\ k <= n
      BY <1>2, <2>1
    <3>2. f[k] = initial
      BY <1>1, <2>1, <3>1 DEF IsReplay
    <3> QED
      BY <2>1, <3>1, <3>2
  <2>2. CASE k \in 1 .. n
    <3>1. k \in 0 .. n /\ k # 0 /\ k <= n /\ k - 1 <= n /\ k - 1 \in 0 .. n + 1
      BY <1>2, <2>2
    <3>2. f[k] = Replay(moves[k], f[k - 1])
      BY <1>1, <3>1 DEF IsReplay
    <3>3. g[k] = f[k] /\ g[k - 1] = f[k - 1] /\ moves'[k] = moves[k]
      BY <1>2, <2>2, <3>1
    <3> QED
      BY <3>1, <3>2, <3>3
  <2>3. CASE k = n + 1
    <3>1. n \in 0 .. n + 1 /\ n <= n /\ ~ (n + 1 <= n) /\ n + 1 - 1 = n /\ n + 1 # 0
      BY <1>2
    <3>2. g[n + 1] = packages' /\ g[n] = packages
      BY <1>1, <2>3, <3>1
    <3> HIDE DEF g
    <3> QED
      BY <1>2, <2>3, <3>1, <3>2
  <2> QED
    BY <1>2, <2>1, <2>2, <2>3
<1>4. g[Len(moves')] = packages'
  BY <1>2
<1>5. g = [k \in 0 .. Len(moves') |->
             IF k = 0 THEN initial' ELSE Replay(moves'[k], g[k - 1])]
  <2>1. g = [k \in 0 .. n + 1 |-> g[k]]
    OBVIOUS
  <2> HIDE DEF g
  <2> QED
    BY <1>2, <1>3, <2>1
<1> HIDE DEF g
<1> QED
  BY <1>4, <1>5 DEF ReplayInv, IsReplay

\* The report is complete and exact, however often packages are moved, and for
\* orders that list a package twice as well: replaying its moves on the order that was
\* passed in gives the order the caller's vector holds, at every moment of the repair.
THEOREM ReportAlwaysReplays == Spec => []ReportReplays
<1>1. Init => ReplayInv
  <2> SUFFICES ASSUME Init PROVE ReplayInv
    OBVIOUS
  <2>1. moves = <<>> /\ packages = initial /\ Len(moves) = 0
    BY DEF Init
  <2> DEFINE f == [k \in 0 .. 0 |-> initial]
  <2>2. f[0] = initial
    OBVIOUS
  <2>3. f = [k \in 0 .. 0 |-> IF k = 0 THEN initial ELSE Replay(moves[k], f[k - 1])]
    OBVIOUS
  <2> HIDE DEF f
  <2> QED
    BY <2>1, <2>2, <2>3 DEF ReplayInv, IsReplay
<1>2. TInv /\ ReplayInv /\ [Next]_vars => ReplayInv'
  <2> SUFFICES ASSUME TInv, ReplayInv, [Next]_vars PROVE ReplayInv'
    OBVIOUS
  <2>1. CASE MovePackage
    <3>1. PICK from, last \in DOMAIN packages :
            /\ ScanStopsAt(from) /\ ~ MissesDependency(from) /\ IsLastDependency(last, from)
            /\ packages' = MovedTo(packages, from, Destination(from, last))
            /\ moves' = Append(moves, Report(from, Destination(from, last)))
      BY <2>1 DEF MovePackage
    <3>2. Destination(from, last) = last
      BY <3>1, MoveIsBehind
    <3>3. packages' = Replay(Report(from, last), packages)
      BY <3>1, <3>2 DEF Replay, Report
    <3> QED
      BY <2>1, <3>1, <3>2, <3>3, ReplayGoesOn DEF MovePackage
  <2>2. CASE UNCHANGED <<initial, packages, moves>>
    BY <2>2 DEF ReplayInv, IsReplay
  <2> QED
    BY <2>1, <2>2 DEF Next, FindCycle, FindMissing, Finish, vars
<1>3. TInv /\ ReplayInv => ReportReplays
  BY ReplayIsReplayed DEF TInv, TypeOK
<1> QED
  BY <1>1, <1>2, <1>3, InitTyped, NextTyped, PTL DEF Spec

(***************************************************************************)
(* Why a cycle is reported.  Between two visits of one order, every        *)
(* package that moved did so behind a dependency; that dependency has      *)
(* moved as well or the order has not come back.  So when it has, the      *)
(* packages that moved depend on each other in a circle.  For orders that  *)
(* list no package twice.                                                  *)
(***************************************************************************)

\* x comes before y.
Before(order, x, y) ==
  \E i, j \in DOMAIN order : i < j /\ order[i] = x /\ order[j] = y

\* A move takes one package behind another and leaves the rest in their order.
LEMMA MoveKeepsTheRest ==
  ASSUME NEW S, NEW s \in Seq(S), NEW from \in 1 .. Len(s), NEW to \in 1 .. Len(s),
         from < to, IsInjective(s), NEW t, t = MovedTo(s, from, to)
  PROVE  /\ IsInjective(t)
         /\ ToSet(t) = ToSet(s)
         /\ \A x, y : x # s[from] /\ Before(s, x, y) => Before(t, x, y)
         /\ Before(s, s[from], s[to])
         /\ Before(t, s[to], s[from])
<1>1. /\ t \in Seq(S) /\ Len(t) = Len(s)
      /\ \A k \in 1 .. Len(s) :
           t[k] = IF k < from \/ k > to THEN s[k] ELSE IF k = to THEN s[from] ELSE s[k + 1]
  BY MovedBehind
<1>2. DOMAIN s = 1 .. Len(s) /\ DOMAIN t = 1 .. Len(s) /\ Len(s) \in Nat
  BY <1>1
<1> DEFINE new(i) == IF i = from THEN to ELSE IF i > from /\ i <= to THEN i - 1 ELSE i
           old(k) == IF k = to THEN from ELSE IF k >= from /\ k < to THEN k + 1 ELSE k
<1>3. \A i \in DOMAIN s : new(i) \in DOMAIN t /\ t[new(i)] = s[i]
  BY <1>1, <1>2
<1>4. \A k \in DOMAIN t : old(k) \in DOMAIN s /\ t[k] = s[old(k)]
  BY <1>1, <1>2
<1>5. \A k, l \in DOMAIN t : old(k) = old(l) => k = l
  BY <1>2
<1>6. \A i, j \in DOMAIN s : i < j /\ i # from => new(i) < new(j)
  BY <1>2
<1>7. new(to) = to - 1 /\ new(from) = to /\ from \in DOMAIN s /\ to \in DOMAIN s
  BY <1>2
<1> HIDE DEF new, old
<1>8. IsInjective(t)
  BY <1>4, <1>5 DEF IsInjective
<1>9. ToSet(t) = ToSet(s)
  BY <1>3, <1>4 DEF ToSet
<1>10. ASSUME NEW x, NEW y, x # s[from], Before(s, x, y) PROVE Before(t, x, y)
  BY <1>3, <1>6, <1>10 DEF Before
<1>11. Before(s, s[from], s[to])
  BY <1>7 DEF Before
<1>12. Before(t, s[to], s[from])
  <2>1. /\ to - 1 \in DOMAIN t /\ to \in DOMAIN t /\ to - 1 < to
        /\ t[to - 1] = s[to] /\ t[to] = s[from]
    BY <1>2, <1>3, <1>7
  <2> QED
    BY <2>1 DEF Before
<1> QED
  BY <1>8, <1>9, <1>10, <1>11, <1>12

\* Of two packages listed once, one is before the other, and not both.
LEMMA BeforeIsTotal ==
  ASSUME NEW S, NEW s \in Seq(S), NEW x \in ToSet(s), NEW y \in ToSet(s), x # y
  PROVE  Before(s, x, y) \/ Before(s, y, x)
<1>1. PICK i \in DOMAIN s, j \in DOMAIN s : s[i] = x /\ s[j] = y
  BY DEF ToSet
<1>2. i \in Nat /\ j \in Nat /\ i # j
  BY <1>1
<1> QED
  BY <1>1, <1>2 DEF Before

\* Where no package is twice, of two packages only one comes before the other.
LEMMA BeforeIsStrict ==
  ASSUME NEW S, NEW s \in Seq(S), IsInjective(s), NEW x, NEW y, Before(s, x, y)
  PROVE  ~ Before(s, y, x)
<1> SUFFICES ASSUME Before(s, y, x) PROVE FALSE
  OBVIOUS
<1>1. PICK i, j \in DOMAIN s : i < j /\ s[i] = x /\ s[j] = y
  BY DEF Before
<1>2. PICK k, l \in DOMAIN s : k < l /\ s[k] = y /\ s[l] = x
  BY DEF Before
<1>3. i = l /\ j = k
  BY <1>1, <1>2 DEF IsInjective
<1>4. i \in Nat /\ j \in Nat
  BY <1>1
<1> QED
  BY <1>1, <1>2, <1>3, <1>4

\* The packages M are those that moved between the order o and now: what did not move is
\* before whatever it was before, and each package of M has a dependency that moved too
\* or that it has been moved behind.
Explains(M, o) ==
  /\ M # {} /\ M \subseteq Loaded
  /\ \A d \in Loaded \ M, x \in Loaded : Before(o, d, x) => Before(packages, d, x)
  /\ \A p \in M : \E d \in dependencies[p] \cap Loaded :
       d \in M \/ (Before(o, p, d) /\ Before(packages, d, p))

\* No package is twice, and every earlier order has the same packages.
OrdersInv ==
  /\ IsInjective(packages)
  /\ \A o \in previousOrders : IsInjective(o) /\ ToSet(o) = Loaded
  /\ outcome = "running" => \A o \in previousOrders : \E M : Explains(M, o)
\* A move keeps every order seen so far explained.
LEMMA MoveIsExplained ==
  ASSUME TInv, OrdersInv, MovePackage
  PROVE  OrdersInv'
<1> USE DEF TInv, OrdersInv
<1>1. PICK from, last \in DOMAIN packages :
        /\ ScanStopsAt(from) /\ ~ MissesDependency(from) /\ IsLastDependency(last, from)
        /\ packages' = MovedTo(packages, from, Destination(from, last))
  BY DEF MovePackage
<1>2. /\ outcome = "running" /\ dependencies' = dependencies
      /\ previousOrders' = previousOrders \cup {packages}
  BY DEF MovePackage
<1>3. from < last /\ packages' = MovedTo(packages, from, last)
  BY <1>1, MoveIsBehind
<1>4. packages \in Seq(PackageIds) /\ from \in 1 .. Len(packages) /\ last \in 1 .. Len(packages)
  BY DEF TypeOK
<1>5. PICK q, dep : q = packages[from] /\ dep = packages[last]
  OBVIOUS
<1>6. q \in Loaded /\ dep \in Loaded /\ q \in PackageIds /\ dep \in dependencies[q]
  BY <1>5, <1>1, <1>4 DEF Loaded, ToSet, IsLastDependency, DependencyPlaces
<1>7. dep # q
  BY <1>6, RepairAssumption
<1>8. /\ IsInjective(packages') /\ Loaded' = Loaded
      /\ \A x, y : x # q /\ Before(packages, x, y) => Before(packages', x, y)
      /\ Before(packages, q, dep) /\ Before(packages', dep, q)
  <2>1. IsInjective(packages)
    OBVIOUS
  <2>2. \A t : t = MovedTo(packages, from, last) =>
          /\ IsInjective(t) /\ ToSet(t) = ToSet(packages)
          /\ \A x, y : x # packages[from] /\ Before(packages, x, y) => Before(t, x, y)
          /\ Before(packages, packages[from], packages[last])
          /\ Before(t, packages[last], packages[from])
    BY <1>3, <1>4, <2>1, MoveKeepsTheRest
  <2> QED
    BY <1>5, <1>3, <2>2 DEF Loaded
<1>9. ~ Before(packages, dep, q)
  BY <1>4, <1>8, BeforeIsStrict
\* The order just left is explained by the one package that moved.
<1>10. ASSUME NEW o, o = packages PROVE \E M : Explains(M, o)'
  <2>1. \A d \in Loaded \ {q}, x \in Loaded : Before(o, d, x) => Before(packages', d, x)
    BY <1>8, <1>10
  <2>2. Before(o, q, dep) /\ Before(packages', dep, q)
    BY <1>8, <1>10
  <2>3. Explains({q}, o)'
    BY <1>2, <1>6, <1>8, <2>1, <2>2 DEF Explains
  <2> QED
    BY <2>3
\* An order that was explained by M is explained by M and the package that moved.
<1>11. ASSUME NEW o \in previousOrders PROVE \E M : Explains(M, o)'
  <2>1. PICK M : Explains(M, o)
    BY <1>2
  <2>2. o \in Seq(PackageIds) /\ ToSet(o) = Loaded
    BY DEF TypeOK
  <2>3. M \cup {q} # {} /\ M \cup {q} \subseteq Loaded'
    BY <1>6, <1>8, <2>1 DEF Explains
  <2>4. ASSUME NEW d \in Loaded \ (M \cup {q}), NEW x \in Loaded, Before(o, d, x)
        PROVE  Before(packages', d, x)
    BY <1>8, <2>1, <2>4 DEF Explains
  <2>5. ASSUME NEW p \in M, p # q
        PROVE  \E d \in dependencies[p] \cap Loaded :
                 d \in M \cup {q} \/ (Before(o, p, d) /\ Before(packages', d, p))
    <3>1. PICK d \in dependencies[p] \cap Loaded :
            d \in M \/ (Before(o, p, d) /\ Before(packages, d, p))
      BY <2>1 DEF Explains
    <3> QED
      BY <1>8, <3>1
  <2>6. dep \in M \cup {q} \/ (Before(o, q, dep) /\ Before(packages', dep, q))
    <3>1. ASSUME dep \notin M PROVE ~ Before(o, dep, q)
      BY <1>6, <1>9, <2>1, <3>1 DEF Explains
    <3>2. Before(o, q, dep) \/ Before(o, dep, q)
      BY <1>6, <1>7, <2>2, BeforeIsTotal
    <3> QED
      BY <1>8, <3>1, <3>2
  <2>7. \A p \in M \cup {q} : \E d \in dependencies[p] \cap Loaded :
          d \in M \cup {q} \/ (Before(o, p, d) /\ Before(packages', d, p))
    BY <1>6, <2>5, <2>6
  <2>8. Explains(M \cup {q}, o)'
    BY <1>2, <1>8, <2>3, <2>4, <2>7 DEF Explains
  <2> QED
    BY <2>8
<1>12. \A o \in previousOrders' : IsInjective(o) /\ ToSet(o) = Loaded'
  BY <1>2, <1>8 DEF Loaded
<1>13. ASSUME NEW o \in previousOrders' PROVE \E M : Explains(M, o)'
  <2>1. CASE o \in previousOrders
    BY <1>11, <2>1
  <2>2. CASE o = packages
    BY <1>10, <2>2
  <2> QED
    BY <1>2, <2>1, <2>2
<1> QED
  BY <1>8, <1>12, <1>13

\* Only moves and the memory of orders matter to it.
LEMMA OrdersInvKept ==
  ASSUME TInv, OrdersInv, [Next]_vars
  PROVE  OrdersInv'
<1> USE DEF OrdersInv
<1>1. CASE FindCycle
  BY <1>1 DEF FindCycle, Loaded
<1>2. CASE FindMissing
  BY <1>2 DEF FindMissing, Loaded
<1>3. CASE MovePackage
  BY <1>3, MoveIsExplained
<1>4. CASE Finish
  BY <1>4 DEF Finish, Loaded
<1>5. CASE UNCHANGED vars
  BY <1>5 DEF vars, Loaded, Explains
<1> QED
  BY <1>1, <1>2, <1>3, <1>4, <1>5 DEF Next

\* An order that comes back shows a circle of dependencies.
LEMMA ReturnShowsCycle ==
  ASSUME TInv, OrdersInv, outcome = "running", SeenBefore
  PROVE  Cyclic
<1>1. PICK M : Explains(M, packages)
  BY DEF OrdersInv, SeenBefore
<1>2. packages \in Seq(PackageIds) /\ IsInjective(packages)
  BY DEF TInv, TypeOK, OrdersInv
<1>3. ASSUME NEW p \in M PROVE dependencies[p] \cap M # {}
  <2>1. PICK d \in dependencies[p] \cap Loaded :
          d \in M \/ (Before(packages, p, d) /\ Before(packages, d, p))
    BY <1>1 DEF Explains
  <2> QED
    BY <1>2, <2>1, BeforeIsStrict
<1> QED
  BY <1>1, <1>3 DEF Explains, Cyclic

\* A repair of an order without repeated packages is refused only for a reason: a cycle is
\* reported only when there is one, a missing dependency only when it is missing.
THEOREM RefusalAlwaysJustified == Spec => [](IsInjective(initial) => RefusalIsJustified)
<1> DEFINE Inv == IsInjective(initial) => OrdersInv /\ RefusalIsJustified
<1>1. Init => Inv
  BY DEF Init, OrdersInv, RefusalIsJustified
<1>2. TInv /\ Inv /\ [Next]_vars => Inv'
  <2> SUFFICES ASSUME TInv, OrdersInv, RefusalIsJustified, [Next]_vars
               PROVE  RefusalIsJustified'
    BY OrdersInvKept DEF Next, vars, FindCycle, FindMissing, MovePackage, Finish
  <2>1. CASE FindCycle
    BY <2>1, ReturnShowsCycle DEF FindCycle, RefusalIsJustified, Cyclic, Loaded
  <2>2. CASE FindMissing
    <3>1. PICK i \in DOMAIN packages : MissesDependency(i)
      BY <2>2 DEF FindMissing
    <3>2. packages[i] \in Loaded /\ ~ dependencies[packages[i]] \subseteq Loaded
      BY <3>1 DEF Loaded, ToSet, MissesDependency
    <3>3. outcome' = "DependencyNotLoaded" /\ Loaded' = Loaded /\ dependencies' = dependencies
      BY <2>2 DEF FindMissing, Loaded
    <3> QED
      BY <3>2, <3>3 DEF RefusalIsJustified
  <2>3. CASE UNCHANGED vars
    BY <2>3 DEF vars, RefusalIsJustified, Cyclic, Loaded
  <2>4. CASE MovePackage \/ Finish
    BY <2>4 DEF MovePackage, Finish, RefusalIsJustified
  <2> QED
    BY <2>1, <2>2, <2>3, <2>4 DEF Next
<1>3. Inv => (IsInjective(initial) => RefusalIsJustified)
  OBVIOUS
<1> QED
  BY <1>1, <1>2, <1>3, InitTyped, NextTyped, PTL DEF Spec
=============================================================================
