---------------------------- MODULE Availability ----------------------------
(***************************************************************************)
(* inspect_package_availability (load_order.rs): what an editor shows of   *)
(* the packages it has before it builds a load order of them, in whatever  *)
(* order they come.  Issues of one package make those that depend on it    *)
(* unavailable, pass after pass until a pass finds nothing more.           *)
(***************************************************************************)
EXTENDS LoadOrder

Listed == {packages[k].id : k \in DOMAIN packages}

\* by_package_id: the last package with the id.
ById(p) ==
  packages[CHOOSE k \in DOMAIN packages :
             /\ packages[k].id = p
             /\ \A j \in DOMAIN packages : packages[j].id = p => j <= k]

Issue(code, package, related) == [code |-> code, package |-> package, related |-> related]

\* The packages with an issue of severity Error: an incompatibility is a warning.
Errored(issues) ==
  {i.package : i \in {j \in issues : j.code # "IncompatiblePackage"}}

\* The dependencies each package declares.
Declared == UNION {{<<packages[k].id, packages[k].dependencies[i]>> :
                      i \in DOMAIN packages[k].dependencies} : k \in DOMAIN packages}

\* What is found looking at each package once.
DirectIssues ==
  {Issue("MissingDependency", e[1], e[2].package) :
     e \in {e \in Declared : e[2].package \notin Listed}}
  \cup
  {Issue("DependencyVersionMismatch", e[1], e[2].package) :
     e \in {e \in Declared : /\ e[2].package \in Listed
                             /\ ById(e[2].package).version \notin e[2].versions}}
  \cup
  UNION {{Issue("IncompatiblePackage", packages[k].id, x.package) :
            x \in {x \in packages[k].incompatibilities :
                     x.package \in Listed /\ ById(x.package).version \in x.versions}}
           : k \in DOMAIN packages}

\* Mutant: only packages listed earlier pass their errors on.
PassInOrder(issues) ==
  issues \cup
  UNION {{Issue("DependencyUnavailable", packages[k].id, packages[j].id) :
            j \in {j \in 1 .. k - 1 : /\ packages[j].id \in Errored(issues)
                                      /\ \E e \in Declared : /\ e[1] = packages[k].id
                                                             /\ e[2].package = packages[j].id}}
           : k \in DOMAIN packages}

\* One pass over the packages: errored is what it was at the start of the pass.
Pass(issues) ==
  issues \cup {Issue("DependencyUnavailable", e[1], e[2].package) :
                 e \in {e \in Declared : e[2].package \in Errored(issues)}}

\* The issues after n passes.  Each pass that adds an issue but the last brings a package
\* its first error, so that there are no more passes than packages.
IssuesAfter[n \in Nat] == IF n = 0 THEN DirectIssues ELSE Pass(IssuesAfter[n - 1])

Issues == IssuesAfter[Len(packages)]

---------------------------------------------------------------------------
(* Properties.                                                             *)

\* A set of packages with all that they need among themselves.
SelfSufficient(S) ==
  \A e \in Declared : e[1] \in S =>
    e[2].package \in S /\ ById(e[2].package).version \in e[2].versions

\* The packages without an error are the largest set of packages that has all it needs,
\* in any order of the packages: none is called available whose dependency is not, none
\* is refused for nothing, and the loop has ended (load_order.rs:493-533).  The inspection
\* comes before the build, which does not change its arguments.
AvailableIsLargestSelfSufficient ==
  LET available == Listed \ Errored(Issues) IN
  phase = "packages" /\ next = 1 =>
    /\ SelfSufficient(available)
    /\ \A S \in SUBSET Listed : SelfSufficient(S) => S \subseteq available
    /\ Pass(Issues) = Issues

\* Inspection and build agree: what was built has no issue but the incompatibilities that
\* the editor policy lets in, and what build refused for a dependency or an
\* incompatibility either shows in the issues or is a matter of the order, a package being
\* listed before one it depends on.  Ids that are listed twice are left out: build refuses
\* them, inspection takes the last.
InspectionForetellsBuild ==
  LET late == \E j, k \in DOMAIN packages : \E i \in DOMAIN packages[j].dependencies :
                 j <= k /\ packages[j].dependencies[i].package = packages[k].id
      warned == \E i \in Issues : i.code = "IncompatiblePackage"
  IN /\ phase = "ready" => /\ Errored(Issues) = {}
                           /\ strict => ~ warned
     /\ phase = "failed" /\ Cardinality(Listed) = Len(packages) =>
          /\ error = "DependencyNotLoaded" => Errored(Issues) # {} \/ late
          /\ error = "DependencyVersionMismatch" => Errored(Issues) # {}
          /\ error = "IncompatiblePackages" => warned
=============================================================================
