# A TLA+ model of libpkgtransaction

`libpkgtransaction` turns a sealed `resolution_result` and a `convergence_policy`
into an immutable `transaction_program`: the package operations to carry out
(build, check, install, upgrade, retain, remove, lifecycle programs) and the
partial order between them. It executes nothing. This directory holds a TLA+
specification of the library, the TLC runs that check it on small instances, and
TLAPS proofs of theorems about it for every instance.

Paths in the module comments and in this file are those of the repository
(`src/composer.cpp`); `PROJECT.json` has one more `src/` in front.

## 1. The system

| part | state it keeps | operations | what makes it correct |
|---|---|---|---|
| convergence policy (`src/model.cpp`) | mode, sorted removals | `preserve_unselected`, `remove_explicit`, `converge_exact` | no empty or repeating list of removals |
| transaction request (`src/request.cpp`) | resolution, policy, identity | `seal` | an explicit removal is installed, and nothing but a removal program wants it in the target |
| composer (`src/composer.cpp`) | `graph_state` (nodes by key), edges, cohorts, `runtime_component` | `compose`: classify, visit goals, remove, bind, refuse cycles, gather cohorts, order requirements, order phases, publish | the program is a function of the request, leaves the wanted state behind, is a partial order, and a refusal has a reason |
| strongly connected components (`src/composer.cpp:348-390`) | Tarjan's index, low link, stack | `strongly_connected`, `cyclic_component` | the components are the strongly connected ones, each once |
| program values (`src/program.cpp`) | nodes, edges, cohorts, sorted by identity | constructors with checks, `find`, `nodes_for` | no inadmissible value exists; `find` finds what is there |
| identities (`src/identity_support.cpp`) | an OpenSSL digest context | `text`, `number`, `finish` | distinct values get distinct encodings; a writer is finished once |
| errors (`src/error.cpp`) | code, message | | an error carries the code of its reason |
| libpkgresolve, libpkgstate, libpkgsource | | external: selections, reasons, requirement edges, goals, the installed snapshot | section 5 |

A caller makes a policy, calls `seal` and passes the request to `compose`. Both are
sequential, share nothing, and either return a value or throw; a thrown error leaves
nothing behind. Both take identities on the way, through an `identity_writer` each, and `compose`
searches three graphs with `strongly_connected`. There are no threads, no persistence and no clock, so
the hard part of this code is elsewhere:

* **Order.** The vectors of selections, edges and packages are sorted by
  identities that are SHA-256 values. The order in which the loops visit their elements
  is therefore arbitrary, and no test chooses it. Nothing in the program may depend
  on it.
* **Decisions made twice.** `seal` and `compose` have each their own copy of the test
  for "is there only to be removed"; the removal loop dereferences a pointer that
  `seal` looked at; the removal programs of an upgraded package are matched with an
  upgrade of another selection.
* **Graphs.** Run requirements may be cyclic and are condensed, build and lifecycle
  requirements are checked for cycles one kind at a time, requirements with no node at an end
  are dropped. What is left must order what it should, and nothing more.
* **Failure midway.** OpenSSL may fail in every identity that is taken, which is in the middle of
  almost every loop. Nothing of the half-made program may be seen, and no digest context may be
  lost or freed twice.
* **Identities stand for values.** Nodes are found by keys glued together from names, edges and
  programs are told apart by digests of variable-length fields, and `find` searches in the order of digests. All of
  it relies on one value, one text.
* **Inconsistent input.** A resolution is a value with public constructors; the
  tests forge some the resolver would not return, and the composer must refuse
  those that matter.

`PROJECT.json` lists these hazards one by one with their lines and properties.

## 2. The modules

    Condensation      strongly connected components, defined through closed sets
    Resolution        the input values, and what the resolver guarantees of them
    TransactionRequest   policy constructors and seal()         EXTENDS Resolution
    Composer          compose(), one stage per loop             EXTENDS TransactionRequest, Condensation
    Tarjan            strongly_connected(), call by call        EXTENDS Condensation
    ComponentSearch   what it promises, without its stack       EXTENDS Condensation
    TarjanProperties  its invariants, and the refinement        EXTENDS Tarjan, INSTANCE ComponentSearch
    IdentityEncoding  what each identity is taken of, and keys
    IdentityWriter    an identity_writer and its OpenSSL context   EXTENDS IdentityEncoding
    DigestText        hex forms: written, checked, compared
    ProgramView       the vectors of a program, find(), nodes_for()
    TransactionContract  what the library promises, no loops    EXTENDS Resolution, Condensation
    TransactionProperties  every property, and the refinement mapping   EXTENDS Composer
    CondensationProofs  reachability and components, any digraph   EXTENDS Condensation
    ComposerProofs    types, removals, what the loops have made   EXTENDS TransactionProperties, CondensationProofs
    ContractProofs    the refinement of TransactionContract     EXTENDS ComposerProofs
    ProgramProofs     what every published program is like      EXTENDS ContractProofs
    TarjanProofs      the search                                EXTENDS TarjanProperties, CondensationProofs
    DigestProofs      hex forms                                 EXTENDS DigestText
    WriterProofs      the digest context, encodings and keys    EXTENDS IdentityWriter
    ViewProofs        sorted vectors and lookups                EXTENDS ProgramView
    Resolver          a stand-in for the external resolver, for the runs only
    MCPolicy, MCOrdering, MCContract, MCTarjan, MCIdentity,
    MCDigestText, MCProgramView, MCFindings        the instances TLC checks

**Condensation.** A digraph is a set of pairs. `Reaches` says that every closed set with
`v` in it has `w` in it, so nothing is recursive. It is what `strongly_connected` and
`cyclic_component` compute, and what Composer uses; that they compute it is what module Tarjan is for.

**TransactionRequest.** `resolution` is any resolution a caller may hold. `stage` tells
what runs next and `todo` what the running loop has still to visit. `RemoveExplicit`
refuses an empty and a repeating list; `CheckRemoval` is an iteration of the loop of
`seal`; `FinishSeal` makes the request. `Throw` is a thrown error.

**Composer.** `nodes`, `edges`, `cohorts` and `runtime_component` are the locals of
`compose`. Every loop is a stage; an action per iteration takes *any* element of `todo`:

| stage | action | code |
|---|---|---|
| classify | `Classify` | `composer.cpp:400-435` |
| goals | `VisitGoal` | 437-453 |
| removals | `RemoveInstalled` | 455-470 |
| bind | `Bind` | 472-494 |
| cycles | `RefuseCycle`, `BeginCohorts` | 496-530 |
| cohorts | `GatherCohort` | 532-558 |
| requirements | `OrderRequirement` | 592-617 |
| phases | `OrderPhases` | 619-639 |
| removal_phases | `OrderRemovalPhases` | 640-657 |
| (end) | `Publish` | 659-672 |

When a request has several reasons to be refused, which of a loop's errors is thrown
depends on the order of hashes, and here on the element chosen. A `std::optional` node is a set of at most one node;
`RemovalLifecycleTarget` is the union of the two lookups, and two members are the
contradiction the code throws for. A null dereference is the stage `undefined`.
`NodeAdmitted` is the constructor of `transaction_node`.

What is abstracted: a node *is* its key (action, package, environment, authority,
lifecycle action), an edge is its ends with its witness or phase, and a set of them needs neither
sorting nor `unique`. Identities are thus assumed to be distinct for distinct values;
`Unambiguous` and `KeysDistinct` check the library's share of that. A
node's copy of the reasons is a function of its selection and is left out. Checks that
cannot fail are left out: a lifecycle node without a selection
(`composer.cpp:475-478`) is refused before by the constructor, the constructor of edges refuses equal ends, which the
callers leave out, and that of cohorts refuses repeated members, which are made unique before (`composer.cpp:554`).
Repeated witnesses are not: a requirement that the vector of edges holds twice is in the field `repeated` of a
resolution, and `CohortAdmitted` refuses a cohort with one. The loop over the requirements only repeats itself on it.

Wherever an identity is taken (a new node, a new edge, a cohort, the request, the program) the step may
end in `IdentityFails` instead: the error `identity_failed`, and the locals are gone. Every
other error of `compose` leaves through the same `Fail`.

**TransactionContract.** The library as its caller sees it: a variable `outcome` that is
pending, a program or a refusal. `Operations`, `RequirementOrder`,
`PhaseOrdering` and `Cohorts` give the program directly as a function of resolution and
policy; `Applies` gives each error code its reason. A program is published only if no
reason to refuse applies; a refusal names one that does. `TransactionProperties` maps
`nodes`, `edges`, `cohorts`, `stage` and `error` to `outcome`. `Break` is the failure of the external
digest, which needs no reason in the request.

**Tarjan.** The locals of `strongly_connected` are variables of the same names; a frame of `calls` is a call of the
recursive lambda, with the targets it has not looked at. A step calls `visit` (`VisitRoot`, `VisitTarget`), skips a
visited target (`SkipTarget`), or returns (`FinishVisit`), which lowers the caller's link and pops the component of
a root. Roots and targets come in any order, as they are ordered by hashes. A target that is repeated in an adjacency
vector is looked at once: looking again changes nothing. **ComponentSearch** is the promise: components come out one by
one, each after those it points to, until all are out; `TarjanProperties` maps `graph` and `result` to it.

**IdentityEncoding** writes each `*_identity` function as the sequence of byte strings that
reach `EVP_DigestUpdate`; a value is a record of words, and the constant `Spelling` gives the bytes of a word. `Words` are
the names and identities there are, by their kinds; the words of the code are `DomainName` ... `LifecycleName`. `Requests`, `Nodes`,
`Edges`, `Cohorts` and `Programs` are all values of these words. The
base of a digit and the width of a number are constants, 256 and 8 in the code; a number that does not fit loses its high
digits, and `Fits` says which do. **IdentityWriter** has one
object from its constructor to its destructor, with `context_` and the number of contexts allocated; each OpenSSL call
succeeds or fails. The destructor does not run for an object whose constructor threw. The functions
that take an identity write all fields and call `finish` once; a null `context_` in `finish` ends like a failed
finalization.

**DigestText** follows `require_sha256_hex` and `bytes_equal_hex` character by character; `HexForm` is what
`finish` prints. A `Character` is the number a `char` is compared as, signed or not. The code writes 32 bytes, the constant `Size` is the number.

**ProgramView** has what Composer abstracts: `nodes`, `edges` and `cohorts` are sequences, filled in any order under
any assignment of identities, an edge also more than once, and `Publish` sorts them, drops the copies and takes the
program's identity. `asked` is a history variable: the sets of all nodes, edges and cohorts that the loops asked for,
which no step reads and which the published lists are compared with. A sorted vector is one of the arrangements of its indices by identity (`Arrangement`). `std::lower_bound` returns the
partition point, and on a vector that has none any place: the standard leaves that undefined.

## 3. Properties

| property | in words |
|---|---|
| `TypeOK` | types; a cohort index points at a cohort that is there |
| `NoUndefinedRemoval` | the removal loop never dereferences a missing package |
| `RemovalExclusive` | nothing is removed and also installed, upgraded or retained in the target, as long as goal reasons come from goals |
| `FulfilledState` | carried out, a program leaves every wanted package at the selected version and every other one as the policy says |
| `LifecycleBracketed` | a lifecycle program is ordered around the one node that changes its package |
| `CohortsCondense` | cohorts are the runtime cycles, disjoint, with no run edge inside |
| `RuntimeClosureOrdered` | what a selection needs to run, transitively, is available before it is |
| `InputClosureOrdered` | an input and all it needs to run outside its cohort is available before the program that uses it |
| `ConstructionWaitsOnlyForInputs` | nothing else delays a build |
| `UnmixedPartialOrder` | the graph is acyclic unless requirements of several kinds, or a requirement and an upgrade, lie on one cycle |
| `ImplementsContract` | refinement of `TransactionContract` |
| `TypeOK` (Tarjan) | types; `next` counts the visited vertices, so no index is given twice |
| `StackHoldsUnfinished` | a visited vertex is on the stack or in a component, not both; the stack is in order of visit |
| `CallsAreSimplePath` | the recursion is a simple path on the stack, never deeper than the vertices are many |
| `LowLinksReach` | a low link can be reached, a returned vertex waits for one below it, and no arc leads from a finished component to an unfinished one |
| `CyclesRecognised` | `cyclic_component` is right about every component found |
| `ImplementsSearch` | refinement of `ComponentSearch`, its liveness included: the search ends with all components |
| `ContextOwned` | a context is there for every call and freed exactly once, whatever fails |
| `Unambiguous` | two values whose digests are taken of the same bytes are one value |
| `KeysDistinct` | the nodes of a request have distinct keys |
| `CanonicalText` | exactly the hex forms of digests become identities |
| `ComparisonExact` | bytes and text are equal exactly when the text is the bytes' hex form |
| `CanonicalProgram` | the identity and the vectors list all that the loops asked for and nothing else, each once in ascending order |
| `FindIsExact` | `find` gives each node for its identity, both ends of each edge, and nothing else |
| `ViewsAgree` | `nodes_for` over all packages gives each node once that `find` gives |

Properties that depend on what the resolver guarantees say so (`Genuine(resolution)`, see section 5).
`NoUndefinedRemoval`, `TypeOK` and `ImplementsContract` hold for forged
resolutions too, and `RemovalExclusive` for those that have a goal for each goal reason.

Each property of a passing run is sensitive to the code: `PROJECT.json` ("mutants") names a definition and a
variant of it, a bug this code had or could have (`RemoveOnlyTarget` is the binding before 1.1.0,
`ConstructionConsumer` the gating of check inputs before 4.1.0, `MemberBoundary` the cohort boundary before
4.1.0), under which TLC finds the property violated.

## 4. The runs

**policy** (`MCPolicy`; 433,966 states). Two packages; each may be missing, installed in
the exact version, in another release or from another source; every goal set of one or two
scopes and one of all lifecycle scopes; five requirement graphs; both preferences of the resolver; all three
policies with five removal lists. To these come forged resolutions in which the removal program asked for is that of the
catalog's package although one is installed: there a package is classified to be kept and is removed, and only the
binding of the program stops it. Two packages suffice: the rules of
classification and removal relate a package to itself and to one that needs it.

**ordering** (`MCOrdering`; 263,086 states). Three packages, every set of at most
three requirements among all run and build requirements, checks and `pre_install` inputs of the
package asked for and one self requirement (at most two when only its run scope is asked for), and every set of at most two more on top of a
two-package cohort. One of the packages may be installed, in the exact or another version;
nothing is installed when there are four requirements. Three packages are the
fewest with something before, in and after a cohort; four requirements give a cohort with one requirement
going in and one going out.

**contract** (`MCContract`; 182,060 states). Resolver results, and results changed
in one place: a goal added, a source changed, reasons changed, a requirement repeated, the snapshot changed. Every
error code of `seal` and `compose` is reached in this run. Whether the check program of a source is missing is
varied only where a check is a goal, the one place the code looks at it.

**tarjan** (`MCTarjan`; 125,660 states). Every digraph of three vertices, loops included, and all 792 of four
with five arcs and no loop. Two cycles of two vertices and a way from one to the other take four vertices and five
arcs: there an arc meets a finished component while a caller waits on the stack.

**identity** (`MCIdentity`; 5,463 states). 114 values of all five domains, in base 3 with two digits a number, spelled so that
one word is the beginning of another, names look like lengths, and identities of different kinds have the same hex
form. OpenSSL fails at each call.

**digest_text** (`MCDigestText`; 163,017 states). Digests of two bytes and texts within two characters of a
hex form, or cut or grown; the characters are the first and last of each range of hex digits and those just outside, in both
cases, and two bytes beyond 127, one negative as a signed `char` is. Characters are looked at one by one, so two positions and two bytes are all that can interact.

**program_view** (`MCProgramView`; 584,064 states). Three nodes of two packages, three edges of which three are pushed, copies
included, two cohorts, in every order of identities and of pushes; one identity more than there are nodes, which falls before, between or after them.

**partial_order, lifecycle_cycles, requirements_projected** (`MCFindings`). Three statements of the
documentation that TLC refutes; section 7.

The runs say `CHECK_DEADLOCK FALSE` because the operation ends: a finished or failed `compose` does nothing
more.

**Fairness.** `Tarjan` has weak fairness of `Next`: it is one function call, and a sequential function that was called
goes on. The other modules have safety properties only and state none. That `seal` and `compose` end needs no run: each loop
walks a collection that its body leaves alone.

## 5. What is assumed

Resolutions come from libpkgresolve, which is not in this repository. `IsResolution`
is what its constructors admit. `Genuine` is what its results are seen to
guarantee, from the tests and the fixtures:

* an edge's ends are selections, and the required one has the requirement among its reasons;
* goal members are target selections, and a goal reason comes from a goal;
* run edges stay in an environment, build and check inputs are in the build environment, lifecycle requirements in the target;
* a selection agrees with its authority, and an installed one with the snapshot;
* package, environment and authority kind name one selection, and every selection has a reason;
* one selection of a package is wanted in the target; removal programs of an installed package are those it was installed with.

`RunIsWanted` stands beside it: a target selection that is there only to be built, checked or removed has no run
requirement. Only `ConstructionWaitsOnlyForInputs` needs it, and its proof showed the need: if such a selection had one, its
build would wait for what it needs to run in the target, because the run boundary of a selection that is not placed is its
build (`composer.cpp:580-589`).

`RemovalExclusive` needs only the second of these (`GoalsJustify`): that a selection with nothing but removal goals for its reasons
has those goals. Without it a catalog selection with such a reason and no goal would be kept, and its package removed, in one program.

No action depends on `Genuine` or `RunIsWanted`. `Resolver` builds results that satisfy both. `IsResolution` says too that a
resolution has finitely many edges: it holds them in a vector, which may have some of them more than once (`repeated`).

## 6. What is proved

TLAPS proves what follows for all sets of packages, identities and versions, all resolutions (also infinite sets of them),
removal lists, digraphs and sizes. The assumptions are the types of what a caller passes: `ResolutionsAssumption`,
`RemovalListsAssumption`, `GraphsAssumption`, `SizeAssumption`, `InputsAssumption`, `EdgeAssumption` (the ends of an edge are keys) and
`KeyAssumption` (what stands for a null pointer is no key). Of what is written, `BaseAssumption`, `SpellingAssumption`,
`WordsAssumption`, `SizesAssumption`, `SeparatorAssumption`, `ValuesAssumption` and `OneGraphAssumption`, which WriterProofs below explains.
TLC evaluates all of them, each in the runs of its module.

**ComposerProofs**: types and removals.

* `TypeCorrect`: `Spec => []TypeOK`. The inductive invariant is `TypeInv`, which adds
  `TodoOK`: what is left in `todo` is of the kind that the stage's iteration takes. Without it
  nothing is known of the element an iteration visits. The step is proved per loop, with a lemma for
  what each helper makes (`SelectedNodeType` ... `RuntimeComponentsType`), and `FailKeepsTypes` and
  `IdentityFailsKeepsTypes` for an error in any of them.
* `RemovalDefined`: `Spec => []NoUndefinedRemoval`. `RemovalInv` adds that in `seal` each explicit removal
  is either still to be looked at or `Removable`, which carries the outcome of `seal`
  up to the removal loop of `compose`.
* The same invariant has that every node is `Justified`: a removal by `Removals`, a target operation by a
  selection with a reason for it. `RemovalsUnwanted` shows that the two exclude each other, policy by
  policy, but for one case; this is where the two copies of the removal-only test are compared. The case that is left is that of a catalog
  selection, which is classified without that test (`composer.cpp:405`).

**ComposerProofs, ContractProofs**: the refinement of `TransactionContract`.

* `ContractKept`: `Spec => ImplementsContract`. `RemovalInv` does not say what the variables *are*, so the invariant is
  `ContractInv == RemovalInv /\ Made`: for the elements a loop has visited, `nodes`, `edges`, `cohorts` and
  `runtime_component` have all that these bring, and nothing else, in whatever order they were visited; and what
  a loop checks of an element holds of those it has visited. `InitMade` and `StepMade` prove it inductive, one lemma per loop.
  Then `InitSettles` and `StepSettles` map each step to a step of the contract or to none: at `Publish` every loop has
  visited everything, so the outcome is the contract's `Program` and no reason to refuse is left
  (`ActionsAgree`, `WantingIs`, `GraphsAlike`, `PhaseKinds` compare the code's loops with the contract's sets); at a `Fail` the
  element visited is the reason. Nothing is assumed of the resolution but its type.

**ProgramProofs**: what every published program of a resolver result is like. Each theorem is `ContractInv => P`, with `Genuine`
used where P assumes it.

* `RemovalsExclusive` (`RemovalExclusive`) has the case left by `RemovalsUnwanted`: such a selection has a goal, the goal a
  removal program, and the program no installed package it could be bound to, so nothing is published (`NoRemovalRootComes`).
* `StateFulfilled` (`FulfilledState`), `ProgramsBracketed` (`LifecycleBracketed`), `CyclesCondensed` (`CohortsCondense`).
* `ClosureOrdered` (`RuntimeClosureOrdered`) and `InputsOrdered` (`InputClosureOrdered`): a way of any length through the requirements is a
  way through the program. The argument is by a closed set: the selections all of whose nodes come before, with those of the
  first component, are closed under run requirements. `RequiredIsAvailable` is what keeps a link from being lost: the resolver gives what
  is required a reason, and the reason gives it a node.
* `BuildsWaitForInputs` (`ConstructionWaitsOnlyForInputs`), backwards along the arcs from a build: `WaitsForInput`. This needs `RunIsWanted`.
* `UnmixedIsPartialOrder` (`UnmixedPartialOrder`). A cycle of nodes has a requirement in it, because phases only rise
  (`PhaseRises`, `CycleHasRequirement`). Whatever a node comes after, its selection needs (`ArcNeeds`; a removal stands for the
  installed selection, an upgrade is tied to it by `Replacements`), so that requirement lies on a cycle of what selections need
  (`OrderCycleNeeds`), which by `Unmixed` is of its kind all around (`OneKindAround`). A run cycle is one component, inside which nothing is ordered;
  a lifecycle cycle was refused (`CycleIsOfInputs`); inputs are in the build environment, so that a cycle of
  check or build requirements passes through builds only (`CycleIsOfBuilds`), all of the catalog, and was refused too.

**CondensationProofs** has what these and Tarjan share of reachability and components (`ReachesTransitive`, `SameComponent`,
`ReachesByAnArc`, `InnerArcIsCyclic`, `WayBackIsCycle`): there are no paths in the definitions, so an induction over a path is a closed set.

**TarjanProofs**: the search, on every set of digraphs. None of its invariants is inductive alone; `SearchInv` is their conjunction with

* `IndexDistinct`, by which an index names one vertex, and `TargetsAreArcs`;
* `ArcsFollowed`: an arc that a call has looked at leads to a visited vertex, and the low link of its source knows of it. When a
  root is popped, no arc leads from its part of the stack to below it (`FromOnIsClosed`);
* `LowCovers`: a call has taken over what the calls it made have found. So a vertex that has returned can reach the call
  it is above (`FromOnReaches`), and what is popped is connected;
* `FoundComponents`: what was popped are components (`FromOnIsComponent`).

TLC checked `SearchInv` on the run's graphs before it was proved. From it follow `SearchTypeCorrect`, `StackCorrect`,
`RecursionBounded`, `LowLinksCorrect`, `CyclesAreRecognised`; `SearchIsSafe`, that every step is a step of ComponentSearch or none;
and `SearchIsComplete`, that when the loop is through all components have been found.

**DigestProofs**: `FormsAccepted` and `ComparesExactly`, for digests of any size. `TextInv` has, at each position of the loops, what the characters before it
have been found to be; the two nibbles of a byte and the two digits of its form determine each other (`DigitOfNibble`, `NibbleOfDigit`).

**WriterProofs**: `WriterOwnsContext`, `StreamsTellValues` and `KeysTellNodes`.

* `ContextOwned`: `WriterInv` has the stages in which the writer has the one context.
* `Unambiguous`, for lists and names of any length. `EncodingInv` says that what the digest has been given, followed by what has still to be written, are the
  bytes of the value. The rest is about bytes: each field ends where it ends, whatever follows it. `Same(s, u, t, v)` says that s and then u are the bytes of t and
  then v; for each kind of field a lemma concludes that the fields are one and so are u and v: `NumberSplits` (a number that fits is told by its digits,
  `DigitsTell`), `TextSplits` (the length comes first), `TextsSplit` (a list whose length is known), `ListingSplits`, `OptionalSplits`
  (the flag 0 is not the flag 1), `ScopeSplits`. `RequestsTold` ... `ProgramsTold` put the fields of each domain together, and `ValueBegins`
  tells the domains from each other by the first text.
* `KeysDistinct`: the first separator ends the identity (`NameSplits`), a bare action is not an action that something follows
  (`RestsDiffer`), and the action tells whether the identity is a selection's or an installed package's.
* What they need: within a vocabulary, and within the identities of a kind, different words are spelled differently (`SpellingAssumption`,
  `WordsAssumption`; across kinds they may be alike); sizes fit 64 bits (`SizesAssumption`, and `ListOf` for lists); identities and the names
  of actions contain no slash (`SeparatorAssumption`); the nodes are of one request, removals are the nodes of installed packages,
  and a selection or installed package has one environment (`OneGraphAssumption`: `add_node` and `add_installed_node` make them so, `composer.cpp:251-291`).
* `FlattenSeq` and `Shifted` are recursive, and induction is over sets: a set of numbers that has 0 and each successor is all of them
  (`AllNumbers`), a set of sequences that has the empty one and each longer by one is all of them (`AllSequences`). `FlattenConcat` and `ShiftedIs`
  are what the recursions compute.

**ViewProofs**: `PublishedIsCanonical`, `FindGivesWhatIsThere` and `ViewsAreOne`, for vectors of any length. `ViewInv` says that the
vectors hold exactly what was asked for, that they are in order once published, and that each answer given so far is exact. Any indices can be arranged by their keys, one with a
lesser key or, among equal ones, first going first (`ArrangementSorts`); so the sort keeps the elements and makes them
rise (`SortedIs`), and there dropping neighbours leaves each once (`UniqueIs`). In a vector in order the place of a node is the
partition point (`PlaceFound`).

Only model-checked:

* The liveness in `ImplementsSearch`: fairness and ENABLED are out of the prover's reach.

Every safety property of section 3 is proved.

`Resolver` has a recursive operator and is used by the runs only.

## 7. What was found

1. `DESIGN.md:90`: "The graph is a partial order." It need not be: when *a* needs *b* to build,
   *b* needs *c* to run and *c* needs *b* to build, a program with a cycle is published. Cycles are
   looked for one kind of requirement at a time (`composer.cpp:523-530`). `UnmixedPartialOrder` is what does hold.
2. `DESIGN.md:106`: "Lifecycle-requirement cycles are refused." They are looked for between
   selections, and an upgraded package has two: if the *a* that goes needs *b* for `pre_remove` and
   *b* needs the *a* that comes for `pre_install`, the two meet at the upgrade and
   the program has a cycle of lifecycle requirements and phases.
3. `README.md:12-13`: requirements crossing a cohort are projected onto its complete boundary. Only run
   requirements are; a build that needs a member of a cohort does not wait for the other members, without which
   its input does not run. `InputClosureOrdered` therefore leaves the input's own cohort out.

## 8. Not modelled, and the plan

Not modelled:

* The execution of a program. The library executes nothing, and `TESTING.md` leaves it to callers
  such as `pkgctl`; whether an installed package that is retained for building may be removed from the target meanwhile is theirs to say.
* SHA-256, which is OpenSSL's: it is taken to be injective on what is written, and its order to be any.
* Allocation failure, which may end any step as `identity_failed` may.
* Messages, formatting, accessors, comparison of policies, build and packaging scripts.

Planned, in order of importance:

1. That the assumptions of IdentityWriter on the nodes of one request follow from Composer's invariant, so that
   `KeysDistinct` can be stated of the composer's own nodes.
2. Composer and ProgramView composed: the vectors the loops fill, sorted, are the sets that Composer publishes.
