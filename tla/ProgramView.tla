------------------------------ MODULE ProgramView ------------------------------
(***************************************************************************)
(* The vectors of a program: how compose() of src/composer.cpp fills them, *)
(* puts them in the order of their identities and takes the identity of    *)
(* the whole, and what find() and nodes_for() of src/program.cpp then say. *)
(* An identity is a hash, here a number that nothing foretells: any order  *)
(* of the identities is possible, and elements are pushed in any order.    *)
(* A vector of nodes holds their keys in node_by_key.                      *)
(***************************************************************************)
EXTENDS Naturals, Sequences, SequencesExt, FiniteSets

CONSTANTS Key,        \* keys of node_by_key
          PackageOf,  \* key |-> package of the node
          Edge,       \* edges that may be added: a record with its ends
          Cohort,     \* runtime cohorts the requirements may make
          MaxEdges    \* how often an edge is pushed, at most

ASSUME EdgeAssumption ==
  \A e \in Edge : e.before \in Key /\ e.after \in Key \ {e.before}
ASSUME KeyAssumption == "none" \notin Key

Package == {PackageOf[k] : k \in Key}

VARIABLES id,           \* node |-> its identity
          edge_id,      \* edge |-> its identity
          cohort_id,    \* cohort |-> its identity
          nodes, node_by_key,
          edges, cohorts,
          identity,     \* the program's: what it is taken of
          stage,
          found,        \* what find() gave: a key or "none", for each identity
          matched,      \* what nodes_for() gave for each package
          asked         \* all that the loops ever asked for: no step reads it

ids == <<id, edge_id, cohort_id>>
graph == <<nodes, node_by_key, edges, cohorts>>
vars == <<id, edge_id, cohort_id, nodes, node_by_key, edges, cohorts,
          identity, stage, found, matched, asked>>

(* One identity more than there are keys, for a node that is not there.    *)
Identity == 1..(Cardinality(Key) + 1)

-----------------------------------------------------------------------------
Init ==
  /\ id \in Injection(Key, Identity)
  /\ edge_id \in Injection(Edge, 1..Cardinality(Edge))
  /\ cohort_id \in Injection(Cohort, 1..Cardinality(Cohort))
  /\ nodes = <<>> /\ node_by_key = {}
  /\ edges = <<>> /\ cohorts = <<>>
  /\ identity = "none"
  /\ stage = "composing"
  /\ found = <<>> /\ matched = <<>>
  /\ asked = [nodes |-> {}, edges |-> {}, cohorts |-> {}]

(* A variant for the mutants: an action that is asked for twice is two.    *)
(* No more than two are pushed.                                            *)
AlwaysPush(k) ==
  IF Len(nodes) = 2
    THEN UNCHANGED <<nodes, node_by_key>>
    ELSE nodes' = Append(nodes, k) /\ node_by_key' = node_by_key \cup {k}

(* The node of a key is made once, however often the loops ask for it.     *)
PushNode(k) ==
  IF k \in node_by_key
    THEN UNCHANGED <<nodes, node_by_key>>
    ELSE nodes' = Append(nodes, k) /\ node_by_key' = node_by_key \cup {k}

AddNode(k) ==
  /\ stage = "composing"
  /\ edges = <<>> /\ cohorts = <<>>
  /\ PushNode(k)
  /\ asked' = [asked EXCEPT !.nodes = @ \cup {k}]
  /\ UNCHANGED <<ids, edges, cohorts, identity, stage, found, matched>>

(* A cohort is of one component, and components come one by one.           *)
AddCohort(c) ==
  /\ stage = "composing"
  /\ edges = <<>>
  /\ c \notin ToSet(cohorts)
  /\ cohorts' = Append(cohorts, c)
  /\ asked' = [asked EXCEPT !.cohorts = @ \cup {c}]
  /\ UNCHANGED <<ids, nodes, node_by_key, edges, identity, stage, found, matched>>

(* An edge between nodes that were looked up. Nothing here asks whether it *)
(* is there already: copies are left to std::unique.                       *)
AddEdge(e) ==
  /\ stage = "composing"
  /\ Len(edges) < MaxEdges
  /\ {e.before, e.after} \subseteq node_by_key
  /\ edges' = Append(edges, e)
  /\ asked' = [asked EXCEPT !.edges = @ \cup {e}]
  /\ UNCHANGED <<ids, nodes, node_by_key, cohorts, identity, stage, found, matched>>

(* The indices in I, from the one with the least key to the one with the   *)
(* greatest.                                                               *)
Arrangement(I, key) ==
  CHOOSE p \in Bijection(1..Cardinality(I), I) :
    \A i, j \in 1..Cardinality(I) : i < j => key[p[i]] <= key[p[j]]

Sorted(s, rank) ==
  LET p == Arrangement(DOMAIN s, [i \in DOMAIN s |-> rank[s[i]]])
  IN [i \in DOMAIN s |-> s[p[i]]]

(* What is at the indices in I, in the order it has.                       *)
Picked(s, I) ==
  LET p == Arrangement(I, [i \in I |-> i]) IN [i \in 1..Cardinality(I) |-> s[p[i]]]

(* std::unique and erase: of neighbours of one identity the first stays.   *)
Unique(s, rank) == Picked(s, {i \in DOMAIN s : i = 1 \/ rank[s[i - 1]] # rank[s[i]]})

(* A variant for the mutants: copies are looked for before the sort.       *)
SortedLast == Sorted(Unique(edges, edge_id), edge_id)

CanonicalEdges == Unique(Sorted(edges, edge_id), edge_id)

(* A variant for the mutants: nodes stay in the order of the loops.        *)
NodesAsPushed == nodes

CanonicalNodes == Sorted(nodes, id)

Ids(s, rank) == [i \in DOMAIN s |-> rank[s[i]]]

Publish ==
  /\ stage = "composing"
  /\ stage' = "published"
  /\ nodes' = CanonicalNodes
  /\ edges' = CanonicalEdges
  /\ cohorts' = Sorted(cohorts, cohort_id)
  /\ identity' = [nodes |-> Ids(nodes', id), edges |-> Ids(edges', edge_id),
                  cohorts |-> Ids(cohorts', cohort_id)]
  /\ UNCHANGED <<ids, node_by_key, found, matched, asked>>

-----------------------------------------------------------------------------
(* What std::lower_bound may return: the place where the identities begin  *)
(* not to be less, if there is such a place; any place if there is none.   *)
LowerBound(v) ==
  LET Splits(p) == /\ \A i \in 1..(p - 1) : id[nodes[i]] < v
                   /\ \A i \in p..Len(nodes) : id[nodes[i]] >= v
      places == 1..(Len(nodes) + 1)
  IN IF \E p \in places : Splits(p) THEN {p \in places : Splits(p)} ELSE places

(* find() and nodes_for() change nothing, so that any order of the calls   *)
(* will do: all identities are looked for, and then all packages.          *)
Find(v) ==
  /\ stage = "published"
  /\ DOMAIN found = 1..(v - 1)
  /\ \E p \in LowerBound(v) :
       found' = [u \in DOMAIN found \cup {v} |->
                   IF u # v THEN found[u]
                   ELSE IF p <= Len(nodes) /\ id[nodes[p]] = v THEN nodes[p]
                   ELSE "none"]
  /\ UNCHANGED <<ids, graph, identity, stage, matched, asked>>

NodesFor(p) ==
  /\ stage = "published"
  /\ DOMAIN found = Identity
  /\ p \notin DOMAIN matched
  /\ matched' = [q \in DOMAIN matched \cup {p} |->
                   IF q # p THEN matched[q]
                   ELSE Picked(nodes, {i \in DOMAIN nodes : PackageOf[nodes[i]] = p})]
  /\ UNCHANGED <<ids, graph, identity, stage, found, asked>>

Next ==
  \/ \E k \in Key : AddNode(k)
  \/ \E c \in Cohort : AddCohort(c)
  \/ \E e \in Edge : AddEdge(e)
  \/ Publish
  \/ \E v \in Identity : Find(v)
  \/ \E p \in Package : NodesFor(p)

Spec == Init /\ [][Next]_vars

-----------------------------------------------------------------------------
Ascending(s) == \A i, j \in DOMAIN s : i < j => s[i] < s[j]

(* A list with the identity of each member of S, once and in order.        *)
Lists(list, rank, S) == Ascending(list) /\ ToSet(list) = {rank[x] : x \in S}

(* The order in which the loops came to the nodes, edges and cohorts, and  *)
(* how often they asked for a node or an edge, leaves no trace: identity,  *)
(* by which programs are told apart, lists all that was ever asked for and *)
(* nothing else, each once in ascending order. The vectors agree with it.  *)
CanonicalProgram ==
  stage = "published" =>
    /\ Lists(identity.nodes, id, asked.nodes)
    /\ Lists(identity.edges, edge_id, asked.edges)
    /\ Lists(identity.cohorts, cohort_id, asked.cohorts)
    /\ identity.nodes = Ids(nodes, id) /\ identity.edges = Ids(edges, edge_id)
    /\ identity.cohorts = Ids(cohorts, cohort_id)

(* find() gives every node of the program for its identity and nothing for *)
(* another: both ends of each edge are among what it gives.                *)
FindIsExact ==
  /\ \A v \in DOMAIN found :
       IF \E k \in node_by_key : id[k] = v
         THEN found[v] \in node_by_key /\ id[found[v]] = v
         ELSE found[v] = "none"
  /\ DOMAIN found = Identity =>
       \A i \in DOMAIN edges : {edges[i].before, edges[i].after} \subseteq ToSet(found)

(* nodes_for() and find() are two views of one program: over all packages, *)
(* nodes_for() gives each node once that find() gives, in one order.       *)
ViewsAgree ==
  DOMAIN matched = Package =>
    /\ ToSet(found) \ {"none"} = UNION {ToSet(matched[p]) : p \in Package}
    /\ \A p \in Package : Ascending(Ids(matched[p], id))

=============================================================================
