--------------------------- MODULE IdentityEncoding ---------------------------
(***************************************************************************)
(* What each identity is taken of: the fields that make_identity() of      *)
(* src/request.cpp and the *_identity() functions of src/composer.cpp      *)
(* write, as the byte strings that reach the digest, one for every         *)
(* EVP_DigestUpdate; and the keys of node_by_key.  A word is a text the    *)
(* code writes, a name or the hex form of an identity, and Spelling gives  *)
(* its bytes; the code counts Width = 8 digits in Base = 256.              *)
(***************************************************************************)
EXTENDS Naturals, Sequences, SequencesExt

CONSTANTS Base, Width,
          Spelling,    \* word |-> its bytes
          Words,       \* the texts that are identities and names, by their kinds
          Separator    \* the byte "/", which no name or hex form contains

ASSUME BaseAssumption == Base \in Nat \ {0, 1} /\ Width \in Nat \ {0}

DomainName == {"request/1", "node/1", "edge/1", "runtime-cohort/1", "program/1"}

ModeName == {"preserve_unselected", "remove_explicit", "converge_exact"}

ActionName ==
  {"build", "check", "install", "upgrade", "retain", "remove", "lifecycle"}

EnvironmentName == {"build", "target"}

AuthorityName == {"selection", "installed"}

EdgeKindName == {"requirement", "phase"}

ScopeName == {"run", "build", "check", "lifecycle"}

PhaseName == {"build_before_check", "build_before_target", "check_before_target",
              "pre_lifecycle_before_action", "action_before_post_lifecycle"}

LifecycleName == {"pre_install", "post_install", "pre_remove", "post_remove"}

Vocabularies ==
  {DomainName, ModeName, ActionName, EnvironmentName, AuthorityName, EdgeKindName,
   ScopeName, PhaseName, LifecycleName}

WordKind == {"resolution", "name", "request", "selection", "installed", "node",
             "edge", "cohort", "witness"}

Distinct(words) == \A v, w \in words : Spelling[v] = Spelling[w] => v = w

ASSUME SpellingAssumption ==
  /\ \A w \in DOMAIN Spelling : Spelling[w] \in Seq(0..(Base - 1))
  /\ \A names \in Vocabularies : names \subseteq DOMAIN Spelling /\ Distinct(names)

(* Two identities of one kind have different hex forms, two packages       *)
(* different names; across kinds anything may be spelled alike.            *)
ASSUME WordsAssumption ==
  /\ Words \in [WordKind -> SUBSET DOMAIN Spelling]
  /\ \A kind \in WordKind : Distinct(Words[kind])
  /\ "none" \notin Words["witness"]

-----------------------------------------------------------------------------
(* The fields of an identity_writer.                                       *)

(* n without its last k digits, n >> 8k in the code.                       *)
Shifted(n) ==
  LET shifted[k \in 0..Width] == IF k = 0 THEN n ELSE shifted[k - 1] \div Base
  IN shifted

(* The most significant digit first; a larger number loses its high ones.  *)
Digits(n) == [i \in 1..Width |-> Shifted(n)[Width - i] % Base]

Fits(n) == Shifted(n)[Width] = 0

Number(n) == <<Digits(n)>>

(* A variant for the mutants: a text is written without its length.        *)
BareText(w) == <<Spelling[w]>>

Text(w) == Number(Len(Spelling[w])) \o <<Spelling[w]>>

Boolean(b) == Number(IF b THEN 1 ELSE 0)

(* A size fits the 64 bits it is written in.                               *)
ASSUME SizesAssumption == \A w \in DOMAIN Spelling : Fits(Len(Spelling[w]))

Texts(words) == FlattenSeq([i \in DOMAIN words |-> Text(words[i])])

Listing(words) == Number(Len(words)) \o Texts(words)

(* An optional text is a flag, and the text if there is one.               *)
Optional(w) == IF w = "none" THEN Boolean(FALSE) ELSE Boolean(TRUE) \o Text(w)

(* A scope is its kind, and of a lifecycle requirement the action too.     *)
Scope(s) ==
  IF s \in LifecycleName
    THEN Text("lifecycle") \o Optional(s)
    ELSE Text(s) \o Optional("none")

-----------------------------------------------------------------------------
(* The five kinds of identity.                                             *)

ListOf(words) == {list \in Seq(words) : Fits(Len(list))}

Requests ==
  [domain : {"request"}, resolution : Words["resolution"], mode : ModeName,
   removals : ListOf(Words["name"])]

Nodes ==
  {n \in [domain : {"node"}, request : Words["request"], action : ActionName,
          environment : EnvironmentName, authority : AuthorityName,
          of : Words["selection"] \cup Words["installed"],
          lifecycle : LifecycleName \cup {"none"}] :
     n.of \in Words[n.authority]}

Edges ==
  [domain : {"edge"}, request : Words["request"], kind : EdgeKindName,
   before : Words["node"], after : Words["node"],
   scope : (ScopeName \ {"lifecycle"}) \cup LifecycleName \cup {"none"},
   witness : Words["witness"] \cup {"none"}, phase : PhaseName \cup {"none"}]

Cohorts ==
  [domain : {"cohort"}, request : Words["request"],
   members : ListOf(Words["node"]), witnesses : ListOf(Words["witness"])]

Programs ==
  [domain : {"program"}, request : Words["request"], nodes : ListOf(Words["node"]),
   edges : ListOf(Words["edge"]), cohorts : ListOf(Words["cohort"])]

RequestChunks(r) ==
  Texts(<<"request/1", r.resolution, r.mode>>) \o Listing(r.removals)

NodeChunks(n) ==
  Texts(<<"node/1", n.request, n.action, n.environment, n.authority, n.of>>)
  \o Optional(n.lifecycle)

EdgeChunks(e) ==
  Texts(<<"edge/1", e.request, e.kind, e.before, e.after>>)
  \o (IF e.scope = "none" THEN Boolean(FALSE) ELSE Boolean(TRUE) \o Scope(e.scope))
  \o Optional(e.witness)
  \o Optional(e.phase)

CohortChunks(c) ==
  Texts(<<"runtime-cohort/1", c.request>>) \o Listing(c.members) \o Listing(c.witnesses)

ProgramChunks(p) ==
  Texts(<<"program/1", p.request>>)
  \o Listing(p.nodes) \o Listing(p.edges) \o Listing(p.cohorts)

Chunks(v) ==
  IF v.domain = "request" THEN RequestChunks(v)
  ELSE IF v.domain = "node" THEN NodeChunks(v)
  ELSE IF v.domain = "edge" THEN EdgeChunks(v)
  ELSE IF v.domain = "cohort" THEN CohortChunks(v)
  ELSE ProgramChunks(v)

-----------------------------------------------------------------------------
(* The keys of node_by_key.                                                *)

ASSUME SeparatorAssumption ==
  \A w \in ActionName \cup LifecycleName \cup Words["selection"] \cup Words["installed"] :
    \A i \in DOMAIN Spelling[w] : Spelling[w][i] # Separator

Path(words) ==
  FlattenSeq([i \in DOMAIN words |->
                IF i = 1 THEN Spelling[words[i]]
                ELSE <<Separator>> \o Spelling[words[i]]])

(* A variant for the mutants: one key for all the lifecycle programs.      *)
ActionKey(n) == Path(<<n.of, n.action>>)

(* key() for a selection, installed_key() for an installed package.        *)
Key(n) ==
  IF n.lifecycle = "none" THEN Path(<<n.of, n.action>>)
  ELSE Path(<<n.of, n.action, n.lifecycle>>)

=============================================================================
