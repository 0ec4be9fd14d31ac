---------------------------- MODULE IdentityWriter ----------------------------
(***************************************************************************)
(* An identity_writer of src/identity_support.cpp, from its construction   *)
(* to the end of its life, as the functions that take an identity use it:  *)
(* every field of one value is written, and finish() is called.  OpenSSL   *)
(* may fail in every call; an error unwinds through the destructor, except *)
(* from the constructor, whose object has none.                            *)
(***************************************************************************)
EXTENDS IdentityEncoding, Integers

CONSTANT Values   \* what identities are taken of

ASSUME ValuesAssumption ==
  Values \subseteq Requests \cup Nodes \cup Edges \cup Cohorts \cup Programs

(* The nodes are those of one request. A selection has one environment,    *)
(* and installed packages are what is removed.                             *)
ASSUME OneGraphAssumption ==
  \A m, n \in Values \cap Nodes :
    /\ m.request = n.request
    /\ (m.action = "remove") = (m.authority = "installed")
    /\ m.authority = n.authority /\ m.of = n.of => m.environment = n.environment

VARIABLES value,
          chunks,    \* what has still to be written
          stage,     \* where the writer is in its life
          context,   \* whether context_ points to a context
          live,      \* contexts allocated less contexts freed
          stream     \* what the digest has been given

vars == <<value, chunks, stage, context, live, stream>>

Init ==
  /\ value \in Values
  /\ chunks = Chunks(value)
  /\ stage = "unborn"
  /\ context = FALSE
  /\ live = 0
  /\ stream = <<>>

-----------------------------------------------------------------------------
(* No context, a context that cannot be initialised, or a writer.          *)
Construct ==
  /\ stage = "unborn"
  /\ \/ stage' = "failed" /\ UNCHANGED <<context, live>>
     \/ stage' = "failed" /\ live' = (live + 1) - 1 /\ UNCHANGED context
     \/ stage' = "writing" /\ context' = TRUE /\ live' = live + 1
  /\ UNCHANGED <<value, chunks, stream>>

Update ==
  /\ stage = "writing"
  /\ chunks # <<>>
  /\ \/ /\ chunks' = Tail(chunks)
        /\ stream' = stream \o Head(chunks)
        /\ UNCHANGED stage
     \/ stage' = "unwinding" /\ UNCHANGED <<chunks, stream>>
  /\ UNCHANGED <<value, context, live>>

(* A variant for the mutants: context_ dangles.                            *)
DanglingRelease == live' = live - 1 /\ UNCHANGED context

(* finish() frees the context and forgets it.                              *)
Release == live' = live - 1 /\ context' = FALSE

(* A digest that cannot be finalised, or has not the size of SHA-256,      *)
(* leaves the context to the destructor.                                   *)
Finish ==
  /\ stage = "writing"
  /\ chunks = <<>>
  /\ \/ context /\ Release /\ stage' = "identified"
     \/ stage' = "unwinding" /\ UNCHANGED <<context, live>>
  /\ UNCHANGED <<value, chunks, stream>>

(* A variant for the mutants: finish() is relied on to have cleaned up.    *)
NothingToFree == UNCHANGED live

FreeContext == live' = live - (IF context THEN 1 ELSE 0)

Destroy ==
  /\ stage \in {"identified", "unwinding"}
  /\ stage' = IF stage = "identified" THEN "done" ELSE "failed"
  /\ FreeContext
  /\ context' = FALSE
  /\ UNCHANGED <<value, chunks, stream>>

Next == Construct \/ Update \/ Finish \/ Destroy

Spec == Init /\ [][Next]_vars

-----------------------------------------------------------------------------
(* A writer that is under way has the one context that is allocated, so no *)
(* OpenSSL call gets a null or a freed one; whichever call fails, nothing  *)
(* is left allocated at the end, and nothing is freed twice.               *)
ContextOwned ==
  /\ stage = "writing" => context /\ live = 1
  /\ stage \in {"done", "failed"} => live = 0
  /\ live = IF context THEN 1 ELSE 0

Streams == [v \in Values |-> FlattenSeq(Chunks(v))]

(* Two values whose digests are taken of the same bytes are one value:     *)
(* whatever the lengths of the names, wherever a list ends, whichever      *)
(* optional field is missing, of one domain or of two.                     *)
Unambiguous ==
  stage = "identified" => \A v \in Values : Streams[v] = stream => v = value

(* The nodes of one request have different keys in node_by_key, although   *)
(* a key is nothing but names with a separator, and the keys of removals   *)
(* are made of other identities than those of the selections.              *)
KeysDistinct ==
  value.domain = "node" =>
    \A v \in {u \in Values : u.domain = "node"} : Key(v) = Key(value) => v = value

=============================================================================
