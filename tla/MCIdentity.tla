------------------------------ MODULE MCIdentity ------------------------------
(***************************************************************************)
(* Values of every domain, spelled with the digits 0 and 1 so that all     *)
(* that can be confused is: one word is the beginning of another, the      *)
(* bytes of a name look like a length, and an identity of one kind has the *)
(* hex form of another's.                                                  *)
(***************************************************************************)
EXTENDS IdentityWriter, TLC, FiniteSets

MCSeparator == 2

(* One list of spellings for all vocabularies.                             *)
Spelled ==
  <<<<0>>, <<1>>, <<0, 0>>, <<0, 1>>, <<1, 0>>, <<1, 1>>,
    <<0, 0, 0>>, <<0, 0, 1>>, <<0, 1, 0>>, <<0, 1, 1>>>>

SpellAll(words) == [w \in {words[i] : i \in DOMAIN words} |->
                      Spelled[CHOOSE i \in DOMAIN words : words[i] = w]]

Hex == [w \in {"r", "s1", "s2", "i1", "n1", "n2", "e1", "e2", "w1", "w2", "c1"} |->
          IF w \in {"s1", "i1", "n1", "e1", "w1", "c1"} THEN <<0, 1>> ELSE <<1, 0>>]

MCWords ==
  [resolution |-> {"s1", "s2"}, name |-> {"a", "b", "aa", "ab"}, request |-> {"r"},
   selection |-> {"s1", "s2"}, installed |-> {"i1"}, node |-> {"n1", "n2"},
   edge |-> {"e1", "e2"}, cohort |-> {"c1"}, witness |-> {"w1", "w2"}]

MCSpelling ==
  SpellAll(<<"request/1", "node/1", "edge/1", "runtime-cohort/1", "program/1">>)
  @@ SpellAll(<<"preserve_unselected", "remove_explicit", "converge_exact">>)
  @@ SpellAll(<<"lifecycle", "build", "check", "install", "upgrade", "retain",
                "remove", "run", "target">>)
  @@ SpellAll(<<"pre_install", "post_install", "pre_remove", "post_remove">>)
  @@ SpellAll(<<"requirement", "phase">>)
  @@ SpellAll(<<"build_before_check", "build_before_target", "check_before_target",
                "pre_lifecycle_before_action", "action_before_post_lifecycle">>)
  @@ SpellAll(<<"selection", "installed">>)
  @@ SpellAll(<<"a", "b", "aa", "ab">>)
  @@ Hex

MCRequests ==
  [domain : {"request"}, resolution : {"s1", "s2"},
   mode : ModeName \ {"remove_explicit"}, removals : {<<>>}]
  \cup [domain : {"request"}, resolution : {"s1"}, mode : {"remove_explicit"},
        removals : {<<"a">>, <<"b">>, <<"aa">>, <<"ab">>, <<"a", "b">>,
                    <<"a", "aa">>, <<"a", "ab">>, <<"aa", "ab">>, <<"aa", "b">>,
                    <<"ab", "b">>, <<"a", "aa", "ab">>, <<"a", "aa", "ab", "b">>}]

(* s1 is in the target and s2 in the build environment.                    *)
MCNodes ==
  {n \in [domain : {"node"}, request : {"r"}, action : ActionName,
          environment : {"build", "target"}, authority : {"selection", "installed"},
          of : {"s1", "s2", "i1"}, lifecycle : LifecycleName \cup {"none"}] :
     /\ (n.action = "lifecycle") = (n.lifecycle # "none")
     /\ (n.action = "remove") = (n.of = "i1")
     /\ (n.authority = "installed") = (n.of = "i1")
     /\ (n.environment = "build") = (n.of = "s2")}

Ends == {<<"n1", "n2">>, <<"n2", "n1">>}

MCEdges ==
  {[domain |-> "edge", request |-> "r", kind |-> "requirement", before |-> x[1],
    after |-> x[2], scope |-> s, witness |-> w, phase |-> "none"] :
     x \in Ends, s \in LifecycleName \cup {"run", "build", "check"}, w \in {"w1", "w2"}}
  \cup
  {[domain |-> "edge", request |-> "r", kind |-> "phase", before |-> x[1],
    after |-> x[2], scope |-> "none", witness |-> "none", phase |-> p] :
     x \in Ends, p \in PhaseName}

Lists(v, w) == {<<>>, <<v>>, <<w>>, <<v, w>>}

MCCohorts ==
  [domain : {"cohort"}, request : {"r"}, members : Lists("n1", "n2") \ {<<>>},
   witnesses : Lists("w1", "w2") \ {<<>>}]

MCPrograms ==
  [domain : {"program"}, request : {"r"}, nodes : Lists("n1", "n2"),
   edges : Lists("e1", "e2"), cohorts : {<<>>, <<"c1">>}]

MCValues == MCRequests \cup MCNodes \cup MCEdges \cup MCCohorts \cup MCPrograms

=============================================================================
