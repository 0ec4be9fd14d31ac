------------------------- MODULE TransactionContract -------------------------
(***************************************************************************)
(* What libpkgtransaction promises its caller, without its loops: a        *)
(* request has at most one program, the program is a function of the       *)
(* request alone, and a refusal names a reason that the request has.       *)
(* Nothing is published of a request that has a reason to be refused.      *)
(***************************************************************************)
EXTENDS Resolution, Condensation, Sequences, FiniteSets

CONSTANT RemovalLists   \* the vectors a caller may pass to remove_explicit

VARIABLES resolution, policy, outcome

Pending == [status |-> "pending"]
Refused(code) == [status |-> "refused", code |-> code]

-----------------------------------------------------------------------------
(* Which selections the target needs, and what is installed already.       *)

(* Needed in the target, to run or for a lifecycle program.                *)
Demanded(r, s) ==
  InTarget(r, s) /\ \E q \in r.reasons[s] : q.scope \notin {"build", "check"}

(* In the resolution only to carry removal programs.                       *)
RemovalRoot(r, s) ==
  /\ r.reasons[s] # {}
  /\ ~\E q \in r.reasons[s] : q.kind = "requirement" \/ q.scope \notin RemovalAction

PackageOf(r, s) == r.selections[s].package

Incoming(r) == {s \in DOMAIN r.selections : FromCatalog(r, s) /\ Demanded(r, s)}

Present(r, s) ==
  /\ PackageOf(r, s) \in DOMAIN r.installed
  /\ r.installed[PackageOf(r, s)] = r.selections[s].version

Kept(r, s) ==
  \/ s \in Incoming(r) /\ Present(r, s)
  \/ FromInstalled(r, s) /\ (~InTarget(r, s) \/ Demanded(r, s)) /\ ~RemovalRoot(r, s)

Built(r, s) ==
  /\ FromCatalog(r, s)
  /\ \/ ~InTarget(r, s)
     \/ \E q \in r.reasons[s] : q.scope \in {"build", "check"}
     \/ s \in Incoming(r) /\ ~Present(r, s)

Removed(r, p) ==
  IF p.mode = "remove_explicit" THEN p.removals
  ELSE IF p.mode = "preserve_unselected" THEN {}
  ELSE DOMAIN r.installed \
         {PackageOf(r, s) : s \in {t \in DOMAIN r.selections :
                                     Demanded(r, t) /\ ~RemovalRoot(r, t)}}

-----------------------------------------------------------------------------
(* The program.                                                            *)

Operation(r, s, action, lifecycle) ==
  [action |-> action, package |-> PackageOf(r, s),
   environment |-> r.selections[s].environment,
   selection |-> {s}, lifecycle |-> lifecycle]

Removal(p) ==
  [action |-> "remove", package |-> p, environment |-> "target",
   selection |-> {}, lifecycle |-> "none"]

Goals(r) == {g \in r.goals : g.selection \in DOMAIN r.selections}

Operations(r, p) ==
  LET S == DOMAIN r.selections
      absent == {s \in Incoming(r) : PackageOf(r, s) \notin DOMAIN r.installed}
      changed == {s \in Incoming(r) : s \notin absent /\ ~Present(r, s)}
  IN {Operation(r, s, "build", "none") : s \in {t \in S : Built(r, t)}}
     \cup {Operation(r, s, "install", "none") : s \in absent}
     \cup {Operation(r, s, "upgrade", "none") : s \in changed}
     \cup {Operation(r, s, "retain", "none") : s \in {t \in S : Kept(r, t)}}
     \cup {Operation(r, g.selection, "check", "none") :
             g \in {h \in Goals(r) : h.scope = "check"}}
     \cup {Operation(r, g.selection, "lifecycle", g.scope) :
             g \in {h \in Goals(r) : h.scope \in LifecycleAction}}
     \cup {Removal(q) : q \in Removed(r, p)}

Doing(N, s, actions) == {n \in N : n.selection = {s} /\ n.action \in actions}

(* A selection is available when it is in place, or else when it is built. *)
Available(N, s) ==
  LET placed == Doing(N, s, {"install", "upgrade", "retain"})
  IN IF placed # {} THEN placed ELSE Doing(N, s, {"build"})

RunGraph(r) == {<<e.issuer, e.required>> : e \in {f \in r.edges : f.scope = "run"}}

Group(r, N, s) == UNION {Available(N, t) : t \in ComponentOf(RunGraph(r), s)}

Gate(N, e) ==
  IF e.scope \in {"build", "check"} THEN Doing(N, e.issuer, {e.scope})
  ELSE {n \in Doing(N, e.issuer, {"lifecycle"}) : n.lifecycle = e.scope}

RequirementOrder(r, N) ==
  {x \in [before : N, after : N, witness : {{e} : e \in r.edges}, phase : {"none"}] :
     /\ x.before # x.after
     /\ \A e \in x.witness :
          IF e.scope = "run"
            THEN /\ e.required \notin ComponentOf(RunGraph(r), e.issuer)
                 /\ x.before \in Group(r, N, e.required)
                 /\ x.after \in Group(r, N, e.issuer)
            ELSE x.before \in Available(N, e.required) /\ x.after \in Gate(N, e)}

Mutates(n, actions) == n.environment = "target" /\ n.action \in actions

(* The removal program n runs is that of what m takes away.                *)
TakesAway(r, n, m) ==
  /\ Mutates(m, {"upgrade", "remove"})
  /\ \E s \in n.selection :
       /\ FromInstalled(r, s)
       /\ r.selections[s].authority.package = m.package
       /\ m.package \in DOMAIN r.installed
       /\ r.selections[s].authority.version = r.installed[m.package]

PhaseOf(r, n, m) ==
  LET same == n.selection = m.selection
      brings == Mutates(m, {"install", "upgrade"})
      brought == Mutates(n, {"install", "upgrade"})
  IN IF same /\ n.action = "build" /\ m.action = "check" THEN "build_before_check"
     ELSE IF same /\ n.action = "build" /\ brings THEN "build_before_target"
     ELSE IF same /\ n.action = "check" /\ brings THEN "check_before_target"
     ELSE IF \/ n.lifecycle = "pre_install" /\ same /\ brings
             \/ n.lifecycle = "pre_remove" /\ TakesAway(r, n, m)
       THEN "pre_lifecycle_before_action"
     ELSE IF \/ m.lifecycle = "post_install" /\ same /\ brought
             \/ m.lifecycle = "post_remove" /\ TakesAway(r, m, n)
       THEN "action_before_post_lifecycle"
     ELSE "none"

PhaseKind ==
  {"build_before_check", "build_before_target", "check_before_target",
   "pre_lifecycle_before_action", "action_before_post_lifecycle"}

PhaseOrdering(r, N) ==
  {x \in [before : N, after : N, witness : {{}}, phase : PhaseKind] :
     x.phase = PhaseOf(r, x.before, x.after)}

Cohorts(r, N) ==
  {[members |-> UNION {Available(N, s) : s \in C},
    witnesses |-> {e \in r.edges : e.scope = "run" /\ {e.issuer, e.required} \subseteq C}]
     : C \in CyclicComponents(RunGraph(r))}

Program(r, p) ==
  LET N == Operations(r, p) IN
  [status |-> "program", nodes |-> N,
   edges |-> RequirementOrder(r, N) \cup PhaseOrdering(r, N),
   cohorts |-> Cohorts(r, N)]

-----------------------------------------------------------------------------
(* The reasons to refuse.                                                  *)

Unchecked(r, s) ==
  LET sel == r.selections[s] IN
  ~FromCatalog(r, s) \/ sel.package # sel.authority.package
    \/ sel.version # sel.authority.version

TwoFates(r, p) ==
  \E n, m \in Operations(r, p) :
    /\ n # m
    /\ n.package = m.package
    /\ n.package \in DOMAIN r.installed
    /\ Mutates(n, {"upgrade"}) /\ Mutates(m, {"upgrade", "remove"})

Unattached(r, N, n) ==
  \A s \in n.selection :
    IF n.lifecycle \in InstallAction THEN Doing(N, s, {"install", "upgrade"}) = {}
    ELSE \/ ~FromInstalled(r, s)
         \/ ~\E m \in N :
              \/ TakesAway(r, n, m)
              \/ Mutates(m, {"upgrade"})
                 /\ m.package = r.selections[s].authority.package

BuildGraph(r) ==
  {<<e.issuer, e.required>> : e \in
     {f \in r.edges : /\ f.scope = "build"
                      /\ \A s \in {f.issuer, f.required} :
                           s \in DOMAIN r.selections /\ FromCatalog(r, s)}}

ProgramGraph(r) ==
  {<<e.issuer, e.required>> : e \in {f \in r.edges : f.scope \in LifecycleAction}}

Applies(r, p, code) ==
  LET N == Operations(r, p)
      checks == {g.selection : g \in {h \in Goals(r) : h.scope = "check"}}
  IN \/ /\ code = "unknown_installed_package"
        /\ p.mode = "remove_explicit" /\ ~(p.removals \subseteq DOMAIN r.installed)
     \/ /\ code = "selected_for_removal"
        /\ \E s \in DOMAIN r.selections :
             /\ InTarget(r, s) /\ ~RemovalRoot(r, s)
             /\ PackageOf(r, s) \in p.removals
     \/ /\ code = "inconsistent_authority"
        /\ \/ Goals(r) # r.goals
           \/ \E s \in checks : Unchecked(r, s)
           \/ \E n \in N : n.action = "lifecycle" /\ n.environment # "target"
           \/ TwoFates(r, p)
           \/ \E c \in Cohorts(r, N) :
                c.members = {} \/ c.witnesses \cap r.repeated # {}
     \/ /\ code = "missing_check_program"
        /\ \E s \in checks : ~r.selections[s].authority.check_program
     \/ /\ code = "unbound_lifecycle"
        /\ \E n \in N : n.action = "lifecycle" /\ Unattached(r, N, n)
     \/ code = "construction_cycle" /\ HasCycle(BuildGraph(r))
     \/ code = "lifecycle_cycle" /\ HasCycle(ProgramGraph(r))

ErrorCode ==
  {"unknown_installed_package", "selected_for_removal", "inconsistent_authority",
   "missing_check_program", "unbound_lifecycle", "construction_cycle",
   "lifecycle_cycle"}

Refusals(r, p) == {code \in ErrorCode : Applies(r, p, code)}

-----------------------------------------------------------------------------
Init ==
  /\ IsResolution(resolution)
  /\ policy.mode = "none"
  /\ outcome = Pending

Repeats(list) == \E i, j \in DOMAIN list : i # j /\ list[i] = list[j]

(* A caller names what to remove, at least one package and each once.      *)
Policies ==
  {[mode |-> m, removals |-> {}] : m \in {"preserve_unselected", "converge_exact"}}
  \cup {[mode |-> "remove_explicit", removals |-> {list[i] : i \in DOMAIN list}] :
          list \in {l \in RemovalLists : l # <<>> /\ ~Repeats(l)}}

ChoosePolicy ==
  /\ policy.mode = "none"
  /\ outcome = Pending
  /\ policy' \in Policies
  /\ UNCHANGED <<resolution, outcome>>

RefusePolicy ==
  /\ policy.mode = "none"
  /\ outcome = Pending
  /\ \E list \in RemovalLists :
       \/ list = <<>> /\ outcome' = Refused("invalid_request")
       \/ Repeats(list) /\ outcome' = Refused("duplicate_removal")
  /\ UNCHANGED <<resolution, policy>>

(* A request is settled once, from the request alone.                      *)
Settle ==
  /\ policy.mode # "none"
  /\ outcome = Pending
  /\ outcome' # Pending
  /\ UNCHANGED <<resolution, policy>>

Refuse ==
  /\ Settle
  /\ \E code \in ErrorCode :
       outcome' = Refused(code) /\ Applies(resolution, policy, code)

PublishProgram ==
  /\ Settle
  /\ Refusals(resolution, policy) = {}
  /\ outcome' = Program(resolution, policy)

(* Identities are taken by another library, which may fail.                *)
Break ==
  /\ Settle
  /\ outcome' = Refused("identity_failed")

Next == RefusePolicy \/ ChoosePolicy \/ Refuse \/ PublishProgram \/ Break

Spec == Init /\ [][Next]_<<resolution, policy, outcome>>

=============================================================================
