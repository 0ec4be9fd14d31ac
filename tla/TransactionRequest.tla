-------------------------- MODULE TransactionRequest --------------------------
(***************************************************************************)
(* A caller makes a convergence_policy (src/model.cpp) and seals it with a *)
(* resolution into a transaction_request (src/request.cpp).  Sealing is    *)
(* where an explicit removal is compared with what is installed and with   *)
(* what the resolution wants; the composer trusts the outcome.             *)
(***************************************************************************)
EXTENDS Resolution, Sequences, FiniteSets

CONSTANTS Resolutions,   \* the resolutions a caller may hold
          RemovalLists   \* the vectors a caller may pass to remove_explicit

ASSUME ResolutionsAssumption == \A r \in Resolutions : IsResolution(r)
ASSUME RemovalListsAssumption == RemovalLists \subseteq Seq(Package)

VARIABLES resolution,  \* the resolution_result of the request
          policy,      \* its convergence_policy; mode "none" before one is made
          stage,       \* what runs next
          error,       \* the error_code of the error thrown, or "none"
          todo         \* what the running loop has still to visit

requestVars == <<resolution, policy, stage, error, todo>>

Mode == {"preserve_unselected", "remove_explicit", "converge_exact"}

NoPolicy == [mode |-> "none", removals |-> {}]
Policy == [mode : Mode, removals : SUBSET Package]

(* A thrown error ends the operation and reaches the caller; no object is  *)
(* left behind.                                                            *)
Throw(code) ==
  /\ stage' = "failed"
  /\ error' = code
  /\ todo' = {}

Reasons(s) == resolution.reasons[s]

(* Variants of the two guards of seal(), for the mutants.                  *)
EveryPackageIsInstalled(p) == TRUE

SelectedByGoal(p) ==
  \E s \in DOMAIN resolution.selections :
    /\ InTarget(resolution, s)
    /\ resolution.selections[s].package = p
    /\ \E q \in Reasons(s) : q.kind \in GoalReason /\ q.scope \notin RemovalAction

IsInstalled(p) == p \in DOMAIN resolution.installed

(* Something other than a removal goal brought p into the target.  The     *)
(* composer has a copy of this test of its own (RemovalOnly).              *)
SelectedForNonremovalTarget(p) ==
  \E s \in DOMAIN resolution.selections :
    /\ InTarget(resolution, s)
    /\ resolution.selections[s].package = p
    /\ \/ Reasons(s) = {}
       \/ \E q \in Reasons(s) :
            q.kind \notin GoalReason \/ q.scope \notin RemovalAction

-----------------------------------------------------------------------------
RequestInit ==
  /\ resolution \in Resolutions
  /\ policy = NoPolicy
  /\ stage = "policy"
  /\ error = "none"
  /\ todo = {}

(* The loop of seal() is over the removals, and no other policy has any.   *)
Choose(p) ==
  /\ policy' = p
  /\ stage' = "seal"
  /\ todo' = p.removals
  /\ UNCHANGED <<resolution, error>>

PreserveUnselected ==
  /\ stage = "policy"
  /\ Choose([mode |-> "preserve_unselected", removals |-> {}])

ConvergeExact ==
  /\ stage = "policy"
  /\ Choose([mode |-> "converge_exact", removals |-> {}])

RemovalSet(packages) == {packages[i] : i \in DOMAIN packages}

RemoveExplicit(packages) ==
  /\ stage = "policy"
  /\ IF packages = <<>>
       THEN Throw("invalid_request") /\ UNCHANGED <<resolution, policy>>
     ELSE IF Cardinality(RemovalSet(packages)) # Len(packages)
       THEN Throw("duplicate_removal") /\ UNCHANGED <<resolution, policy>>
     ELSE Choose([mode |-> "remove_explicit", removals |-> RemovalSet(packages)])

(* Removals are visited in the order of their names, which is any order.   *)
CheckRemoval(p) ==
  /\ stage = "seal"
  /\ p \in todo
  /\ IF ~IsInstalled(p)
       THEN Throw("unknown_installed_package")
     ELSE IF SelectedForNonremovalTarget(p)
       THEN Throw("selected_for_removal")
     ELSE todo' = todo \ {p} /\ UNCHANGED <<stage, error>>
  /\ UNCHANGED <<resolution, policy>>

(* The identity of the request is taken, which may fail.                   *)
FinishSeal ==
  /\ stage = "seal"
  /\ todo = {}
  /\ \/ stage' = "sealed" /\ UNCHANGED <<error, todo>>
     \/ Throw("identity_failed")
  /\ UNCHANGED <<resolution, policy>>

RequestNext ==
  \/ PreserveUnselected
  \/ ConvergeExact
  \/ \E packages \in RemovalLists : RemoveExplicit(packages)
  \/ \E p \in todo : CheckRemoval(p)
  \/ FinishSeal

=============================================================================
