----------------------------- MODULE ScopeMatch -----------------------------
(***************************************************************************)
(* Bucket membership of an event in a pattern of the anomaly library:      *)
(* scope_match.rs and families.rs of ephemeral-anomaly.  The predicates    *)
(* are stateless; counting and firing are in Evaluators and Detector.      *)
(*                                                                         *)
(* A Rust Option<T> is a set with at most one element, so an unbound       *)
(* dimension is {} and a bound one is {v}.                                 *)
(***************************************************************************)
EXTENDS Integers

IAM_ATTACH_VERBS == {"attachrolepolicy", "attachuserpolicy", "attachgrouppolicy"}
DESTRUCTIVE_VERBS == {"delete", "destroy", "drop", "truncate", "purge",
                      "rotate", "revoke", "forceremove"}
READ_ONLY_VERBS == {"get", "list", "describe", "read", "head", "peek", "exists"}

\* The families the validator knows; a library cannot add one.
lookup_family ==
  [name \in {"iam-attach", "destructive", "read-only"} |->
     CASE name = "iam-attach"  -> IAM_ATTACH_VERBS
       [] name = "destructive" -> DESTRUCTIVE_VERBS
       [] name = "read-only"   -> READ_ONLY_VERBS]

\* An unknown family has no member.
family_contains(name, verb) ==
  name \in DOMAIN lookup_family /\ verb \in lookup_family[name]

\* VerbPredicate::matches.  The variants are records told apart by "kind".
VerbMatches(pred, verb) ==
  CASE pred.kind = "Exact"          -> pred.verb = verb
    [] pred.kind = "Family"         -> family_contains(pred.family, verb)
    [] pred.kind = "AnyDestructive" -> family_contains("destructive", verb)

\* operator_id is a wildcard whatever it is bound to: events carry none.
MandateScopeMatches(ms, event) ==
  /\ \A m \in ms.mandate_id : m = event.mandate_id
  /\ \A r \in ms.integration_ref : r = event.integration

\* ScopePredicate::matches.
ScopeMatches(scope, event) ==
  CASE scope.kind = "VerbResourceMandate" ->
         /\ VerbMatches(scope.verb, event.verb)
         /\ \A k \in scope.resource_kind : k = event.resource_kind
         /\ MandateScopeMatches(scope.mandate_scope, event)
    [] scope.kind = "IamAttachFamily" ->
         /\ family_contains(scope.verb_family, event.verb)
         /\ MandateScopeMatches(scope.mandate_scope, event)
    [] scope.kind \in {"ProtectedBranches", "CrossTierSequence"} ->
         MandateScopeMatches(scope.mandate_scope, event)
    [] scope.kind = "MandatePace" ->
         /\ event.tier >= scope.tier_floor
         /\ \A c \in scope.exclude_verb_category : ~family_contains(c, event.verb)
    [] scope.kind = "SilenceThenBurst" -> TRUE
    [] scope.kind \in {"CanaryWindow", "DelegationDepth"} -> FALSE
    [] scope.kind = "VerbFanout" ->
         /\ VerbMatches(scope.verb, event.verb)
         /\ MandateScopeMatches(scope.mandate_scope, event)
=============================================================================
