------------------------------ MODULE FuzzSuite ------------------------------
(***************************************************************************)
(* The executor of the fuzz-baseline suite (suites/fuzz.rs).  An accept    *)
(* vector is judged from its category; a reject vector runs the classifier *)
(* it carries and compares the tier with the tariff's floor.               *)
(*                                                                         *)
(* A vector is [category, input, expected].  A category is the sequence of *)
(* the digits that follow "tier" in its text.  tariff_minimum_tiers is a   *)
(* set of at most one function from intent triples to tiers.  Options are  *)
(* sets with at most one element, a host result is that of ClassifierHost. *)
(***************************************************************************)
EXTENDS Integers, Sequences

CONSTANT WordBits  \* of a guest word, as in ClassifierHost

LOCAL The(option) == CHOOSE v \in option : TRUE
LOCAL OrElse(option, default) == IF option = {} THEN default ELSE The(option)

derive_tier_from_category(category) == IF category = <<>> THEN {} ELSE {category[1]}

\* The floor of the triple itself, and of no other; an absent name is "".
derive_floor(input) ==
  LET triple == <<input.integration, input.verb, input.resource_kind>>
  IN  UNION {{tiers[t] : t \in DOMAIN tiers \cap {triple}} : tiers \in input.tariff_minimum_tiers}

\* What an accept vector produces: the vector's own word where nothing is derived.
classify(category, input, expected) ==
  [tier               |-> OrElse(derive_tier_from_category(category), expected.tier),
   tier_floor_applied |-> OrElse(derive_floor(input), expected.tier_floor_applied),
   justification_tag  |-> expected.justification_tag]

execute_accept(vector) ==
  \E expected \in vector.expected.output :
    classify(vector.category, vector.input, expected) = expected

\* A reject vector carries a module and a context, or neither.
DispatchIsBroken(input) ==
  \/ (input.wasm = {}) # (input.context = {})
  \/ input.wasm # {} /\ ~(input.wasm_is_hex /\ input.context_is_hex)

NeedsClassifier(vector) ==
  /\ vector.expected.outcome = "reject"
  /\ ~DispatchIsBroken(vector.input)
  /\ vector.input.wasm # {}

\* Mutant: a tier that meets the floor is below it, too.
BelowFloor_Edge(tier, floor) == tier <= floor

BelowFloor(tier, floor) == tier < floor

\* host: what execute_classifier returned, {} if there was nothing to run.
classify_reject(input, host) ==
  LET floor == derive_floor(input)
  IN  IF host = {} THEN "NoDispatch"
      ELSE IF The(host).tier = {} THEN "classifier-execution-failed"
      ELSE IF floor = {} THEN "FloorMissing"
      ELSE IF BelowFloor(The(The(host).tier), The(floor)) THEN "tier-below-minimum"
      ELSE "Accept"

FuzzRejectCode == {"tier-below-minimum", "classifier-execution-failed"}

execute_reject(vector, host) ==
  /\ ~DispatchIsBroken(vector.input)
  /\ classify_reject(vector.input, host) \in FuzzRejectCode
  /\ vector.expected.reject_code = {classify_reject(vector.input, host)}

execute(vector, host) ==
  IF IF vector.expected.outcome = "accept" THEN execute_accept(vector)
                                           ELSE execute_reject(vector, host)
    THEN "Pass" ELSE "Fail"

-----------------------------------------------------------------------------
(* The vectors the vector signer owns (phase_c3_c_fuzz.rs), and the        *)
(* classifiers they carry (test_fixtures.rs of ephemeral-classifier), with *)
(* addresses scaled to the model's pages.                                  *)

output_offset == 2
alloc_offset == 5
cbor_len == 3

\* What a function that computes one constant may do.
Returns(value) == [loops |-> FALSE, grows |-> {}, traps |-> FALSE, returns |-> {value}]

\* A module with the exports, and nothing else, of ABI v1.
ClassifierModule(may_classify) ==
  [parses |-> TRUE, imports |-> FALSE, memory |-> "ok", alloc |-> "ok", classify |-> "ok",
   pages |-> 1, elements |-> 0, data_fits |-> TRUE, start |-> FALSE,
   may |-> [alloc |-> Returns(alloc_offset), classify |-> may_classify]]

\* The guest that answers with a fixed tier.
build_classifier_wat(tier) ==
  ClassifierModule(Returns([packed |-> output_offset * 2^WordBits + cbor_len, output |-> {tier}]))

fuel_exhausted_wat ==
  ClassifierModule([loops |-> TRUE, grows |-> {}, traps |-> FALSE, returns |-> {}])

shared_wasm_artifacts ==
  [echo |-> build_classifier_wat(0), tier_1 |-> build_classifier_wat(1),
   tier_9999 |-> build_classifier_wat(9999), fuel_exhausted |-> fuel_exhausted_wat]

\* A vector of the suite, for the intent kubernetes:scale:deployment.
FuzzVector(id, input, expected) ==
  [id |-> id, suite |-> "fuzz-baseline", category |-> <<>>, input |-> input, expected |-> expected]

FuzzInput(floors, wasm, context) ==
  [integration |-> "kubernetes", verb |-> "scale", resource_kind |-> "deployment",
   tariff_minimum_tiers |-> floors, wasm |-> wasm, context |-> context,
   wasm_is_hex |-> TRUE, context_is_hex |-> TRUE]

FloorOfTwo == {[t \in {<<"kubernetes", "scale", "deployment">>} |-> 2]}

\* The context is one byte long: the CBOR of an empty map.
LiveReject(id, wasm, code) ==
  FuzzVector(id, FuzzInput(FloorOfTwo, {wasm}, {1}),
             [outcome |-> "reject", reject_code |-> {code}, output |-> {}])

build_fuzz_190 == LiveReject("fuzz-190", shared_wasm_artifacts.tier_1, "tier-below-minimum")
build_fuzz_200 == LiveReject("fuzz-200", shared_wasm_artifacts.fuel_exhausted,
                             "classifier-execution-failed")

\* fuzz-190 as it stood before: it names the tier a classifier would return, and
\* carries none.
MockFuzz190 ==
  FuzzVector("fuzz-190", FuzzInput(FloorOfTwo, {}, {}),
             [outcome |-> "reject", reject_code |-> {"tier-below-minimum"}, output |-> {}])
=============================================================================
