--------------------------- MODULE VectorVerdicts ---------------------------
(***************************************************************************)
(* The vectors of the conformance suites and what the executors make of    *)
(* them: execute_vector of runner.rs, for every vector that carries no     *)
(* classifier to run.                                                      *)
(***************************************************************************)
EXTENDS AnomalySuites, ConformanceFiles

CONSTANT GuestWordBits   \* the WordBits of ClassifierHost

\* The codec and the pipeline, scaled.
Scale ==
  [verb |-> <<118>>, resource_kind |-> <<107>>, namespace |-> <<115>>, name |-> <<110>>, params |-> <<112>>]
Canon == INSTANCE VectorsCanonicalization WITH
  Radix <- 8, MaxEmbedded <- 2, MaxDepth <- 5, MaxBytes <- 60,
  HalfE <- 3, HalfM <- 2, SingleE <- 4, SingleM <- 3, WideE <- 5, WideM <- 5,
  MAX_STRING_BYTES <- 16, MAX_KEY_BYTES <- 4, MAX_INTENT_DEPTH <- 3, MAX_ARRAY_LEN <- 3,
  MAX_INTENT_BYTES <- 60, AllowedKeys <- Scale, AllowedVerbs <- {<<103>>, <<100>>}

DelegationSuite == INSTANCE Delegation
TariffSuite == INSTANCE Tariff
Fuzz == INSTANCE FuzzSuite WITH WordBits <- GuestWordBits
Pcr == INSTANCE VectorsPcr
Signed == INSTANCE VectorsTariff
LibraryPool == INSTANCE VectorsLibrary
DetectPool == INSTANCE VectorsDetect
AuditPool == INSTANCE VectorsAudit

-----------------------------------------------------------------------------
(* Hand-written vectors.                                                   *)

\* pcrrej-024: a proof without live fields, of an entry the head does not cover.
MockPcr ==
  LET sound == Pcr!HonestFields
      live == Pcr!TransparencyProof(sound)
      mock == [f \in DOMAIN live |->
                 CASE f \in Pcr!LIVE_REKOR_PROOF_FIELDS -> {}
                   [] f = "entry_index" -> {9}
                   [] OTHER -> live[f]]
      base == Pcr!build_vector("pcrrej-024", "transparency-log-not-published-yet", sound,
                               "pcr-attestation-transparency-not-yet-logged")
      bundle == CHOOSE b \in base.input.bundle : TRUE
  IN  [base EXCEPT !.input.bundle = {[bundle EXCEPT !.transparency_log_proof = {mock}]}]

\* fuzz-001: a tier its category tells.
AcceptedFuzz ==
  Fuzz!FuzzVector("fuzz-001",
    [Fuzz!FuzzInput(Fuzz!FloorOfTwo, {}, {}) EXCEPT !.verb = "list"],
    [outcome |-> "accept", reject_code |-> {},
     output |-> {[tier |-> 0, tier_floor_applied |-> 0, justification_tag |-> "read-only"]}])

\* Guests of a file an author is at work on: one that asks for memory and may
\* claim a long output, one that traps, one that starts above the cap, and one
\* that is no ABI v1 module.
Restless(grows, returns) == [loops |-> TRUE, grows |-> grows, traps |-> TRUE, returns |-> returns]
GuestVector(id, wasm) == Fuzz!LiveReject(id, wasm, "classifier-execution-failed")
Locator(ptr, len, output) == [packed |-> ptr * 2^GuestWordBits + len, output |-> output]
GuestVectors ==
  <<GuestVector("guest-grows", Fuzz!ClassifierModule(
      Restless({1, 3}, {Locator(2, 3, {1}), Locator(2, 3, {}), Locator(7, 5, {1}), Locator(2, 2^GuestWordBits - 1, {1})}))),
    GuestVector("guest-traps", Fuzz!ClassifierModule(
      [loops |-> FALSE, grows |-> {}, traps |-> TRUE, returns |-> {}])),
    GuestVector("guest-large", [Fuzz!ClassifierModule(Restless({}, {})) EXCEPT !.pages = 9]),
    GuestVector("guest-mute", [Fuzz!ClassifierModule(Restless({}, {})) EXCEPT !.alloc = "missing"])>>

\* A vector the schema refuses: its text names a field no suite has.
Misspelt == [Signed!ds069 EXCEPT !.id = "ds-misspelt"]

-----------------------------------------------------------------------------

\* fuzz-190 as it stood before the signer patched it.
MockKey == "fuzz-190-mock"
MockFuzz190 == [Fuzz!MockFuzz190 EXCEPT !.id = MockKey]

ClassifierVectors == <<Fuzz!build_fuzz_190, Fuzz!build_fuzz_200>> \o GuestVectors

AllVectors ==
  Canon!CanonVectors \o Signed!TariffVectors \o Signed!DelegationVectors \o Pcr!PcrVectors
  \o LibraryPool!LibraryVectors \o DetectPool!DetectVectors \o AuditPool!AuditVectors
  \o <<MockPcr, AcceptedFuzz, MockFuzz190, Misspelt>> \o ClassifierVectors

IdsOf(vectors) == [i \in DOMAIN vectors |-> vectors[i].id]

execute_vector(v) ==
  CASE v.suite = "canonicalization"       -> Canon!execute(v.input, v.expected)
    [] v.suite = "delegation-scope"       -> DelegationSuite!execute(v)
    [] v.suite = "fuzz-baseline"          -> Fuzz!execute(v, {})
    [] v.suite = "tariff-reject"          -> TariffSuite!execute(v)
    [] v.suite = "pcr-attestation-reject" -> Pcr!execute(v)
    [] v.suite = "audit-replay"           -> execute_audit(v)
    [] v.suite = "anomaly-library-reject" -> execute_library(v)
    [] v.suite = "anomaly-detect"         -> execute_detect(v)

CarriesClassifier(v) == v.suite = "fuzz-baseline" /\ Fuzz!NeedsClassifier(v)

Failing(vectors) ==
  {v.id : v \in {v \in ToSet(vectors) : ~CarriesClassifier(v) /\ execute_vector(v) # "Pass"}}

\* contains_cose_sign1, contains_mock_signature and the proof node, per vector: a
\* COSE signature under the one name that is looked for, and the mock markers that
\* stand beside it or alone.
MarksOfVector(v) ==
  CASE v.suite = "delegation-scope" -> {"cose", "mock"}
    [] v.suite = "tariff-reject" ->
         {"mock"} \cup (IF v.id \in ToSet(IdsOf(<<Signed!trej069, Signed!trej070, Signed!trej071>>))
                          THEN {"cose"} ELSE {})
    [] v.suite = "pcr-attestation-reject" ->
         IF "doc" \in DOMAIN v.input THEN {"cose"}
         ELSE {"mock"} \cup {IF Pcr!live_rekor_presence(p) = "Full" THEN "proof-live" ELSE "proof-mock" :
                p \in UNION {b.transparency_log_proof : b \in v.input.bundle}}
    [] OTHER -> {}
MarksTable(vectors) ==
  [id \in ToSet(IdsOf(vectors)) |->
     MarksOfVector(vectors[CHOOSE i \in DOMAIN vectors : vectors[i].id = id])]

-----------------------------------------------------------------------------
(* What an accepted intent means: its maps have no order.                  *)

RECURSIVE Meaning(_)
Meaning(v) ==
  CASE v.kind = "map" ->
         [kind |-> "map",
          entries |-> {<<Meaning(v.entries[i][1]), Meaning(v.entries[i][2])>> : i \in DOMAIN v.entries}]
    [] v.kind = "array" -> [v EXCEPT !.items = [i \in DOMAIN @ |-> Meaning(@[i])]]
    [] OTHER -> v

\* The intents of the vectors that are accepted, with their encodings.
AcceptedIntents ==
  LET results == {[id |-> v.id, result |-> Canon!Canonicalized(v.input)] :
                    v \in {v \in ToSet(Canon!CanonVectors) : v.input.compare = <<>>}}
  IN  {[id |-> x.id, meaning |-> Meaning(x.result.ok), encoding |-> Canon!encode(x.result.ok)] :
         x \in {x \in results : ~Canon!Failed(x.result)}}

\* The ids of those whose intent the codec does not give back as it was, or does not
\* tell from another.
GarbledIn(known) ==
  LET GivenBack(x, decoded) == ~Canon!Failed(decoded) /\ Meaning(decoded.ok) = x.meaning
      Told(x) == \A y \in known : y.encoding = x.encoding <=> y.meaning = x.meaning
  IN  {x.id : x \in {x \in known : ~GivenBack(x, Canon!decode(x.encoding.ok)) \/ ~Told(x)}}
GarbledIds == GarbledIn(AcceptedIntents)

\* What the command line finds out about vectors that carry no classifier.
JudgementOf(vectors) ==
  [failing |-> Failing(vectors), marks |-> MarksTable(vectors), garbled |-> GarbledIds]

-----------------------------------------------------------------------------
(* The signer's commands, with their default targets.                      *)

Numbered(prefix, from, to) == [i \in 1 .. to - from + 1 |-> prefix \o ToString(from + i - 1)]

AppendTo_(target, suite, keys) ==
  [mode |-> "append", target |-> target, suite |-> suite, vectors |-> keys]

PcrLive == "pcr-attestation-reject-c2-live"
PcrRekor == "pcr-attestation-reject-c2-5-rekor"
Classifier == "tariff-reject-c3-c-classifier"

gen_commands ==
  [gen_phase_c2 |-> AppendTo_(PcrLive, "pcr-attestation-reject", Numbered("pcrrej-0", 90, 97)),
   gen_phase_c2_5 |-> AppendTo_(PcrRekor, "pcr-attestation-reject", Numbered("pcrrej-", 110, 117)),
   gen_phase_c3_c |-> AppendTo_(Classifier, "tariff-reject", Numbered("trej-", 120, 127)),
   gen_phase_c4_library |-> AppendTo_("anomaly-library-reject", "anomaly-library-reject",
                                      Numbered("alrej-", 100, 116)),
   gen_phase_c4_detect |-> AppendTo_("anomaly-detect", "anomaly-detect", Numbered("adet-", 100, 114)),
   gen_phase_c4_audit |-> AppendTo_("audit-replay", "audit-replay", Numbered("arep-", 100, 116)),
   gen_fuzz_c3_c |-> [mode |-> "patch", target |-> "fuzz-baseline", suite |-> "fuzz-baseline",
                      vectors |-> <<"fuzz-190", "fuzz-200">>]]

\* These are the ids of the vectors they build.
ASSUME SignedUnderTheirIds ==
  /\ IdsOf(Pcr!PcrVectors) = gen_commands.gen_phase_c2.vectors \o gen_commands.gen_phase_c2_5.vectors
  /\ IdsOf(SubSeq(Signed!TariffVectors, 4, 11)) = gen_commands.gen_phase_c3_c.vectors
  /\ IdsOf(LibraryPool!LibraryVectors) = gen_commands.gen_phase_c4_library.vectors
  /\ IdsOf(DetectPool!DetectVectors) = gen_commands.gen_phase_c4_detect.vectors
  /\ IdsOf(AuditPool!AuditVectors) = gen_commands.gen_phase_c4_audit.vectors
  /\ IdsOf(SubSeq(ClassifierVectors, 1, 2)) = gen_commands.gen_fuzz_c3_c.vectors

DocumentNames ==
  {"canonicalization", "delegation-scope", "fuzz-baseline", "tariff-reject", "pcr-attestation-reject",
   PcrLive, PcrRekor, Classifier, "audit-replay", "anomaly-library-reject", "anomaly-detect",
   "guests", "draft"}

\* The ten names default_inputs looks for; the classifier document is not one.
default_input_names ==
  <<"canonicalization", "delegation-scope", "fuzz-baseline", "tariff-reject", "pcr-attestation-reject",
    PcrLive, PcrRekor, "audit-replay", "anomaly-library-reject", "anomaly-detect">>

\* The file names stem_suite_hint knows: those of the suites themselves.
stem_suites ==
  [d \in DocumentNames \ {PcrLive, PcrRekor, Classifier, "guests", "draft"} |-> d]

\* Before the signer's first command: only what was written by hand.
HandWrittenDisk ==
  [d \in DocumentNames |->
     CASE d = "canonicalization" -> Document(d, IdsOf(Canon!CanonVectors))
       [] d = "delegation-scope" -> Document(d, IdsOf(Signed!DelegationVectors))
       [] d = "tariff-reject" -> Document(d, IdsOf(SubSeq(Signed!TariffVectors, 1, 3)))
       [] d = "pcr-attestation-reject" -> Document(d, <<MockPcr.id>>)
       [] d = "fuzz-baseline" -> Document(d, <<AcceptedFuzz.id, MockKey>>)
       [] d = "guests" -> Document("fuzz-baseline", IdsOf(GuestVectors))
       [] d = "draft" -> Document("delegation-scope", <<Misspelt.id, "ds-069">>)
       [] OTHER -> Absent]

\* As it is committed: every command was run to its end.
CommittedDisk ==
  [d \in DocumentNames |->
     LET by == {c \in DOMAIN gen_commands : gen_commands[c].target = d}
         made == gen_commands[CHOOSE c \in by : TRUE]
     IN  IF d = "fuzz-baseline" THEN Document(d, <<AcceptedFuzz.id, "fuzz-190", "fuzz-200">>)
         ELSE IF by = {} THEN HandWrittenDisk[d]
         ELSE Document(made.suite, made.vectors)]
=============================================================================
