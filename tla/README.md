# EPHEMERAL reference validator: TLA+ models and proofs

The repository holds the EPHEMERAL specification (`src/*.md`), conformance vectors
(`src/conformance/`) and a reference validator in Rust
(`src/reference/validator/`): libraries that a host calls, a command line that
judges vector files with them, and a tool that builds and signs the vectors. The
libraries start no threads and no timers of their own. What makes them hard is not
parallelism inside one call but long sequences of legal calls: buffers, rings and
ledgers that several operations change for different reasons, clocks that the caller
moves, walks that fail half-way, restarts around a ledger that persists, verification
pipelines whose stages must come in the right order, and verdicts about one artefact
given again after the context has moved on. The command line and the signer are
processes over the same directory.

Paths below are relative to `src/reference/validator/crates/`, or to
`src/reference/validator/` when they start with `tools/`.

## 1. Inventory

| Component | State it keeps | Operations | Hard part | What makes it correct |
|---|---|---|---|---|
| Anomaly detector, `ephemeral-anomaly/src/state.rs`, `dedup_ledger.rs` | per (pattern, mandate) ring buffer, per-mandate counter, clock, dedup ledger | `advance_clock`, `ingest_event`, `evaluate_all` | two evictions by different calls; a walk that fails half-way; restart around a persistent ledger | bounded, exact firing, one alarm per window |
| Evaluators, `evaluators.rs` | none | three firing rules, two sequence scans | boundaries of windows, what eviction leaves of a sequence | crossing decided on live events |
| Scope matching, `scope_match.rs`, `families.rs` | none | predicates | an unknown family matches nothing | loaded patterns can match |
| Audit orchestrator, `orchestrator.rs` | library, initial clock, detector per tenant | `observe_event`, `advance_clock_for`, `drain_fires_for`, `rotate_library` | clock moved before the event is gated; rotation | tenants pin the current library, fire-once under it |
| Library verifier, `signature.rs`, `invariants.rs`, `ledger.rs` | replay ledger | load with and without ledger | order of eight stages, a failed load must leave no trace | no replay, no lockout, body promises hold |
| Event expansion, `event.rs` | none | `expand`, `normalize` | a cap on a product of two caller-given numbers | every event distinct, capped |
| COSE verification, `ephemeral-crypto/src`, `ephemeral-core/src/crypto_support.rs` | trust-anchor set | `insert`, `verify_cose_sign1_with_cap` | role and kid confusion | the kid keeps meaning the same key |
| Delegation verifier, `ephemeral-core/src/suites/delegation.rs` | none | ten-stage `verify` | whole-chain properties, a moving revocation list | accepted mandates are attenuated and never revived |
| Tariff verifier, `suites/tariff.rs` | none | staged `classify` | order, defaults, optional classifier | versions increase, classifiers are bound |
| PCR verifier, `suites/pcr.rs` | none | thirteen checks; live Nitro; live Rekor | checks over differently filtered attestations | a bundle rests on a quorum, a nonce admits once |
| Attestation, `ephemeral-attestation/src` | log keys, pinned roots | Nitro document, inclusion proof, tree head | walk on unbalanced trees, key rotation | only logged entries are proved, fresh heads verify |
| Classifier runtime, `ephemeral-classifier/src` | limiter and fuel of one execution | load checks, execute | the guest decides what happens next | caps hold, errors name their cause |
| Canonicalization, CBOR, codec, `suites/canonicalization.rs`, `cbor/`, `codec/` | none | prescreen, pipeline, encode, decode | shortest heads and floats | distinct intents have distinct encodings |
| Fuzz, audit and anomaly executors, `suites/` | one verifier run | `execute` | rotation between streams, options | signed vectors are judged as intended |
| Runner, reports, command line, `runner.rs`, `types.rs`, `ephemeral-cli` | report, summaries, exit code | `run_many`, `summarize_*`, `main` | errors of every kind must reach the exit code; files read twice | clean means clean, every run ends |
| Vector signer, `tools/vector-signer` | the vector files | eight writing commands | stopped between two steps of a write | files keep their vectors |

Interactions. The host loads a library (library verifier, which calls COSE
verification against the trust anchors), pins it in an orchestrator, and feeds it
events per tenant; the orchestrator owns one detector per tenant; the detector routes
with the scope predicates, evaluates with the evaluators and asks its dedup ledger. A
worker may also own a detector directly, with a persistent ledger injected through
`DetectorState::with_ledger`. A router asks the delegation, tariff and PCR verifiers
about artefacts, with its clock, revocation list, tariff version and nonce as context;
the tariff verifier checks the signature of the classifier a tariff carries, the PCR
verifier calls the Nitro and the Rekor verifier. The signer builds vectors with the
same libraries and writes them to `conformance/`; the command line reads that
directory, dispatches every vector to the executor of its suite, and the fuzz executor
runs the classifiers some vectors carry.

## 2. Modules

State machines:

| Module | Models | Composes |
|---|---|---|
| `AuditOrchestrator` | the multi-tenant orchestrator | `Detector` |
| `DetectorWorker` | a detector driven directly, with storage failures and crashes; implements `FireOnceAlarm` | `Detector` |
| `FireOnceAlarm` | what consumers are promised about repetition: the abstract specification | |
| `LibraryVerifier` | loading signed libraries, with the replay ledger and the anchor registry | `CoseVerify`, `ScopeMatch` |
| `Router` | artefacts presented again and again to the four verifiers of `ephemeral-core` while the context moves | `Delegation`, `Tariff`, `PcrSuite` (with `Nitro` and `Rekor`) |
| `TransparencyLog` | a growing log that rotates its keys, and a verifier that learns them | `Rekor` |
| `VectorSigner` | the signer's writes, which may stop between any two steps; by itself: `SignerSpec` | `ConformanceFiles` |
| `Harness` | runner, reports, summaries, exit; by itself, over files anyone may write: `HarnessSpec` | `ConformanceFiles` |
| `ClassifierHost` | one execution of a classifier: the host and the guest in turn; by itself: `HostSpec` | |
| `Conformance` | signer, command line and guests over one directory, whatever the verdicts (`Judgement`) and whatever vectors carry a classifier (`Classifiers`) | the three above, and the executor of `FuzzSuite` |

Operators (pure code, and the data they are given):

| Module | Models |
|---|---|
| `ScopeMatch`, `Evaluators`, `Detector` | predicates, firing rules, one `DetectorState` with its ledger as a record value |
| `CoseVerify`, `CryptoSupport` | the COSE pipeline, the anchor registry, and the anchors and blobs of a vector |
| `Delegation`, `Tariff`, `PcrSuite`, `Nitro`, `Rekor` | the verifiers, every stage in its order; `Tariff` includes the hash pin and the signature of a classifier |
| `AuditStream` | `normalize` and `expand`, with the proof that expansion is bounded |
| `Cbor`, `Canonicalization` | the codec and the pipeline of an intent |
| `AnomalySuites`, `FuzzSuite` | the executors over the anomaly crate and the classifier; `FuzzSuite` with the fuzz vectors the signer owns |
| `ConformanceFiles` | vector files |
| `VectorVerdicts` | the pool of vectors, `execute_vector`, the signer's commands and the contents of the directory |
| `FixtureLibrary` | the signed fixture library |
| `VectorsAudit`, `VectorsDetect`, `VectorsLibrary`, `VectorsPcr`, `VectorsTariff`, `VectorsCanonicalization` | the vectors the signer builds, as its code builds them, and hand-written neighbours |

`MCAuditOrchestrator`, `MCDetectorWorker`, `MCLibraryVerifier`, `MCRouter` and
`MCConformance` give the instances for TLC (`MCConformance` joins `Conformance` with the
verdicts and the directory of `VectorVerdicts`); `TransparencyLog` needs none. The modules
named `...Proofs` hold theorems: `TransparencyLogProofs` also those of `Rekor`, and
`ConformanceProofs` those of `VectorSigner`, `Harness`, `ClassifierHost` and their
composition. Those of `AuditStream` are few and stand at the end of the module itself.

Correspondence with the code:

* A `DetectorState` is the record `[library, buffers, counters, now, dedup]`. A buffer
  is the `VecDeque`, oldest arrival first. The bucket key is the pair of pattern and
  mandate; the three reserved dimensions are always `None`. Ids are integers so that
  the `BTreeMap` order of the walk can be expressed: it decides which fires are already
  recorded when the walk fails.
* `ingest_event` is `IngestError` (stages 1-3, nothing mutated before them) and `Ingest`
  (routing, ring, counter). `evaluate_all` is one atomic step (`&mut self`) described by
  `EvaluateAll`, or by `EvaluateFailsAt` when the ledger is full: each bucket has its own
  ledger entry, so the decisions of one walk do not depend on each other, only the cap
  does.
* `observe_event` is one action with three outcomes, because `advance_clock` and
  `ingest_event` return early with `?` and leave what happened before.
* In `DetectorWorker` the persistent backend and the host are external: an `observe`
  that returned is durable, one that failed may have written, and the host may die
  between two calls or behind any bucket of a walk and restart with any clock.
* A verifier is an operator that returns the name of the first failing stage, or `ok`.
  All `CoseError`s collapse where the code collapses them. Cryptography is symbolic: a
  signature records its key and what was signed; a hash is a free term, so the leaf and
  node prefixes of the Merkle tree keep leaves and nodes apart.
* `Router` is external as a process: the repository specifies a router and holds no code
  of it. What it keeps (a clock that moves on, a revocation list that only grows, the
  last tariff version, the nonces it consumed) is exactly what the inputs of the
  verifiers ask for; each of its `Present...` actions is one call of a verifier.
* In `TransparencyLog` the log and its operator are external. The operator announces a
  key before its window opens and plans later windows for later keys; an announcement
  may come again with another window. The verifier is `insert_checked`,
  `find_for_timestamp`, `verify_rekor_sth` and `verify_rekor_inclusion`.
* In `ClassifierHost` the guest is external: `wasm.may` says what its two functions may
  execute next, and every instruction is a step that costs fuel. Both `memory.grow` and
  the first allocation go through the limiter.
* In `Conformance` a file is absent, torn or whole. An append truncates its target and
  writes it; a patch writes `.json.tmp` and renames it. Every command may stop between
  any two steps. The command line reads one file per step and judges its vectors, and
  reads the files again for the three summaries. The verdicts of all vectors are fixed
  from the start (`judged`), because executors are pure; `MCConformance` computes them
  (`AllJudged`), the proofs leave them open. The vectors that carry a classifier are run by
  `ClassifierHost`, step by step.
* The loops of `rekor.rs` (`1 << m.ilog2()`, the descent of `expected_proof_depth`, the
  skipping of orphans) are recursive functions, so that they can be argued about.
* `accepted`, `delivered`, `loads`, `verdict`, `granted`, `withdrawn`, `last`,
  `published`, `reads` and `changed` are history: what callers gave and got, or what was
  on disk. No guard of the code's actions reads them.

Abstractions: timestamps are mathematical integers, so the `saturating_*` operations at
the ends of `i64` and of `u32` counts are not distinguished (the comments in the code
call those branches unreachable, and the caps of 1 000 and 10 000 keep counts far away
from them). The content of a fire record (severity, match scope, sample event), wording
and logging are left out, except that `sanitize_log_string` is a non-injective function
where the ledger key is concerned. Certificates and CBOR documents of the Nitro verifier
are records of the fields it looks at. The scanners of canonicalization are facts about a
text (it has a duplicate key, a lone surrogate, a long number) where the scan itself works
on characters; its pipeline, the tree conversion and the CBOR encoder are modelled in full,
over smaller digits and floats.

## 3. Runs

Passing runs:

* `orchestrator` (`MCAuditOrchestrator.cfg`): one tenant, two mandates, two libraries
  with all three firing rules, windowed and windowless patterns, events at five
  timestamps; a ring of 2, a cap of 3 events per mandate and a ledger of 2 pairs, so that
  the ring overflows, mandates run into their cap and the ledger fills in the middle of a
  walk. One tenant is enough for these properties, because an operation touches only its
  own tenant's detector; several tenants are covered by the proofs. Checks the bounds,
  that only live events count, fire-once, that Count patterns fire exactly when enough
  accepted events are live, the ledger's cap and the pinning of the library.
* `worker` (`MCDetectorWorker.cfg`): events stamped behind and ahead of the clock,
  including too late and too early ones, storage failures at every bucket, crashes behind
  every bucket, restarts with an earlier clock. Checks the refinement of `FireOnceAlarm`,
  the bounds and that a bucket holds the newest arrivals.
* `library` (`MCLibraryVerifier.cfg`): sound libraries in several versions under two ids
  with the same log-safe form, one envelope per defect, each at the boundary where there
  is one, competing anchors, and both entry points. Checks no replay, no trace of failed
  loads, no lockout, attribution, and what the body checks promise.
* `log` (`TransparencyLog.cfg`): logs of up to eight entries, so that the right edge of
  the tree has orphans on one and on two levels (sizes 3, 5, 6, 7) and both balanced
  shapes above them; three keys and five instants, so that windows overlap, touch and
  leave a gap; a `max_age` of 2, so that heads expire. One head at a time is enough: heads
  do not depend on each other. Checks that heads verify exactly while fresh, that every
  entry under a head can be proved with the path RFC 9162 defines recursively, and that
  nothing else verifies, however path, index and head nothing else verifies, however path, index and head are recombined. (`MCRouter.cfg`): for each verifier one or two artefacts that are accepted in
  some contexts and their defective neighbours, four instants, two revocations out of two
  revocable keys, two nonces. A mandate is granted, expires, is revoked by its key or its
  issuer, or waits for a newer tariff; a certificate between leaf and root expires first; a
  bundle is presented for a nonce that was consumed. Checks attenuation over whole chains,
  that a withdrawn grant stays withdrawn, that no revoked key's signature counts, the
  tariff versions, the classifier's commitment, the quorum, the nonces and the
  certificate chains.
* `conformance` (`MCConformance.cfg`): the directory as it was before the signer's
  commands and as it is committed; an append to a hand-written document, an append that
  creates its document and the patch, of which two may run (`MaxCommands`), so that a
  command follows one that was stopped; four invocations: the ten default inputs, a filter
  with a JSON report, explicit files with guests, a misspelt vector and the classifier
  document, and a schema that does not load. Judges about a hundred vectors, nearly all of
  them as the signer's code builds them. The verdicts use the code's real caps where they
  are caps on counts; guests have two pages of 8 bytes, 6-bit words and a fuel of 3, which
  still lets a guest grow, be denied, and trap or return. Checks that documents keep their
  vectors, that the patched file is never torn, what exit code 0 means, that report and
  summaries account for every vector, that guests stay contained, that denials are
  deserved, that every signed vector is judged as its author meant, that accepted intents
  keep their meaning through the codec, and that every run ends.

  The codec works over digits of 3 bits (`Radix = 8`), arguments up to 2 inside the
  initial byte, and floats of 3/2, 4/3 and 5/5 bits of exponent and mantissa: every tier of
  `write_head`, every case of `f64_to_f16_exact` (normal, subnormal, lost bits, carry,
  infinities, NaN) and every cap of the pipeline is reached by a vector of a few bytes.

`orchestrator`, `worker`, `library` and `router` allow some operation of the caller in
every state, so there is no deadlock. `log` and `conformance` switch the deadlock check
off: the bounded log is full and its clock at the end, and the command line has exited
with no command left, which is where these systems stop.

Instants of the Nitro model lie below `EndOfTime = 2000000000`, TLC's integers end at
2^31 - 1; the verifier's own bound (a `u64` in milliseconds that must fit `i64` seconds) is
out of reach of any real clock.

Runs that refute a comment, one property each:

| Run | Comment | What happens |
|---|---|---|
| `orchestrator_clock` | `orchestrator.rs:66`, `:167`: the clock is rate-gated by `MAX_CLOCK_SKEW_SECONDS` | `observe_event` moves the clock to the event's own timestamp first, so the gate always sees a skew of 0 |
| `orchestrator_ledger` | `state.rs:405`: one entry per pair that has fired | a walk that fails leaves entries whose fires were discarded |
| `orchestrator_ring` | `state.rs:133`: ring eviction cannot cause a spurious miss | it can for a `DistinctCount` threshold; repeated events of one resource push out another |
| `orchestrator_silence` | `evaluators.rs:440`: `i == 0` is a fresh state | it is also the state right after eviction, so a steady stream fires a silence pattern when the window is no longer than the silence |
| `worker_late_events` | `state.rs:346`: correctness is delayed by at most a tick, not violated | an aged event behind a live one is counted, and the fire is returned |
| `delegation_path` | `suites/delegation.rs:428`: there is a path from the trust anchor to the mandate signer; `design-final-v2.md:529`: `root → ops* → mandate_signer` | consecutive links are never compared: a chain root to ops1, ops2 to signer is accepted although nobody delegated to ops2 |

Further disagreements met while modelling, without a run of their own:

* `invariants.rs:14` gives the validity window as half open, the code includes its end;
  the doc of `check_firing_rule_companions` speaks of every named companion, the code
  accepts one good one; `DedupLedger::clear` is documented as called by `rotate_library`,
  which drops the detectors instead; `PAST_DATED_GRACE_SECONDS` is justified by events that
  cannot contribute to any rule, which does not hold for windowless patterns; comments in
  `evaluators.rs` say that Stage 7 rejects a zero burst threshold and a sequence rule
  without a sequence scope, and no check of Stage 7 does.
* `runner.rs:195` and `:208`: files whose suite is unknown are never merged with a real
  suite; `run_many` merges them into the suite of their stem, or into audit-replay.
* `tools/vector-signer/src/main.rs:26`: the vectors are appended atomically;
  `append_vectors` (`:1335`) is one `fs::write` of the target, and only the patch of the
  fuzz document goes through a temporary file.
* `ephemeral-cli/src/main.rs:352`: the default inputs leave out
  `tariff-reject-c3-c-classifier.json`, and a default file that is missing is dropped
  without a word. `:319`: the summary of live signatures looks for `cose_sign1_bytes`
  alone, so the classifier and anomaly envelopes, whose fields have longer names, are not
  counted. `SuiteArg` (`:59`) has no name for the two anomaly suites.
* `canonicalization.rs:612`: duplicate keys are found by their text without the
  backslashes, not by the string it denotes. `:176`: an intent that cannot be encoded
  skips the size cap (it fails later).
* `suites/pcr.rs:1400`: the key a live head is verified with comes from the proof itself;
  `ephemeral-core` pins no log key. `:752`: the mock path accepts an index equal to the size.
* `rekor.rs:412`: the old key stays valid for heads emitted before the switch; that is so
  only for heads older than the newer window, since the newer window wins where both cover.
* `ephemeral-attestation/src/pcr.rs:24`: an empty expectation succeeds if all indices are
  in range; only the expected ones are ever looked at, and there are none.
* `runtime.rs:236`: the doc speaks of a trap caused by a denied growth; any later trap of
  the same call is reported that way too.
* `design-final-v2.md:575` asks for `parent-delegation-revoked` and
  `design-round7-tightenings.md:283` for `not-yet-valid`; the code answers `revoked` and
  `expired`.

## 4. Fairness and liveness

The libraries are passive: whether an event is ever observed, a fire ever drained or a
mandate presented is up to the host, and each call terminates. No fairness is assumed of
them; what a delayed call could break is stated as safety (for example
`CountFiringIsExact`: whenever the host evaluates, the decision is right).

`Conformance` has a process of its own, the command line, and assumes weak fairness of it
as a whole, the guest it runs included: once started it waits for nobody, its next step
stays enabled until it is taken, and the operating system schedules it. Nothing is assumed
of the signer, which may stop anywhere. Under this `EveryRunEnds`: a run that was started
exits, although guests may loop for ever as far as they are concerned (only fuel stops
them) and although files change, tear or vanish from under it. Since the property is a
leads-to, it also says that no state of a run is a dead end.

## 5. Proofs

Each proof rests on the named assumptions of the module it is about (ids are integers,
events, libraries and artefacts are well formed, bounds are naturals); TLC evaluates them
on every instance.

* `DetectorProofs` has the lemmas about one detector: ring push and eviction return
  suffixes of what they were given, every operation keeps the type and the bounds, and a
  buffer that is chronological and not ahead of the clock stays so. To hold the newest
  arrivals of a history (`HoldsNewest`) is kept by dropping the oldest and by appending to
  both; the proofs about exact counting and about the worker's buffers rest on it.
* `AuditOrchestratorProofs`: type correctness, the bounds, only live events count, exact
  counting, fire-once, the pinned library and the ledger's cap, for any number of tenants,
  mandates, patterns, libraries and bounds.
  - `CountsOnlyLiveEvents` is not inductive: a buffer with an aged event behind a live one
    satisfies nothing eviction could repair. The invariant adds that buffers are
    chronological and not ahead of their clock, which holds because the orchestrator moves
    the clock first.
  - `CountsExactly`: a Count pattern fires exactly when enough accepted events are live
    and its pair is not suppressed. Three mechanisms drop events (the ring, eviction at a
    walk, eviction at an ingest), for different reasons. The invariant `Lossless` says
    what may be missing from a buffer: matching events that have aged, and older ones than
    a full ring holds. Neither can change a decision, the former because the clock never
    turns back, the latter because a full ring alone reaches the threshold (the property
    is about thresholds a ring can hold). It stays so because events are accepted in the
    order of their timestamps.
  - `FireOnce` needs that every bucket's last returned record is not newer than its ledger
    entry, that the entry is not ahead of the clock, and that the records of a bucket are
    in order.
  - `LedgerBounded`: a walk adds a set of pairs at once, so its bound is argued from the
    last pair in walk order, whose own `observe` saw all the others and still found room.
* `DetectorWorkerProofs`: the worker implements `FireOnceAlarm`. The invariant is that the
  ledger covers the history: every bucket with a returned fire has an entry at least as
  new. It survives crashes because the ledger is written before the fire is returned, and
  clocks set back because a negative age is less than the window. Chronology is neither
  needed nor true here, and neither does `NewestArrivalsHeld` use it: whatever the
  timestamps, a bucket is a suffix of what arrived for it, because every drop is at the
  front, also in a walk that breaks off.
* `LibraryVerifierProofs`: types, no replay, that the ledger is the newest load of each id,
  no lockout and attribution. The invariant joins the ledger's exactness to the order of
  the loads, and the uniqueness of kids in the anchor set to attribution. `VerbsCanMatch`
  and `ShortPatternsBackstopped` speak of libraries long after their load: every load on
  record passed the body checks (`LoadedBodiesSound`), whichever entry point it came
  through, and these imply that every verb predicate other than an exact one matches some
  known verb, and that a first-match pattern with a window of up to an hour has its
  companion.
* `RouterProofs`: every property of the `router` run, for all artefacts that meet
  `MandatesTyped`, `TariffsTyped`, `BundlesTyped` and `DocumentsTyped`, all revocable keys,
  nonces and bounds. `Attenuation`, `NoRevokedSigner`, `ClassifiersBound`, `Quorums` and
  `ChainsHold` say what acceptance by a verifier implies, drawn from the stages that had to
  pass. `NoRevival` is about time: a mandate is accepted exactly while it is `Standing`
  (the checks no context enters), `Begun` (windows opened, its minimum tariff version
  reached) and not `Ended` (a window closed, or something it rests on revoked); the
  invariant `GrantInv` says that a granted mandate stands and has begun for good and a
  withdrawn one has ended for good, because the clock, the list and the version only move
  on.
* `TransparencyLogProofs`: every property of the `log` run, for any keys, windows and
  clocks, and for logs of every size whose proofs fit the cap of 40 siblings
  (`ProofsFit`; that is 2^40 entries).
  - `OnlyTheProofIsAccepted` is about one call: `verify_rekor_inclusion` accepts a leaf
    hash, an index and a path for the root of n entries exactly when the path is
    the one RFC 9162 defines, and the leaf the one at that index. The walk knows positions
    and sizes only as bits that it shifts; the RFC defines tree and path by splitting at
    the largest power of two. They meet in two lemmas by least counterexample.
    `InteriorIsSound`: inside a complete subtree that is not on the right edge, the walk
    climbs level by level and combines left or right as the position's parity says.
    `EdgeIsSound`: on the right edge the left part is complete and the right part is a
    smaller edge; when the right part is lower, the levels without a sibling are exactly
    those the inner loop skips (`OrphansAreSkipped`). A walk that ends with the root has
    passed through every subtree's root, because a hash has only one preimage.
  - The provers know nothing about powers of two. A power is a fixed point of
    `HighestBit`; that it doubles, halves, divides larger ones and bounds the split is
    proved from there. Nor do they take it for granted that a recursive function exists:
    `RecursionHasSolution` shows it once for every rule over the naturals that looks at
    smaller arguments only, from the finite approximations.
  - `OnlyLoggedLeavesVerify` and `EveryEntryCanBeProved` follow for every head the log
    ever signed, since the invariant `IInv` says that a head states the root of a prefix of
    the log.
  - `FreshHeadsVerify` speaks of the registry alone and says nothing of announcements to
    come; `IInv` says that the registry is the operator's schedule, in the order of its
    windows, with one entry per key, and that the key that signed a head is still the last
    one of the schedule that opened before it. Then the newest covering entry, which
    `find_for_timestamp` takes, is the signer's. `AlteredHeadsStateTheSameTree` says that
    an altered head that still verifies states the same tree, as a signature binds it.
* `ConformanceProofs` is about the three parts of `Conformance`, first each by itself and
  then together.
  - The signer (`SignerSpec`), for any documents, any commands that meet `CommandsTyped`
    and any directory that meets `InitialDisksTyped`: `DocumentsGrow` and
    `PatchedFilesStayWhole`. Both speak of what is on disk, and what will be there was
    decided when the target was read; the invariant `SignerInv` adds that the document
    about to be written holds every id its target ever held (`EditIsReady`), which holds
    because nobody else writes between the read and the write, and that a document is
    written in place by appends only. What an edit returns is the lemma `EditsSound`; the
    patch replaces its vectors one after another, in a recursive function that is shown to
    be well founded.
  - The command line (`HarnessSpec`), for any inputs, suites and vectors, while anyone may
    write anything into the directory at any step and classifiers return any verdict:
    `CleanIsClean` and `TalliesAccount`. Neither property is inductive, because reports
    are merged by suite, a suite may have several files, and a file is read again for the
    summaries. The invariant `HarnessInv` says how far the run is (`Progress`), that the
    file at hand is accounted for up to the vector at hand (`FileAtHand`), that the report
    of each suite counts exactly the vectors that were due in the inputs done so far, and
    has no failures and errors only if each of them passed (`ReportIsTrue`), and that, as
    long as nothing was written, what was read is what the summaries find (`ReadsAreFresh`,
    `SummariesAreFresh`).
  - The host (`HostSpec`), for every configuration and any modules run one after another:
    `GuestsContained` and `DenialsDeserved`. The invariant is that a denial on record is
    the running module's own, and that this module's sizes are numbers.

  - The composition (`Conformance!Spec`), for any verdicts and any vectors with a
    classifier: `PartsAreImplemented` shows that it implements `SignerSpec`,
    `HarnessSpec` and `HostSpec`. Every step is a step of each part or leaves that part's
    variables alone: a signer's step is `FilesWritten` to the command line; a step of the
    command line is one of `HostNext` while a guest runs, whose modules are those of
    `Classifiers`. Typing of what is handed over needs the invariants of the parts, so
    these are shown for the whole first. `ToolingIsSound` concludes all six properties of
    the tooling while the signer writes and stops and the command line judges.
* `AuditStream`: `ExpansionBounded`. Whatever a description says, what it expands to is
  bounded by the cap, one interval apart and free of duplicates.

Only model-checked: `SignedVectorsAreJudgedAsIntended`, which is about the concrete
vectors of `VectorVerdicts`; `AcceptedIntentsKeepTheirMeaning`, which rests on the
recursive codec; and `EveryRunEnds`. Liveness and `ENABLED` are outside the prover's
reach, and so are its library's induction theorems, which take an operator: where a
recursive function is argued about, a least counterexample takes their place.

## 6. Not modelled

* The byte- and character-level readers: the JSON parser and writer, the scanners of the
  prescreen as scans, X.509 and CBOR parsing of Nitro documents. They keep no state and
  are better served by the property tests and fuzzing the repository has.
* The two probes of the signer, which print a fingerprint and look for symbols in a binary,
  and `gen-phase-c1`, which prints.
* The text of reports, command-line parsing, the JSON schema itself (a predicate here).
* The WASM engine and the cryptographic primitives, which are external.
* The verdicts on the whole committed corpus: the models hold the vectors the signer
  builds and a few hand-written ones, not the several hundred of `conformance/`.
