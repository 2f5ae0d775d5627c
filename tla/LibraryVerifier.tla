--------------------------- MODULE LibraryVerifier ---------------------------
(***************************************************************************)
(* Loading signed anomaly libraries: the eight stages of signature.rs, the *)
(* pattern-body invariants of invariants.rs and the replay ledger of       *)
(* ledger.rs, run by a validator whose trust anchors are registered over   *)
(* time.                                                                   *)
(*                                                                         *)
(* An envelope is a COSE_Sign1 (see CoseVerify) around a library payload.  *)
(* Its patterns are a sequence in document order, as the signer wrote it.  *)
(***************************************************************************)
EXTENDS CoseVerify, ScopeMatch

CONSTANTS
  Envelopes,              \* what may be presented to the verifier
  AnchorCandidates,       \* the anchors an operator may try to register
  Clocks,                 \* the values of now_unix_seconds
  expected_abi_version,
  sanitize_log_string     \* raw library_id -> its log-safe form; not injective

\* library_version is a u64.
ASSUME VersionsTyped ==
  \A e \in Envelopes : \A p \in e.payload : p.library_version \in Nat

\* A verb predicate that decodes is one of the three variants.
ASSUME PredicatesTyped ==
  \A e \in Envelopes : \A p \in e.payload :
    p.decodes => \A i \in DOMAIN p.patterns :
      p.patterns[i].scope.kind \in {"VerbResourceMandate", "VerbFanout"} =>
        p.patterns[i].scope.verb.kind \in {"Exact", "Family", "AnyDestructive"}

ANOMALY_LIBRARY_AAD == "ephemeral/anomaly-library/v1"
MAX_ANOMALY_LIBRARY_BYTES == 131072
MAX_INNER_KID_BYTES == 256
MAX_LIBRARY_ID_BYTES == 256
ANTI_WALK_UNDER_WINDOW_SECONDS == 3600
ANTI_WALK_UNDER_COMPANION_MULTIPLIER == 10

NoWindow == -1   \* window_seconds = None

VARIABLES
  anchors,   \* the TrustAnchorSet, in registration order
  ledger,    \* raw library_id -> highest version accepted
  \* History:
  loads,     \* the envelopes accepted with the ledger, in order
  verdict    \* what the last call returned

vars == <<anchors, ledger, loads, verdict>>

Payload(envelope) == CHOOSE p \in envelope.payload : TRUE
IdOf(envelope) == Payload(envelope).library_id
VersionOf(envelope) == Payload(envelope).library_version

Init ==
  /\ anchors = <<>>
  /\ ledger = [id \in {} |-> 0]
  /\ loads = <<>>
  /\ verdict = "none"

-----------------------------------------------------------------------------
(* Stage 7: the pattern body.                                              *)

check_pattern_id_uniqueness(patterns) ==
  \A i, j \in DOMAIN patterns : patterns[i].pattern_id = patterns[j].pattern_id => i = j

check_severity_action_consistency(patterns) ==
  \A i \in DOMAIN patterns :
    patterns[i].severity \in {"High", "Critical"} => patterns[i].action = "AutoRevoke"

\* Mutant: the fan-out scope is left out of the walk.
check_verb_families_known_NoFanout(patterns) ==
  \A i \in DOMAIN patterns :
    LET scope == patterns[i].scope
    IN  /\ scope.kind = "VerbResourceMandate" /\ scope.verb.kind = "Family"
             => scope.verb.family \in DOMAIN lookup_family
        /\ scope.kind = "IamAttachFamily" => scope.verb_family \in DOMAIN lookup_family

check_verb_families_known(patterns) ==
  \A i \in DOMAIN patterns :
    LET scope == patterns[i].scope
    IN  /\ scope.kind \in {"VerbResourceMandate", "VerbFanout"} /\ scope.verb.kind = "Family"
             => scope.verb.family \in DOMAIN lookup_family
        /\ scope.kind = "IamAttachFamily" => scope.verb_family \in DOMAIN lookup_family

\* Mutant: the companion's window is compared with the primary's own.
classify_companion_NoMultiple(name, primary_window, patterns, primary_id) ==
  /\ name # primary_id
  /\ \E i \in DOMAIN patterns :
       /\ patterns[i].pattern_id = name
       /\ \A j \in 1..(i - 1) : patterns[j].pattern_id # name
       /\ patterns[i].firing_rule = "CumulativeOverBaseline"
       /\ patterns[i].window_seconds >= primary_window

\* The first pattern with that id is a backstop: cumulative, windowed, and at
\* least ten times as long (the product cannot saturate: windows are <= 3600).
classify_companion(name, primary_window, patterns, primary_id) ==
  /\ name # primary_id
  /\ \E i \in DOMAIN patterns :
       /\ patterns[i].pattern_id = name
       /\ \A j \in 1..(i - 1) : patterns[j].pattern_id # name
       /\ patterns[i].firing_rule = "CumulativeOverBaseline"
       /\ patterns[i].window_seconds # NoWindow
       /\ patterns[i].window_seconds >= primary_window * ANTI_WALK_UNDER_COMPANION_MULTIPLIER

NeedsCompanion(pattern) ==
  /\ pattern.window_seconds # NoWindow
  /\ pattern.firing_rule = "FirstMatch"
  /\ pattern.window_seconds <= ANTI_WALK_UNDER_WINDOW_SECONDS

\* One good companion is enough.
check_firing_rule_companions(patterns) ==
  \A i \in DOMAIN patterns :
    NeedsCompanion(patterns[i]) =>
      \E c \in DOMAIN patterns[i].firing_rule_companions :
        classify_companion(patterns[i].firing_rule_companions[c],
                           patterns[i].window_seconds, patterns, patterns[i].pattern_id)

-----------------------------------------------------------------------------
(* The stages in order; the first that fails names the verdict.            *)

verify_internal(envelope, now) ==
  IF verify_cose_sign1_with_cap(envelope, anchors, ANOMALY_LIBRARY_AAD,
                                "AnomalyLibrarySigner", MAX_ANOMALY_LIBRARY_BYTES) # "Ok"
    THEN "CoseVerifyFailed"
  ELSE LET payload == Payload(envelope)
       IN  IF \/ ~payload.decodes
              \/ payload.signer_kid_len > MAX_INNER_KID_BYTES
              \/ payload.library_id_len > MAX_LIBRARY_ID_BYTES
             THEN "PayloadDecodeFailed"
           ELSE IF payload.abi_version # expected_abi_version THEN "AbiVersionMismatch"
           ELSE IF payload.signer_kid # envelope.kid THEN "SignerKidMismatch"
           ELSE IF now < payload.issued_at THEN "NotYetValid"
           ELSE IF now > payload.expires_at THEN "Expired"
           ELSE IF ~check_pattern_id_uniqueness(payload.patterns) THEN "PatternIdDuplicate"
           ELSE IF ~check_severity_action_consistency(payload.patterns)
                  THEN "SeverityActionInconsistent"
           ELSE IF ~check_verb_families_known(payload.patterns) THEN "UnknownVerbFamily"
           ELSE IF ~check_firing_rule_companions(payload.patterns)
                  THEN "FiringRuleCompanionMissing"
           ELSE "ok"

\* Mutant: the ledger is keyed by the log-safe form of the id.
LedgerKey_Sanitized(library_id) == sanitize_log_string[library_id]

\* The ledger is keyed by the raw id.
LedgerKey(library_id) == library_id

\* Mutant: the version on record is accepted a second time.
Stale_AllowsEqual(envelope) ==
  /\ LedgerKey(IdOf(envelope)) \in DOMAIN ledger
  /\ VersionOf(envelope) < ledger[LedgerKey(IdOf(envelope))]

\* AnomalyLedger::observe refuses a version that is not above the stored one.
Stale(envelope) ==
  /\ LedgerKey(IdOf(envelope)) \in DOMAIN ledger
  /\ VersionOf(envelope) <= ledger[LedgerKey(IdOf(envelope))]

Advanced(envelope) ==
  [id \in DOMAIN ledger \cup {LedgerKey(IdOf(envelope))} |->
     IF id = LedgerKey(IdOf(envelope)) THEN VersionOf(envelope) ELSE ledger[id]]

insert_anchor(a) ==
  /\ anchors' = insert(anchors, a)
  /\ UNCHANGED <<ledger, loads, verdict>>

\* The stateless entry point: no replay protection, nothing recorded.
verify_anomaly_library_signature(envelope, now) ==
  /\ verdict' = verify_internal(envelope, now)
  /\ UNCHANGED <<anchors, ledger, loads>>

Rejected(envelope, now) ==
  /\ \/ /\ verify_internal(envelope, now) # "ok"
        /\ verdict' = verify_internal(envelope, now)
     \/ /\ verify_internal(envelope, now) = "ok"
        /\ Stale(envelope)
        /\ verdict' = "LibraryVersionTooOld"
  /\ UNCHANGED <<anchors, ledger, loads>>

\* Mutant: the ledger is advanced as soon as the signature is good.
Loaded_BeforeBody(envelope, now) ==
  /\ verify_cose_sign1_with_cap(envelope, anchors, ANOMALY_LIBRARY_AAD,
                                "AnomalyLibrarySigner", MAX_ANOMALY_LIBRARY_BYTES) = "Ok"
  /\ Payload(envelope).decodes
  /\ ~Stale(envelope)
  /\ ledger' = Advanced(envelope)
  /\ loads' = IF verify_internal(envelope, now) = "ok" THEN Append(loads, envelope) ELSE loads
  /\ verdict' = verify_internal(envelope, now)
  /\ UNCHANGED anchors

Loaded(envelope, now) ==
  /\ verify_internal(envelope, now) = "ok"
  /\ ~Stale(envelope)
  /\ ledger' = Advanced(envelope)
  /\ loads' = Append(loads, envelope)
  /\ verdict' = "ok"
  /\ UNCHANGED anchors

verify_anomaly_library_signature_with_ledger(envelope, now) ==
  Rejected(envelope, now) \/ Loaded(envelope, now)

Next ==
  \/ \E a \in AnchorCandidates : insert_anchor(a)
  \/ \E e \in Envelopes, now \in Clocks : verify_anomaly_library_signature(e, now)
  \/ \E e \in Envelopes, now \in Clocks : verify_anomaly_library_signature_with_ledger(e, now)

Spec == Init /\ [][Next]_vars

-----------------------------------------------------------------------------

Verdicts ==
  {"none", "ok", "CoseVerifyFailed", "PayloadDecodeFailed", "AbiVersionMismatch",
   "SignerKidMismatch", "NotYetValid", "Expired", "PatternIdDuplicate",
   "SeverityActionInconsistent", "UnknownVerbFamily", "FiringRuleCompanionMissing",
   "LibraryVersionTooOld"}

TypeOK ==
  /\ anchors \in Seq(AnchorCandidates)
  /\ loads \in Seq(Envelopes)
  /\ DOMAIN ledger \subseteq {IdOf(loads[i]) : i \in DOMAIN loads}
  /\ \A id \in DOMAIN ledger : ledger[id] \in Nat
  /\ verdict \in Verdicts

\* No replay and no rollback: the versions loaded for one library_id strictly
\* increase, whatever is presented in between and through either entry point.
VersionsStrictlyIncrease ==
  \A i, j \in DOMAIN loads :
    i < j /\ IdOf(loads[i]) = IdOf(loads[j]) => VersionOf(loads[i]) < VersionOf(loads[j])

\* A failed load leaves no trace: the ledger knows exactly the ids that were
\* loaded, each with the highest version loaded, so that no bad envelope can lock
\* out a later good one.
LedgerIsNewestLoad ==
  /\ \A i \in DOMAIN loads :
       /\ IdOf(loads[i]) \in DOMAIN ledger
       /\ VersionOf(loads[i]) <= ledger[IdOf(loads[i])]
  /\ \A id \in DOMAIN ledger : \E i \in DOMAIN loads :
       IdOf(loads[i]) = id /\ VersionOf(loads[i]) = ledger[id]

\* An envelope counts as too old only because the same library_id, byte for byte,
\* was loaded at that version or above; ids that look alike in a log do not mix.
TooOldOnlyAfterNewer ==
  \A e \in Envelopes :
    e.payload # {} /\ Stale(e) =>
      \E i \in DOMAIN loads : /\ IdOf(loads[i]) = IdOf(e)
                              /\ VersionOf(loads[i]) >= VersionOf(e)

\* Loads stay attributable: what the anchor set resolves a loaded library's kid to
\* is still the key that signed it, in the library domain, however many anchors
\* were registered since.
LoadsStayAttributable ==
  \A i \in DOMAIN loads :
    \E a \in lookup_with_role(anchors, loads[i].kid, "AnomalyLibrarySigner") :
      /\ a.pk = loads[i].signature.pk
      /\ loads[i].signature.tbs[3] = ANOMALY_LIBRARY_AAD

ShortWindows == 0..3600   \* up to an hour

\* No loaded library can be walked under: beside every first-match pattern with a
\* window of up to an hour stands another pattern that accumulates over ten times
\* that window.
ShortPatternsAreBackstopped ==
  \A l \in DOMAIN loads :
    LET patterns == Payload(loads[l]).patterns
    IN  \A i \in DOMAIN patterns :
          /\ patterns[i].firing_rule = "FirstMatch"
          /\ patterns[i].window_seconds \in ShortWindows
          => \E j \in DOMAIN patterns \ {i} :
               /\ patterns[j].firing_rule = "CumulativeOverBaseline"
               /\ patterns[j].window_seconds >= 10 * patterns[i].window_seconds

\* No loaded pattern is blind: a verb predicate of a loaded library matches some
\* verb, because an unknown family would silently match none.
LoadedVerbsCanMatch ==
  \A l \in DOMAIN loads :
    LET patterns == Payload(loads[l]).patterns
        Verbs == IAM_ATTACH_VERBS \cup DESTRUCTIVE_VERBS \cup READ_ONLY_VERBS
    IN  \A i \in DOMAIN patterns :
          /\ patterns[i].scope.kind \in {"VerbResourceMandate", "VerbFanout"}
          /\ patterns[i].scope.verb.kind # "Exact"
          => \E v \in Verbs : VerbMatches(patterns[i].scope.verb, v)
=============================================================================
