------------------------ MODULE LibraryVerifierProofs ------------------------
(***************************************************************************)
(* Replay protection and attribution of loaded libraries, and what their   *)
(* bodies were checked for, for every set of envelopes and anchors.        *)
(*                                                                         *)
(* VersionsStrictlyIncrease is inductive only together with the fact that  *)
(* the ledger is exactly the newest load of each id (LedgerIsNewestLoad).  *)
(* What is promised of loaded bodies rests on the fact that each of them   *)
(* passed the content checks (LoadedBodiesSound).                          *)
(***************************************************************************)
EXTENDS LibraryVerifier, SequenceTheorems, TLAPS

\* The inductive invariant.
Inv ==
  /\ TypeOK
  /\ VersionsStrictlyIncrease
  /\ LedgerIsNewestLoad
  /\ LoadsStayAttributable
  /\ \A i \in DOMAIN loads : loads[i].payload # {}

\* TrustAnchorSet::insert never changes what a resolvable kid resolves to.
LEMMA InsertKeepsLookup ==
  ASSUME NEW S, NEW set \in Seq(S), NEW a \in S, NEW kid, NEW role,
         NEW found \in lookup_with_role(set, kid, role)
  PROVE  /\ insert(set, a) \in Seq(S)
         /\ found \in lookup_with_role(insert(set, a), kid, role)
<1>1. CASE \E i \in DOMAIN set : set[i].kid = a.kid
  BY <1>1 DEF insert
<1>2. CASE ~\E i \in DOMAIN set : set[i].kid = a.kid
  <2>1. insert(set, a) = Append(set, a)
    BY <1>2 DEF insert
  <2>2. /\ Append(set, a) \in Seq(S)
        /\ Len(set) \in Nat /\ DOMAIN set = 1..Len(set)
        /\ DOMAIN Append(set, a) = 1..(Len(set) + 1)
        /\ \A i \in 1..Len(set) : Append(set, a)[i] = set[i]
        /\ Append(set, a)[Len(set) + 1] = a
    BY AppendProperties, LenProperties
  <2>3. PICK i \in DOMAIN set :
          /\ found = set[i] /\ set[i].kid = kid /\ set[i].role = role
          /\ \A j \in DOMAIN set : set[j].kid = kid /\ set[j].role = role => i <= j
    BY DEF lookup_with_role
  <2> DEFINE longer == Append(set, a)
  <2> HIDE DEF longer
  <2>4. /\ i \in DOMAIN longer
        /\ found = longer[i] /\ longer[i].kid = kid /\ longer[i].role = role
        /\ \A j \in DOMAIN longer : longer[j].kid = kid /\ longer[j].role = role => i <= j
    BY <2>2, <2>3 DEF longer
  <2>5. found \in lookup_with_role(longer, kid, role)
    BY <2>4 DEF lookup_with_role
  <2> QED
    BY <2>1, <2>2, <2>5 DEF longer
<1> QED
  BY <1>1, <1>2

\* A registration, accepted or refused, is a well-formed anchor set.
LEMMA InsertTyped ==
  ASSUME NEW S, NEW set \in Seq(S), NEW a \in S
  PROVE  insert(set, a) \in Seq(S)
BY AppendProperties DEF insert

\* A verified envelope has a payload and was signed, for the library domain, by
\* the key its kid resolves to.
LEMMA VerifiedIsAttributable ==
  ASSUME NEW e \in Envelopes, NEW now, verify_internal(e, now) = "ok"
  PROVE  /\ e.payload # {}
         /\ VersionOf(e) \in Nat
         /\ \E a \in lookup_with_role(anchors, e.kid, "AnomalyLibrarySigner") :
              a.pk = e.signature.pk /\ e.signature.tbs[3] = ANOMALY_LIBRARY_AAD
<1>1. verify_cose_sign1_with_cap(e, anchors, ANOMALY_LIBRARY_AAD,
                                 "AnomalyLibrarySigner", MAX_ANOMALY_LIBRARY_BYTES) = "Ok"
  BY DEF verify_internal
<1>2. PICK a \in lookup_with_role(anchors, e.kid, "AnomalyLibrarySigner"), p \in e.payload :
        e.signature = [pk |-> a.pk, tbs |-> <<e.alg, e.kid, ANOMALY_LIBRARY_AAD, p>>]
  BY <1>1 DEF verify_cose_sign1_with_cap, SignatureHolds, ToBeSigned
<1>3. Payload(e) \in e.payload
  BY <1>2 DEF Payload
<1> QED
  BY <1>2, <1>3, VersionsTyped DEF VersionOf

\* The verdicts are the ones the error taxonomy names.
LEMMA VerdictTyped ==
  ASSUME NEW e, NEW now
  PROVE  verify_internal(e, now) \in Verdicts
BY DEF verify_internal, Verdicts

\* A load: every other call changes nothing but the verdict or the anchors.
LEMMA LoadKeepsInv ==
  ASSUME Inv, NEW e \in Envelopes, NEW now, Loaded(e, now)
  PROVE  Inv'
<1>1. /\ e.payload # {} /\ VersionOf(e) \in Nat
      /\ \E a \in lookup_with_role(anchors, e.kid, "AnomalyLibrarySigner") :
           a.pk = e.signature.pk /\ e.signature.tbs[3] = ANOMALY_LIBRARY_AAD
  BY VerifiedIsAttributable DEF Loaded
<1>2. /\ loads' = Append(loads, e) /\ ledger' = Advanced(e) /\ anchors' = anchors
      /\ verdict' = "ok" /\ ~Stale(e)
  BY DEF Loaded
<1> DEFINE n == Len(loads)
<1>3. /\ loads \in Seq(Envelopes) /\ n \in Nat /\ DOMAIN loads = 1..n
      /\ loads' \in Seq(Envelopes) /\ DOMAIN loads' = 1..(n + 1)
      /\ \A i \in 1..n : loads'[i] = loads[i]
      /\ loads'[n + 1] = e
  BY <1>2, AppendProperties, LenProperties DEF Inv, TypeOK
<1>4. /\ DOMAIN ledger' = DOMAIN ledger \cup {IdOf(e)}
      /\ ledger'[IdOf(e)] = VersionOf(e)
      /\ \A id \in DOMAIN ledger : id # IdOf(e) => ledger'[id] = ledger[id]
  BY <1>2 DEF Advanced, LedgerKey
<1>5. IdOf(e) \in DOMAIN ledger => ledger[IdOf(e)] \in Nat /\ VersionOf(e) > ledger[IdOf(e)]
  BY <1>1, <1>2 DEF Stale, LedgerKey, Inv, TypeOK
<1>6. ASSUME NEW i \in 1..n
      PROVE  /\ VersionOf(loads[i]) \in Nat
             /\ IdOf(loads[i]) \in DOMAIN ledger
             /\ VersionOf(loads[i]) <= ledger[IdOf(loads[i])]
             /\ IdOf(loads[i]) = IdOf(e) => VersionOf(loads[i]) < VersionOf(e)
  <2>1. loads[i] \in Envelopes /\ loads[i].payload # {}
    BY <1>3, ElementOfSeq DEF Inv
  <2>2. VersionOf(loads[i]) \in Nat
    BY <2>1, VersionsTyped DEF VersionOf, Payload
  <2>3. IdOf(loads[i]) \in DOMAIN ledger /\ VersionOf(loads[i]) <= ledger[IdOf(loads[i])]
    BY <1>3 DEF Inv, LedgerIsNewestLoad
  <2> QED
    BY <1>1, <1>5, <2>2, <2>3
<1> HIDE DEF n
<1>7. VersionsStrictlyIncrease'
  <2> SUFFICES ASSUME NEW i \in 1..(n + 1), NEW j \in 1..(n + 1), i < j,
                      IdOf(loads'[i]) = IdOf(loads'[j])
               PROVE  VersionOf(loads'[i]) < VersionOf(loads'[j])
    BY <1>3 DEF VersionsStrictlyIncrease, IdOf, VersionOf
  <2>1. i \in 1..n /\ loads'[i] = loads[i]
    BY <1>3
  <2>2. CASE j = n + 1
    BY <1>3, <1>6, <2>1, <2>2
  <2>3. CASE j # n + 1
    <3>1. j \in 1..n
      BY <1>3, <2>3
    <3> QED
      BY <1>3, <2>1, <3>1 DEF Inv, VersionsStrictlyIncrease
  <2> QED
    BY <2>2, <2>3
<1>8. LedgerIsNewestLoad'
  <2>1. ASSUME NEW i \in 1..(n + 1)
        PROVE  /\ IdOf(loads'[i]) \in DOMAIN ledger'
               /\ VersionOf(loads'[i]) <= ledger'[IdOf(loads'[i])]
    <3>1. CASE i = n + 1
      BY <1>1, <1>3, <1>4, <3>1
    <3>2. CASE i # n + 1
      <4>1. i \in 1..n
        BY <1>3, <3>2
      <4> QED
        BY <1>1, <1>3, <1>4, <1>6, <4>1
    <3> QED
      BY <3>1, <3>2
  <2>2. ASSUME NEW id \in DOMAIN ledger'
        PROVE  \E i \in 1..(n + 1) : IdOf(loads'[i]) = id /\ VersionOf(loads'[i]) = ledger'[id]
    <3>1. CASE id = IdOf(e)
      BY <1>3, <1>4, <3>1
    <3>2. CASE id # IdOf(e)
      <4>1. PICK i \in 1..n : IdOf(loads[i]) = id /\ VersionOf(loads[i]) = ledger[id]
        BY <1>3, <1>4, <3>2 DEF Inv, LedgerIsNewestLoad
      <4> QED
        BY <1>3, <1>4, <3>2, <4>1
    <3> QED
      BY <3>1, <3>2
  <2> QED
    BY <1>3, <2>1, <2>2 DEF LedgerIsNewestLoad, IdOf, VersionOf
<1>9. ASSUME NEW i \in 1..(n + 1)
      PROVE  /\ loads'[i].payload # {}
             /\ \E a \in lookup_with_role(anchors, loads'[i].kid, "AnomalyLibrarySigner") :
                  /\ a.pk = loads'[i].signature.pk
                  /\ loads'[i].signature.tbs[3] = ANOMALY_LIBRARY_AAD
  <2>1. CASE i = n + 1
    BY <1>1, <1>3, <2>1
  <2>2. CASE i # n + 1
    <3>1. i \in 1..n
      BY <1>3, <2>2
    <3> QED
      BY <1>3, <3>1 DEF Inv, LoadsStayAttributable
  <2> QED
    BY <2>1, <2>2
<1>10. LoadsStayAttributable'
  BY <1>2, <1>3, <1>9 DEF LoadsStayAttributable
<1>11. TypeOK'
  <2>1. DOMAIN ledger' \subseteq {IdOf(loads'[i]) : i \in DOMAIN loads'}
    BY <1>3, <1>8 DEF LedgerIsNewestLoad, IdOf
  <2>2. \A id \in DOMAIN ledger' : ledger'[id] \in Nat
    BY <1>1, <1>4 DEF Inv, TypeOK
  <2> QED
    BY <1>2, <1>3, <2>1, <2>2 DEF TypeOK, Inv, Verdicts, IdOf
<1> QED
  BY <1>3, <1>7, <1>8, <1>9, <1>10, <1>11 DEF Inv

\* Every call keeps the invariant.
LEMMA InvInductive ==
  ASSUME Inv, [Next]_vars
  PROVE  Inv'
<1>1. ASSUME NEW a \in AnchorCandidates, insert_anchor(a)
      PROVE  Inv'
  <2>1. anchors' = insert(anchors, a) /\ UNCHANGED <<ledger, loads, verdict>>
    BY <1>1 DEF insert_anchor
  <2>2. anchors \in Seq(AnchorCandidates) /\ anchors' \in Seq(AnchorCandidates)
    BY <2>1, InsertTyped DEF Inv, TypeOK
  <2>3. LoadsStayAttributable'
    <3> SUFFICES ASSUME NEW i \in DOMAIN loads
                 PROVE  \E b \in lookup_with_role(anchors', loads[i].kid, "AnomalyLibrarySigner") :
                          /\ b.pk = loads[i].signature.pk
                          /\ loads[i].signature.tbs[3] = ANOMALY_LIBRARY_AAD
      BY <2>1 DEF LoadsStayAttributable
    <3>1. PICK b \in lookup_with_role(anchors, loads[i].kid, "AnomalyLibrarySigner") :
            /\ b.pk = loads[i].signature.pk
            /\ loads[i].signature.tbs[3] = ANOMALY_LIBRARY_AAD
      BY DEF Inv, LoadsStayAttributable
    <3>2. b \in lookup_with_role(anchors', loads[i].kid, "AnomalyLibrarySigner")
      BY <2>1, <2>2, <3>1, InsertKeepsLookup
    <3> QED
      BY <3>1, <3>2
  <2> QED
    BY <2>1, <2>2, <2>3 DEF Inv, TypeOK, VersionsStrictlyIncrease, LedgerIsNewestLoad
<1>2. ASSUME UNCHANGED <<anchors, ledger, loads>>, verdict' \in Verdicts
      PROVE  Inv'
  BY <1>2 DEF Inv, TypeOK, VersionsStrictlyIncrease, LedgerIsNewestLoad, LoadsStayAttributable
<1>3. ASSUME NEW e \in Envelopes, NEW now \in Clocks, verify_anomaly_library_signature(e, now)
      PROVE  Inv'
  BY <1>2, <1>3, VerdictTyped DEF verify_anomaly_library_signature
<1>4. ASSUME NEW e \in Envelopes, NEW now \in Clocks, Rejected(e, now)
      PROVE  Inv'
  <2>1. "LibraryVersionTooOld" \in Verdicts
    BY DEF Verdicts
  <2> QED
    BY <1>2, <1>4, <2>1, VerdictTyped DEF Rejected
<1>5. ASSUME NEW e \in Envelopes, NEW now \in Clocks, Loaded(e, now)
      PROVE  Inv'
  BY <1>5, LoadKeepsInv
<1>6. ASSUME UNCHANGED vars
      PROVE  Inv'
  BY <1>2, <1>6 DEF vars, Inv, TypeOK
<1> QED
  BY <1>1, <1>3, <1>4, <1>5, <1>6 DEF Next, verify_anomaly_library_signature_with_ledger

\* The invariant holds throughout.
THEOREM InvHolds == Spec => []Inv
<1>1. Init => Inv
  <2> SUFFICES ASSUME Init PROVE Inv
    OBVIOUS
  <2>1. /\ anchors = <<>> /\ loads = <<>> /\ DOMAIN loads = {} /\ DOMAIN ledger = {}
        /\ verdict = "none"
    BY DEF Init
  <2> QED
    BY <2>1 DEF Inv, TypeOK, Verdicts, VersionsStrictlyIncrease, LedgerIsNewestLoad,
                LoadsStayAttributable
<1>2. Inv /\ [Next]_vars => Inv'
  BY InvInductive
<1> QED
  BY <1>1, <1>2, PTL DEF Spec

\* The verifier's state keeps its type after every sequence of calls, good and bad
\* ones through either entry point (verify_anomaly_library_signature and its
\* variant with a ledger).
THEOREM TypeCorrect == Spec => []TypeOK
<1>1. Inv => TypeOK
  BY DEF Inv
<1> QED
  BY <1>1, InvHolds, PTL

\* No replay, no rollback: verify_anomaly_library_signature_with_ledger accepts
\* strictly increasing versions of each library_id, whatever it is given.
THEOREM NoReplay == Spec => []VersionsStrictlyIncrease
<1>1. Inv => VersionsStrictlyIncrease
  BY DEF Inv
<1> QED
  BY <1>1, InvHolds, PTL

\* A call that fails leaves the ledger as it was: its marks are exactly the newest
\* accepted versions.
THEOREM LedgerTracksLoads == Spec => []LedgerIsNewestLoad
<1>1. Inv => LedgerIsNewestLoad
  BY DEF Inv
<1> QED
  BY <1>1, InvHolds, PTL

\* No envelope is refused as too old unless its own library_id was loaded at that
\* version or above.
THEOREM NoLockout == Spec => []TooOldOnlyAfterNewer
<1>1. Inv => TooOldOnlyAfterNewer
  <2> SUFFICES ASSUME Inv, NEW e \in Envelopes, e.payload # {}, Stale(e)
               PROVE  \E i \in DOMAIN loads : /\ IdOf(loads[i]) = IdOf(e)
                                              /\ VersionOf(loads[i]) >= VersionOf(e)
    BY DEF TooOldOnlyAfterNewer
  <2>1. IdOf(e) \in DOMAIN ledger /\ VersionOf(e) <= ledger[IdOf(e)]
    BY DEF Stale, LedgerKey
  <2>2. PICK i \in DOMAIN loads : IdOf(loads[i]) = IdOf(e) /\ VersionOf(loads[i]) = ledger[IdOf(e)]
    BY <2>1 DEF Inv, LedgerIsNewestLoad
  <2>3. VersionOf(e) \in Nat /\ ledger[IdOf(e)] \in Nat
    BY <2>1, VersionsTyped DEF VersionOf, Payload, Inv, TypeOK
  <2> QED
    BY <2>1, <2>2, <2>3
<1> QED
  BY <1>1, InvHolds, PTL

\* Registering anchors never redirects the kid of a loaded library to another key.
THEOREM LoadsAttributable == Spec => []LoadsStayAttributable
<1>1. Inv => LoadsStayAttributable
  BY DEF Inv
<1> QED
  BY <1>1, InvHolds, PTL

-----------------------------------------------------------------------------
(* What the body checks of stage 7 promise about the loaded libraries.     *)

\* The body of an envelope that was accepted: it decoded, its families are known
\* and its short patterns have companions.
BodySound(e) ==
  /\ e \in Envelopes /\ e.payload # {}
  /\ Payload(e).decodes
  /\ check_verb_families_known(Payload(e).patterns)
  /\ check_firing_rule_companions(Payload(e).patterns)

LoadedBodiesSound == \A l \in DOMAIN loads : BodySound(loads[l])

\* Nothing is loaded that did not pass the body checks (verify_internal).
LEMMA BodiesStaySound == Spec => []LoadedBodiesSound
<1>1. Init => LoadedBodiesSound
  BY DEF Init, LoadedBodiesSound
<1>2. Inv /\ LoadedBodiesSound /\ [Next]_vars => LoadedBodiesSound'
  <2> SUFFICES ASSUME Inv, LoadedBodiesSound, [Next]_vars PROVE LoadedBodiesSound'
    OBVIOUS
  <2>1. CASE loads' = loads
    BY <2>1 DEF LoadedBodiesSound
  <2>2. ASSUME NEW e \in Envelopes, NEW now \in Clocks, Loaded(e, now) PROVE LoadedBodiesSound'
    <3>1. verify_internal(e, now) = "ok" /\ loads' = Append(loads, e) /\ loads \in Seq(Envelopes)
      BY <2>2 DEF Loaded, Inv, TypeOK
    <3>2. e.payload # {}
      BY <3>1, VerifiedIsAttributable
    <3>3. BodySound(e)
      BY <3>1, <3>2 DEF verify_internal, BodySound
    <3>4. \A l \in DOMAIN loads' : (l \in DOMAIN loads /\ loads'[l] = loads[l]) \/ loads'[l] = e
      BY <3>1
    <3> QED
      BY <3>3, <3>4 DEF LoadedBodiesSound
  <2>3. loads' = loads \/ \E e \in Envelopes, now \in Clocks : Loaded(e, now)
    BY DEF Next, insert_anchor, verify_anomaly_library_signature, Rejected,
           verify_anomaly_library_signature_with_ledger, vars
  <2> QED
    BY <2>1, <2>2, <2>3
<1> QED
  BY <1>1, <1>2, InvHolds, PTL DEF Spec

\* Every verb predicate of a loaded library matches some verb: unknown families,
\* which match none, do not get past check_verb_families_known.
THEOREM VerbsCanMatch == Spec => []LoadedVerbsCanMatch
<1> DEFINE Verbs == IAM_ATTACH_VERBS \cup DESTRUCTIVE_VERBS \cup READ_ONLY_VERBS
<1>1. ASSUME NEW family \in DOMAIN lookup_family
      PROVE  \E v \in Verbs : family_contains(family, v)
  BY DEF lookup_family, family_contains, IAM_ATTACH_VERBS, DESTRUCTIVE_VERBS, READ_ONLY_VERBS
<1>2. "destructive" \in DOMAIN lookup_family
  BY DEF lookup_family
<1> HIDE DEF Verbs
<1>3. LoadedBodiesSound => LoadedVerbsCanMatch
  <2> SUFFICES ASSUME LoadedBodiesSound, NEW l \in DOMAIN loads,
                      NEW i \in DOMAIN Payload(loads[l]).patterns,
                      Payload(loads[l]).patterns[i].scope.kind \in {"VerbResourceMandate", "VerbFanout"},
                      Payload(loads[l]).patterns[i].scope.verb.kind # "Exact"
               PROVE  \E v \in Verbs : VerbMatches(Payload(loads[l]).patterns[i].scope.verb, v)
    BY DEF LoadedVerbsCanMatch, Verbs
  <2> DEFINE pred == Payload(loads[l]).patterns[i].scope.verb
  <2>1. BodySound(loads[l]) /\ Payload(loads[l]) \in loads[l].payload
    BY DEF LoadedBodiesSound, BodySound, Payload
  <2>2. pred.kind \in {"Family", "AnyDestructive"}
    BY <2>1, PredicatesTyped DEF BodySound
  <2>3. pred.kind = "Family" => pred.family \in DOMAIN lookup_family
    BY <2>1 DEF BodySound, check_verb_families_known
  <2> HIDE DEF pred
  <2>4. \E v \in Verbs : VerbMatches(pred, v)
    BY <1>1, <1>2, <2>2, <2>3 DEF VerbMatches
  <2> QED
    BY <2>4 DEF pred
<1> QED
  BY <1>3, BodiesStaySound, PTL

\* A first-match pattern with a window of up to an hour needs a companion.
LEMMA ShortNeedsCompanion ==
  ASSUME NEW pattern, pattern.firing_rule = "FirstMatch", pattern.window_seconds \in ShortWindows
  PROVE  NeedsCompanion(pattern)
<1>1. \A w \in ShortWindows : w # NoWindow /\ w <= ANTI_WALK_UNDER_WINDOW_SECONDS
  BY DEF ShortWindows, NoWindow, ANTI_WALK_UNDER_WINDOW_SECONDS
<1> QED
  BY <1>1, Zenon DEF NeedsCompanion

\* A companion is found by its id, so it is never the primary itself.
LEMMA CompanionIsAnother ==
  ASSUME NEW patterns, check_firing_rule_companions(patterns),
         NEW i \in DOMAIN patterns,
         patterns[i].firing_rule = "FirstMatch",
         patterns[i].window_seconds \in ShortWindows
  PROVE  \E j \in DOMAIN patterns \ {i} :
           /\ patterns[j].firing_rule = "CumulativeOverBaseline"
           /\ patterns[j].window_seconds >= 10 * patterns[i].window_seconds
<1>1. PICK c \in DOMAIN patterns[i].firing_rule_companions :
        classify_companion(patterns[i].firing_rule_companions[c], patterns[i].window_seconds,
                           patterns, patterns[i].pattern_id)
  BY ShortNeedsCompanion, Zenon DEF check_firing_rule_companions
<1>2. PICK j \in DOMAIN patterns :
        /\ patterns[j].pattern_id # patterns[i].pattern_id
        /\ patterns[j].firing_rule = "CumulativeOverBaseline"
        /\ patterns[j].window_seconds >= patterns[i].window_seconds * 10
  BY <1>1, Zenon DEF classify_companion, ANTI_WALK_UNDER_COMPANION_MULTIPLIER
<1>3. \A w \in ShortWindows : w * 10 = 10 * w
  BY DEF ShortWindows
<1>4. patterns[j].window_seconds >= 10 * patterns[i].window_seconds
  BY <1>2, <1>3, Zenon
<1>5. j \in DOMAIN patterns \ {i}
  BY <1>2, Zenon
<1> QED
  BY <1>2, <1>4, <1>5, Zenon

\* Beside every short first-match pattern of a loaded library stands another one
\* that accumulates over ten times its window (check_firing_rule_companions).
THEOREM ShortPatternsBackstopped == Spec => []ShortPatternsAreBackstopped
<1>1. LoadedBodiesSound => ShortPatternsAreBackstopped
  <2> SUFFICES ASSUME LoadedBodiesSound, NEW l \in DOMAIN loads, NEW patterns,
                      patterns = Payload(loads[l]).patterns, NEW i \in DOMAIN patterns,
                      patterns[i].firing_rule = "FirstMatch",
                      patterns[i].window_seconds \in ShortWindows
               PROVE  \E j \in DOMAIN patterns \ {i} :
                        /\ patterns[j].firing_rule = "CumulativeOverBaseline"
                        /\ patterns[j].window_seconds >= 10 * patterns[i].window_seconds
    BY Zenon DEF ShortPatternsAreBackstopped
  <2>1. check_firing_rule_companions(patterns)
    BY DEF LoadedBodiesSound, BodySound
  <2> QED
    BY <2>1, CompanionIsAnother, Zenon
<1> QED
  BY <1>1, BodiesStaySound, PTL
=============================================================================
