------------------------- MODULE MCLibraryVerifier -------------------------
(***************************************************************************)
(* Envelopes for TLC: two library ids that look alike in a log, sound      *)
(* libraries in several versions, and envelopes with one defect each, at   *)
(* the boundary where there is one.                                        *)
(***************************************************************************)
EXTENDS LibraryVerifier

AnyMandate == [mandate_id |-> {}, integration_ref |-> {}]
Verb(kind, family) ==
  [kind |-> "VerbFanout", verb |-> [kind |-> kind, family |-> family],
   mandate_scope |-> AnyMandate]

Row(id, rule, window, companions) ==
  [pattern_id |-> id, severity |-> "High", action |-> "AutoRevoke", firing_rule |-> rule,
   window_seconds |-> window, firing_rule_companions |-> companions,
   scope |-> Verb("Family", "destructive")]

Primary == Row("storm", "FirstMatch", 3600, <<"gone", "slow">>)
Slow(window) == Row("slow", "CumulativeOverBaseline", window, <<>>)

SoundBody == <<Primary, Slow(36000)>>

\* Bodies with one defect, and two that only look defective.
Bodies ==
  {SoundBody,
   <<Row("storm", "FirstMatch", 3601, <<>>)>>,
   <<Row("storm", "FirstMatch", NoWindow, <<>>),
     [Slow(60) EXCEPT !.severity = "Low", !.action = "Alert"]>>,
   <<Primary, Slow(36000), Slow(36001)>>,
   <<[Primary EXCEPT !.action = "Alert"], Slow(36000)>>,
   <<[Primary EXCEPT !.scope = Verb("Family", "noop")], Slow(36000)>>,
   <<[Primary EXCEPT !.scope = [kind |-> "IamAttachFamily", verb_family |-> "noop",
                                mandate_scope |-> AnyMandate]], Slow(36000)>>,
   <<[Primary EXCEPT !.firing_rule_companions = <<>>], Slow(36000)>>,
   <<[Primary EXCEPT !.firing_rule_companions = <<"storm">>], Slow(36000)>>,
   <<Primary, Slow(35999)>>,
   <<Primary, Slow(NoWindow)>>,
   <<Primary, [Slow(36000) EXCEPT !.firing_rule = "SequenceMatch"]>>}

Library(id, version, body) ==
  [decodes |-> TRUE, signer_kid |-> "ops", signer_kid_len |-> 256, library_id |-> id,
   library_id_len |-> 256, library_version |-> version, abi_version |-> 1,
   issued_at |-> 1, expires_at |-> 2, patterns |-> body]

Sealed(pk, kid, aad, payload) ==
  [size |-> 131072, is_cbor |-> TRUE, depth |-> 16, is_sign1 |-> TRUE,
   alg |-> COSE_ALG_EDDSA, kid |-> kid, payload |-> {payload},
   signature |-> [pk |-> pk, tbs |-> ToBeSigned(COSE_ALG_EDDSA, kid, aad, payload)]]

Signed(payload) == Sealed("k1", "ops", ANOMALY_LIBRARY_AAD, payload)

Good == Library("a", 2, SoundBody)

MCEnvelopes ==
  \* sound libraries
  {Signed(Library("a", v, SoundBody)) : v \in 1..2}
  \cup {Signed(Library("b", 1, SoundBody))}
  \* one defect in the body, at a version nothing sound has
  \cup {Signed(Library("a", 3, body)) : body \in Bodies}
  \* one defect in the payload
  \cup {Signed(p) : p \in {[Good EXCEPT !.decodes = FALSE],
                           [Good EXCEPT !.signer_kid_len = 257],
                           [Good EXCEPT !.library_id_len = 257],
                           [Good EXCEPT !.abi_version = 2],
                           [Good EXCEPT !.signer_kid = "other"]}}
  \* one defect in the envelope
  \cup {[Signed(Good) EXCEPT !.size = 131073], [Signed(Good) EXCEPT !.is_cbor = FALSE],
        [Signed(Good) EXCEPT !.depth = 17], [Signed(Good) EXCEPT !.is_sign1 = FALSE],
        [Signed(Good) EXCEPT !.alg = -7], [Signed(Good) EXCEPT !.kid = ""],
        [Signed(Good) EXCEPT !.payload = {Library("a", 3, SoundBody)}],
        [Signed(Good) EXCEPT !.payload = {}]}
  \* another domain, another signer
  \cup {Sealed("k1", "ops", "tariff", Good), Sealed("k2", "ops", ANOMALY_LIBRARY_AAD, Good),
        Sealed("k2", "tariffs", ANOMALY_LIBRARY_AAD, [Good EXCEPT !.signer_kid = "tariffs"])}

Anchor(kid, pk, role) == [kid |-> kid, alg |-> COSE_ALG_EDDSA, pk |-> pk, role |-> role]

\* The last one competes for the kid of the first.
MCAnchors ==
  {Anchor("ops", "k1", "AnomalyLibrarySigner"), Anchor("tariffs", "k2", "TariffSigner"),
   Anchor("ops", "k2", "AnomalyLibrarySigner")}

MCSanitize == [id \in {"a", "b"} |-> "?"]
=============================================================================
