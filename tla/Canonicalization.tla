-------------------------- MODULE Canonicalization --------------------------
(***************************************************************************)
(* The canonicalization suite of ephemeral-core                            *)
(* (suites/canonicalization.rs): the prescreen of raw JSON, the pipeline   *)
(* of an intent, and the executor of a vector.                             *)
(*                                                                         *)
(* Characters are code points.  The Unicode tables are external and hold   *)
(* the characters that the checks tell apart.                              *)
(***************************************************************************)
EXTENDS Cbor

CONSTANTS MAX_STRING_BYTES,   \* 4096
          MAX_KEY_BYTES,      \* 256
          MAX_INTENT_DEPTH,   \* 9
          MAX_ARRAY_LEN,      \* 256
          MAX_INTENT_BYTES,   \* 65 536
          AllowedKeys,        \* ALLOWED_TOP_LEVEL_KEYS: role -> text
          AllowedVerbs        \* ALLOWED_VERBS, as texts

\* The roles of the top-level keys; all but params are enumerated fields.
ALLOWED_TOP_LEVEL_KEYS == {AllowedKeys[r] : r \in {"verb", "resource_kind", "namespace", "name", "params"}}
ENUMERATED_FIELDS == ALLOWED_TOP_LEVEL_KEYS \ {AllowedKeys["params"]}

NormalizationFamily ==
  {"normalization-not-applied", "unicode-not-nfc", "null-value-forbidden", "case-fold-unstable",
   "nfkc-unstable", "numeric-non-canonical", "duplicate-json-key", "empty-required-field",
   "unknown-field", "unknown-verb", "whitespace-forbidden"}
MaxLengthFamily ==
  {"max-string-length-exceeded", "max-key-length-exceeded", "max-depth-exceeded",
   "max-array-length-exceeded", "max-intent-size-exceeded", "max-length-exceeded"}
CanonRejectCodes ==
  NormalizationFamily \cup MaxLengthFamily \cup
  {"invalid-control-char", "identifier-separator-forbidden", "invalid-utf8", "malformed-encoding"}

\* CanonRejectCode::matches_expected: two names stand for a family.
matches_expected(code, expected) ==
  CASE expected = "normalization-not-applied" -> code \in NormalizationFamily
    [] expected = "max-length-exceeded" -> code \in MaxLengthFamily
    [] OTHER -> code = expected
-----------------------------------------------------------------------------
(* Characters.  Tabs and line ends are no control characters here.         *)
is_general_control(c) == c \in 0 .. 8 \cup {11, 12} \cup 14 .. 31 \cup 127 .. 159
is_forbidden_char(c) ==
  is_general_control(c) \/ c \in {173, 847, 8288, 65279} \cup 8203 .. 8205 \cup 8234 .. 8238
                                \cup 8294 .. 8297 \cup 917504 .. 917631
is_combining_mark(c) ==
  c \in 768 .. 879 \cup 6832 .. 6911 \cup 7616 .. 7679 \cup 8400 .. 8447 \cup 65056 .. 65071

\* External: LATIN A-Z and KELVIN SIGN fold; e + ACUTE composes; ANGSTROM SIGN,
\* LIGATURE FI and FULLWIDTH a decompose.
LowerOf(c) == IF c \in 65 .. 90 THEN c + 32 ELSE IF c = 8490 THEN 107 ELSE c
to_lowercase(s) == [i \in DOMAIN s |-> LowerOf(s[i])]
IsNfc(s) ==
  /\ \A i \in DOMAIN s : s[i] \notin {8490, 8491}
  /\ \A i \in 1 .. (Len(s) - 1) : ~(s[i] \in {97, 101} /\ s[i + 1] = 769)
IsNfkc(s) == IsNfc(s) /\ \A i \in DOMAIN s : s[i] \notin {64257, 65345}

Contains(s, chars) == \E i \in DOMAIN s : s[i] \in chars
-----------------------------------------------------------------------------
(* The pipeline.                                                           *)

\* The visits of a walk over an intent in document order: the keys of a map in
\* front of their values.  A visit is [depth, what, v], what being key or value.
RECURSIVE Walk(_, _)
Walk(v, depth) ==
  <<[depth |-> depth, what |-> "value", v |-> v]>> \o
  (CASE v.kind = "array" -> Joined([i \in DOMAIN v.items |-> Walk(v.items[i], depth + 1)])
     [] v.kind = "map" ->
          Joined([i \in DOMAIN v.entries |->
                    <<[depth |-> depth, what |-> "key", v |-> v.entries[i][1]]>>
                      \o Walk(v.entries[i][2], depth + 1)])
     [] OTHER -> <<>>)

FirstCode(seq, Code(_)) ==
  LET failing == {i \in DOMAIN seq : Code(seq[i]) # "ok"}
  IN  IF failing = {} THEN "ok" ELSE Code(seq[CHOOSE i \in failing : \A j \in failing : i <= j])

Texts(walk) == {walk[i].v.s : i \in {j \in DOMAIN walk : walk[j].v.kind = "text"}}
Values(walk) == {walk[i].v : i \in {j \in DOMAIN walk : walk[j].what = "value"}}

scan_caps(walk) ==
  FirstCode(walk, LAMBDA x :
    IF x.what = "key"
      THEN IF x.v.kind = "text" /\ Len(x.v.s) > MAX_KEY_BYTES THEN "max-key-length-exceeded" ELSE "ok"
    ELSE IF x.depth > MAX_INTENT_DEPTH THEN "max-depth-exceeded"
    ELSE IF x.v.kind = "text" /\ Len(x.v.s) > MAX_STRING_BYTES THEN "max-string-length-exceeded"
    ELSE IF x.v.kind = "array" /\ Len(x.v.items) > MAX_ARRAY_LEN THEN "max-array-length-exceeded"
    ELSE "ok")

check_intent_text_field(key, s) ==
  IF Contains(s, {10, 13}) THEN "invalid-control-char"
  ELSE IF Contains(s, {9, 32}) THEN "whitespace-forbidden"
  ELSE IF key = AllowedKeys["verb"] /\ s = <<>> THEN "empty-required-field"
  ELSE IF \E i \in DOMAIN s : is_combining_mark(s[i]) THEN "unicode-not-nfc"
  ELSE IF ~IsNfkc(s) THEN "nfkc-unstable"
  ELSE IF key # AllowedKeys["name"] /\ to_lowercase(s) # s THEN "case-fold-unstable"
  ELSE IF key = AllowedKeys["verb"] /\ s \notin AllowedVerbs THEN "unknown-verb"
  ELSE "ok"

TextEntries(v) ==
  IF v.kind = "map" THEN SelectSeq(v.entries, LAMBDA e : e[1].kind = "text") ELSE <<>>

check_top_level(v) ==
  LET entries == TextEntries(v)
  IN  IF \E i \in DOMAIN entries : entries[i][1].s \notin ALLOWED_TOP_LEVEL_KEYS THEN "unknown-field"
      ELSE FirstCode(entries, LAMBDA e :
             IF e[1].s \notin ENUMERATED_FIELDS THEN "ok"
             ELSE IF e[2].kind # "text" THEN "normalization-not-applied"
             ELSE check_intent_text_field(e[1].s, e[2].s))

scan_identifier_separator(v) ==
  FirstCode(TextEntries(v), LAMBDA e :
    IF e[1].s = AllowedKeys["name"] /\ e[2].kind = "text" /\ Contains(e[2].s, {47})
      THEN "identifier-separator-forbidden" ELSE "ok")

\* Mutant: keys below the top level may be in any case.
scan_param_keys_AnyCase(walk) ==
  FirstCode(walk, LAMBDA x :
    IF x.what # "key" \/ x.v.kind # "text" THEN "ok"
    ELSE IF Contains(x.v.s, {9, 10, 13, 32}) THEN "whitespace-forbidden"
    ELSE "ok")

scan_param_keys(walk) ==
  FirstCode(walk, LAMBDA x :
    IF x.what # "key" \/ x.v.kind # "text" THEN "ok"
    ELSE IF Contains(x.v.s, {9, 10, 13, 32}) THEN "whitespace-forbidden"
    ELSE IF to_lowercase(x.v.s) # x.v.s THEN "case-fold-unstable"
    ELSE "ok")

\* Two text keys of one map that fold to the same text.
CaseCollision(v) ==
  LET entries == TextEntries(v)
  IN  \E i, j \in DOMAIN entries : i < j /\ to_lowercase(entries[i][1].s) = to_lowercase(entries[j][1].s)
scan_key_case_collisions(walk) ==
  IF \E v \in Values(walk) : CaseCollision(v) THEN "normalization-not-applied" ELSE "ok"

\* A float is canonical when it is finite, has a fraction and is small enough;
\* with a mantissa of WideM bits a float with a fraction always is.
HasFraction(f) ==
  LET shift == WideM - (f.exp - Bias(WideE))
  IN  IF f.exp = 0 THEN f.man # 0
      ELSE shift > 0 /\ (shift > WideM \/ (2^WideM + f.man) % 2^shift # 0)
scan_numeric(walk) ==
  IF \E v \in Values(walk) : v.kind = "float" /\ (IsNan(v.f) \/ IsInfinite(v.f) \/ ~HasFraction(v.f))
    THEN "numeric-non-canonical" ELSE "ok"

\* run_pipeline: "ok" or the first code.  An intent that cannot be encoded skips
\* the size cap.
run_pipeline(raw) ==
  LET walk == Walk(raw, 0)
      bytes == encode(raw)
      stages ==
        <<IF ~Failed(bytes) /\ Len(bytes.ok) > MAX_INTENT_BYTES THEN "max-intent-size-exceeded" ELSE "ok",
          IF \E s \in Texts(walk) : \E i \in DOMAIN s : is_forbidden_char(s[i])
            THEN "invalid-control-char" ELSE "ok",
          IF \E s \in Texts(walk) : ~IsNfc(s) THEN "unicode-not-nfc" ELSE "ok",
          IF [kind |-> "null"] \in Values(walk) THEN "null-value-forbidden" ELSE "ok",
          scan_caps(walk), check_top_level(raw), scan_identifier_separator(raw),
          scan_param_keys(walk), scan_key_case_collisions(walk), scan_numeric(walk)>>
  IN  FirstCode(stages, LAMBDA c : c)
-----------------------------------------------------------------------------
(* Raw JSON.  A text is a sequence of tokens: a punctuation [t], a string  *)
(* [t |-> "string", pieces], or a number [t |-> "number", leading_zero,    *)
(* zero_fraction, digits].  A piece is <<"c", char>>, <<"e", letter>> for  *)
(* a backslash and a letter, or <<"u", code>> for a \u escape.             *)
High == 55296 .. 56319
Low == 56320 .. 57343

\* A high surrogate escape without a low one right behind it, or a low one alone.
has_unpaired_surrogate_escape(tokens) ==
  \E t \in DOMAIN tokens :
    /\ tokens[t].t = "string"
    /\ LET ps == tokens[t].pieces
           Code(i) == IF i \in DOMAIN ps /\ ps[i][1] = "u" THEN ps[i][2] ELSE 0
       IN  \E i \in DOMAIN ps : \/ Code(i) \in High /\ Code(i + 1) \notin Low
                                \/ Code(i) \in Low /\ Code(i - 1) \notin High

\* Only a number behind a colon, a comma or an opening bracket is looked at.
has_non_canonical_number(tokens) ==
  \E t \in 2 .. Len(tokens) :
    /\ tokens[t].t = "number" /\ tokens[t - 1].t \in {":", ",", "["}
    /\ tokens[t].leading_zero \/ tokens[t].zero_fraction \/ tokens[t].digits > 20

\* The scanner's reading of a string: the backslash is dropped, a \u escape
\* stays the letter u and four digits.
Hex(code) == [i \in 1 .. 4 |-> LET d == (code \div 16^(4 - i)) % 16 IN IF d < 10 THEN 48 + d ELSE 87 + d]
Scanned(pieces) ==
  Joined([i \in DOMAIN pieces |->
            IF pieces[i][1] = "u" THEN <<117>> \o Hex(pieces[i][2]) ELSE <<pieces[i][2]>>])

\* The scan for duplicate keys: objects is the stack of the keys of the open
\* objects, pending the string that a colon would make a key.
has_duplicate_json_keys(tokens) ==
  LET scan[i \in 0 .. Len(tokens)] ==
        IF i = 0 THEN [objects |-> <<>>, pending |-> {}, found |-> FALSE]
        ELSE LET w == scan[i - 1]
                 depth == Len(w.objects)
             IN  CASE tokens[i].t = "string" -> [w EXCEPT !.pending = {Scanned(tokens[i].pieces)}]
                   [] tokens[i].t = "{" -> [w EXCEPT !.objects = Append(@, {})]
                   [] tokens[i].t = "}" /\ depth > 0 -> [w EXCEPT !.objects = SubSeq(@, 1, depth - 1)]
                   [] tokens[i].t = ":" /\ depth > 0 ->
                        [objects |-> [w.objects EXCEPT ![depth] = @ \cup w.pending], pending |-> {},
                         found |-> w.found \/ w.pending \cap w.objects[depth] # {}]
                   [] tokens[i].t = ":" -> [w EXCEPT !.pending = {}]
                   [] OTHER -> w
  IN  scan[Len(tokens)].found

prescreen_raw_json(tokens) ==
  IF has_unpaired_surrogate_escape(tokens) THEN "invalid-utf8"
  ELSE IF has_non_canonical_number(tokens) THEN "numeric-non-canonical"
  ELSE IF has_duplicate_json_keys(tokens) THEN "duplicate-json-key"
  ELSE "ok"

\* The parser's error message names a surrogate, a number or neither.
map_parse_error(message) ==
  CASE message = "surrogate" -> "invalid-utf8"
    [] message = "number" -> "numeric-non-canonical"
    [] OTHER -> "malformed-encoding"
-----------------------------------------------------------------------------
(* The executor.                                                           *)
Hint == <<103>>   \* the key "generator_hint"

\* extract_byte_count: the first run of digits that says 16 or more.
extract_byte_count(s) ==
  LET value[i \in 0 .. Len(s)] ==
        IF i = 0 \/ s[i] \notin 48 .. 57 THEN 0 ELSE 10 * value[i - 1] + s[i] - 48
      ends == {i \in DOMAIN s : s[i] \in 48 .. 57 /\ (i = Len(s) \/ s[i + 1] \notin 48 .. 57)
                                /\ value[i] >= 16}
  IN  IF ends = {} THEN {} ELSE {value[CHOOSE i \in ends : \A j \in ends : i <= j]}

\* The hint gives way to a name of the length it asks for.
apply_generator_hint(v) ==
  LET entries == TextEntries(v)
      hints == {i \in DOMAIN entries : /\ entries[i][1].s = Hint /\ entries[i][2].kind = "text"
                                       /\ extract_byte_count(entries[i][2].s) # {}}
      hint == CHOOSE i \in hints : \A j \in hints : i <= j
      len == CHOOSE n \in extract_byte_count(entries[hint][2].s) : TRUE
      rest == SelectSeq(v.entries, LAMBDA e : e[1] # [kind |-> "text", s |-> Hint])
  IN  IF hints = {} THEN v
      ELSE [kind |-> "map", entries |->
              [i \in DOMAIN rest |->
                 IF rest[i][1] = [kind |-> "text", s |-> AllowedKeys["name"]]
                   THEN <<rest[i][1], [kind |-> "text", s |-> [j \in 1 .. len |-> 97]]>>
                   ELSE rest[i]]]

cbor_equal(a, b) == ~Failed(encode(a)) /\ encode(a) = encode(b)

Malformed(core) == IF Failed(core) THEN Fail("malformed-encoding") ELSE core

\* A parsed half of an input: [json] or [error] with the parser's message.
Parsed(raw) ==
  IF "error" \in DOMAIN raw THEN Fail(map_parse_error(raw.error))
  ELSE Malformed(json_to_core(raw.json, 0))

\* extract_raw_intent: the first of raw text, raw bytes and a parsed intent.
extract_raw_intent(input) ==
  LET raw == IF input.raw_json # {} THEN input.raw_json ELSE input.raw_bytes
      text == CHOOSE r \in raw : TRUE
  IN  IF raw # {}
        THEN IF input.raw_json = {} /\ ~text.is_utf8 THEN Fail("invalid-utf8")
             ELSE IF prescreen_raw_json(text.tokens) # "ok" THEN Fail(prescreen_raw_json(text.tokens))
             ELSE Parsed(text)
      ELSE IF input.raw_intent # {} THEN Parsed([json |-> CHOOSE v \in input.raw_intent : TRUE])
      ELSE Fail("malformed-encoding")

\* An outcome is Pass or Fail; expected is [outcome, reject_code, canonical_intent].
verify_rejection(expected, code) ==
  IF expected.outcome = "reject" /\ \E e \in expected.reject_code : matches_expected(code, e)
    THEN "Pass" ELSE "Fail"

verify_acceptance(expected, canonical) ==
  IF /\ expected.outcome # "reject"
     /\ \A stated \in expected.canonical_intent :
          \E core \in {json_to_core(stated, 0)} : ~Failed(core) /\ cbor_equal(canonical, core.ok)
    THEN "Pass" ELSE "Fail"

\* Two intents are compared by their canonical encodings, without a prescreen.
execute_compare(input, expected) ==
  LET Hinted(halves) == [i \in 1 .. 2 |-> apply_generator_hint(halves[i])]
      Equal(ab) == (\A i \in 1 .. 2 : run_pipeline(ab[i]) = "ok") /\ cbor_equal(ab[1], ab[2])
      Compared(ab) ==
        IF Equal(ab) THEN IF expected.outcome = "accept" THEN verify_acceptance(expected, ab[1]) ELSE "Fail"
        ELSE IF expected.outcome = "reject" THEN "Pass" ELSE "Fail"
      OfHalves(halves) == IF Failed(halves) THEN "Fail" ELSE Compared(Hinted(halves.ok))
  IN  IF Len(input.compare) < 2 THEN "Fail"
      ELSE OfHalves(Collected([i \in 1 .. 2 |-> Parsed(input.compare[i])]))

RoundtripDiverges(v) == Failed(assert_roundtrip(v))

\* What the pipeline makes of an intent, and of an input: [ok |-> intent] or
\* [err |-> code].
Piped(intent, code) == IF code = "ok" THEN Ok(intent) ELSE Fail(code)
Canonicalized(input) ==
  OnOk(extract_raw_intent(input), LAMBDA raw :
    LET intent == apply_generator_hint(raw) IN Piped(intent, run_pipeline(intent)))

\* A vector may ask for the pipeline and the codec to be applied to their result.
Verified(canonical, input, expected) ==
  IF Failed(canonical) THEN verify_rejection(expected, canonical.err)
  ELSE IF input.apply_twice /\ (run_pipeline(canonical.ok) # "ok" \/ ~cbor_equal(canonical.ok, canonical.ok))
    THEN "Fail"
  ELSE IF input.roundtrip_via_cbor /\ RoundtripDiverges(canonical.ok) THEN "Fail"
  ELSE verify_acceptance(expected, canonical.ok)

execute(input, expected) ==
  IF input.compare # <<>> THEN execute_compare(input, expected)
  ELSE Verified(Canonicalized(input), input, expected)
=============================================================================
