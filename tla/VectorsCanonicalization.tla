----------------------- MODULE VectorsCanonicalization -----------------------
(***************************************************************************)
(* Vectors of conformance/canonicalization.json, scaled to the model's     *)
(* caps and alphabet: one or two for each thing the pipeline tells apart,  *)
(* and a family of floats around the borders of the encoder's narrowing.   *)
(***************************************************************************)
EXTENDS Canonicalization

Text(s) == [kind |-> "text", s |-> s]
Key(role) == Text(AllowedKeys[role])
Num(i) == [kind |-> "number", i |-> {i}, f |-> {}]
Real(f) == [kind |-> "number", i |-> {}, f |-> {f}]
Object(entries) == [kind |-> "map", entries |-> entries]

a == 97
b == 98
g == 103   \* the verb get
Params(entries) == Object(entries)

Intent(verb, name, params) ==
  Object(<<<<Key("verb"), Text(verb)>>, <<Key("resource_kind"), Text(<<a>>)>>,
           <<Key("namespace"), Text(<<b>>)>>, <<Key("name"), Text(name)>>, <<Key("params"), params>>>>)
Backwards(v) == [v EXCEPT !.entries = [i \in DOMAIN @ |-> @[Len(@) + 1 - i]]]

Plain == Intent(<<g>>, <<a>>, Params(<<>>))
WithParams(entries) == Intent(<<g>>, <<a>>, Params(entries))

NoInput ==
  [compare |-> <<>>, raw_json |-> {}, raw_bytes |-> {}, raw_intent |-> {},
   apply_twice |-> FALSE, roundtrip_via_cbor |-> FALSE]
Raw(v) == [NoInput EXCEPT !.raw_intent = {v}]
Accepted(v) == [outcome |-> "accept", reject_code |-> {}, canonical_intent |-> {v}]
Rejected(code) == [outcome |-> "reject", reject_code |-> {code}, canonical_intent |-> {}]
CanonVector(id, input, expected) ==
  [id |-> id, suite |-> "canonicalization", input |-> input, expected |-> expected]

RawAccept(id, v) == CanonVector(id, Raw(v), Accepted(v))
RawReject(id, v, code) == CanonVector(id, Raw(v), Rejected(code))

\* JSON texts: {"v":"g","v":"d"}, {"v":01}, {"v":"\ud800"} and {"v":"g"}.
Str(pieces) == [t |-> "string", pieces |-> pieces]
Mark(c) == [t |-> c]
Pair(key, value) == <<Str(<<<<"c", key>>>>), Mark(":"), value>>
Braced(tokens) == <<Mark("{")>> \o tokens \o <<Mark("}")>>
RawText(tokens, v) == [NoInput EXCEPT !.raw_json = {[tokens |-> tokens, json |-> v]}]
Letter(c) == Str(<<<<"c", c>>>>)

HandWritten ==
  <<RawAccept("canon-001", Plain),
    RawReject("canon-011", Intent(<<32, g>>, <<a>>, Params(<<>>)), "normalization-not-applied"),
    RawReject("canon-018", Intent(<<g, 13>>, <<a>>, Params(<<>>)), "invalid-control-char"),
    RawReject("canon-019", Intent(<<g>>, <<a, 769>>, Params(<<>>)), "normalization-not-applied"),
    RawReject("canon-029", Intent(<<71>>, <<a>>, Params(<<>>)), "normalization-not-applied"),
    RawReject("canon-034", WithParams(<<<<Text(<<65>>), Num(1)>>>>), "normalization-not-applied"),
    CanonVector("canon-035", Raw(Backwards(Plain)), Accepted(Plain)),
    CanonVector("canon-038",
      [NoInput EXCEPT !.compare =
         <<[json |-> WithParams(<<<<Text(<<a>>), Num(1)>>, <<Text(<<b>>), Num(2)>>>>)],
           [json |-> Backwards(WithParams(<<<<Text(<<b>>), Num(2)>>, <<Text(<<a>>), Num(1)>>>>))]>>],
      [outcome |-> "accept", reject_code |-> {}, canonical_intent |-> {}]),
    CanonVector("canon-041", RawText(Braced(Pair(118, Letter(g)) \o <<Mark(",")>> \o Pair(118, Letter(100))),
                                     Plain), Rejected("normalization-not-applied")),
    RawReject("canon-042", [Plain EXCEPT !.entries = Append(@, <<Text(<<a>>), Num(1)>>)],
              "normalization-not-applied"),
    CanonVector("canon-044",
      RawText(Braced(Pair(118, [t |-> "number", leading_zero |-> TRUE, zero_fraction |-> FALSE, digits |-> 2])),
              Plain), Rejected("normalization-not-applied")),
    CanonVector("canon-049", RawText(Braced(Pair(118, Letter(g))), Plain), Accepted(Plain)),
    CanonVector("canon-051", RawText(Braced(Pair(118, Str(<<<<"u", 55296>>>>))), Plain), Rejected("invalid-utf8")),
    CanonVector("canon-053", [NoInput EXCEPT !.compare = <<[json |-> Plain], [json |-> WithParams(<<<<Text(<<a>>), Num(1)>>>>)]>>],
                Rejected("normalization-not-applied")),
    RawReject("canon-059", WithParams(<<<<Text(<<a>>), [kind |-> "null"]>>>>), "normalization-not-applied"),
    RawReject("canon-063", Intent(<<g>>, <<a, 0>>, Params(<<>>)), "invalid-control-char"),
    RawReject("canon-071", Intent(<<g>>, <<65345>>, Params(<<>>)), "normalization-not-applied"),
    RawReject("canon-079", Intent(<<>>, <<a>>, Params(<<>>)), "normalization-not-applied"),
    RawReject("canon-081", Intent(<<g>>, [i \in 1 .. (MAX_STRING_BYTES + 1) |-> a], Params(<<>>)),
              "max-length-exceeded"),
    RawReject("canon-083", WithParams(<<<<Text(<<a>>), Params(<<<<Text(<<a>>), Params(<<<<Text(<<a>>),
              Params(<<>>)>>>>)>>>>)>>>>), "max-depth-exceeded"),
    CanonVector("canon-084", [Raw(WithParams(<<<<Text(<<a>>), Num(25)>>, <<Text(<<b>>),
      [kind |-> "array", items |-> <<Num(-70), [kind |-> "bool", b |-> TRUE]>>]>>>>))
      EXCEPT !.roundtrip_via_cbor = TRUE, !.apply_twice = TRUE],
      [outcome |-> "accept", reject_code |-> {}, canonical_intent |-> {}]),
    RawReject("canon-089", Intent(<<a>>, <<a>>, Params(<<>>)), "normalization-not-applied")>>

\* The length hints at the cap and above it.
Hinted(id, digits, expected) ==
  CanonVector(id, Raw([Plain EXCEPT !.entries = Append(@, <<Text(Hint), Text(digits)>>)]), expected)
HintVectors ==
  <<Hinted("canon-080", <<49, 54>>, [outcome |-> "accept", reject_code |-> {}, canonical_intent |-> {}]),
    Hinted("canon-080-above", <<49, 55>>, Rejected("max-length-exceeded"))>>

\* Wide floats with a fraction: below one, or with the last bit of the mantissa.
FloatsNearTheBorders ==
  {f \in [sign : {0, 1}, exp : 4 .. 18, man : {0, 1, 4, 8, 16}] : f.exp < Bias(WideE) \/ f.man = 1}
FloatVector(f) ==
  RawAccept("canon-float-" \o ToString(f.sign) \o "-" \o ToString(f.exp) \o "-" \o ToString(f.man),
            WithParams(<<<<Text(<<a>>), Real(f)>>>>))
\* Their vectors, in the order of their bits.
FloatVectors ==
  LET wide == [i \in 1 .. 2^(WideE + WideM + 1) |-> FromBits(i - 1, WideE, WideM)]
      near == SelectSeq(wide, LAMBDA f : f \in FloatsNearTheBorders)
  IN  [i \in DOMAIN near |-> FloatVector(near[i])]

CanonVectors == HandWritten \o HintVectors \o FloatVectors
=============================================================================
