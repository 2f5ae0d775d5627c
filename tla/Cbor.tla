-------------------------------- MODULE Cbor --------------------------------
(***************************************************************************)
(* The deterministic CBOR codec (cbor/mod.rs) and the JSON bridge          *)
(* (codec/mod.rs) of ephemeral-core.                                       *)
(*                                                                         *)
(* A CoreValue is a record told apart by "kind": null, bool, int, float,   *)
(* text, bytes, array and map.  Texts and byte strings are sequences of    *)
(* bytes, a map is a sequence of <<key, value>>.  A float is a triple      *)
(* [sign, exp, man] of the wide format.  The widths of the formats and of  *)
(* an argument digit are parameters, so that every tier of write_head and  *)
(* every boundary of the float narrowing lies within TLC's integers.       *)
(***************************************************************************)
EXTENDS Integers, Sequences, FiniteSets, TLC

CONSTANTS
  Radix,            \* 256: a digit of an argument
  MaxEmbedded,      \* 23: the largest argument inside the initial byte
  MaxDepth,         \* MAX_CBOR_DEPTH and MAX_JSON_DEPTH, 64
  MaxBytes,         \* MAX_CBOR_BYTES, 32 MiB
  HalfE, HalfM,     \* 5, 10
  SingleE, SingleM, \* 8, 23
  WideE, WideM      \* 11, 52

\* A codec operation that fails is the record [err]; one that succeeds has "ok".
Failed(r) == "err" \in DOMAIN r
Fail(e) == [err |-> e]
Ok(x) == [ok |-> x]

\* The first element that failed.
FirstError(results) ==
  LET bad == {i \in DOMAIN results : Failed(results[i])}
  IN  results[CHOOSE i \in bad : \A j \in bad : i <= j]
AnyFailed(results) == \E i \in DOMAIN results : Failed(results[i])
Collected(results) ==
  IF AnyFailed(results) THEN FirstError(results) ELSE Ok([i \in DOMAIN results |-> results[i].ok])

\* The ? operator: F goes on with the value of what succeeded.
OnOk(r, F(_)) == IF Failed(r) THEN r ELSE F(r.ok)

RECURSIVE Joined(_)
Joined(parts) == IF parts = <<>> THEN <<>> ELSE Head(parts) \o Joined(Tail(parts))

\* Big-endian digits; digits above the fourth are zero for every value here.
BigEndian(n, digits) ==
  [i \in 1 .. digits |-> IF digits - i > 3 /\ Radix > 16 THEN 0 ELSE (n \div Radix^(digits - i)) % Radix]
RECURSIVE FromDigits(_)
FromDigits(ds) == IF ds = <<>> THEN 0 ELSE Radix * FromDigits(SubSeq(ds, 1, Len(ds) - 1)) + ds[Len(ds)]

\* The argument widths behind an initial byte, and the largest argument of each.
Widths == {<<24, 1>>, <<25, 2>>, <<26, 4>>, <<27, 8>>}
FitsIn(arg, digits) == (digits > 3 /\ Radix > 16) \/ arg < Radix^digits

\* write_head: the shortest form.  put refuses to grow past the cap.
write_head(major, arg) ==
  IF arg <= MaxEmbedded THEN Ok(<<32 * major + arg>>)
  ELSE LET fits == {w \in Widths : FitsIn(arg, w[2])}
           w == CHOOSE w \in fits : \A v \in fits : w[2] <= v[2]
       IN  IF fits = {} THEN Fail("IntOutOfCborRange")
           ELSE Ok(<<32 * major + w[1]>> \o BigEndian(arg, w[2]))

write_int(i) == IF i >= 0 THEN write_head(0, i) ELSE write_head(1, -1 - i)
-----------------------------------------------------------------------------
(* Floats.                                                                 *)
Bias(e) == 2^(e - 1) - 1

IsNan(f) == f.exp = 2^WideE - 1 /\ f.man # 0
IsInfinite(f) == f.exp = 2^WideE - 1 /\ f.man = 0

\* Mutant: subnormals are narrowed by one bit too few.
f64_to_f16_exact_Shift(f) ==
  LET unbiased == f.exp - Bias(WideE)
      drop == WideM - HalfM
      lowest == 1 - Bias(HalfE)
      shift == drop + (lowest - unbiased) - 1
      combined == 2^WideM + f.man
  IN  IF f.exp = 0 THEN IF f.man = 0 THEN {[sign |-> f.sign, exp |-> 0, man |-> 0]} ELSE {}
      ELSE IF unbiased \in lowest .. Bias(HalfE)
        THEN IF f.man % 2^drop # 0 THEN {}
             ELSE {[sign |-> f.sign, exp |-> unbiased + Bias(HalfE), man |-> f.man \div 2^drop]}
      ELSE IF unbiased \in (lowest - HalfM) .. (lowest - 1)
        THEN IF combined % 2^shift # 0 THEN {}
             ELSE {[sign |-> f.sign, exp |-> 0, man |-> (combined \div 2^shift) % 2^HalfM]}
      ELSE {}

\* f64_to_f16_exact: zero keeps its sign, a wide subnormal never fits, and below
\* the smallest normal exponent the implicit bit moves into the mantissa.
f64_to_f16_exact(f) ==
  LET unbiased == f.exp - Bias(WideE)
      drop == WideM - HalfM
      lowest == 1 - Bias(HalfE)
      shift == drop + (lowest - unbiased)
      combined == 2^WideM + f.man
  IN  IF f.exp = 0 THEN IF f.man = 0 THEN {[sign |-> f.sign, exp |-> 0, man |-> 0]} ELSE {}
      ELSE IF unbiased \in lowest .. Bias(HalfE)
        THEN IF f.man % 2^drop # 0 THEN {}
             ELSE {[sign |-> f.sign, exp |-> unbiased + Bias(HalfE), man |-> f.man \div 2^drop]}
      ELSE IF unbiased \in (lowest - HalfM) .. (lowest - 1)
        THEN IF combined % 2^shift # 0 THEN {}
             ELSE {[sign |-> f.sign, exp |-> 0, man |-> combined \div 2^shift]}
      ELSE {}

\* The wide float with the value of a narrow one: f16_bits_to_f64 and f64::from.
Widened(b, e, m) ==
  IF b.exp = 2^e - 1
    THEN [sign |-> IF b.man = 0 THEN b.sign ELSE 0, exp |-> 2^WideE - 1,
          man |-> IF b.man = 0 THEN 0 ELSE 2^(WideM - 1)]
  ELSE IF b.exp # 0
    THEN [sign |-> b.sign, exp |-> b.exp - Bias(e) + Bias(WideE), man |-> b.man * 2^(WideM - m)]
  ELSE IF b.man = 0 THEN [sign |-> b.sign, exp |-> 0, man |-> 0]
  ELSE LET p == CHOOSE p \in 0 .. m : 2^p <= b.man /\ b.man < 2^(p + 1)
       IN  [sign |-> b.sign, exp |-> p - m + 1 - Bias(e) + Bias(WideE),
            man |-> (b.man - 2^p) * 2^(WideM - p)]
f16_bits_to_f64(b) == Widened(b, HalfE, HalfM)

\* The cast to f32 rounds; a float that survives the way back was exact.
SingleFloats == [sign : 0 .. 1, exp : 0 .. (2^SingleE - 2), man : 0 .. (2^SingleM - 1)]
f64_to_f32_exact(f) == {b \in SingleFloats : Widened(b, SingleE, SingleM) = f}

\* The bits of a float as digits behind the initial byte.
FloatBytes(ai, b, e, m, digits) ==
  <<224 + ai>> \o BigEndian(b.sign * 2^(e + m) + b.exp * 2^m + b.man, digits)

\* NaN and the infinities have one canonical half-precision form each.
write_float(f) ==
  LET half == f64_to_f16_exact(f)
      single == f64_to_f32_exact(f)
      top == 2^HalfE - 1
  IN  IF IsNan(f)
        THEN FloatBytes(25, [sign |-> 0, exp |-> top, man |-> 2^(HalfM - 1)], HalfE, HalfM, 2)
      ELSE IF IsInfinite(f)
        THEN FloatBytes(25, [sign |-> f.sign, exp |-> top, man |-> 0], HalfE, HalfM, 2)
      ELSE IF half # {} THEN FloatBytes(25, CHOOSE b \in half : TRUE, HalfE, HalfM, 2)
      ELSE IF single # {} THEN FloatBytes(26, CHOOSE b \in single : TRUE, SingleE, SingleM, 4)
      ELSE FloatBytes(27, f, WideE, WideM, 8)
-----------------------------------------------------------------------------
(* The encoder.                                                            *)

\* Vec<u8>'s order: byte by byte, a prefix first.
LexLess(a, b) ==
  \/ \E i \in DOMAIN a \cap DOMAIN b : a[i] < b[i] /\ \A j \in 1 .. (i - 1) : a[j] = b[j]
  \/ Len(a) < Len(b) /\ SubSeq(b, 1, Len(a)) = a

\* Mutant: the entries keep the order they were given in.
SortedEntries_AsGiven(entries) == entries

SortedEntries(entries) == SortSeq(entries, LAMBDA a, b : LexLess(a[1], b[1]))

Counted(major, bytes, n) == OnOk(write_head(major, n), LAMBDA head : Ok(head \o bytes))

\* The map whose keys and values have the encodings parts, in turn.
write_map(parts) ==
  LET n == Len(parts) \div 2
      sorted == SortedEntries([i \in 1 .. n |-> <<parts[2 * i - 1], parts[2 * i]>>])
  IN  IF \E i \in 1 .. (n - 1) : sorted[i][1] = sorted[i + 1][1] THEN Fail("DuplicateMapKey")
      ELSE Counted(5, Joined([i \in 1 .. n |-> sorted[i][1] \o sorted[i][2]]), n)

WithinCap(bytes) == IF Len(bytes) > MaxBytes THEN Fail("Limit") ELSE Ok(bytes)

RECURSIVE write_value(_, _)
write_value(v, depth) ==
  IF depth > MaxDepth THEN Fail("DepthExceeded")
  ELSE OnOk(
    CASE v.kind = "null"  -> Ok(<<246>>)
      [] v.kind = "bool"  -> Ok(<<IF v.b THEN 245 ELSE 244>>)
      [] v.kind = "int"   -> write_int(v.i)
      [] v.kind = "float" -> Ok(write_float(v.f))
      [] v.kind = "bytes" -> Counted(2, v.s, Len(v.s))
      [] v.kind = "text"  -> Counted(3, v.s, Len(v.s))
      [] v.kind = "array" ->
           OnOk(Collected([i \in DOMAIN v.items |-> write_value(v.items[i], depth + 1)]),
                LAMBDA items : Counted(4, Joined(items), Len(items)))
      [] v.kind = "map" ->
           OnOk(Collected([i \in 1 .. (2 * Len(v.entries)) |->
                             write_value(v.entries[(i + 1) \div 2][2 - (i % 2)], depth + 1)]),
                write_map),
    WithinCap)

encode(v) == write_value(v, 0)
-----------------------------------------------------------------------------
(* The decoder.  A read answers [ok |-> value, next |-> position].         *)

\* Bytes that no UTF-8 text contains.
InvalidUtf8Bytes == {255}

Take(bytes, pos, n) ==
  IF pos + n - 1 > Len(bytes) THEN Fail("UnexpectedEof")
  ELSE [ok |-> SubSeq(bytes, pos, pos + n - 1), next |-> pos + n]

\* read_head: any width is accepted, not only the shortest.
read_head(bytes, pos) ==
  LET ai == bytes[pos] % 32
      hits == {w \in Widths : w[1] = ai}
      rest == Take(bytes, pos + 1, (CHOOSE w \in hits : TRUE)[2])
  IN  IF ai <= MaxEmbedded THEN [ok |-> ai, next |-> pos + 1]
      ELSE IF ai = 31 THEN Fail("IndefiniteLength")
      ELSE IF hits = {} THEN Fail("ReservedAdditional")
      ELSE IF Failed(rest) THEN rest
      ELSE [ok |-> FromDigits(rest.ok), next |-> rest.next]

FromBits(n, e, m) == [sign |-> n \div 2^(e + m), exp |-> (n \div 2^m) % 2^e, man |-> n % 2^m]

\* Simple values and floats.
read_simple(bytes, pos) ==
  LET ai == bytes[pos] % 32
      digits == CASE ai = 25 -> 2 [] ai = 26 -> 4 [] ai = 27 -> 8 [] OTHER -> 0
      rest == Take(bytes, pos + 1, digits)
      n == FromDigits(rest.ok)
  IN  CASE ai \in {20, 21} -> [ok |-> [kind |-> "bool", b |-> ai = 21], next |-> pos + 1]
        [] ai = 22 -> [ok |-> [kind |-> "null"], next |-> pos + 1]
        [] ai \in 28 .. 30 -> Fail("ReservedAdditional")
        [] ai = 31 -> Fail("IndefiniteLength")
        [] digits = 0 -> Fail("Unsupported")
        [] digits > 0 /\ Failed(rest) -> rest
        [] OTHER ->
             [ok |-> [kind |-> "float",
                      f |-> CASE ai = 25 -> f16_bits_to_f64(FromBits(n, HalfE, HalfM))
                              [] ai = 26 -> Widened(FromBits(n, SingleE, SingleM), SingleE, SingleM)
                              [] ai = 27 -> FromBits(n, WideE, WideM)],
              next |-> rest.next]

\* The ? operator on a read.
OnRead(r, F(_, _)) == IF Failed(r) THEN r ELSE F(r.ok, r.next)

read_string(major, s, next) ==
  IF major = 2 THEN [ok |-> [kind |-> "bytes", s |-> s], next |-> next]
  ELSE IF \E i \in DOMAIN s : s[i] \in InvalidUtf8Bytes THEN Fail("InvalidUtf8")
  ELSE [ok |-> [kind |-> "text", s |-> s], next |-> next]

Container(major, items, next) ==
  [ok |-> IF major = 4 THEN [kind |-> "array", items |-> items]
          ELSE [kind |-> "map",
                entries |-> [i \in 1 .. (Len(items) \div 2) |-> <<items[2 * i - 1], items[2 * i]>>]],
   next |-> next]

RECURSIVE read_value(_, _, _), ReadMany(_, _, _, _)
read_value(bytes, pos, depth) ==
  IF depth > MaxDepth THEN Fail("DepthExceeded")
  ELSE IF pos > Len(bytes) THEN Fail("UnexpectedEof")
  ELSE IF bytes[pos] \div 32 = 7 THEN read_simple(bytes, pos)
  ELSE OnRead(read_head(bytes, pos), LAMBDA n, next :
    LET major == bytes[pos] \div 32
    IN  CASE major = 6 -> Fail("TagsNotSupported")
          [] major \in {0, 1} ->
               [ok |-> [kind |-> "int", i |-> IF major = 0 THEN n ELSE -1 - n], next |-> next]
          [] major \in {2, 3} ->
               OnRead(Take(bytes, next, n), LAMBDA s, end : read_string(major, s, end))
          [] major \in {4, 5} ->
               OnRead(ReadMany(bytes, next, (major - 3) * n, depth + 1),
                      LAMBDA items, end : Container(major, items, end)))

\* n items in a row.
ReadMany(bytes, pos, n, depth) ==
  IF n = 0 THEN [ok |-> <<>>, next |-> pos]
  ELSE OnRead(read_value(bytes, pos, depth), LAMBDA first, next :
         OnRead(ReadMany(bytes, next, n - 1, depth), LAMBDA rest, end :
           [ok |-> <<first>> \o rest, next |-> end]))

\* decode: one value and nothing behind it.
decode(bytes) ==
  OnRead(read_value(bytes, 1, 0), LAMBDA v, next :
    IF next <= Len(bytes) THEN Fail("TrailingBytes") ELSE Ok(v))

assert_roundtrip(v) ==
  OnOk(encode(v), LAMBDA bytes1 :
    OnOk(decode(bytes1), LAMBDA decoded :
      OnOk(encode(decoded), LAMBDA bytes2 :
        IF bytes1 = bytes2 THEN Ok("same") ELSE Fail("Unsupported"))))

\* An array read as a set: sorted by encoding, equal encodings once.
canonicalize_set_elements(items) ==
  LET encoded == [i \in DOMAIN items |-> encode(items[i])]
      distinct == {i \in DOMAIN items : \A j \in 1 .. (i - 1) : encoded[j] # encoded[i]}
      order == SortSeq([i \in DOMAIN items |-> i], LAMBDA i, j : LexLess(encoded[i].ok, encoded[j].ok))
      kept == SelectSeq(order, LAMBDA i : i \in distinct)
  IN  OnOk(Collected(encoded), LAMBDA all : Ok([i \in DOMAIN kept |-> items[kept[i]]]))
-----------------------------------------------------------------------------
(* The JSON bridge.  A JSON value is a CoreValue whose numbers are records *)
(* [kind |-> "number", i, f] (i {} when it is no 64-bit integer) and whose *)
(* objects have distinct text keys.                                        *)
WithValues(map, vals) == [kind |-> "map", entries |-> [i \in DOMAIN vals |-> <<map.entries[i][1], vals[i]>>]]

RECURSIVE json_to_core(_, _)
json_to_core(v, depth) ==
  IF depth > MaxDepth THEN Fail("DepthExceeded")
  ELSE CASE v.kind = "number" ->
              Ok(IF v.i # {} THEN [kind |-> "int", i |-> CHOOSE i \in v.i : TRUE]
                             ELSE [kind |-> "float", f |-> CHOOSE f \in v.f : TRUE])
         [] v.kind = "array" ->
              OnOk(Collected([i \in DOMAIN v.items |-> json_to_core(v.items[i], depth + 1)]),
                   LAMBDA items : Ok([kind |-> "array", items |-> items]))
         [] v.kind = "map" ->
              OnOk(Collected([i \in DOMAIN v.entries |-> json_to_core(v.entries[i][2], depth + 1)]),
                   LAMBDA vals : Ok(WithValues(v, vals)))
         [] OTHER -> Ok(v)

\* An i64 or a u64.
InJsonRange(i) == Radix > 16 \/ (i < Radix^8 /\ i >= -(Radix^8 \div 2))

\* Back again: what JSON cannot say is an error.
RECURSIVE core_to_json(_, _)
core_to_json(v, depth) ==
  IF depth > MaxDepth THEN Fail("DepthExceeded")
  ELSE CASE v.kind = "int" ->
              IF ~InJsonRange(v.i) THEN Fail("IntOutOfJsonRange")
              ELSE Ok([kind |-> "number", i |-> {v.i}, f |-> {}])
         [] v.kind = "float" ->
              IF IsNan(v.f) \/ IsInfinite(v.f) THEN Fail("NonFiniteFloat")
              ELSE Ok([kind |-> "number", i |-> {}, f |-> {v.f}])
         [] v.kind = "bytes" -> Fail("BytesNotExpressible")
         [] v.kind = "array" ->
              OnOk(Collected([i \in DOMAIN v.items |-> core_to_json(v.items[i], depth + 1)]),
                   LAMBDA items : Ok([kind |-> "array", items |-> items]))
         [] v.kind = "map" ->
              LET Entry(i) ==
                    IF v.entries[i][1].kind # "text" THEN Fail("NonStringMapKey")
                    ELSE IF \E j \in 1 .. (i - 1) : v.entries[j][1] = v.entries[i][1]
                      THEN Fail("DuplicateMapKey")
                    ELSE core_to_json(v.entries[i][2], depth + 1)
              IN  OnOk(Collected([i \in DOMAIN v.entries |-> Entry(i)]), LAMBDA vals : Ok(WithValues(v, vals)))
         [] OTHER -> Ok(v)
=============================================================================
