------------------------------ MODULE KeyCodec ------------------------------
(***************************************************************************)
(* The key encodings: datums in row and index keys (util/encoding,         *)
(* rowenc.go), versions in engine keys (storage/mvcc_key.go), and the      *)
(* range-local keys that travel with a range (keys.go).  A key is a        *)
(* sequence of bytes; everything relies on keys comparing as what they     *)
(* encode.  Words have WordBytes bytes instead of 8 (4 for the logical     *)
(* part of a timestamp).                                                   *)
(*                                                                         *)
(* A step picks two values of the scenario; the invariant is about their   *)
(* keys.                                                                   *)
(***************************************************************************)
EXTENDS Integers, Sequences, FiniteSets, SequencesExt

CONSTANT Environments

VARIABLES env,  \* what is encoded: [kind, fams, values]
          pair  \* the values picked, at most two

vars == <<env, pair>>

WordBytes == 2
Words == 256 * 256
Half == Words \div 2
Bytes(f) == [i \in DOMAIN f |-> 255 - f[i]]   \* complemented

Least(S) == CHOOSE i \in S : \A j \in S : i <= j
Take(s, n) == SubSeq(s, 1, n)
Drop(s, n) == SubSeq(s, n + 1, Len(s))

\* bytes.Compare
Less(a, b) ==
  \E i \in 1..Len(b) :
    /\ i <= Len(a) + 1
    /\ Take(a, i - 1) = Take(b, i - 1)
    /\ i > Len(a) \/ a[i] < b[i]

\* The smallest key above every key with the prefix.
PrefixEnd(k) ==
  LET low == {i \in DOMAIN k : k[i] # 255}
      i   == CHOOSE x \in low : \A j \in low : j <= x
  IN IF low = {} THEN <<255>> ELSE Append(Take(k, i - 1), k[i] + 1)

-----------------------------------------------------------------------------
(* One datum.  A decoder returns the value and what follows it.            *)

EncodeUint64(v) == <<v \div 256, v % 256>>
DecodeUint64(b) == <<b[1] * 256 + b[2], Drop(b, WordBytes)>>

\* The sign bit is flipped: two's complement then compares unsigned.
EncodeInt64(v) == EncodeUint64((v + Half) % Words)
DecodeInt64(b) == <<DecodeUint64(b)[1] - Half, Drop(b, WordBytes)>>

\* A float is its bits, sign first: a negative one is complemented, the
\* others have the sign bit flipped.
EncodeFloat64(bits) ==
  IF bits >= Half THEN EncodeUint64(Words - 1 - bits) ELSE EncodeUint64(bits + Half)
DecodeFloat64(b) ==
  LET u == DecodeUint64(b)[1]
  IN <<IF u >= Half THEN u - Half ELSE Words - 1 - u, Drop(b, WordBytes)>>

EncodeBool(v) == <<IF v THEN 1 ELSE 0>>
DecodeBool(b) == <<b[1] # 0, Drop(b, 1)>>

Escape(s) == FlattenSeq([i \in DOMAIN s |-> IF s[i] = 0 THEN <<0, 255>> ELSE <<s[i]>>])

\* seeded fault: the terminator sorts above an escaped zero byte
EncodeBytesHigh(s) ==
  FlattenSeq([i \in DOMAIN s |-> IF s[i] = 0 THEN <<0, 0>> ELSE <<s[i]>>]) \o <<0, 1>>

\* 00 becomes 00 FF and 00 01 ends the value.
EncodeBytes(s) == Escape(s) \o <<0, 1>>
DecodeBytes(b) ==
  LET n == Least({i \in 1..(Len(b) - 1) : b[i] = 0 /\ b[i + 1] = 1})
      e == Take(b, n - 1)
  IN <<[i \in 1..Cardinality({j \in DOMAIN e : j = 1 \/ e[j - 1] # 0}) |->
          e[CHOOSE j \in DOMAIN e : /\ j = 1 \/ e[j - 1] # 0
                                    /\ Cardinality({x \in 1..j : x = 1 \/ e[x - 1] # 0}) = i]],
       Drop(b, n + 1)>>

\* A decimal is +-0.digits * 10^e, no digits for zero: marker, exponent,
\* digits plus one, terminator; all but the marker complemented if negative.
EncodeDecimal(d) ==
  LET body == EncodeInt64(d.e) \o [i \in DOMAIN d.digits |-> d.digits[i] + 1] \o <<0>>
  IN IF d.digits = <<>> THEN <<21>>
     ELSE IF d.neg THEN <<20>> \o Bytes(body) ELSE <<22>> \o body
DecodeDecimal(b) ==
  IF b[1] = 21 THEN <<[neg |-> FALSE, e |-> 0, digits |-> <<>>], Drop(b, 1)>>
  ELSE LET neg  == b[1] = 20
           flip == IF neg THEN Bytes(Drop(b, 1)) ELSE Drop(b, 1)
           body == Drop(flip, WordBytes)
           n    == Least({i \in DOMAIN body : body[i] = 0})
       IN <<[neg |-> neg, e |-> DecodeInt64(flip)[1],
             digits |-> [i \in 1..(n - 1) |-> body[i] - 1]],
            Drop(b, 1 + WordBytes + n)>>

\* Months of 30 days of NanosPerDay; the stored triple follows.
NanosPerDay == 4
CmpValue(v) == (v.months * 30 + v.days) * NanosPerDay + v.nanos

appendDatum(fam, v) ==
  CASE fam = "int"      -> EncodeInt64(v)
    [] fam = "enum"     -> EncodeInt64(v.ord) \o EncodeBytes(v.label)
    [] fam = "interval" -> EncodeInt64(CmpValue(v)) \o EncodeInt64(v.months) \o EncodeInt64(v.days)
    [] fam = "float"    -> EncodeFloat64(v)
    [] fam = "string"   -> EncodeBytes(v)
    [] fam = "bool"     -> EncodeBool(v)
    [] fam = "decimal"  -> EncodeDecimal(v)

decodeKeyDatum(fam, b) ==
  CASE fam = "int"      -> DecodeInt64(b)
    [] fam = "enum"     -> LET o == DecodeInt64(b)
                               l == DecodeBytes(o[2])
                           IN <<[ord |-> o[1], label |-> l[1]], l[2]>>
    [] fam = "interval" -> LET c == DecodeInt64(b)
                               m == DecodeInt64(c[2])
                               d == DecodeInt64(m[2])
                           IN <<[months |-> m[1], days |-> d[1],
                                 nanos |-> c[1] - (m[1] * 30 + d[1]) * NanosPerDay], d[2]>>
    [] fam = "float"    -> DecodeFloat64(b)
    [] fam = "string"   -> DecodeBytes(b)
    [] fam = "bool"     -> DecodeBool(b)
    [] fam = "decimal"  -> DecodeDecimal(b)

-----------------------------------------------------------------------------
(* What the values mean: their order, written without bytes.               *)

Signed(bits) == IF bits >= Half THEN -(bits - Half) ELSE bits

MagnitudeBelow(x, y) ==
  \/ y.digits # <<>> /\ x.digits = <<>>
  \/ /\ x.digits # <<>> /\ y.digits # <<>>
     /\ \/ x.e < y.e
        \/ x.e = y.e /\ Less(x.digits, y.digits)

Below(fam, x, y) ==
  CASE fam = "int"      -> x < y
    [] fam = "enum"     -> x.ord < y.ord
    [] fam = "interval" -> CmpValue(x) < CmpValue(y)
    [] fam = "float"    -> Signed(x) < Signed(y)
    [] fam = "string"   -> Less(x, y)
    [] fam = "bool"     -> ~x /\ y
    [] fam = "decimal"  -> \/ x.neg /\ ~y.neg
                           \/ ~x.neg /\ ~y.neg /\ MagnitudeBelow(x, y)
                           \/ x.neg /\ y.neg /\ MagnitudeBelow(y, x)

TupleBelow(x, y) ==
  \E i \in DOMAIN env.fams :
    /\ \A j \in 1..(i - 1) : x[j] = y[j]
    /\ Below(env.fams[i], x[i], y[i])

-----------------------------------------------------------------------------
(* Rows and index entries.  A row is a tuple of env.fams.  An index is on  *)
(* the columns before the last, which is the primary key.                  *)

TableIndexPrefix(id) == <<4>> \o EncodeUint64(7) \o EncodeUint64(id)

Encoded(r, cols) == FlattenSeq([i \in 1..Len(cols) |-> appendDatum(env.fams[cols[i]], r[cols[i]])])

All == [i \in DOMAIN env.fams |-> i]
Indexed == Take(All, Len(env.fams) - 1)
Key == <<Len(env.fams)>>

EncodePKAt(id, r, cols) == TableIndexPrefix(id) \o Encoded(r, cols)
DecodePK(k) == decodeKeyDatum(env.fams[Len(env.fams)], Drop(k, Len(TableIndexPrefix(1))))[1]

EncodeIndexEntryAt(id, r, unique) ==
  LET k == TableIndexPrefix(id) \o Encoded(r, Indexed)
  IN IF unique THEN <<k, Encoded(r, Key)>> ELSE <<k \o Encoded(r, Key), <<0>>>>

\* What follows the indexed columns.
skipDatum(b) == FoldLeft(LAMBDA rest, i : decodeKeyDatum(env.fams[i], rest)[2], b, Indexed)

IndexEntryPrimaryKey(entry, unique) ==
  TableIndexPrefix(1) \o
    IF unique THEN entry[2]
    ELSE skipDatum(Drop(entry[1], Len(TableIndexPrefix(2))))

-----------------------------------------------------------------------------
(* Engine keys: metadata without a timestamp, then versions newest first.  *)

Empty == [wall |-> 0, logical |-> 0]

appendVersionSuffix(ts) == Bytes(EncodeUint64(ts.wall) \o EncodeUint64(ts.logical))

EncodeMVCCKey(v) ==
  EncodeBytes(v.key) \o IF v.ts = Empty THEN <<>> ELSE appendVersionSuffix(v.ts)

DecodeMVCCKey(b) ==
  LET d == DecodeBytes(b)
      s == Bytes(d[2])
  IN [key |-> d[1],
      ts |-> IF d[2] = <<>> THEN Empty
             ELSE [wall |-> DecodeUint64(s)[1], logical |-> DecodeUint64(Drop(s, WordBytes))[1]]]

mvccKeyBounds(k) ==
  LET lower == EncodeBytes(k)
  IN <<lower, [lower EXCEPT ![Len(lower)] = @ + 1]>>

Later(s, t) == s.wall > t.wall \/ (s.wall = t.wall /\ s.logical > t.logical)

MVCCBelow(x, y) ==
  \/ Less(x.key, y.key)
  \/ x.key = y.key /\ x.ts # y.ts /\ (x.ts = Empty \/ (y.ts # Empty /\ Later(x.ts, y.ts)))

-----------------------------------------------------------------------------
(* Range-local keys: addressed by an embedded key, or the store's own.     *)

localAddressedPrefix == <<1, 107>>
TransactionKey(anchor) == localAddressedPrefix \o EncodeBytes(anchor) \o <<116, 120, 110, 9>>
Addr(k) == IF k[1] # 1 THEN k ELSE DecodeBytes(Drop(k, Len(localAddressedPrefix)))[1]

RangeLocalAddressedSpan(start, end) ==
  LET bound(k) == localAddressedPrefix \o Take(EncodeBytes(k), Len(EncodeBytes(k)) - 2)
  IN <<bound(start), bound(end)>>

makeRangeLocalKey(id, suffix) == <<1, 117, 114>> \o EncodeUint64(id) \o suffix

\* "hs", "ts", and "log" with an index; the others are state-machine state.
IsRaftEngineKey(k) ==
  LET pre    == 3 + WordBytes
      suffix == Drop(k, pre)
  IN /\ Len(k) >= pre /\ k[3] = 114
     /\ \/ suffix \in {<<104, 115>>, <<116, 115>>}
        \/ Len(suffix) = 3 + WordBytes /\ Take(suffix, 3) = <<108, 111, 103>>

LocalKey(v) ==
  makeRangeLocalKey(v.id, v.suffix \o IF v.index = 0 THEN <<>> ELSE EncodeUint64(v.index))

-----------------------------------------------------------------------------

Init == env \in Environments /\ pair = <<>>

Pick == /\ pair = <<>>
        /\ \E x, y \in env.values : pair' = <<x, y>>
        /\ UNCHANGED env

Next == Pick

Spec == Init /\ [][Next]_vars

-----------------------------------------------------------------------------

Within(span, k) == ~Less(k, span[1]) /\ Less(k, span[2])

DatumsRight(x, y) ==
  LET fam == env.fams[1]
      ex  == appendDatum(fam, x)
      ey  == appendDatum(fam, y)
  IN /\ Below(fam, x, y) => Less(ex, ey)
     /\ x # y => ex # ey
     /\ decodeKeyDatum(fam, ex \o ey) = <<x, ey>>
     /\ LET at(e) == TableIndexPrefix(1) \o e
        IN Within(<<at(ex), PrefixEnd(at(ex))>>, at(ey \o ex)) <=> x = y

RowsRight(x, y) ==
  /\ TupleBelow(x, y) => Less(EncodePKAt(1, x, All), EncodePKAt(1, y, All))
  /\ DecodePK(EncodePKAt(1, x, Key)) = x[Len(x)]
  /\ \A unique \in BOOLEAN :
       LET e == EncodeIndexEntryAt(2, x, unique)
           p == EncodePKAt(2, y, Indexed)
       IN /\ IndexEntryPrimaryKey(e, unique) = EncodePKAt(1, x, Key)
          /\ Within(<<p, PrefixEnd(p)>>, e[1])
               <=> Take(x, Len(Indexed)) = Take(y, Len(Indexed))

VersionsRight(x, y) ==
  /\ MVCCBelow(x, y) <=> Less(EncodeMVCCKey(x), EncodeMVCCKey(y))
  /\ DecodeMVCCKey(EncodeMVCCKey(x)) = x
  /\ Within(mvccKeyBounds(x.key), EncodeMVCCKey(y)) <=> x.key = y.key

AddressedRight(x, y) ==
  /\ Addr(TransactionKey(x)) = x
  /\ \A z \in env.values :
       Within(RangeLocalAddressedSpan(y, z), TransactionKey(x)) <=> Within(<<y, z>>, x)

LocalRight(x, y) ==
  /\ x # y => LocalKey(x) # LocalKey(y)
  /\ IsRaftEngineKey(LocalKey(x)) <=> x.raft
  /\ x.id = y.id /\ x.raft /\ y.raft /\ 0 < x.index /\ x.index < y.index
       => Less(LocalKey(x), LocalKey(y))

\* Keys compare as the values they encode and decode to them whatever follows:
\* a row key orders its tuple, a bound made from leading values selects exactly
\* the entries that carry them, an index entry gives back its row's key, a
\* key's metadata comes before its versions and these newest first with no
\* other key between, and the records of a range's transactions are exactly
\* those of its local span (util/encoding, rowenc, storage/mvcc_key, keys).
KeysRight ==
  pair # <<>> =>
    CASE env.kind = "datum"     -> DatumsRight(pair[1], pair[2])
      [] env.kind = "row"       -> RowsRight(pair[1], pair[2])
      [] env.kind = "version"   -> VersionsRight(pair[1], pair[2])
      [] env.kind = "addressed" -> AddressedRight(pair[1], pair[2])
      [] env.kind = "local"     -> LocalRight(pair[1], pair[2])

----
(* Values at the edges of every encoding.                                  *)

Values(kind, fams, vs) == [kind |-> kind, fams |-> fams, values |-> vs]

\* Every string of at most n of the bytes the escaping treats apart.
Strings(n, alphabet) == UNION {[1..i -> alphabet] : i \in 0..n}

Texts == Strings(3, {0, 1, 2, 255})

Numbers == {-Half, -Half + 1, -257, -256, -255, -1, 0, 1, 255, 256, Half - 1}
Datums == Values("datum", <<"int">>, Numbers)

\* No negative zero: it has a key of its own.
Floats == Values("datum", <<"float">>,
                 {0, 1, 255, 256, Half - 1, Half + 1, Half + 256, Words - 1})
Bools == Values("datum", <<"bool">>, BOOLEAN)
Bytestrings == Values("datum", <<"string">>, Texts)
Labels == Values("datum", <<"enum">>,
                 {[ord |-> o, label |-> l] : o \in 0..2, l \in {<<>>, <<0>>, <<1>>, <<0, 255>>}})
Intervals == Values("datum", <<"interval">>,
                    [months : {-1, 0, 1}, days : {-30, 0, 1, 30}, nanos : {-4, 0, 3}])

Digits == {s \in Strings(2, {0, 1, 9}) : s # <<>> /\ s[1] # 0 /\ s[Len(s)] # 0}
Decimals == Values("datum", <<"decimal">>,
                   [neg : BOOLEAN, e : {-257, -1, 0, 1}, digits : Digits]
                     \union {[neg |-> FALSE, e |-> 0, digits |-> <<>>]})

RowsOf == Values("row", <<"string", "int", "string">>,
                 {<<a, b, c>> : a \in Strings(2, {0, 255}), b \in {-1, 0}, c \in {<<>>, <<0>>, <<1>>}})

Versions == Values("version", <<>>,
                   [key : Strings(2, {0, 1, 255}),
                    ts : [wall : {0, 1, Words - 1}, logical : {0, 1}]])

Addressed == Values("addressed", <<>>, Strings(2, {0, 1, 2, 255}))

RangeKeys == {[suffix |-> <<104, 115>>, index |-> 0, raft |-> TRUE],
             [suffix |-> <<116, 115>>, index |-> 0, raft |-> TRUE],
             [suffix |-> <<97, 115>>, index |-> 0, raft |-> FALSE],
             [suffix |-> <<100, 101, 115, 99>>, index |-> 0, raft |-> FALSE],
             [suffix |-> <<116, 111, 109, 98>>, index |-> 0, raft |-> FALSE]}
  \union {[suffix |-> <<108, 111, 103>>, index |-> i, raft |-> TRUE] : i \in {1, 255, 256}}
Locals == Values("local", <<>>,
                 {[id |-> i, suffix |-> s.suffix, index |-> s.index, raft |-> s.raft] :
                    i \in {1, 104, 256}, s \in RangeKeys})

Cases == {Datums, Floats, Bools, Bytestrings, Labels, Intervals, Decimals, RowsOf, Versions,
          Addressed, Locals}

\* Nothing to encode.
Keyless == Values("none", <<>>, {})
====
