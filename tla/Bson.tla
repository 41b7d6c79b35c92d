-------------------------------- MODULE Bson --------------------------------
(***************************************************************************)
(* Documents as bytes and back: internal/storage/bson.go.                  *)
(*                                                                         *)
(* A byte has Base values, an int32 is Width bytes and an int64, a double  *)
(* or a datetime twice as many; with Base = 256 and Width = 4 these are    *)
(* the sizes of the code.  A value is [t |-> type, v |-> contents]; a      *)
(* document is a function from keys to values, or, where the code uses     *)
(* bsonElement, a sequence of [key, value].  A key is one byte long: its   *)
(* place in Names, which are in the order of sort.Strings.  A double is    *)
(* its bits, a time counts Milli per millisecond.  A definition named      *)
(* Bug... is one of the code with a mistake, to show that a property can   *)
(* fail.                                                                   *)
(***************************************************************************)
EXTENDS Integers, SequencesExt, FiniteSetsExt, TLC

CONSTANTS Base, Width, Milli, Names

ASSUME BsonAssumption == /\ Base \in Nat /\ Base > 19
                         /\ {Width, Milli} \subseteq Nat \ {0}
                         /\ Len(Names) < Base

Err == [err |-> TRUE]
Code(key) == CHOOSE n \in DOMAIN Names : Names[n] = key

(* Little endian, two's complement. *)
Bytes(n, w) == [i \in 1..w |-> (n \div Base^(i - 1)) % Base]

(* The bytes as a number without a sign. *)
BugSigned(bytes) == FoldRight(LAMBDA byte, n : byte + Base * n, bytes, 0)

Signed(bytes) ==
  LET n == FoldRight(LAMBDA byte, m : byte + Base * m, bytes, 0)
      size == Base ^ Len(bytes)
  IN IF 2 * n >= size THEN n - size ELSE n

(* The length and the closing zero are part of the length. *)
Framed(body) == Bytes(Width + Len(body) + 1, Width) \o body \o <<0>>

(***************************************************************************)
(* encodeBSON, encodeBSONOrdered, encodeBSONArray and writeBSONElement.    *)
(***************************************************************************)
RECURSIVE Encode(_)

Element(key, value) ==
  LET Tagged(tag, bytes) == <<tag, Code(key), 0>> \o bytes IN
  CASE value.t = "string" -> Tagged(2, Bytes(Len(value.v) + 1, Width) \o value.v \o <<0>>)
    [] value.t = "int"    -> Tagged(16, Bytes(value.v, Width))
    [] value.t = "int64"  -> Tagged(18, Bytes(value.v, 2 * Width))
    [] value.t = "double" -> Tagged(1, Bytes(value.v, 2 * Width))
    [] value.t = "bool"   -> Tagged(8, IF value.v THEN <<1>> ELSE <<0>>)
    [] value.t = "date"   -> Tagged(9, Bytes(value.v \div Milli, 2 * Width))
    [] value.t = "oid"    -> Tagged(7, value.v)  \* written by MongoDB only
    [] value.t = "array"  -> Tagged(4, Encode(value))
    [] value.t \in {"doc", "ordered"} -> Tagged(3, Encode(value))

(* The keys of a map in their order, of a slice in its own, of an array by *)
(* index. *)
Elements(value) ==
  CASE value.t = "ordered" -> value.v
    [] value.t = "array" -> [i \in DOMAIN value.v |->
                               [key |-> ToString(i - 1), value |-> value.v[i]]]
    [] value.t = "doc" ->
         LET keys == SelectSeq(Names, LAMBDA k : k \in DOMAIN value.v)
         IN [i \in DOMAIN keys |-> [key |-> keys[i], value |-> value.v[keys[i]]]]

Encode(value) ==
  Framed(FlattenSeq([i \in DOMAIN Elements(value) |->
                       Element(Elements(value)[i].key, Elements(value)[i].value)]))

(***************************************************************************)
(* decodeBSON and readBSONValue; pos is the index of the next byte.        *)
(***************************************************************************)
RECURSIVE Decode(_), ReadElements(_, _, _, _)

OidWidth == 3 * Width

(* The array ends at the first index that is not there. *)
ArrayOf(doc) == [i \in 1..Min({n \in 0..Len(Names) : ToString(n) \notin DOMAIN doc})
                  |-> doc[ToString(i - 1)]]

(* The value at pos and the index after it, or an error. *)
ReadValue(tag, b, pos) ==
  LET Has(n) == pos + n - 1 <= Len(b)
      Field(from, n) == SubSeq(b, from, from + n - 1)
      Ok(t, v, n) == [value |-> [t |-> t, v |-> v], next |-> pos + n]
      Fixed(t, n) == IF Has(n) THEN Ok(t, Signed(Field(pos, n)), n) ELSE Err
      size == IF Has(Width) THEN Signed(Field(pos, Width)) ELSE 0
      inner == IF size > 0 /\ Has(size) THEN Decode(Field(pos, size)) ELSE Err
  IN CASE tag = 1  -> Fixed("double", 2 * Width)
       [] tag = 2  -> IF size > 0 /\ Has(Width + size)
                      THEN Ok("string", Field(pos + Width, size - 1), Width + size)
                      ELSE Err
       [] tag = 3  -> IF inner = Err THEN Err ELSE Ok("doc", inner, size)
       [] tag = 4  -> IF inner = Err THEN Err ELSE Ok("array", ArrayOf(inner), size)
       [] tag = 7  -> IF Has(OidWidth) THEN Ok("oid", Field(pos, OidWidth), OidWidth)
                      ELSE Err
       [] tag = 8  -> IF Has(1) THEN Ok("bool", b[pos] = 1, 1) ELSE Err
       [] tag = 9  -> IF Has(2 * Width)
                      THEN Ok("date", Milli * Signed(Field(pos, 2 * Width)), 2 * Width)
                      ELSE Err
       [] tag = 10 -> Ok("null", <<>>, 0)
       [] tag = 16 -> Fixed("int", Width)
       [] tag = 18 -> Fixed("int64", 2 * Width)
       [] OTHER    -> Err

(* The elements from pos to the end, after those in doc. *)
ReadElements(b, pos, length, doc) ==
  LET zeros == {e \in pos + 1..length : b[e] = 0}
      key   == b[pos + 1]
      read  == ReadValue(b[pos], b, Min(zeros) + 1)
  IN IF pos >= length THEN doc
     ELSE IF zeros = {} \/ key \notin DOMAIN Names \/ read = Err THEN Err
     ELSE ReadElements(b, read.next, length, (Names[key] :> read.value) @@ doc)

Decode(b) ==
  LET length == Signed(SubSeq(b, 1, Width))
  IN IF Len(b) < Width + 1 \/ length <= 0 \/ length > Len(b) THEN Err
     ELSE ReadElements(b, Width + 1, length, <<>>)
=============================================================================
