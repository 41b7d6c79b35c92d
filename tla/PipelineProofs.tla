--------------------------- MODULE PipelineProofs ---------------------------
(* Theorems about a test set on its way from cmd/prepare to the report of  *)
(* cmd/train, for tables, buffers and limits of any size.                  *)
EXTENDS Pipeline, FiniteSetTheorems, SequenceTheorems, WellFoundedInduction, TLAPS

----------------------------------------------------------------------------
(* What the loaders make of a file that holds the pieces in their order.   *)

(* A sequence after another. *)
LEMMA Joined ==
  ASSUME NEW S, NEW a \in Seq(S), NEW b \in Seq(S)
  PROVE  /\ a \o b \in Seq(S) /\ Len(a \o b) = Len(a) + Len(b)
         /\ \A i \in 1 .. Len(a) : (a \o b)[i] = a[i]
         /\ \A i \in 1 .. Len(b) : (a \o b)[Len(a) + i] = b[i]
<1>1. a \o b \in Seq(S) /\ Len(a \o b) = Len(a) + Len(b)
  OBVIOUS
<1>2. \A i \in 1 .. Len(a) : (a \o b)[i] = a[i]
  OBVIOUS
<1>3. \A i \in 1 .. Len(b) : (a \o b)[Len(a) + i] = b[i]
  OBVIOUS
<1>4. QED  BY <1>1, <1>2, <1>3

(* Its elements in the place they have moved to. *)
LEMMA Moved ==
  ASSUME NEW S, NEW a \in Seq(S), NEW b \in Seq(S), NEW i \in 1 .. Len(b)
  PROVE  (a \o b)[Len(a) + i] = b[i]
BY Joined

(* One more element. *)
LEMMA OneMore ==
  ASSUME NEW S, NEW a \in Seq(S), NEW x \in S
  PROVE  /\ a \o <<x>> \in Seq(S) /\ Len(a \o <<x>>) = Len(a) + 1
         /\ (a \o <<x>>)[Len(a) + 1] = x
         /\ \A i \in 1 .. Len(a) : (a \o <<x>>)[i] = a[i]
<1> DEFINE b == Append(a, x)
<1>1. a \o <<x>> = b
  OBVIOUS
<1>2. /\ b \in Seq(S) /\ Len(b) = Len(a) + 1 /\ b[Len(a) + 1] = x
      /\ \A i \in 1 .. Len(a) : b[i] = a[i]
  BY AppendProperties
<1> HIDE DEF b
<1>3. QED  BY <1>1, <1>2

Pieces(f) == f \in Seq(Nat) /\ \A i \in 1 .. Len(f) : f[i] = i

(* Pieces that are written next. *)
LEMMA MorePieces ==
  ASSUME NEW f, Pieces(f), NEW g \in Seq(Nat), \A i \in 1 .. Len(g) : g[i] = Len(f) + i,
         NEW n \in 0 .. Len(g)
  PROVE  /\ Pieces(f \o SubSeq(g, 1, n)) /\ Len(f \o SubSeq(g, 1, n)) = Len(f) + n
         /\ Pieces(f \o g) /\ Len(f \o g) = Len(f) + Len(g)
<1> DEFINE h == SubSeq(g, 1, n)
<1>1. h \in Seq(Nat) /\ Len(h) = n /\ \A i \in 1 .. n : h[i] = g[i]
  BY SubSeqProperties
<1> HIDE DEF h
<1>2. Pieces(f \o h) /\ Len(f \o h) = Len(f) + n
  <2> DEFINE k == f \o h
  <2>1. f \in Seq(Nat) /\ Len(f) \in Nat /\ \A i \in 1 .. Len(f) : f[i] = i
    BY DEF Pieces
  <2>2. /\ k \in Seq(Nat) /\ Len(k) = Len(f) + n
        /\ \A i \in 1 .. Len(f) : k[i] = f[i]
        /\ \A i \in 1 .. n : k[Len(f) + i] = h[i]
    <3>1. h \in Seq(Nat) /\ Len(h) = n /\ f \in Seq(Nat)
      BY <1>1, <2>1
    <3>2. k \in Seq(Nat) /\ Len(k) = Len(f) + Len(h)
      BY <3>1, Joined, Zenon
    <3>3. \A i \in 1 .. Len(f) : k[i] = f[i]
      BY <3>1, Joined, Zenon
    <3>4. \A i \in 1 .. Len(h) : k[Len(f) + i] = h[i]
      <4> HIDE DEF h
      <4>1. k = f \o h /\ h \in Seq(Nat) /\ f \in Seq(Nat)
        BY <3>1
      <4> HIDE DEF k
      <4>2. SUFFICES ASSUME NEW i \in 1 .. Len(h)
                     PROVE  k[Len(f) + i] = h[i]
        OBVIOUS
      <4>3. (f \o h)[Len(f) + i] = h[i]
        BY <4>1, Moved
      <4>4. QED  BY <4>1, <4>3
    <3>5. QED  BY <3>1, <3>2, <3>3, <3>4
  <2> HIDE DEF k
  <2>3. ASSUME NEW i \in 1 .. Len(f) + n
        PROVE  k[i] = i
    <3>1. CASE i <= Len(f)
      <4>1. i \in 1 .. Len(f)
        BY <2>1, <3>1
      <4>2. QED  BY <2>1, <2>2, <4>1, Zenon
    <3>2. CASE i > Len(f)
      <4>1. PICK j \in 1 .. n : i = Len(f) + j
        <5>1. i - Len(f) \in 1 .. n /\ i = Len(f) + (i - Len(f))
          BY <2>1, <3>2
        <5>2. QED  BY <5>1
      <4>2. j \in 1 .. Len(g)
        OBVIOUS
      <4>3. QED  BY <1>1, <2>2, <4>1, <4>2
    <3>3. QED  BY <2>1, <3>1, <3>2
  <2>4. QED  BY <2>1, <2>2, <2>3 DEF Pieces, k
<1>3. Pieces(f \o g) /\ Len(f \o g) = Len(f) + Len(g)
  BY ConcatProperties DEF Pieces
<1>4. QED  BY <1>2, <1>3 DEF h

(* A part of a file up to some piece. *)
LEMMA FewerPieces ==
  ASSUME NEW f, Pieces(f), NEW n \in 0 .. Len(f)
  PROVE  Pieces(SubSeq(f, 1, n)) /\ Len(SubSeq(f, 1, n)) = n
BY SubSeqProperties DEF Pieces

(* The rows a loader can know of: those that are whole, and the cut one.   *)
Known(f, cut, eof) ==
  File!Whole(f) \o (IF cut = "meta" THEN <<>> ELSE File!CutRow(f, cut, eof))

Rows == [row : Nat, cut : {"no"} \cup File!Cuts]

(* They are numbered from the first on, and only the last may be cut. *)
LEMMA KnownRows ==
  ASSUME NEW f, Pieces(f), Len(f) >= 2, NEW cut \in File!Cuts, NEW eof \in BOOLEAN
  PROVE  /\ Known(f, cut, eof) \in Seq(Rows)
         /\ \A i \in 1 .. Len(Known(f, cut, eof)) :
              LET row == Known(f, cut, eof)[i] IN
              /\ row.row = i /\ 2 * i + 1 <= Len(f)
              /\ row.cut # "no" => /\ i = Len(Known(f, cut, eof))
                                   /\ eof /\ Len(f) % 2 = 1 /\ row.cut = cut
                                   /\ File!CutRow(f, cut, eof) # <<>>
<1> DEFINE w == File!Whole(f)
           l == IF cut = "meta" THEN <<>> ELSE File!CutRow(f, cut, eof)
           m == (Len(f) \div 2) - 1
<1>1. Len(f) \in Nat /\ m \in Nat /\ 2 * (m + 1) <= Len(f)
      /\ (Len(f) % 2 = 1 => Len(f) = 2 * (m + 1) + 1)
  BY DEF Pieces
<1>2. w \in Seq(Rows) /\ Len(w) = m /\ \A i \in 1 .. m : w[i] = [row |-> i, cut |-> "no"]
  <2>1. w = [i \in 1 .. m |-> [row |-> (f[2 * i + 1] - 1) \div 2, cut |-> "no"]]
    BY DEF File!Whole, File!Row
  <2>2. \A i \in 1 .. m : f[2 * i + 1] = 2 * i + 1
    BY <1>1 DEF Pieces
  <2>3. \A i \in 1 .. m : (f[2 * i + 1] - 1) \div 2 = i
    BY <1>1, <2>2
  <2>4. \A i \in 1 .. m : w[i] = [row |-> i, cut |-> "no"]
    BY <2>1, <2>3
  <2> HIDE DEF m
  <2>5. \A i \in 1 .. m : w[i] \in Rows
    <3>1. \A i \in 1 .. m : [row |-> i, cut |-> "no"] \in Rows
      BY <1>1 DEF Rows
    <3>2. QED  BY <2>4, <3>1
  <2>6. w = [i \in 1 .. m |-> w[i]]
    BY <2>1
  <2> HIDE DEF w
  <2>7. QED  BY <1>1, <2>4, <2>5, <2>6
<1>3. \/ l = <<>>
      \/ /\ l = <<[row |-> m + 1, cut |-> cut]>>
         /\ eof /\ Len(f) % 2 = 1 /\ File!CutRow(f, cut, eof) # <<>>
  BY <1>1 DEF File!CutRow, File!Row
<1> HIDE DEF w, l, m
<1>4. CASE l = <<>>
  <2>1. w \o l = w
    BY <1>2, <1>4
  <2>2. Known(f, cut, eof) = w
    BY <2>1 DEF Known, w, l
  <2>3. QED  BY <1>1, <1>2, <2>2
<1>5. CASE l # <<>>
  <2> DEFINE r == [row |-> m + 1, cut |-> cut]
             k == w \o l
  <2>1. r \in Rows
    BY <1>1 DEF Rows
  <2>2. l = <<r>> /\ eof /\ Len(f) % 2 = 1 /\ File!CutRow(f, cut, eof) # <<>>
    BY <1>3, <1>5
  <2>3. l \in Seq(Rows) /\ Len(l) = 1 /\ l[1] = r
    BY <2>1, <2>2
  <2>4. Known(f, cut, eof) = k
    BY DEF Known, w, l
  <2>5. /\ k \in Seq(Rows) /\ Len(k) = m + 1 /\ k[m + 1] = r
        /\ \A i \in 1 .. m : k[i] = w[i]
    <3>1. w \in Seq(Rows)
      BY <1>2
    <3>2. k = w \o <<r>>
      BY <2>2
    <3> HIDE DEF r, k
    <3>3. /\ w \o <<r>> \in Seq(Rows) /\ Len(w \o <<r>>) = Len(w) + 1
          /\ (w \o <<r>>)[Len(w) + 1] = r
          /\ \A i \in 1 .. Len(w) : (w \o <<r>>)[i] = w[i]
      <4>1. w \o <<r>> \in Seq(Rows)
        BY <2>1, <3>1, OneMore
      <4>2. Len(w \o <<r>>) = Len(w) + 1
        BY <2>1, <3>1, OneMore
      <4>3. (w \o <<r>>)[Len(w) + 1] = r
        BY <2>1, <3>1, OneMore
      <4>4. \A i \in 1 .. Len(w) : (w \o <<r>>)[i] = w[i]
        BY <2>1, <3>1, OneMore
      <4>5. QED  BY <4>1, <4>2, <4>3, <4>4
    <3>4. QED  BY <1>1, <1>2, <3>2, <3>3
  <2> HIDE DEF k
  <2>6. \A i \in 1 .. m : k[i].row = i /\ k[i].cut = "no" /\ 2 * i + 1 <= Len(f)
    <3>1. \A i \in 1 .. m : 2 * i + 1 <= Len(f)
      BY <1>1
    <3>2. \A i \in 1 .. m : k[i].row = i /\ k[i].cut = "no"
      BY <1>2, <2>5
    <3>3. QED  BY <3>1, <3>2
  <2>7. k[m + 1].row = m + 1 /\ k[m + 1].cut = cut /\ 2 * (m + 1) + 1 <= Len(f)
    BY <1>1, <2>2, <2>5
  <2>8. \A i \in 1 .. m + 1 : i \in 1 .. m \/ i = m + 1
    BY <1>1
  <2>9. QED  BY <2>2, <2>4, <2>5, <2>6, <2>7, <2>8
<1>6. QED  BY <1>4, <1>5

----------------------------------------------------------------------------
(* The two loaders.                                                        *)

Uncut(s) == \A i \in 1 .. Len(s) : s[i].cut # "short"

(* What LoadPreparedObservationsCSV returns: an error or all it knows of.  *)
LEMMA ObservationsAre ==
  ASSUME NEW f, NEW cut \in File!Cuts, NEW eof \in BOOLEAN,
         File!Observations(f, cut, eof) # File!Error
  PROVE  Len(f) >= 2 /\ eof /\ File!Observations(f, cut, eof) = Known(f, cut, eof)
BY DEF File!Observations, File!BadHeader, Known

(* What LoadPreparedObservationsCompactCSV returns: an error, all it knows *)
(* of, or the first limit rows of that. *)
LEMMA CompactIs ==
  ASSUME NEW f, Pieces(f), NEW cut \in File!Cuts, NEW eof \in BOOLEAN, limit \in Nat,
         File!Compact(f, cut, eof) # File!Error
  PROVE  /\ Len(f) >= 2
         /\ LET known == Known(f, cut, eof) IN
            \/ /\ limit \in 1 .. Len(known) - 1
               /\ File!Compact(f, cut, eof) = SubSeq(known, 1, limit)
            \/ /\ limit \notin 1 .. Len(known) - 1
               /\ eof /\ ~(File!CutRow(f, cut, eof) # <<>> /\ cut = "short")
               /\ File!Compact(f, cut, eof) = known
<1> DEFINE known == Known(f, cut, eof)
           ends == {n \in 0 .. Len(known) - 1 : File!Taken(n)}
           last == File!CutRow(f, cut, eof)
<1>1. Len(f) >= 2
  <2>1. ~(Len(f) < 2)
    BY DEF File!Compact, File!BadHeader
  <2>2. Len(f) \in Nat
    BY DEF Pieces
  <2>3. QED  BY <2>1, <2>2
<1>2. Len(known) \in Nat
  BY <1>1, KnownRows
<1>3. File!Compact(f, cut, eof) =
        IF ends # {} THEN SubSeq(known, 1, CHOOSE n \in ends : \A k \in ends : n <= k)
        ELSE IF ~eof \/ (last # <<>> /\ cut \in {"bad", "short"}) THEN File!Error
        ELSE known
  <2>1. ~File!BadHeader(f)
    BY DEF File!Compact
  <2>2. QED  BY <2>1 DEF File!Compact, Known
<1> HIDE DEF known, last
<1>4. \A n : n \in ends <=> n \in 0 .. Len(known) - 1 /\ limit > 0 /\ n >= limit
  BY DEF File!Taken
<1> HIDE DEF ends
<1>5. CASE limit \in 1 .. Len(known) - 1
  <2>1. limit \in ends /\ \A k \in ends : limit <= k
    BY <1>2, <1>4, <1>5
  <2>2. \A n \in ends : n \in Int
    BY <1>4
  <2>3. (CHOOSE n \in ends : \A k \in ends : n <= k) = limit
    <3> DEFINE c == CHOOSE n \in ends : \A k \in ends : n <= k
    <3>1. c \in ends /\ \A k \in ends : c <= k
      BY <2>1
    <3> HIDE DEF c
    <3>2. c <= limit /\ limit <= c /\ c \in Int
      BY <2>1, <2>2, <3>1
    <3>3. c = limit
      BY <1>5, <3>2
    <3>4. QED  BY <3>3 DEF c
  <2>4. File!Compact(f, cut, eof) = SubSeq(known, 1, limit)
    BY <1>3, <2>1, <2>3
  <2>5. QED  BY <1>1, <1>5, <2>4 DEF known
<1>6. CASE limit \notin 1 .. Len(known) - 1
  <2>1. ends = {}
    <3>1. SUFFICES ASSUME NEW n \in ends PROVE FALSE
      OBVIOUS
    <3>2. limit \in 1 .. Len(known) - 1
      BY <1>2, <1>4
    <3>3. QED  BY <1>6, <3>2
  <2>2. eof /\ ~(last # <<>> /\ cut \in {"bad", "short"}) /\ File!Compact(f, cut, eof) = known
    BY <1>3, <2>1
  <2>3. QED  BY <1>1, <1>6, <2>2 DEF known, last
<1>7. QED  BY <1>5, <1>6

(* A sequence that was loaded: the rows up to the number that the disk has *)
(* room for, the last one cut only if the file ended well and in half.     *)
IsPrefix(s, size, clean) ==
  \A i \in DOMAIN s : /\ i \in Nat /\ s[i].row = i /\ 2 * i + 1 <= size
                      /\ s[i].cut # "no" => i = Len(s) /\ clean

(* Both loaders read a prefix, and agree on it. *)
LEMMA WhatIsLoaded ==
  ASSUME NEW f, Pieces(f), NEW cut \in File!Cuts, NEW eof \in BOOLEAN, limit \in Nat,
         NEW l, l = File!Observations(f, cut, eof), NEW c, c = File!Compact(f, cut, eof)
  PROVE  /\ l # File!Error => IsPrefix(l, Len(f), eof /\ Len(f) % 2 = 1)
         /\ c # File!Error => /\ IsPrefix(c, Len(f), eof /\ Len(f) % 2 = 1)
                              /\ \A i \in DOMAIN c : c[i].cut # "short"
         /\ l # File!Error /\ c # File!Error =>
              c = SubSeq(l, 1, IF limit \in 1 .. Len(l) THEN limit ELSE Len(l))
<1> DEFINE k == Known(f, cut, eof)
<1>1. ASSUME Len(f) >= 2
      PROVE  /\ k \in Seq(Rows) /\ IsPrefix(k, Len(f), eof /\ Len(f) % 2 = 1)
             /\ \A i \in DOMAIN k : k[i].cut # "no" => k[i].cut = cut /\ i = Len(k)
                                                       /\ File!CutRow(f, cut, eof) # <<>>
  <2>1. k \in Seq(Rows)
    BY <1>1, KnownRows
  <2>2. \A i \in 1 .. Len(k) :
          /\ k[i].row = i /\ 2 * i + 1 <= Len(f)
          /\ k[i].cut # "no" => /\ i = Len(k) /\ eof /\ Len(f) % 2 = 1 /\ k[i].cut = cut
                                /\ File!CutRow(f, cut, eof) # <<>>
    BY <1>1, KnownRows
  <2> HIDE DEF k
  <2>3. DOMAIN k = 1 .. Len(k) /\ \A i \in DOMAIN k : i \in Nat
    BY <2>1
  <2>4. QED  BY <2>1, <2>2, <2>3 DEF IsPrefix
<1>2. ASSUME l # File!Error
      PROVE  Len(f) >= 2 /\ eof /\ l = k
  BY <1>2, ObservationsAre
<1>3. ASSUME c # File!Error
      PROVE  /\ Len(f) >= 2
             /\ \/ limit \in 1 .. Len(k) - 1 /\ c = SubSeq(k, 1, limit)
                \/ /\ limit \notin 1 .. Len(k) - 1 /\ eof /\ c = k
                   /\ ~(File!CutRow(f, cut, eof) # <<>> /\ cut = "short")
  BY <1>3, CompactIs
<1> HIDE DEF k
<1>4. ASSUME c # File!Error
      PROVE  /\ IsPrefix(c, Len(f), eof /\ Len(f) % 2 = 1)
             /\ \A i \in DOMAIN c : c[i].cut # "short"
  <2>1. CASE limit \in 1 .. Len(k) - 1 /\ c = SubSeq(k, 1, limit)
    <3>1. k \in Seq(Rows) /\ Len(k) \in Nat /\ DOMAIN k = 1 .. Len(k)
      BY <1>1, <1>3, <1>4
    <3>2. Len(c) = limit /\ DOMAIN c = 1 .. limit /\ \A i \in 1 .. limit : c[i] = k[i]
      BY <2>1, <3>1
    <3>3. \A i \in 1 .. limit : i \in DOMAIN k /\ i # Len(k)
      <4>1. Len(k) \in Nat /\ limit \in 1 .. Len(k) - 1
        BY <2>1, <3>1
      <4>2. \A i \in 1 .. limit : i \in 1 .. Len(k) /\ i # Len(k)
        BY <4>1
      <4>3. QED  BY <3>1, <4>2
    <3>4. \A i \in 1 .. limit : /\ c[i].row = i /\ 2 * i + 1 <= Len(f) /\ c[i].cut = "no"
      BY <1>1, <1>3, <1>4, <3>2, <3>3 DEF IsPrefix
    <3>5. QED  BY <3>2, <3>4 DEF IsPrefix
  <2>2. CASE /\ limit \notin 1 .. Len(k) - 1 /\ c = k
             /\ ~(File!CutRow(f, cut, eof) # <<>> /\ cut = "short")
    BY <1>1, <1>3, <1>4, <2>2
  <2>3. QED  BY <1>3, <1>4, <2>1, <2>2
<1>5. ASSUME l # File!Error, c # File!Error
      PROVE  c = SubSeq(l, 1, IF limit \in 1 .. Len(l) THEN limit ELSE Len(l))
  <2>1. l = k /\ k \in Seq(Rows) /\ Len(k) \in Nat
    <3>1. l = k /\ Len(f) >= 2
      BY <1>2, <1>5
    <3>2. k \in Seq(Rows)
      BY <1>1, <3>1
    <3>3. QED  BY <3>1, <3>2
  <2>2. CASE limit \in 1 .. Len(k) - 1 /\ c = SubSeq(k, 1, limit)
    <3>1. limit \in 1 .. Len(l)
      BY <2>1, <2>2
    <3>2. QED  BY <2>1, <2>2, <3>1
  <2>3. CASE limit \notin 1 .. Len(k) - 1 /\ c = k
    <3>1. limit \in 1 .. Len(k) => limit = Len(k)
      BY <2>1, <2>3
    <3>2. SubSeq(k, 1, Len(k)) = k
      BY <2>1
    <3>3. (IF limit \in 1 .. Len(l) THEN limit ELSE Len(l)) = Len(k)
      BY <2>1, <3>1
    <3>4. QED  BY <2>1, <2>3, <3>2, <3>3
  <2>4. QED  BY <1>3, <1>5, <2>2, <2>3
<1>6. QED  BY <1>1, <1>2, <1>4, <1>5

----------------------------------------------------------------------------
(* The inductive invariant of the file.                                    *)

Total == File!Total

FileTypes == /\ table \in Tables /\ gz \in BOOLEAN /\ limit \in Limits
             /\ pc \in {"create", "write", "close", "returned", "killed", "loaded"}
             /\ written \in 0 .. Total /\ buf \in Seq(Nat) /\ Len(buf) <= Cap
             /\ held \in Seq(Nat) /\ Len(held) <= File!Kept
             /\ Pieces(disk) /\ Len(disk) <= Total /\ sealed \in BOOLEAN

(* The save has not failed so far. *)
Going == pc \in {"create", "write"} \/ (pc = "close" /\ result = "nil")

(* Until then the disk, gzip and the buffer hold what was written, in its  *)
(* order: the disk the first pieces, and then whatever is on its way.      *)
Buffered == Going => /\ Len(disk) + Len(held) + Len(buf) = written
                     /\ \A i \in 1 .. Len(held) : held[i] = Len(disk) + i
                     /\ \A i \in 1 .. Len(buf) : buf[i] = Len(disk) + Len(held) + i

(* What the result, and a footer of gzip, stand for. *)
Results == /\ pc \in {"create", "write", "killed"} => result = "none"
           /\ pc = "close" => result \in {"nil", "error"}
           /\ pc = "close" /\ result = "nil" => written = Total
           /\ sealed => gz /\ Len(disk) = Total /\ pc \in {"returned", "loaded"}

NotLoaded == pc # "loaded" => loaded = <<>> /\ compact = <<>>

FileInv == FileTypes /\ Buffered /\ Results /\ NotLoaded /\ LosesOnlyBuffers /\ LoadedIsPrefix

(* The number of pieces. *)
LEMMA TotalType ==
  ASSUME table \in Tables
  PROVE  /\ Len(table) \in Nat /\ Total \in Nat /\ Total >= 2 /\ Total = 2 * (Len(table) + 1)
         /\ Cap \in Nat \ {0} /\ File!Kept \in Nat /\ Limits \subseteq Nat
<1>1. Total = 2 * (Len(table) + 1)
  BY DEF Total, File!Total
<1>2. File!Kept \in Nat
  BY PipelineAssumption DEF File!Kept
<1>3. QED  BY <1>1, <1>2, PipelineAssumption

(* What the initial states establish. *)
LEMMA FileInit == Init => FileInv
<1> SUFFICES ASSUME Init PROVE FileInv
  OBVIOUS
<1>1. /\ table \in Tables /\ gz \in BOOLEAN /\ limit \in Limits /\ pc = "create" /\ written = 0
      /\ buf = <<>> /\ held = <<>> /\ disk = <<>> /\ sealed = FALSE /\ result = "none"
      /\ loaded = <<>> /\ compact = <<>>
  BY DEF Init, File!Init
<1>2. FileTypes
  <2>1. /\ Pieces(disk) /\ Len(disk) = 0 /\ buf \in Seq(Nat) /\ Len(buf) = 0
        /\ held \in Seq(Nat) /\ Len(held) = 0
    BY <1>1 DEF Pieces
  <2>2. Total \in Nat /\ Cap \in Nat /\ File!Kept \in Nat
    BY <1>1, TotalType
  <2>3. /\ table \in Tables /\ gz \in BOOLEAN /\ limit \in Limits /\ sealed \in BOOLEAN
        /\ pc \in {"create", "write", "close", "returned", "killed", "loaded"}
    BY <1>1
  <2>4. written \in 0 .. Total
    BY <1>1, <2>2
  <2>5. Len(buf) <= Cap /\ Len(held) <= File!Kept /\ Len(disk) <= Total
    BY <2>1, <2>2
  <2>6. QED  BY <2>1, <2>3, <2>4, <2>5 DEF FileTypes
<1>3. Buffered /\ Results /\ NotLoaded
  BY <1>1 DEF Buffered, Results, NotLoaded
<1>4. LosesOnlyBuffers
  BY <1>1 DEF LosesOnlyBuffers, File!LosesOnlyBuffers
<1>5. LoadedIsPrefix
  BY <1>1 DEF LoadedIsPrefix, File!LoadedIsPrefix
<1>6. QED  BY <1>2, <1>3, <1>4, <1>5 DEF FileInv

(* Before the loaders have run there is nothing to say of them. *)
LEMMA NotLoadedYet ==
  ASSUME NotLoaded, pc # "loaded", pc' # "loaded", loaded' = loaded, compact' = compact
  PROVE  NotLoaded' /\ LoadedIsPrefix'
<1>1. loaded' = <<>> /\ compact' = <<>>
  BY DEF NotLoaded
<1>2. LoadedIsPrefix'
  BY <1>1 DEF LoadedIsPrefix, File!LoadedIsPrefix
<1>3. QED  BY <1>1, <1>2 DEF NotLoaded

(* What is on its way: what gzip holds and then what the buffer does.      *)
LEMMA PendingIs ==
  ASSUME FileInv, Going
  PROVE  /\ File!Pending \in Seq(Nat) /\ Len(disk) \in Nat
         /\ Len(File!Pending) = Len(held) + Len(buf)
         /\ Len(disk) + Len(File!Pending) = written
         /\ \A i \in 1 .. Len(File!Pending) : File!Pending[i] = Len(disk) + i
<1> DEFINE q == File!Pending
<1>1. /\ buf \in Seq(Nat) /\ held \in Seq(Nat) /\ Len(buf) \in Nat /\ Len(held) \in Nat
      /\ Len(disk) \in Nat /\ Len(disk) + Len(held) + Len(buf) = written
      /\ \A i \in 1 .. Len(held) : held[i] = Len(disk) + i
      /\ \A i \in 1 .. Len(buf) : buf[i] = Len(disk) + Len(held) + i
  BY DEF FileInv, FileTypes, Buffered, Pieces
<1>2. q = held \o buf
  BY DEF File!Pending
<1> HIDE DEF q
<1>3. /\ q \in Seq(Nat) /\ Len(q) = Len(held) + Len(buf)
      /\ \A i \in 1 .. Len(held) : q[i] = held[i]
      /\ \A i \in 1 .. Len(buf) : q[Len(held) + i] = buf[i]
  <2>1. held \in Seq(Nat) /\ buf \in Seq(Nat)
    BY <1>1
  <2>2. q \in Seq(Nat) /\ Len(q) = Len(held) + Len(buf)
    BY <1>2, <2>1, Joined, Zenon
  <2>3. \A i \in 1 .. Len(held) : q[i] = held[i]
    BY <1>2, <2>1, Joined, Zenon
  <2>4. \A i \in 1 .. Len(buf) : q[Len(held) + i] = buf[i]
    <3>1. SUFFICES ASSUME NEW i \in 1 .. Len(buf)
                   PROVE  q[Len(held) + i] = buf[i]
      OBVIOUS
    <3>2. (held \o buf)[Len(held) + i] = buf[i]
      BY <2>1, Moved
    <3>3. QED  BY <1>2, <3>2
  <2>5. QED  BY <2>2, <2>3, <2>4
<1>4. ASSUME NEW i \in 1 .. Len(q)
      PROVE  q[i] = Len(disk) + i
  <2>1. CASE i \in 1 .. Len(held)
    <3>1. q[i] = held[i] /\ held[i] = Len(disk) + i
      BY <1>1, <1>3, <2>1
    <3>2. QED  BY <3>1
  <2>2. CASE i \notin 1 .. Len(held)
    <3>1. PICK j \in 1 .. Len(buf) : i = Len(held) + j
      <4>1. i - Len(held) \in 1 .. Len(buf) /\ i = Len(held) + (i - Len(held))
        BY <1>1, <1>3, <2>2
      <4>2. QED  BY <4>1
    <3>2. q[i] = buf[j] /\ buf[j] = Len(disk) + Len(held) + j
      BY <1>1, <1>3, <3>1
    <3>3. QED  BY <1>1, <3>1, <3>2
  <2>3. QED  BY <2>1, <2>2
<1>5. QED  BY <1>1, <1>3, <1>4 DEF q

(* Some of it reaches the disk. *)
LEMMA Reaches ==
  ASSUME FileInv, Going, NEW n \in 0 .. Len(File!Pending),
         disk' = disk \o SubSeq(File!Pending, 1, n)
  PROVE  /\ Pieces(disk') /\ Len(disk') = Len(disk) + n /\ Len(disk') <= Total
         /\ Total \in Nat /\ written \in 0 .. Total
<1>1. /\ File!Pending \in Seq(Nat) /\ Len(disk) \in Nat
      /\ Len(disk) + Len(File!Pending) = written
      /\ \A i \in 1 .. Len(File!Pending) : File!Pending[i] = Len(disk) + i
  BY PendingIs
<1>2. Pieces(disk) /\ written \in 0 .. Total /\ Total \in Nat
  BY TotalType DEF FileInv, FileTypes
<1>3. Pieces(disk') /\ Len(disk') = Len(disk) + n
  <2> HIDE DEF File!Pending
  <2>1. QED  BY <1>1, <1>2, MorePieces
<1>4. QED  BY <1>1, <1>2, <1>3

(* All of it does. *)
LEMMA ReachesAll ==
  ASSUME FileInv, Going, disk' = disk \o File!Pending
  PROVE  Pieces(disk') /\ Len(disk') = written
<1>1. /\ File!Pending \in Seq(Nat) /\ Len(disk) \in Nat
      /\ Len(disk) + Len(File!Pending) = written
      /\ \A i \in 1 .. Len(File!Pending) : File!Pending[i] = Len(disk) + i
  BY PendingIs
<1>2. Pieces(disk) /\ 0 \in 0 .. Len(File!Pending)
  BY <1>1 DEF FileInv, FileTypes
<1>3. Pieces(disk') /\ Len(disk') = Len(disk) + Len(File!Pending)
  BY <1>1, <1>2, MorePieces
<1>4. QED  BY <1>1, <1>3

(* All but what gzip keeps back does: what is on its way is the rest.      *)
LEMMA Passes ==
  ASSUME FileInv, Going, File!Passed
  PROVE  /\ Pieces(disk') /\ Len(disk') <= Total
         /\ held' \in Seq(Nat) /\ Len(held') <= File!Kept /\ Len(disk') + Len(held') = written
         /\ \A i \in 1 .. Len(held') : held'[i] = Len(disk') + i
<1> DEFINE q == File!Pending
<1>1. /\ q \in Seq(Nat) /\ Len(disk) \in Nat /\ Len(disk) + Len(q) = written
      /\ \A i \in 1 .. Len(q) : q[i] = Len(disk) + i
  BY PendingIs
<1>2. PICK n \in 0 .. Len(q) : /\ Len(q) - n <= File!Kept
                               /\ disk' = disk \o SubSeq(q, 1, n)
                               /\ held' = SubSeq(q, n + 1, Len(q))
  BY DEF File!Passed
<1>3. Pieces(disk') /\ Len(disk') = Len(disk) + n /\ Len(disk') <= Total
  BY <1>2, Reaches
<1> HIDE DEF q
<1>4. /\ held' \in Seq(Nat) /\ Len(held') = Len(q) - n
      /\ \A i \in 1 .. Len(q) - n : held'[i] = q[n + i]
  <2>1. Len(q) \in Nat /\ n \in Nat /\ n <= Len(q)
    BY <1>1
  <2>2. /\ SubSeq(q, n + 1, Len(q)) \in Seq(Nat)
        /\ Len(SubSeq(q, n + 1, Len(q))) = Len(q) - n
        /\ \A i \in 1 .. Len(q) - n : SubSeq(q, n + 1, Len(q))[i] = q[n + i]
    BY <1>1, <2>1
  <2>3. QED  BY <1>2, <2>2
<1>5. ASSUME NEW i \in 1 .. Len(held')
      PROVE  held'[i] = Len(disk') + i
  <2>1. i \in 1 .. Len(q) - n /\ n + i \in 1 .. Len(q)
    BY <1>1, <1>4
  <2>2. held'[i] = q[n + i] /\ q[n + i] = Len(disk) + (n + i)
    BY <1>1, <1>4, <2>1
  <2>3. QED  BY <1>1, <1>3, <2>2
<1>6. Len(held') <= File!Kept
  BY <1>2, <1>4
<1>7. Len(disk') + Len(held') = written
  BY <1>1, <1>3, <1>4
<1>8. QED  BY <1>3, <1>4, <1>5, <1>6, <1>7

(* A part of it does, before an error. *)
LEMMA Breaks ==
  ASSUME FileInv, Going, File!Broken
  PROVE  /\ Pieces(disk') /\ Len(disk') <= Total /\ held' = <<>>
         /\ written - Len(disk') <= Cap + File!Kept
<1>1. /\ Len(disk) \in Nat /\ Len(File!Pending) = Len(held) + Len(buf)
      /\ Len(disk) + Len(File!Pending) = written
  BY PendingIs
<1>2. /\ Len(held) \in Nat /\ Len(buf) \in Nat /\ Len(held) <= File!Kept /\ Len(buf) <= Cap
      /\ Cap \in Nat /\ File!Kept \in Nat
  BY TotalType DEF FileInv, FileTypes
<1>3. PICK n \in 0 .. Len(File!Pending) - 1 :
        disk' = disk \o SubSeq(File!Pending, 1, n) /\ held' = <<>>
  BY DEF File!Broken
<1>4. n \in 0 .. Len(File!Pending) /\ n \in Nat
  BY <1>1, <1>2
<1>5. Pieces(disk') /\ Len(disk') = Len(disk) + n /\ Len(disk') <= Total
  BY <1>3, <1>4, Reaches
<1>6. QED  BY <1>1, <1>2, <1>3, <1>4, <1>5

(* One lemma for each step of the save. *)
LEMMA CreateStep ==
  ASSUME FileInv, table' = table, File!Create
  PROVE  FileInv'
<1>1. /\ pc = "create" /\ gz' = gz /\ limit' = limit /\ written' = written /\ buf' = buf
      /\ held' = held /\ disk' = disk /\ sealed' = sealed /\ loaded' = loaded /\ compact' = compact
      /\ \/ pc' = "write" /\ result' = result
         \/ pc' = "returned" /\ result' = "error"
  BY DEF File!Create, File!Input, File!Loads
<1>2. Total' = Total /\ File!Kept' = File!Kept
  BY <1>1 DEF Total, File!Total, File!Kept
<1>3. FileTypes'
  BY <1>1, <1>2 DEF FileInv, FileTypes, Pieces
<1>4. Buffered' /\ Results'
  BY <1>1, <1>2 DEF FileInv, Buffered, Results, Going
<1>5. LosesOnlyBuffers'
  BY <1>1 DEF FileInv, Results, LosesOnlyBuffers, File!LosesOnlyBuffers
<1>6. NotLoaded' /\ LoadedIsPrefix'
  BY <1>1, NotLoadedYet DEF FileInv
<1>7. QED  BY <1>3, <1>4, <1>5, <1>6 DEF FileInv

(* The writer puts one more piece in its buffer, which has room for it.    *)
LEMMA WriteStep ==
  ASSUME FileInv, table' = table, File!Write
  PROVE  FileInv'
<1>1. /\ pc = "write" /\ written < Total /\ Len(buf) < Cap
      /\ written' = written + 1 /\ buf' = Append(buf, written + 1)
      /\ gz' = gz /\ limit' = limit /\ pc' = pc /\ result' = result
      /\ held' = held /\ disk' = disk /\ sealed' = sealed /\ loaded' = loaded /\ compact' = compact
  BY DEF File!Write, File!Input, File!Loads, Total
<1>2. Total' = Total /\ File!Kept' = File!Kept
  BY <1>1 DEF Total, File!Total, File!Kept
<1>3. /\ Pieces(disk) /\ Len(disk) \in Nat /\ buf \in Seq(Nat) /\ Len(buf) \in Nat
      /\ held \in Seq(Nat) /\ Len(held) \in Nat
      /\ written \in 0 .. Total /\ Total \in Nat /\ Cap \in Nat
      /\ Len(disk) + Len(held) + Len(buf) = written
      /\ \A i \in 1 .. Len(held) : held[i] = Len(disk) + i
      /\ \A i \in 1 .. Len(buf) : buf[i] = Len(disk) + Len(held) + i
  BY <1>1, TotalType DEF FileInv, FileTypes, Buffered, Going, Pieces
<1>4. /\ buf' \in Seq(Nat) /\ Len(buf') = Len(buf) + 1 /\ buf'[Len(buf) + 1] = written + 1
      /\ \A i \in 1 .. Len(buf) : buf'[i] = buf[i]
  BY <1>1, <1>3, AppendProperties
<1>5. FileTypes'
  BY <1>1, <1>2, <1>3, <1>4 DEF FileInv, FileTypes, Pieces
<1>6. Buffered'
  <2>1. /\ Len(disk') + Len(held') + Len(buf') = written'
        /\ \A i \in 1 .. Len(held') : held'[i] = Len(disk') + i
    <3>1. disk' = disk /\ held' = held /\ written' = written + 1 /\ Len(buf') = Len(buf) + 1
      BY <1>1, <1>4
    <3>2. Len(disk) + Len(held) + (Len(buf) + 1) = written + 1
      BY <1>3
    <3>3. \A i \in 1 .. Len(held') : held'[i] = Len(disk') + i
      BY <1>3, <3>1
    <3>4. QED  BY <3>1, <3>2, <3>3
  <2>2. ASSUME NEW i \in 1 .. Len(buf')
        PROVE  buf'[i] = Len(disk') + Len(held') + i
    <3>1. i \in 1 .. Len(buf) \/ i = Len(buf) + 1
      BY <1>3, <1>4
    <3>2. CASE i \in 1 .. Len(buf)
      <4>1. buf'[i] = buf[i] /\ buf[i] = Len(disk) + Len(held) + i
        BY <1>3, <1>4, <3>2
      <4>2. QED  BY <1>1, <4>1
    <3>3. CASE i = Len(buf) + 1
      <4>1. buf'[i] = written + 1
        BY <1>4, <3>3
      <4>2. disk' = disk /\ held' = held
        BY <1>1
      <4>3. written + 1 = Len(disk) + Len(held) + i
        BY <1>3, <3>3
      <4>4. QED  BY <4>1, <4>2, <4>3
    <3>4. QED  BY <3>1, <3>2, <3>3
  <2>3. QED  BY <2>1, <2>2 DEF Buffered
<1>7. Results'
  BY <1>1, <1>2 DEF FileInv, Results
<1>8. LosesOnlyBuffers'
  BY <1>1 DEF FileInv, Results, LosesOnlyBuffers, File!LosesOnlyBuffers
<1>9. NotLoaded' /\ LoadedIsPrefix'
  BY <1>1, NotLoadedYet DEF FileInv
<1>10. QED  BY <1>5, <1>6, <1>7, <1>8, <1>9 DEF FileInv

(* A full buffer goes to the disk or into gzip or, where that fails, a     *)
(* part of what is on its way reaches the disk.                            *)
LEMMA SpillStep ==
  ASSUME FileInv, table' = table, File!Spill
  PROVE  FileInv'
<1>1. /\ pc = "write" /\ buf' = <<>> /\ gz' = gz /\ limit' = limit /\ written' = written
      /\ sealed' = sealed /\ loaded' = loaded /\ compact' = compact
      /\ \/ File!Passed /\ pc' = pc /\ result' = result
         \/ File!Broken /\ pc' = "close" /\ result' = "error"
  BY DEF File!Spill, File!Input, File!Loads
<1>2. Total' = Total /\ File!Kept' = File!Kept
  BY <1>1 DEF Total, File!Total, File!Kept
<1>3. Going
  BY <1>1 DEF Going
<1>4. /\ buf' \in Seq(Nat) /\ Len(buf') = 0 /\ Cap \in Nat /\ written \in Nat
      /\ File!Kept \in Nat
  BY <1>1, TotalType DEF FileInv, FileTypes
<1>5. /\ Pieces(disk') /\ Len(disk') <= Total
      /\ held' \in Seq(Nat) /\ Len(held') \in Nat /\ Len(held') <= File!Kept
  <2>1. CASE File!Passed
    BY <1>3, <2>1, Passes
  <2>2. CASE File!Broken
    <3>1. Pieces(disk') /\ Len(disk') <= Total /\ held' = <<>>
      BY <1>3, <2>2, Breaks
    <3>2. held' \in Seq(Nat) /\ Len(held') = 0
      BY <3>1
    <3>3. QED  BY <1>4, <3>1, <3>2
  <2>3. QED  BY <1>1, <2>1, <2>2
<1>6. FileTypes'
  <2>1. Len(buf') <= Cap /\ Len(held') <= File!Kept' /\ Len(disk') <= Total'
    BY <1>2, <1>4, <1>5
  <2>2. /\ table' \in Tables /\ gz' \in BOOLEAN /\ limit' \in Limits /\ written' \in 0 .. Total'
        /\ pc' \in {"create", "write", "close", "returned", "killed", "loaded"}
        /\ sealed' \in BOOLEAN
    BY <1>1, <1>2 DEF FileInv, FileTypes
  <2>3. QED  BY <1>4, <1>5, <2>1, <2>2 DEF FileTypes, Pieces
<1>7. Buffered'
  <2>1. SUFFICES ASSUME Going'
                 PROVE  /\ Len(disk') + Len(held') + Len(buf') = written'
                        /\ \A i \in 1 .. Len(held') : held'[i] = Len(disk') + i
    BY <1>4 DEF Buffered
  <2>2. File!Passed
    BY <1>1, <2>1 DEF Going
  <2>3. /\ Len(disk') + Len(held') = written
        /\ \A i \in 1 .. Len(held') : held'[i] = Len(disk') + i
    BY <1>3, <2>2, Passes
  <2>4. Len(disk') \in Nat
    BY <1>5 DEF Pieces
  <2>5. QED  BY <1>1, <1>4, <1>5, <2>3, <2>4
<1>8. Results'
  BY <1>1, <1>2 DEF FileInv, Results
<1>9. LosesOnlyBuffers'
  BY <1>1 DEF FileInv, Results, LosesOnlyBuffers, File!LosesOnlyBuffers
<1>10. NotLoaded' /\ LoadedIsPrefix'
  BY <1>1, NotLoadedYet DEF FileInv
<1>11. QED  BY <1>6, <1>7, <1>8, <1>9, <1>10 DEF FileInv

(* The last row is in the buffer: nothing moves.                           *)
LEMMA LastRowStep ==
  ASSUME FileInv, table' = table, File!LastRow
  PROVE  FileInv'
<1>1. /\ pc = "write" /\ written = Total /\ pc' = "close" /\ result' = "nil"
      /\ gz' = gz /\ limit' = limit /\ written' = written /\ buf' = buf
      /\ held' = held /\ disk' = disk /\ sealed' = sealed /\ loaded' = loaded /\ compact' = compact
  BY DEF File!LastRow, File!Input, File!Loads, Total
<1>2. Total' = Total /\ File!Kept' = File!Kept
  BY <1>1 DEF Total, File!Total, File!Kept
<1>3. FileTypes'
  BY <1>1, <1>2 DEF FileInv, FileTypes, Pieces
<1>4. Buffered' /\ Results'
  BY <1>1, <1>2 DEF FileInv, Buffered, Results, Going
<1>5. LosesOnlyBuffers'
  BY <1>1 DEF FileInv, Results, LosesOnlyBuffers, File!LosesOnlyBuffers
<1>6. NotLoaded' /\ LoadedIsPrefix'
  BY <1>1, NotLoadedYet DEF FileInv
<1>7. QED  BY <1>3, <1>4, <1>5, <1>6 DEF FileInv

(* The one step that answers nil: what it has not put on the disk was in a *)
(* buffer of at most Cap pieces or, of a compressed file, in gzip.         *)
LEMMA CloseStep ==
  ASSUME FileInv, table' = table, File!Close
  PROVE  FileInv'
<1>1. /\ pc = "close" /\ pc' = "returned" /\ buf' = <<>> /\ result' = result
      /\ gz' = gz /\ limit' = limit /\ written' = written
      /\ loaded' = loaded /\ compact' = compact
      /\ \/ result = "nil" /\ disk' = disk \o File!Pending /\ held' = <<>> /\ sealed' \in {FALSE, gz}
         \/ result = "nil" /\ File!Broken /\ sealed' = sealed
         \/ result = "error" /\ held' = <<>> /\ disk' = disk /\ sealed' = sealed
  BY DEF File!Close, File!Input, File!Loads
<1>2. Total' = Total /\ File!Kept' = File!Kept
  BY <1>1 DEF Total, File!Total, File!Kept
<1>3. /\ Total \in Nat /\ Cap \in Nat /\ File!Kept \in Nat
      /\ result = "nil" => Going /\ written = Total
  BY <1>1, TotalType DEF Going, FileInv, FileTypes, Results
<1>4. /\ Pieces(disk') /\ Len(disk') <= Total /\ held' = <<>>
      /\ result = "nil" => Total - Len(disk') <= Cap + File!Kept
      /\ ~sealed /\ (sealed' => gz /\ Len(disk') = Total)
  <2>1. ~sealed
    BY <1>1 DEF FileInv, Results
  <2>2. CASE result = "nil" /\ disk' = disk \o File!Pending /\ held' = <<>> /\ sealed' \in {FALSE, gz}
    <3>1. Pieces(disk') /\ Len(disk') = Total
      BY <1>3, <2>2, ReachesAll
    <3>2. Total - Len(disk') = 0
      BY <1>3, <3>1
    <3>3. sealed' => gz
      BY <2>2
    <3>4. QED  BY <1>3, <2>1, <2>2, <3>1, <3>2, <3>3
  <2>3. CASE result = "nil" /\ File!Broken /\ sealed' = sealed
    <3>1. /\ Pieces(disk') /\ Len(disk') <= Total /\ held' = <<>>
          /\ written - Len(disk') <= Cap + File!Kept
      BY <1>3, <2>3, Breaks
    <3>2. QED  BY <1>3, <2>1, <2>3, <3>1
  <2>4. CASE result = "error" /\ held' = <<>> /\ disk' = disk /\ sealed' = sealed
    <3>1. Pieces(disk') /\ Len(disk') <= Total
      BY <2>4 DEF FileInv, FileTypes, Pieces
    <3>2. QED  BY <2>1, <2>4, <3>1
  <2>5. QED  BY <1>1, <2>2, <2>3, <2>4
<1>5. /\ buf' \in Seq(Nat) /\ Len(buf') = 0 /\ held' \in Seq(Nat) /\ Len(held') = 0
  BY <1>1, <1>4
<1>6. FileTypes'
  <2>1. sealed' \in BOOLEAN
    BY <1>1 DEF FileInv, FileTypes
  <2>2. /\ table' \in Tables /\ gz' \in BOOLEAN /\ limit' \in Limits /\ written' \in 0 .. Total'
        /\ pc' \in {"create", "write", "close", "returned", "killed", "loaded"}
    BY <1>1, <1>2 DEF FileInv, FileTypes
  <2>3. Len(buf') <= Cap /\ Len(held') <= File!Kept' /\ Len(disk') <= Total'
    BY <1>2, <1>3, <1>4, <1>5
  <2>4. QED  BY <1>4, <1>5, <2>1, <2>2, <2>3 DEF FileTypes, Pieces
<1>7. Buffered'
  BY <1>1 DEF Buffered, Going
<1>8. Results'
  BY <1>1, <1>2, <1>4 DEF Results
<1>9. LosesOnlyBuffers'
  <2>1. /\ result' = "nil" => Total' - Len(disk') <= Cap + File!Kept'
        /\ sealed' => Len(disk') = Total'
    BY <1>1, <1>2, <1>4
  <2>2. QED  BY <2>1 DEF LosesOnlyBuffers, File!LosesOnlyBuffers, Total, File!Kept
<1>10. NotLoaded' /\ LoadedIsPrefix'
  BY <1>1, NotLoadedYet DEF FileInv
<1>11. QED  BY <1>6, <1>7, <1>8, <1>9, <1>10 DEF FileInv

(* A process that is killed leaves the disk as it is.                      *)
LEMMA KillStep ==
  ASSUME FileInv, table' = table, File!Kill
  PROVE  FileInv'
<1>1. /\ pc \in {"create", "write", "close"} /\ pc' = "killed" /\ result' = "none"
      /\ gz' = gz /\ limit' = limit /\ written' = written /\ buf' = buf
      /\ held' = held /\ disk' = disk /\ sealed' = sealed /\ loaded' = loaded /\ compact' = compact
  BY DEF File!Kill, File!Input, File!Loads
<1>2. Total' = Total /\ File!Kept' = File!Kept
  BY <1>1 DEF Total, File!Total, File!Kept
<1>3. FileTypes'
  BY <1>1, <1>2 DEF FileInv, FileTypes, Pieces
<1>4. Buffered' /\ Results'
  BY <1>1, <1>2 DEF FileInv, Buffered, Results, Going
<1>5. LosesOnlyBuffers'
  BY <1>1 DEF FileInv, Results, LosesOnlyBuffers, File!LosesOnlyBuffers
<1>6. NotLoaded' /\ LoadedIsPrefix'
  BY <1>1, NotLoadedYet DEF FileInv
<1>7. QED  BY <1>3, <1>4, <1>5, <1>6 DEF FileInv

(* What is loaded is made of the pieces on the disk, which are the first   *)
(* ones of the table.                                                      *)
LEMMA LoadStep ==
  ASSUME FileInv, table' = table, File!Load
  PROVE  FileInv'
<1>1. /\ pc \in {"returned", "killed"} /\ pc' = "loaded"
      /\ gz' = gz /\ limit' = limit /\ written' = written /\ buf' = buf
      /\ held' = held /\ disk' = disk /\ sealed' = sealed /\ result' = result
  BY DEF File!Load, File!Input
<1>2. Total' = Total /\ File!Kept' = File!Kept
  BY <1>1 DEF Total, File!Total, File!Kept
<1>3. FileTypes'
  BY <1>1, <1>2 DEF FileInv, FileTypes, Pieces
<1>4. Buffered' /\ Results'
  BY <1>1, <1>2 DEF FileInv, Buffered, Results, Going
<1>5. LosesOnlyBuffers'
  BY <1>1, <1>2 DEF FileInv, LosesOnlyBuffers, File!LosesOnlyBuffers, Total, File!Kept
<1>6. NotLoaded'
  BY <1>1 DEF NotLoaded
<1> DEFINE eof == sealed \/ ~gz
<1>7. PICK cut \in File!Cuts, n \in 0 .. Len(disk) :
        /\ eof => n = Len(disk)
        /\ loaded' = File!Observations(SubSeq(disk, 1, n), cut, eof)
        /\ compact' = File!Compact(SubSeq(disk, 1, n), cut, eof)
  <2>1. Len(disk) \in 0 .. Len(disk)
    BY DEF FileInv, FileTypes, Pieces
  <2>2. PICK cut \in File!Cuts, n \in IF eof THEN {Len(disk)} ELSE 0 .. Len(disk) :
          /\ loaded' = File!Observations(SubSeq(disk, 1, n), cut, eof)
          /\ compact' = File!Compact(SubSeq(disk, 1, n), cut, eof)
    BY DEF File!Load
  <2>3. n \in 0 .. Len(disk) /\ (eof => n = Len(disk))
    BY <2>1
  <2>4. QED  BY <2>2, <2>3
<1> DEFINE f == SubSeq(disk, 1, n)
           clean == eof /\ Len(f) % 2 = 1
<1>8. eof \in BOOLEAN /\ limit \in Nat
  BY TotalType DEF FileInv, FileTypes
<1>9. Pieces(f) /\ Len(f) = n /\ Len(disk) <= Total /\ Len(disk) \in Nat
  BY FewerPieces DEF FileInv, FileTypes, Pieces
<1>10. Total = 2 * (Len(table) + 1) /\ Len(table) \in Nat
  BY TotalType DEF FileInv, FileTypes
<1>11. clean => ~gz
  <2>1. SUFFICES ASSUME clean, gz PROVE FALSE
    OBVIOUS
  <2>2. sealed /\ n = Len(disk)
    BY <1>7, <2>1
  <2>3. Len(f) = 2 * (Len(table) + 1)
    BY <1>9, <1>10, <2>2 DEF FileInv, Results
  <2>4. QED  BY <1>10, <2>1, <2>3
<1>12. \A i \in Nat : 2 * i + 1 <= Len(f) => i <= Len(table)
  BY <1>9, <1>10
<1>13. loaded' = File!Observations(f, cut, eof) /\ compact' = File!Compact(f, cut, eof)
  BY <1>7
<1> HIDE DEF eof, f
<1>14. /\ loaded' # File!Error => IsPrefix(loaded', Len(f), clean)
       /\ compact' # File!Error => /\ IsPrefix(compact', Len(f), clean)
                                   /\ \A i \in DOMAIN compact' : compact'[i].cut # "short"
       /\ loaded' # File!Error /\ compact' # File!Error =>
            compact' = SubSeq(loaded', 1, IF limit \in 1 .. Len(loaded') THEN limit
                                          ELSE Len(loaded'))
  BY <1>8, <1>9, <1>13, WhatIsLoaded
<1> HIDE DEF clean
<1>15. LoadedIsPrefix'
  <2>1. ASSUME NEW s, s = loaded' \/ s = compact', s # File!Error, NEW i \in DOMAIN s
        PROVE  /\ s[i].row = i /\ i <= Len(table)
               /\ s[i].cut # "no" => i = Len(s) /\ ~gz
               /\ s[i].cut = "short" => s # compact'
    <3>1. IsPrefix(s, Len(f), clean)
      BY <1>14, <2>1
    <3>2. /\ i \in Nat /\ s[i].row = i /\ 2 * i + 1 <= Len(f)
          /\ s[i].cut # "no" => i = Len(s) /\ clean
      BY <3>1 DEF IsPrefix
    <3>3. s[i].cut = "short" => s # compact'
      BY <1>14, <2>1
    <3>4. QED  BY <1>11, <1>12, <3>2, <3>3
  <2>2. QED  BY <1>1, <1>14, <2>1 DEF LoadedIsPrefix, File!LoadedIsPrefix
<1>16. QED  BY <1>3, <1>4, <1>5, <1>6, <1>15 DEF FileInv

(* A step of the file, or one that leaves it alone. *)
LEMMA FileStep ==
  ASSUME FileInv, Next \/ UNCHANGED <<file, eval>>
  PROVE  FileInv'
<1>1. CASE UNCHANGED file
  <2>1. /\ table' = table /\ gz' = gz /\ limit' = limit /\ pc' = pc /\ written' = written
        /\ buf' = buf /\ held' = held /\ disk' = disk /\ sealed' = sealed /\ result' = result
        /\ loaded' = loaded /\ compact' = compact /\ Total' = Total /\ File!Kept' = File!Kept
    BY <1>1 DEF file, Total, File!Total, File!Kept
  <2>2. FileTypes' /\ Buffered' /\ Results' /\ NotLoaded'
    BY <2>1 DEF FileInv, FileTypes, Buffered, Going, Results, NotLoaded, Pieces
  <2>3. LosesOnlyBuffers' /\ LoadedIsPrefix'
    BY <2>1 DEF FileInv, LosesOnlyBuffers, File!LosesOnlyBuffers, LoadedIsPrefix,
                File!LoadedIsPrefix, Total, File!Total, File!Kept
  <2>4. QED  BY <2>2, <2>3 DEF FileInv
<1>2. CASE Prepare
  <2>1. table' = table /\ File!Next
    BY <1>2 DEF Prepare
  <2>2. QED
    BY <2>1, CreateStep, WriteStep, SpillStep, LastRowStep, CloseStep, KillStep, LoadStep
       DEF File!Next
<1>3. CASE Evaluate \/ Report \/ Done \/ UNCHANGED <<file, eval>>
  <2>1. UNCHANGED file
    BY <1>3 DEF Evaluate, Report, Done
  <2>2. QED  BY <1>1, <2>1
<1>4. QED  BY <1>2, <1>3 DEF Next

(* The file's invariant holds. *)
LEMMA FileInvariant == Spec => []FileInv
<1>1. FileInv /\ [Next]_<<file, eval>> => FileInv'
  BY FileStep
<1>2. QED  BY <1>1, FileInit, PTL DEF Spec

(* A save that returned nil has put all pieces in the file but those that  *)
(* csv's buffer and gzip held at the end, where the deferred close drops   *)
(* the errors of the flush and of gzip, and all of them in a compressed    *)
(* file with its footer, whatever the sizes of the table and the buffers.  *)
THEOREM SavedButItsBuffers == Spec => []LosesOnlyBuffers
<1>1. FileInv => LosesOnlyBuffers
  BY DEF FileInv
<1>2. QED  BY <1>1, FileInvariant, PTL

(* Whatever became of the disk, the process and the compressor, both       *)
(* loaders return rows that were prepared, in their order, or an error,    *)
(* and they agree on them.                                                 *)
THEOREM NothingIsMadeUp == Spec => []LoadedIsPrefix
<1>1. FileInv => LoadedIsPrefix
  BY DEF FileInv
<1>2. QED  BY <1>1, FileInvariant, PTL

----------------------------------------------------------------------------
(* Induction and loops.                                                    *)

(* A set of natural numbers has a least element. *)
LEMMA Least ==
  ASSUME NEW T \in SUBSET Nat, T # {}
  PROVE  \E x \in T : \A y \in T : x <= y
<1>1. PICK x \in T : \A y \in T : ~ (<<y, x>> \in OpToRel(<, Nat))
  BY WFMin, NatLessThanWellFounded
<1>2. \A y \in T : ~(y < x)
  BY <1>1 DEF OpToRel
<1>3. QED  BY <1>2

(* What 0 has, and each number passes on to the next, all of them have. *)
LEMMA NextReachesAll ==
  ASSUME NEW S, 0 \in S, \A n \in Nat : n \in S => n + 1 \in S
  PROVE  Nat \subseteq S
<1> SUFFICES ASSUME Nat \ S # {} PROVE FALSE
  OBVIOUS
<1>1. PICK x \in Nat \ S : \A y \in Nat \ S : x <= y
  BY Least
<1>2. x # 0 /\ x - 1 \in Nat
  BY <1>1
<1>3. x - 1 \in S
  BY <1>1, <1>2
<1>4. QED  BY <1>2, <1>3

(* Induction up to a bound. *)
LEMMA NextReachesBound ==
  ASSUME NEW a \in Nat, NEW n \in Nat, NEW S, a \in S,
         \A k \in a + 1 .. n : k - 1 \in S => k \in S
  PROVE  \A k \in a .. n : k \in S
<1> DEFINE Q == {m \in Nat : a + m <= n => a + m \in S}
<1>1. 0 \in Q
  OBVIOUS
<1>2. \A m \in Nat : m \in Q => m + 1 \in Q
  <2> TAKE m \in Nat
  <2> HAVE m \in Q
  <2>1. CASE a + (m + 1) <= n
    <3>1. a + (m + 1) \in a + 1 .. n /\ a + (m + 1) - 1 = a + m /\ a + m <= n
      BY <2>1
    <3>2. QED  BY <3>1
  <2>2. QED  BY <2>1
<1> HIDE DEF Q
<1>3. Nat \subseteq Q
  BY <1>1, <1>2, NextReachesAll
<1>4. ASSUME NEW k \in a .. n PROVE k \in S
  <2>1. k - a \in Nat /\ a + (k - a) = k /\ k <= n
    OBVIOUS
  <2>2. PICK m \in Nat : k = a + m
    BY <2>1
  <2>3. m \in Q
    BY <1>3
  <2>4. QED  BY <2>1, <2>2, <2>3 DEF Q
<1>5. QED  BY <1>4

(* f[k] is what the loop "for k := a + 1 .. n" has made of b after turn k. *)
IsLoop(f, T, a, n, b, step) ==
  /\ f \in [a .. n -> T]
  /\ f[a] = b
  /\ \A k \in a + 1 .. n : f[k] = step[<<f[k - 1], k>>]

(* Every loop has such a function: it makes a value of T of a value of T,  *)
(* turn by turn.                                                           *)
LEMMA LoopExists ==
  ASSUME NEW T, NEW a \in Nat, NEW n \in Nat, a <= n, NEW b \in T,
         NEW step \in [T \X Nat -> T]
  PROVE  \E f : IsLoop(f, T, a, n, b, step)
<1> DEFINE Ok(m) == \E f \in [a .. a + m -> T] :
              f[a] = b /\ \A k \in a + 1 .. a + m : f[k] = step[<<f[k - 1], k>>]
           S == {m \in Nat : Ok(m)}
<1>1. Ok(0)
  <2> DEFINE f == [k \in a .. a + 0 |-> b]
  <2>1. f \in [a .. a + 0 -> T] /\ f[a] = b /\ a + 1 .. a + 0 = {}
    OBVIOUS
  <2>2. QED  BY <2>1
<1>2. ASSUME NEW m \in Nat, Ok(m)
      PROVE  Ok(m + 1)
  <2> PICK f \in [a .. a + m -> T] :
              f[a] = b /\ \A k \in a + 1 .. a + m : f[k] = step[<<f[k - 1], k>>]
    BY <1>2
  <2> DEFINE last == step[<<f[a + m], a + m + 1>>]
             g == [k \in a .. a + (m + 1) |-> IF k = a + m + 1 THEN last ELSE f[k]]
  <2>1. last \in T
    OBVIOUS
  <2> HIDE DEF last
  <2>2. g \in [a .. a + (m + 1) -> T]
    BY <2>1
  <2>3. g[a] = b
    OBVIOUS
  <2>4. ASSUME NEW k \in a + 1 .. a + (m + 1)
        PROVE  g[k] = step[<<g[k - 1], k>>]
    <3>1. CASE k = a + m + 1
      <4>1. g[k] = last /\ g[k - 1] = f[a + m]
        BY <3>1
      <4>2. QED  BY <3>1, <4>1 DEF last
    <3>2. CASE k # a + m + 1
      BY <3>2
    <3>3. QED  BY <3>1, <3>2
  <2> HIDE DEF g
  <2>5. QED  BY <2>2, <2>3, <2>4
<1> HIDE DEF Ok
<1>3. \A m \in Nat : Ok(m)
  <2>1. 0 \in S /\ \A m \in Nat : m \in S => m + 1 \in S
    BY <1>1, <1>2
  <2> HIDE DEF S
  <2>2. Nat \subseteq S
    BY <2>1, NextReachesAll
  <2>3. QED  BY <2>2 DEF S
<1>4. PICK m \in Nat : n = a + m
  <2>1. n - a \in Nat /\ n = a + (n - a)
    OBVIOUS
  <2>2. QED  BY <2>1
<1>5. Ok(m)
  BY <1>3
<1>6. QED  BY <1>4, <1>5 DEF Ok, IsLoop

(* s[k] is b and the first k of d, added up. *)
IsSum(s, n, b, d) ==
  /\ s \in [0 .. n -> Int]
  /\ s[0] = b
  /\ \A k \in 1 .. n : s[k] = s[k - 1] + d[k]

(* Numbers can be added up. *)
LEMMA SumExists ==
  ASSUME NEW n \in Nat, NEW b \in Int, NEW d \in [1 .. n -> Int]
  PROVE  \E s : IsSum(s, n, b, d)
<1> DEFINE step == [p \in Int \X Nat |-> IF p[2] \in 1 .. n THEN p[1] + d[p[2]] ELSE p[1]]
<1>1. step \in [Int \X Nat -> Int]
  OBVIOUS
<1>2. \A x \in Int, k \in 1 .. n : step[<<x, k>>] = x + d[k]
  OBVIOUS
<1> HIDE DEF step
<1>3. \E f : IsLoop(f, Int, 0, n, b, step)
  <2>1. 0 \in Nat /\ 0 <= n
    OBVIOUS
  <2>2. QED  BY <2>1, <1>1, LoopExists
<1>4. PICK f : IsLoop(f, Int, 0, n, b, step)
  BY <1>3
<1>5. IsSum(f, n, b, d)
  <2>1. f \in [0 .. n -> Int] /\ f[0] = b
    BY <1>4 DEF IsLoop
  <2>2. ASSUME NEW k \in 1 .. n
        PROVE  f[k] = f[k - 1] + d[k]
    <3>1. k - 1 \in 0 .. n /\ k \in 0 + 1 .. n
      OBVIOUS
    <3>2. f[k - 1] \in Int /\ f[k] = step[<<f[k - 1], k>>]
      BY <1>4, <2>1, <3>1 DEF IsLoop
    <3>3. QED  BY <1>2, <3>2
  <2>3. QED  BY <2>1, <2>2 DEF IsSum
<1>6. QED  BY <1>5

(* A function that adds up numbers has numbers as values. *)
LEMMA SumType ==
  ASSUME NEW n \in Nat, NEW b \in Int, NEW d \in [1 .. n -> Int],
         NEW u, u = [k \in 0 .. n |-> u[k]], u[0] = b,
         \A k \in 1 .. n : u[k] = u[k - 1] + d[k]
  PROVE  IsSum(u, n, b, d)
<1> DEFINE S == {k \in 0 .. n : u[k] \in Int}
<1>1. 0 \in S
  OBVIOUS
<1>2. ASSUME NEW k \in 0 + 1 .. n, k - 1 \in S
      PROVE  k \in S
  <2>1. u[k - 1] \in Int /\ k \in 0 .. n /\ k \in 1 .. n
    BY <1>2
  <2>2. u[k] = u[k - 1] + d[k] /\ d[k] \in Int
    BY <2>1
  <2>3. u[k] \in Int
    BY <2>1, <2>2
  <2>4. QED  BY <2>1, <2>3
<1> HIDE DEF S
<1>3. \A k \in 0 .. n : k \in S
  BY <1>1, <1>2, NextReachesBound
<1>4. \A k \in 0 .. n : u[k] \in Int
  BY <1>3 DEF S
<1>5. u \in [0 .. n -> Int]
  BY <1>4
<1>6. QED  BY <1>5 DEF IsSum

(* What the loops of both evaluators add up: the bias, and a term for each *)
(* feature.                                                                *)
Bias == IF weights = <<>> THEN 0 ELSE weights[1]
Terms(x) == [j \in 1 .. Len(x) |-> IF j + 1 <= Len(weights) THEN weights[j + 1] * x[j] ELSE 0]
IsLogit(z, x) == \E u : IsSum(u, Len(x), Bias, Terms(x)) /\ z = u[Len(x)]

(* These are numbers. *)
LEMMA TermsType ==
  ASSUME weights \in Seq(Int), NEW x \in Seq(Int)
  PROVE  Len(x) \in Nat /\ Bias \in Int /\ Terms(x) \in [1 .. Len(x) -> Int]
<1>1. Len(x) \in Nat
  OBVIOUS
<1>2. Bias \in Int
  BY DEF Bias
<1>3. ASSUME NEW j \in 1 .. Len(x)
      PROVE  (IF j + 1 <= Len(weights) THEN weights[j + 1] * x[j] ELSE 0) \in Int
  <2>1. CASE j + 1 <= Len(weights)
    <3>1. weights[j + 1] \in Int /\ x[j] \in Int
      BY <2>1
    <3>2. QED  BY <2>1, <3>1
  <2>2. CASE ~(j + 1 <= Len(weights))
    BY <2>2
  <2>3. QED  BY <2>1, <2>2
<1>4. QED  BY <1>1, <1>2, <1>3 DEF Terms

(* There is one sum. *)
LEMMA LogitUnique ==
  ASSUME weights \in Seq(Int), NEW x \in Seq(Int), NEW y, NEW z, IsLogit(y, x), IsLogit(z, x)
  PROVE  y = z /\ z \in Int
<1> DEFINE n == Len(x)
           b == Bias
           d == Terms(x)
<1>1. n \in Nat /\ b \in Int /\ d \in [1 .. n -> Int]
  BY TermsType
<1>2. PICK u : IsSum(u, n, b, d) /\ y = u[n]
  BY DEF IsLogit
<1>3. PICK v : IsSum(v, n, b, d) /\ z = v[n]
  BY DEF IsLogit
<1> HIDE DEF n, b, d
<1> DEFINE S == {k \in 0 .. n : u[k] = v[k]}
<1>4. 0 \in S
  BY <1>1, <1>2, <1>3 DEF IsSum
<1>5. ASSUME NEW k \in 0 + 1 .. n, k - 1 \in S
      PROVE  k \in S
  <2>1. k \in 1 .. n /\ k \in 0 .. n /\ u[k - 1] = v[k - 1]
    BY <1>1, <1>5
  <2>2. u[k] = u[k - 1] + d[k] /\ v[k] = v[k - 1] + d[k]
    BY <1>2, <1>3, <2>1 DEF IsSum
  <2>3. QED  BY <2>1, <2>2
<1> HIDE DEF S
<1>6. \A k \in 0 .. n : k \in S
  BY <1>1, <1>4, <1>5, NextReachesBound
<1>7. n \in 0 .. n
  BY <1>1
<1>8. QED  BY <1>2, <1>3, <1>6, <1>7 DEF S, IsSum

(* The loop of PredictProbability adds them up. *)
LEMMA LogitIs ==
  ASSUME weights \in Seq(Int), NEW x \in Seq(Int)
  PROVE  IsLogit(Eval!Logit(x), x)
<1> DEFINE n == Len(x)
           b == Bias
           d == Terms(x)
           Is(g) == g = [j \in 0 .. n |->
                           IF j = 0 THEN IF weights = <<>> THEN 0 ELSE weights[1]
                           ELSE g[j - 1] + IF j + 1 <= Len(weights) THEN weights[j + 1] * x[j] ELSE 0]
           u == CHOOSE g : Is(g)
<1>1. n \in Nat /\ b \in Int /\ d \in [1 .. n -> Int]
  BY TermsType
<1>2. Eval!Logit(x) = u[n]
  BY DEF Eval!Logit
<1>3. \A j \in 1 .. n : d[j] = IF j + 1 <= Len(weights) THEN weights[j + 1] * x[j] ELSE 0
  BY DEF Terms
<1>4. PICK f : IsSum(f, n, b, d)
  <2> HIDE DEF n, b, d
  <2>1. QED  BY <1>1, SumExists
<1>5. Is(f)
  <2> HIDE DEF d
  <2>1. \A j \in 0 .. n : f[j] = IF j = 0 THEN b
           ELSE f[j - 1] + IF j + 1 <= Len(weights) THEN weights[j + 1] * x[j] ELSE 0
    BY <1>3, <1>4 DEF IsSum
  <2>2. QED  BY <1>4, <2>1 DEF IsSum, Bias
<1>6. Is(u)
  <2> HIDE DEF Is
  <2>1. QED  BY <1>5
<1> HIDE DEF u
<1>7. u[0] = b /\ u = [k \in 0 .. n |-> u[k]]
  BY <1>1, <1>6 DEF Bias
<1>8. \A k \in 1 .. n : u[k] = u[k - 1] + d[k]
  <2>1. \A k \in 1 .. n : k \in 0 .. n /\ k # 0
    BY <1>1
  <2> HIDE DEF n, d
  <2>2. QED  BY <1>3, <1>6, <2>1
<1>9. IsSum(u, n, b, d)
  <2> HIDE DEF n, b, d, Is
  <2>1. QED  BY <1>1, <1>7, <1>8, SumType
<1>10. QED  BY <1>2, <1>9 DEF IsLogit

(* So does that of EvaluateCompact, of a row of the matrix that holds them. *)
LEMMA CompactLogitIs ==
  ASSUME weights \in Seq(Int), NEW x \in Seq(Int), Len(x) = Eval!P, NEW i,
         \A j \in 1 .. Eval!P : matrix.X[Eval!Base(i, j)] = x[j]
  PROVE  IsLogit(Eval!CompactProbability(i), x)
<1> DEFINE n == Len(x)
           b == Bias
           d == Terms(x)
           Is(g) == g = [j \in 0 .. Eval!P |->
                           IF j = 0 THEN IF weights = <<>> THEN 0 ELSE weights[1]
                           ELSE g[j - 1] + IF j + 1 <= Len(weights)
                                           THEN weights[j + 1] * matrix.X[Eval!Base(i, j)] ELSE 0]
           u == CHOOSE g : Is(g)
<1>1. n \in Nat /\ b \in Int /\ d \in [1 .. n -> Int] /\ Eval!P = n
  BY TermsType
<1>2. Eval!CompactProbability(i) = u[Eval!P]
  BY DEF Eval!CompactProbability
<1>3. \A j \in 1 .. n : d[j] = IF j + 1 <= Len(weights)
                               THEN weights[j + 1] * matrix.X[Eval!Base(i, j)] ELSE 0
  BY <1>1 DEF Terms
<1>4. PICK f : IsSum(f, n, b, d)
  <2> HIDE DEF n, b, d
  <2>1. QED  BY <1>1, SumExists
<1>5. Is(f)
  <2> HIDE DEF d, n
  <2>1. \A j \in 0 .. n : f[j] = IF j = 0 THEN b
           ELSE f[j - 1] + IF j + 1 <= Len(weights)
                           THEN weights[j + 1] * matrix.X[Eval!Base(i, j)] ELSE 0
    BY <1>3, <1>4 DEF IsSum
  <2>2. QED  BY <1>1, <1>4, <2>1 DEF IsSum, Bias
<1>6. Is(u)
  <2> HIDE DEF Is
  <2>1. QED  BY <1>5
<1> HIDE DEF u
<1>7. u[0] = b /\ u = [k \in 0 .. n |-> u[k]]
  <2> HIDE DEF n
  <2>1. QED  BY <1>1, <1>6 DEF Bias
<1>8. \A k \in 1 .. n : u[k] = u[k - 1] + d[k]
  <2>1. \A k \in 1 .. n : k \in 0 .. n /\ k # 0
    BY <1>1
  <2> HIDE DEF n, d
  <2>2. QED  BY <1>1, <1>3, <1>6, <2>1
<1>9. IsSum(u, n, b, d)
  <2> HIDE DEF n, b, d, Is
  <2>1. QED  BY <1>1, <1>7, <1>8, SumType
<1>10. QED  BY <1>1, <1>2, <1>9 DEF IsLogit

(* The logit of numbers is a number. *)
LEMMA LogitType ==
  ASSUME weights \in Seq(Int), NEW x \in Seq(Int)
  PROVE  Eval!Logit(x) \in Int
BY LogitIs, LogitUnique

RanksAre(s, n, d, u) ==
  /\ IsSum(u, n, 0, d) /\ Eval!Ranks(s) = u[n]
  /\ \A i \in 1 .. n : d[i] = IF s[i].label = 1 THEN i ELSE 0

(* The sum of the ranks, rank by rank. *)
LEMMA RanksExist ==
  ASSUME NEW s, NEW n \in Nat, Len(s) = n
  PROVE  \E d, u : RanksAre(s, n, d, u)
<1> DEFINE d == [i \in 1 .. n |-> IF s[i].label = 1 THEN i ELSE 0]
           Is(g) == g = [i \in 0 .. n |->
                           IF i = 0 THEN 0
                           ELSE g[i - 1] + IF s[i].label = 1 THEN Eval!Rank(i) ELSE 0]
           u == CHOOSE g : Is(g)
<1>1. d \in [1 .. n -> Int] /\ 0 \in Int
  OBVIOUS
<1>2. \A i \in 1 .. n : d[i] = IF s[i].label = 1 THEN Eval!Rank(i) ELSE 0
  BY DEF Eval!Rank
<1>3. Eval!Ranks(s) = u[n]
  BY DEF Eval!Ranks
<1>4. \A i \in 1 .. n : d[i] = IF s[i].label = 1 THEN i ELSE 0
  OBVIOUS
<1> HIDE DEF d
<1>5. PICK f : IsSum(f, n, 0, d)
  BY <1>1, SumExists
<1>6. Is(f)
  <2>1. \A i \in 0 .. n : f[i] = IF i = 0 THEN 0
           ELSE f[i - 1] + IF s[i].label = 1 THEN Eval!Rank(i) ELSE 0
    BY <1>2, <1>5 DEF IsSum
  <2>2. QED  BY <1>5, <2>1 DEF IsSum
<1>7. Is(u)
  <2> HIDE DEF Is
  <2>1. QED  BY <1>6
<1> HIDE DEF u
<1>8. u[0] = 0 /\ u = [k \in 0 .. n |-> u[k]]
  BY <1>7
<1>9. \A k \in 1 .. n : u[k] = u[k - 1] + d[k]
  <2>1. \A k \in 1 .. n : k \in 0 .. n /\ k # 0
    OBVIOUS
  <2>2. QED  BY <1>2, <1>7, <2>1
<1>10. IsSum(u, n, 0, d)
  <2> HIDE DEF Is
  <2>1. QED  BY <1>1, <1>8, <1>9, SumType
<1>11. RanksAre(s, n, d, u)
  BY <1>3, <1>4, <1>10 DEF RanksAre
<1>12. QED  BY <1>11

----------------------------------------------------------------------------
(* The matrix.                                                             *)

(* Where row k of a matrix of i rows is. *)
LEMMA PlaceInMatrix ==
  ASSUME NEW p \in Nat, NEW i \in Nat, NEW k \in 1 .. i, NEW j \in 1 .. p
  PROVE  /\ (k - 1) * p + j \in 1 .. i * p
         /\ i * p \in Nat /\ (i - 1) * p + p = i * p
<1>1. PICK l \in Nat : k = l + 1
  <2>1. k - 1 \in Nat /\ k = (k - 1) + 1
    OBVIOUS
  <2>2. QED  BY <2>1
<1>2. PICK e \in Nat : i = l + 1 + e
  <2>1. i - k \in Nat /\ i = k + (i - k)
    OBVIOUS
  <2>2. QED  BY <1>1, <2>1
<1>3. i * p = l * p + p + e * p /\ l * p \in Nat /\ e * p \in Nat
  BY <1>2
<1>4. (i - 1) * p = l * p + e * p
  BY <1>2
<1>5. (k - 1) * p = l * p
  BY <1>1
<1>6. QED  BY <1>3, <1>4, <1>5

(* Rows of one width, one after another: row i starts after i - 1 widths.  *)
LEMMA FlattenRows ==
  ASSUME NEW p \in Nat, NEW seqs \in Seq(Seq(Int)), Len(seqs) > 0,
         \A i \in 1 .. Len(seqs) : Len(seqs[i]) = p
  PROVE  \A i \in 1 .. Len(seqs), j \in 1 .. p :
           Eval!FlattenSeq(seqs)[(i - 1) * p + j] = seqs[i][j]
<1> DEFINE n == Len(seqs)
           T == Seq(Int)
           Is(g) == g = [i \in 1 .. n |-> IF i = 1 THEN seqs[i] ELSE g[i - 1] \o seqs[i]]
           u == CHOOSE g : Is(g)
           step == [q \in T \X Nat |-> IF q[2] \in 1 .. n THEN q[1] \o seqs[q[2]] ELSE q[1]]
<1>1. n \in Nat /\ 1 \in Nat /\ 1 <= n /\ seqs[1] \in T
  OBVIOUS
<1>2. \A i \in 1 .. n : seqs[i] \in T
  OBVIOUS
<1>3. Eval!FlattenSeq(seqs) = u[n]
  BY DEF Eval!FlattenSeq
<1>closed. \A x \in T, i \in 1 .. n : x \o seqs[i] \in T
  BY <1>2
<1>4. step \in [T \X Nat -> T]
  <2> HIDE DEF T
  <2>1. QED  BY <1>closed
<1>5. \A x \in T, i \in 1 .. n : step[<<x, i>>] = x \o seqs[i]
  <2> SUFFICES ASSUME NEW x \in T, NEW i \in 1 .. n
               PROVE  step[<<x, i>>] = x \o seqs[i]
    OBVIOUS
  <2>1. i \in Nat
    BY <1>1
  <2> HIDE DEF T, n
  <2>2. <<x, i>> \in T \X Nat
    BY <2>1
  <2>3. QED  BY <2>2
<1> HIDE DEF step
<1>6. PICK f : IsLoop(f, T, 1, n, seqs[1], step)
  <2> HIDE DEF n, T
  <2>1. QED  BY <1>1, <1>4, LoopExists
<1>7. Is(f)
  <2> HIDE DEF T
  <2>1. ASSUME NEW i \in 1 .. n, i # 1
        PROVE  f[i] = f[i - 1] \o seqs[i]
    <3>1. i \in 1 + 1 .. n /\ i - 1 \in 1 .. n
      BY <1>1, <2>1
    <3>2. f[i - 1] \in T /\ f[i] = step[<<f[i - 1], i>>]
      BY <1>6, <3>1 DEF IsLoop
    <3>3. QED  BY <1>5, <3>2
  <2>2. \A i \in 1 .. n : f[i] = IF i = 1 THEN seqs[i] ELSE f[i - 1] \o seqs[i]
    BY <1>6, <2>1 DEF IsLoop
  <2>3. QED  BY <1>6, <2>2 DEF IsLoop
<1>8. Is(u)
  <2> HIDE DEF Is
  <2>1. QED  BY <1>7
<1> HIDE DEF u
<1>9. u[1] = seqs[1] /\ \A i \in 1 + 1 .. n : u[i] = u[i - 1] \o seqs[i]
  <2>1. 1 \in 1 .. n /\ \A i \in 1 + 1 .. n : i \in 1 .. n /\ i # 1
    BY <1>1
  <2> HIDE DEF n
  <2>2. QED  BY <1>8, <2>1
<1> DEFINE Flat(i) == /\ u[i] \in T /\ Len(u[i]) = i * p
                      /\ \A k \in 1 .. i, j \in 1 .. p : u[i][(k - 1) * p + j] = seqs[k][j]
           S == {i \in 1 .. n : Flat(i)}
<1>10. 1 \in S
  <2>1. Len(u[1]) = 1 * p /\ u[1] \in T
    BY <1>1, <1>9
  <2>2. ASSUME NEW k \in 1 .. 1, NEW j \in 1 .. p
        PROVE  u[1][(k - 1) * p + j] = seqs[k][j]
    <3>1. k = 1 /\ (k - 1) * p + j = j
      OBVIOUS
    <3>2. QED  BY <1>9, <3>1
  <2>3. QED  BY <1>1, <2>1, <2>2
<1>11. ASSUME NEW i \in 1 + 1 .. n, i - 1 \in S
       PROVE  i \in S
  <2>1. /\ i - 1 \in Nat /\ i \in Nat /\ i \in 1 .. n /\ i \in 1 .. i
    BY <1>1
  <2>2. /\ u[i - 1] \in T /\ Len(u[i - 1]) = (i - 1) * p
        /\ \A k \in 1 .. i - 1, j \in 1 .. p : u[i - 1][(k - 1) * p + j] = seqs[k][j]
    BY <1>11
  <2>3. seqs[i] \in T /\ Len(seqs[i]) = p
    BY <2>1
  <2>4. u[i] = u[i - 1] \o seqs[i]
    BY <1>9
  <2> DEFINE a == u[i - 1]
             b == seqs[i]
  <2> HIDE DEF a, b
  <2>5. /\ a \o b \in Seq(Int) /\ Len(a \o b) = Len(a) + Len(b)
        /\ \A k \in 1 .. Len(a) : (a \o b)[k] = a[k]
        /\ \A k \in 1 .. Len(b) : (a \o b)[Len(a) + k] = b[k]
    <3>1. a \in Seq(Int) /\ b \in Seq(Int)
      BY <2>2, <2>3 DEF a, b
    <3>2. QED  BY <3>1
  <2>6. u[i] = a \o b
    BY <2>4 DEF a, b
  <2>7. Len(a) = (i - 1) * p /\ Len(b) = p /\ (i - 1) * p \in Nat
    BY <2>1, <2>2, <2>3 DEF a, b
  <2>8. (i - 1) * p + p = i * p
    BY <2>1
  <2>9. u[i] \in T /\ Len(u[i]) = i * p
    BY <2>5, <2>6, <2>7, <2>8
  <2>10. ASSUME NEW k \in 1 .. i, NEW j \in 1 .. p
         PROVE  u[i][(k - 1) * p + j] = seqs[k][j]
    <3>1. CASE k = i
      BY <2>5, <2>6, <2>7, <3>1 DEF b
    <3>2. CASE k # i
      <4>1. k \in 1 .. i - 1
        BY <2>1, <3>2
      <4>2. (k - 1) * p + j \in 1 .. Len(a)
        BY <2>1, <2>7, <4>1, PlaceInMatrix
      <4>3. u[i][(k - 1) * p + j] = a[(k - 1) * p + j]
        BY <2>5, <2>6, <4>2
      <4>4. QED  BY <2>2, <4>1, <4>3 DEF a
    <3>3. QED  BY <3>1, <3>2
  <2>11. QED  BY <2>1, <2>9, <2>10
<1>12. \A i \in 1 .. n : i \in S
  <2> HIDE DEF S, n
  <2>1. QED  BY <1>1, <1>10, <1>11, NextReachesBound
<1>13. n \in S
  BY <1>1, <1>12
<1>14. QED  BY <1>3, <1>13

----------------------------------------------------------------------------
(* The sum of ranks counts pairs.                                          *)

(* Metrics counts with the same operator. *)
LEMMA SameCardinality == \A S : Eval!Cardinality(S) = Cardinality(S)
BY DEF Cardinality, Eval!Cardinality

(* Sets that a function maps onto each other one to one are as large. *)
LEMMA SameSize ==
  ASSUME NEW S, NEW T, IsFiniteSet(T), NEW f \in [S -> T],
         \A x, y \in S : f[x] = f[y] => x = y, \A y \in T : \E x \in S : f[x] = y
  PROVE  IsFiniteSet(S) /\ Cardinality(S) = Cardinality(T)
<1>1. f \in Injection(S, T)
  BY DEF Injection, IsInjective
<1>2. f \in Surjection(S, T)
  BY DEF Surjection
<1>3. QED  BY <1>1, <1>2, FS_Injection

(* A set that a function maps one to one into another is no larger. *)
LEMMA NoLarger ==
  ASSUME NEW S, NEW T, IsFiniteSet(T), NEW f \in [S -> T],
         \A x, y \in S : f[x] = f[y] => x = y
  PROVE  IsFiniteSet(S) /\ Cardinality(S) <= Cardinality(T)
<1>1. f \in Injection(S, T)
  BY DEF Injection, IsInjective
<1>2. QED  BY <1>1, FS_Injection

(* Two sets without a common element. *)
LEMMA Apart ==
  ASSUME NEW S, IsFiniteSet(S), NEW T, IsFiniteSet(T), S \cap T = {}
  PROVE  /\ IsFiniteSet(S \cup T) /\ Cardinality(S) \in Nat /\ Cardinality(T) \in Nat
         /\ Cardinality(S \cup T) = Cardinality(S) + Cardinality(T)
<1>1. Cardinality(S \cap T) = 0
  BY FS_EmptySet
<1>2. Cardinality(S \cup T) = Cardinality(S) + Cardinality(T) - Cardinality(S \cap T)
  BY FS_Union
<1>3. Cardinality(S) \in Nat /\ Cardinality(T) \in Nat
  BY FS_CardinalityType
<1>4. IsFiniteSet(S \cup T)
  BY FS_Union
<1>5. QED  BY <1>1, <1>2, <1>3, <1>4

Marked(s, k, y) == {i \in 1 .. k : s[i].label = y}

(* The pairs of a positive sample and a negative one before it, of the     *)
(* first k.                                                                *)
Before(s, k) == {q \in (1 .. k) \X (1 .. k) :
                   s[q[1]].label = 1 /\ s[q[2]].label = 0 /\ q[2] < q[1]}

(* Each sample has one of two labels. *)
LEMMA TwoLabels ==
  ASSUME NEW s, NEW k \in Nat, \A i \in 1 .. k : s[i].label \in {0, 1}
  PROVE  /\ IsFiniteSet(Marked(s, k, 0)) /\ IsFiniteSet(Marked(s, k, 1))
         /\ Cardinality(Marked(s, k, 0)) \in Nat /\ Cardinality(Marked(s, k, 1)) \in Nat
         /\ Cardinality(Marked(s, k, 0)) = k - Cardinality(Marked(s, k, 1))
<1>1. IsFiniteSet(1 .. k) /\ Cardinality(1 .. k) = k
  BY FS_Interval
<1>2. Marked(s, k, 0) \subseteq 1 .. k /\ Marked(s, k, 1) \subseteq 1 .. k
  BY DEF Marked
<1>3. IsFiniteSet(Marked(s, k, 0)) /\ IsFiniteSet(Marked(s, k, 1))
  BY <1>1, <1>2, FS_Subset
<1>4. /\ Marked(s, k, 0) \cap Marked(s, k, 1) = {}
      /\ Marked(s, k, 0) \cup Marked(s, k, 1) = 1 .. k
  BY DEF Marked
<1>5. /\ Cardinality(Marked(s, k, 0)) \in Nat /\ Cardinality(Marked(s, k, 1)) \in Nat
      /\ Cardinality(1 .. k) = Cardinality(Marked(s, k, 0)) + Cardinality(Marked(s, k, 1))
  BY <1>3, <1>4, Apart
<1>6. QED  BY <1>1, <1>3, <1>5

(* There are finitely many pairs. *)
LEMMA BeforeFinite ==
  ASSUME NEW s, NEW k \in Nat
  PROVE  IsFiniteSet(Before(s, k)) /\ Cardinality(Before(s, k)) \in Nat
<1>1. IsFiniteSet((1 .. k) \X (1 .. k))
  <2>1. IsFiniteSet(1 .. k)
    BY FS_Interval
  <2>2. QED  BY <2>1, FS_Product
<1>2. Before(s, k) \subseteq (1 .. k) \X (1 .. k)
  BY DEF Before
<1>3. IsFiniteSet(Before(s, k))
  BY <1>1, <1>2, FS_Subset
<1>4. QED  BY <1>3, FS_CardinalityType

(* One more sample: a positive one comes after all the negative ones so far. *)
LEMMA BeforeNext ==
  ASSUME NEW s, NEW k \in Nat \ {0}, \A i \in 1 .. k : s[i].label \in {0, 1}
  PROVE  /\ s[k].label = 0 =>
              /\ Cardinality(Before(s, k)) = Cardinality(Before(s, k - 1))
              /\ Cardinality(Marked(s, k, 1)) = Cardinality(Marked(s, k - 1, 1))
         /\ s[k].label = 1 =>
              /\ Cardinality(Before(s, k)) = Cardinality(Before(s, k - 1))
                                             + Cardinality(Marked(s, k - 1, 0))
              /\ Cardinality(Marked(s, k, 1)) = Cardinality(Marked(s, k - 1, 1)) + 1
<1>1. /\ k - 1 \in Nat /\ k \in 1 .. k /\ k \notin 1 .. k - 1
      /\ \A i : i \in 1 .. k <=> i \in 1 .. k - 1 \/ i = k
      /\ \A i \in 1 .. k - 1 : i < k /\ ~(k < i)
  OBVIOUS
<1>2. ASSUME s[k].label = 0
      PROVE  Before(s, k) = Before(s, k - 1) /\ Marked(s, k, 1) = Marked(s, k - 1, 1)
  <2>1. Marked(s, k, 1) = Marked(s, k - 1, 1)
    BY <1>1, <1>2 DEF Marked
  <2>2. Before(s, k) = Before(s, k - 1)
    <3>1. ASSUME NEW q \in Before(s, k) PROVE q \in Before(s, k - 1)
      <4>1. /\ q \in (1 .. k) \X (1 .. k)
            /\ s[q[1]].label = 1 /\ s[q[2]].label = 0 /\ q[2] < q[1]
        BY DEF Before
      <4>2. q[1] # k /\ q[2] # k
        BY <1>2, <4>1
      <4>3. q \in (1 .. k - 1) \X (1 .. k - 1)
        BY <1>1, <4>1, <4>2
      <4>4. QED  BY <4>1, <4>3 DEF Before
    <3>2. ASSUME NEW q \in Before(s, k - 1) PROVE q \in Before(s, k)
      BY <1>1 DEF Before
    <3>3. QED  BY <3>1, <3>2
  <2>3. QED  BY <2>1, <2>2
<1>3. ASSUME s[k].label = 1
      PROVE  /\ Cardinality(Before(s, k)) = Cardinality(Before(s, k - 1))
                                             + Cardinality(Marked(s, k - 1, 0))
             /\ Cardinality(Marked(s, k, 1)) = Cardinality(Marked(s, k - 1, 1)) + 1
  <2> DEFINE new == {k} \X Marked(s, k - 1, 0)
  <2>1. /\ IsFiniteSet(Marked(s, k - 1, 0)) /\ IsFiniteSet(Marked(s, k - 1, 1))
        /\ Cardinality(Marked(s, k - 1, 0)) \in Nat
    BY <1>1, TwoLabels
  <2>2. Marked(s, k, 1) = Marked(s, k - 1, 1) \cup {k} /\ k \notin Marked(s, k - 1, 1)
    BY <1>1, <1>3 DEF Marked
  <2>3. Cardinality(Marked(s, k, 1)) = Cardinality(Marked(s, k - 1, 1)) + 1
    BY <2>1, <2>2, FS_AddElement
  <2>4. IsFiniteSet({k}) /\ Cardinality({k}) = 1
    BY FS_Singleton
  <2>5. IsFiniteSet(new) /\ Cardinality(new) = 1 * Cardinality(Marked(s, k - 1, 0))
    BY <2>1, <2>4, FS_Product
  <2>6. Before(s, k) = Before(s, k - 1) \cup new
    <3>1. ASSUME NEW q \in Before(s, k) PROVE q \in Before(s, k - 1) \cup new
      <4>1. /\ q \in (1 .. k) \X (1 .. k)
            /\ s[q[1]].label = 1 /\ s[q[2]].label = 0 /\ q[2] < q[1]
        BY DEF Before
      <4>2. q[2] # k /\ q[2] \in 1 .. k - 1
        BY <1>1, <1>3, <4>1
      <4>3. CASE q[1] = k
        <5>1. q[2] \in Marked(s, k - 1, 0)
          BY <4>1, <4>2 DEF Marked
        <5>2. q \in new
          BY <4>1, <4>3, <5>1
        <5>3. QED  BY <5>2
      <4>4. CASE q[1] # k
        <5>1. q \in (1 .. k - 1) \X (1 .. k - 1)
          BY <1>1, <4>1, <4>2, <4>4
        <5>2. QED  BY <4>1, <5>1 DEF Before
      <4>5. QED  BY <4>3, <4>4
    <3>2. ASSUME NEW q \in Before(s, k - 1) PROVE q \in Before(s, k)
      BY <1>1 DEF Before
    <3>3. ASSUME NEW q \in new PROVE q \in Before(s, k)
      <4>1. q[1] = k /\ q[2] \in 1 .. k - 1 /\ s[q[2]].label = 0 /\ q = <<q[1], q[2]>>
        BY DEF Marked
      <4>2. q \in (1 .. k) \X (1 .. k)
        BY <1>1, <4>1
      <4>3. QED  BY <1>1, <1>3, <4>1, <4>2 DEF Before
    <3> HIDE DEF new
    <3>4. QED  BY <3>1, <3>2, <3>3
  <2>7. Before(s, k - 1) \cap new = {}
    BY <1>1 DEF Before
  <2>8. IsFiniteSet(Before(s, k - 1))
    BY <1>1, BeforeFinite
  <2> HIDE DEF new
  <2>9. Cardinality(Before(s, k)) = Cardinality(Before(s, k - 1)) + Cardinality(new)
    BY <2>5, <2>6, <2>7, <2>8, Apart
  <2>10. QED  BY <2>1, <2>3, <2>5, <2>9
<1>4. QED  BY <1>2, <1>3

(* A turn of the sum below, at a positive sample.                          *)
LEMMA HalfTurn ==
  ASSUME NEW u \in Int, NEW b \in Int, NEW k \in Int, NEW x \in Int, NEW y \in Int,
         2 * u = 2 * b + y
  PROVE  2 * (u + k) = 2 * (b + (k - 1 - x)) + (y + 2 * x + 2)
OBVIOUS

(* Half of an even number.                                                 *)
LEMMA Half ==
  ASSUME NEW u \in Int, NEW b \in Int, NEW y \in Int, 2 * u = 2 * b + y
  PROVE  u - y \div 2 = b
<1>1. y = 2 * (u - b)
  OBVIOUS
<1>2. PICK m \in Int : m = u - b
  OBVIOUS
<1>3. y = 2 * m
  BY <1>1, <1>2
<1>4. y \div 2 = m
  BY <1>3
<1>5. QED  BY <1>2, <1>4

(* The sum of the ranks of the positive samples is the number of the pairs *)
(* with a negative sample before, and what the ranks would be without any. *)
LEMMA RanksCountPairs ==
  ASSUME NEW s, NEW n \in Nat, Len(s) = n, \A i \in 1 .. n : s[i].label \in {0, 1}
  PROVE  LET pos == Cardinality(Marked(s, n, 1)) IN
         /\ pos \in Nat
         /\ Eval!Ranks(s) - (pos * (pos + 1)) \div 2 = Cardinality(Before(s, n))
<1>1. PICK d, u : RanksAre(s, n, d, u)
  BY RanksExist
<1> DEFINE c(k) == Cardinality(Marked(s, k, 1))
           b(k) == Cardinality(Before(s, k))
           S == {k \in 0 .. n : 2 * u[k] = 2 * b(k) + c(k) * (c(k) + 1)}
<1>2. \A k \in 0 .. n : c(k) \in Nat /\ b(k) \in Nat /\ u[k] \in Int
  <2>1. ASSUME NEW k \in 0 .. n PROVE c(k) \in Nat /\ b(k) \in Nat /\ u[k] \in Int
    <3>1. k \in Nat /\ \A i \in 1 .. k : s[i].label \in {0, 1}
      OBVIOUS
    <3>2. c(k) \in Nat
      BY <3>1, TwoLabels
    <3>3. b(k) \in Nat
      BY <3>1, BeforeFinite
    <3>4. u[k] \in Int
      BY <1>1 DEF RanksAre, IsSum
    <3>5. QED  BY <3>2, <3>3, <3>4
  <2>2. QED  BY <2>1
<1>3. 0 \in S
  <2>1. Marked(s, 0, 1) = {} /\ Before(s, 0) = {}
    BY DEF Marked, Before
  <2>2. c(0) = 0 /\ b(0) = 0
    BY <2>1, FS_EmptySet
  <2>3. u[0] = 0
    BY <1>1 DEF RanksAre, IsSum
  <2> HIDE DEF c, b
  <2>4. 2 * u[0] = 2 * b(0) + c(0) * (c(0) + 1)
    BY <2>2, <2>3
  <2>5. QED  BY <2>4
<1>4. ASSUME NEW k \in 0 + 1 .. n, k - 1 \in S
      PROVE  k \in S
  <2>1. k \in 1 .. n /\ k - 1 \in 0 .. n /\ k \in Nat \ {0} /\ k \in 0 .. n /\ k - 1 \in Nat
    OBVIOUS
  <2>2. 2 * u[k - 1] = 2 * b(k - 1) + c(k - 1) * (c(k - 1) + 1)
    BY <1>4
  <2>3. u[k] = u[k - 1] + d[k] /\ d[k] = IF s[k].label = 1 THEN k ELSE 0
    BY <1>1, <2>1 DEF RanksAre, IsSum
  <2>4. \A i \in 1 .. k : s[i].label \in {0, 1}
    BY <2>1
  <2>5. \A i \in 1 .. k - 1 : s[i].label \in {0, 1}
    BY <2>1
  <2>6. Cardinality(Marked(s, k - 1, 0)) = k - 1 - c(k - 1)
    BY <2>1, <2>5, TwoLabels
  <2>7. CASE s[k].label = 0
    <3>1. b(k) = b(k - 1) /\ c(k) = c(k - 1)
      BY <2>1, <2>4, <2>7, BeforeNext
    <3>2. u[k] = u[k - 1]
      BY <1>2, <2>1, <2>3, <2>7
    <3> HIDE DEF b, c
    <3>3. QED  BY <2>1, <2>2, <3>1, <3>2
  <2>8. CASE s[k].label = 1
    <3>1. b(k) = b(k - 1) + (k - 1 - c(k - 1)) /\ c(k) = c(k - 1) + 1
      BY <2>1, <2>4, <2>6, <2>8, BeforeNext
    <3>2. u[k] = u[k - 1] + k
      BY <2>3, <2>8
    <3> HIDE DEF b, c
    <3>3. PICK x \in Nat : x = c(k - 1)
      BY <1>2, <2>1
    <3>4. c(k) * (c(k) + 1) = x * (x + 1) + 2 * x + 2
      BY <3>1, <3>3
    <3>5. PICK y \in Int : y = x * (x + 1)
      BY <3>3
    <3>6. 2 * u[k - 1] = 2 * b(k - 1) + y /\ c(k) * (c(k) + 1) = y + 2 * x + 2
      BY <2>2, <3>3, <3>4, <3>5
    <3>7. b(k - 1) \in Int /\ u[k - 1] \in Int /\ b(k) = b(k - 1) + (k - 1 - x)
      BY <1>2, <2>1, <3>1, <3>3
    <3>8. 2 * u[k] = 2 * b(k) + c(k) * (c(k) + 1)
      <4>1. 2 * (u[k - 1] + k) = 2 * (b(k - 1) + (k - 1 - x)) + (y + 2 * x + 2)
        <5>1. PICK v \in Int, w \in Int : v = u[k - 1] /\ w = b(k - 1)
          BY <3>7
        <5>2. 2 * v = 2 * w + y /\ k \in Int /\ x \in Int
          BY <2>1, <3>6, <5>1
        <5>3. 2 * (v + k) = 2 * (w + (k - 1 - x)) + (y + 2 * x + 2)
          BY <5>2, HalfTurn
        <5>4. QED  BY <5>1, <5>3
      <4>2. QED  BY <3>2, <3>6, <3>7, <4>1, Zenon
    <3>9. QED  BY <2>1, <3>8
  <2>9. QED  BY <2>1, <2>4, <2>7, <2>8
<1>5. \A k \in 0 .. n : k \in S
  <2> HIDE DEF S
  <2>1. QED  BY <1>3, <1>4, NextReachesBound
<1>6. 2 * u[n] = 2 * b(n) + c(n) * (c(n) + 1) /\ c(n) \in Nat /\ b(n) \in Nat /\ u[n] \in Int
  <2>1. n \in 0 .. n
    OBVIOUS
  <2>2. n \in S
    BY <1>5, <2>1
  <2>3. c(n) \in Nat /\ b(n) \in Nat /\ u[n] \in Int
    BY <1>2, <2>1
  <2>4. QED  BY <2>2, <2>3
<1>7. Eval!Ranks(s) = u[n]
  BY <1>1 DEF RanksAre
<1> HIDE DEF b, c, S
<1>8. u[n] - (c(n) * (c(n) + 1)) \div 2 = b(n)
  <2>1. PICK x \in Int : x = c(n) * (c(n) + 1)
    BY <1>6
  <2>2. u[n] \in Int /\ b(n) \in Int /\ 2 * u[n] = 2 * b(n) + x
    BY <1>6, <2>1
  <2>3. u[n] - x \div 2 = b(n)
    BY <2>1, <2>2, Half
  <2>4. QED  BY <2>1, <2>3
<1>9. QED  BY <1>6, <1>7, <1>8 DEF b, c

----------------------------------------------------------------------------
(* The area under the curve.                                               *)

TestSet == Seq([features : Seq(Int), label : {0, 1}])

Judged(i) == [score |-> Eval!PredictProbability(i), label |-> samples[i].label]

IsPermutation(p, n) == /\ p \in [1 .. n -> 1 .. n]
                       /\ \A i, j \in 1 .. n : p[i] = p[j] => i = j
                       /\ \A j \in 1 .. n : \E i \in 1 .. n : p[i] = j

(* s are the judged samples, in the order p of their scores.               *)
SortedBy(s, p) ==
  LET n == Len(samples) IN
  /\ s = [i \in 1 .. n |-> Judged(p[i])]
  /\ \A i \in 2 .. n : s[i - 1].score <= s[i].score

(* The samples of a test set. *)
LEMMA SamplesOf ==
  ASSUME NEW s \in TestSet
  PROVE  /\ Len(s) \in Nat /\ DOMAIN s = 1 .. Len(s)
         /\ \A i \in 1 .. Len(s) : s[i].features \in Seq(Int) /\ s[i].label \in {0, 1}
<1> DEFINE R == [features : Seq(Int), label : {0, 1}]
<1>1. \A x \in R : x.features \in Seq(Int) /\ x.label \in {0, 1}
  OBVIOUS
<1>2. s \in Seq(R)
  BY DEF TestSet
<1> HIDE DEF R
<1>3. Len(s) \in Nat /\ DOMAIN s = 1 .. Len(s) /\ \A i \in 1 .. Len(s) : s[i] \in R
  BY <1>2
<1>4. QED  BY <1>1, <1>3

(* The probability of a sample is a number here. *)
LEMMA ProbabilityType ==
  ASSUME samples \in TestSet, weights \in Seq(Int), NEW i \in 1 .. Len(samples)
  PROVE  Eval!PredictProbability(i) \in Int
<1>1. samples[i].features \in Seq(Int)
  BY SamplesOf
<1>2. Eval!Logit(samples[i].features) \in Int
  BY <1>1, LogitType
<1>3. QED  BY <1>2 DEF Eval!PredictProbability

(* Where neighbours are in order, any two are. *)
LEMMA InOrder ==
  ASSUME NEW n \in Nat, NEW s, \A i \in 1 .. n : s[i].score \in Int,
         \A i \in 2 .. n : s[i - 1].score <= s[i].score
  PROVE  \A i, j \in 1 .. n : i <= j => s[i].score <= s[j].score
<1> SUFFICES ASSUME NEW i \in 1 .. n
             PROVE  \A j \in 1 .. n : i <= j => s[i].score <= s[j].score
  OBVIOUS
<1> DEFINE S == {j \in i .. n : s[i].score <= s[j].score}
<1>1. i \in S
  OBVIOUS
<1>2. ASSUME NEW j \in i + 1 .. n, j - 1 \in S
      PROVE  j \in S
  <2>1. j \in 2 .. n /\ j \in 1 .. n /\ j - 1 \in 1 .. n /\ j \in i .. n
    OBVIOUS
  <2>2. s[i].score <= s[j - 1].score /\ s[j - 1].score <= s[j].score
    BY <1>2, <2>1
  <2>3. s[i].score <= s[j].score
    BY <2>1, <2>2
  <2>4. QED  BY <2>1, <2>3
<1>3. i \in Nat
  OBVIOUS
<1> HIDE DEF S
<1>4. \A j \in i .. n : j \in S
  BY <1>1, <1>2, <1>3, NextReachesBound
<1>5. ASSUME NEW j \in 1 .. n, i <= j
      PROVE  s[i].score <= s[j].score
  <2>1. j \in i .. n
    BY <1>5
  <2>2. QED  BY <1>4, <2>1 DEF S
<1>6. QED  BY <1>5

Won  == {q \in Eval!Labelled(1) \X Eval!Labelled(0) :
           Eval!PredictProbability(q[1]) > Eval!PredictProbability(q[2])}
Kept == {q \in Eval!Labelled(1) \X Eval!Labelled(0) :
           Eval!PredictProbability(q[1]) >= Eval!PredictProbability(q[2])}

(* The sorted samples have the labels of the samples. *)
LEMMA SortKeepsLabels ==
  ASSUME samples \in TestSet, NEW p, IsPermutation(p, Len(samples)),
         NEW s, s = [i \in 1 .. Len(samples) |-> Judged(p[i])], NEW y
  PROVE  /\ IsFiniteSet(Eval!Labelled(y))
         /\ Cardinality(Marked(s, Len(samples), y)) = Cardinality(Eval!Labelled(y))
<1> DEFINE n == Len(samples)
           M == Marked(s, n, y)
           f == [i \in M |-> p[i]]
<1>1. n \in Nat /\ DOMAIN samples = 1 .. n
  BY DEF TestSet
<1>2. Eval!Labelled(y) = {i \in 1 .. n : samples[i].label = y}
  BY <1>1 DEF Eval!Labelled
<1> HIDE DEF n
<1>3. IsFiniteSet(Eval!Labelled(y))
  <2>1. IsFiniteSet(1 .. n)
    BY <1>1, FS_Interval
  <2>2. Eval!Labelled(y) \subseteq 1 .. n
    BY <1>2
  <2>3. QED  BY <2>1, <2>2, FS_Subset
<1>4. \A i \in 1 .. n : s[i].label = samples[p[i]].label /\ p[i] \in 1 .. n
  BY DEF n, Judged, IsPermutation
<1>5. \A i : i \in M <=> i \in 1 .. n /\ samples[p[i]].label = y
  BY <1>4 DEF Marked
<1> HIDE DEF M
<1>6. f \in [M -> Eval!Labelled(y)]
  BY <1>2, <1>4, <1>5
<1>7. \A i, j \in M : f[i] = f[j] => i = j
  BY <1>5 DEF n, IsPermutation
<1>8. ASSUME NEW j \in Eval!Labelled(y) PROVE \E i \in M : f[i] = j
  <2>1. j \in 1 .. n /\ samples[j].label = y
    BY <1>2
  <2>2. PICK i \in 1 .. n : p[i] = j
    BY <2>1 DEF n, IsPermutation
  <2>3. i \in M
    BY <1>5, <2>1, <2>2
  <2>4. QED  BY <2>2, <2>3
<1> HIDE DEF f
<1>9. Cardinality(M) = Cardinality(Eval!Labelled(y))
  BY <1>3, <1>6, <1>7, <1>8, SameSize
<1>10. QED  BY <1>3, <1>9 DEF M, n

(* The pairs with the negative sample before the positive one have a       *)
(* positive one that scores no less; a pair whose positive one scores more *)
(* is among them.                                                          *)
LEMMA PairsOfTheSort ==
  ASSUME samples \in TestSet, weights \in Seq(Int),
         NEW p, IsPermutation(p, Len(samples)), NEW s, SortedBy(s, p)
  PROVE  /\ Cardinality(Won) \in Nat /\ Cardinality(Kept) \in Nat
         /\ Cardinality(Before(s, Len(samples))) \in Cardinality(Won) .. Cardinality(Kept)
<1> DEFINE n == Len(samples)
           Pr(i) == Eval!PredictProbability(i)
           B == Before(s, n)
<1>1. n \in Nat /\ DOMAIN samples = 1 .. n /\ \A i \in 1 .. n : samples[i].label \in {0, 1}
  BY SamplesOf
<1>2. \A y : Eval!Labelled(y) = {i \in 1 .. n : samples[i].label = y}
  BY <1>1 DEF Eval!Labelled
<1>3. \A i \in 1 .. n : Pr(i) \in Int
  BY ProbabilityType
<1>4. \A i \in 1 .. n : /\ s[i].label = samples[p[i]].label
                        /\ s[i].score = Pr(p[i]) /\ p[i] \in 1 .. n
  BY DEF SortedBy, Judged, IsPermutation
<1>5. \A i, j \in 1 .. n : p[i] = p[j] => i = j
  BY DEF IsPermutation
<1>6. \A j \in 1 .. n : \E i \in 1 .. n : p[i] = j
  BY DEF IsPermutation
<1>7. \A i \in 2 .. n : s[i - 1].score <= s[i].score
  BY DEF SortedBy
<1> HIDE DEF n, Pr
<1>8. \A i \in 1 .. n : s[i].score \in Int
  BY <1>3, <1>4
<1>9. \A i, j \in 1 .. n : i <= j => s[i].score <= s[j].score
  BY <1>1, <1>7, <1>8, InOrder
<1>10. IsFiniteSet(Won) /\ IsFiniteSet(Kept)
  <2>1. IsFiniteSet(1 .. n)
    BY <1>1, FS_Interval
  <2>2. IsFiniteSet((1 .. n) \X (1 .. n))
    BY <2>1, FS_Product
  <2>3. Won \subseteq (1 .. n) \X (1 .. n) /\ Kept \subseteq (1 .. n) \X (1 .. n)
    BY <1>2 DEF Won, Kept
  <2>4. QED  BY <2>2, <2>3, FS_Subset
<1>11. IsFiniteSet(B) /\ Cardinality(B) \in Nat
  BY <1>1, BeforeFinite
<1>12. Cardinality(B) <= Cardinality(Kept)
  <2> DEFINE f == [q \in B |-> <<p[q[1]], p[q[2]]>>]
  <2>1. \A q \in B : /\ q[1] \in 1 .. n /\ q[2] \in 1 .. n /\ q = <<q[1], q[2]>>
                     /\ s[q[1]].label = 1 /\ s[q[2]].label = 0 /\ q[2] < q[1]
    BY DEF Before
  <2> HIDE DEF B
  <2>2. ASSUME NEW q \in B PROVE f[q] \in Kept
    <3>1. p[q[1]] \in Eval!Labelled(1) /\ p[q[2]] \in Eval!Labelled(0)
      BY <1>2, <1>4, <2>1
    <3>2. s[q[2]].score <= s[q[1]].score
      BY <1>1, <1>9, <2>1
    <3>3. Pr(p[q[1]]) >= Pr(p[q[2]])
      BY <1>3, <1>4, <2>1, <3>2
    <3>4. QED  BY <3>1, <3>3 DEF Kept, Pr
  <2>3. f \in [B -> Kept]
    BY <2>2
  <2>4. \A x, y \in B : f[x] = f[y] => x = y
    <3>1. ASSUME NEW x \in B, NEW y \in B, f[x] = f[y] PROVE x = y
      <4>1. p[x[1]] = p[y[1]] /\ p[x[2]] = p[y[2]]
        BY <3>1
      <4>2. x[1] = y[1] /\ x[2] = y[2]
        BY <1>5, <2>1, <4>1
      <4>3. x = <<x[1], x[2]>> /\ y = <<y[1], y[2]>>
        BY <2>1
      <4>4. QED  BY <4>2, <4>3
    <3>2. QED  BY <3>1
  <2> HIDE DEF f
  <2>5. QED  BY <1>10, <2>3, <2>4, NoLarger
<1>13. Cardinality(Won) <= Cardinality(B)
  <2> DEFINE r == [j \in 1 .. n |-> CHOOSE i \in 1 .. n : p[i] = j]
             f == [q \in Won |-> <<r[q[1]], r[q[2]]>>]
  <2>1. \A j \in 1 .. n : r[j] \in 1 .. n /\ p[r[j]] = j
    BY <1>6
  <2> HIDE DEF r
  <2>2. \A q \in Won : /\ q[1] \in 1 .. n /\ q[2] \in 1 .. n /\ q = <<q[1], q[2]>>
                       /\ samples[q[1]].label = 1 /\ samples[q[2]].label = 0
                       /\ Pr(q[1]) > Pr(q[2])
    BY <1>2 DEF Won, Pr
  <2>3. ASSUME NEW q \in Won PROVE f[q] \in B
    <3>1. /\ r[q[1]] \in 1 .. n /\ r[q[2]] \in 1 .. n
          /\ p[r[q[1]]] = q[1] /\ p[r[q[2]]] = q[2]
      BY <2>1, <2>2
    <3>2. s[r[q[1]]].score = Pr(q[1]) /\ s[r[q[2]]].score = Pr(q[2])
      BY <1>4, <3>1
    <3>3. s[r[q[1]]].label = 1 /\ s[r[q[2]]].label = 0
      BY <1>4, <2>2, <3>1
    <3>4. ~(r[q[1]] <= r[q[2]])
      <4>1. SUFFICES ASSUME r[q[1]] <= r[q[2]] PROVE FALSE
        OBVIOUS
      <4>2. s[r[q[1]]].score <= s[r[q[2]]].score
        BY <1>9, <3>1, <4>1
      <4>3. Pr(q[1]) <= Pr(q[2]) /\ Pr(q[1]) \in Int /\ Pr(q[2]) \in Int /\ Pr(q[1]) > Pr(q[2])
        BY <1>3, <2>2, <3>2, <4>2
      <4>4. QED  BY <4>3
    <3>5. r[q[2]] < r[q[1]]
      BY <1>1, <3>1, <3>4
    <3>6. QED  BY <3>1, <3>3, <3>5 DEF Before
  <2> HIDE DEF B
  <2>4. f \in [Won -> B]
    BY <2>3
  <2>5. \A x, y \in Won : f[x] = f[y] => x = y
    <3>1. ASSUME NEW x \in Won, NEW y \in Won, f[x] = f[y] PROVE x = y
      <4>1. r[x[1]] = r[y[1]] /\ r[x[2]] = r[y[2]]
        BY <3>1
      <4>2. x[1] = y[1] /\ x[2] = y[2]
        BY <2>1, <2>2, <4>1
      <4>3. x = <<x[1], x[2]>> /\ y = <<y[1], y[2]>>
        BY <2>2
      <4>4. QED  BY <4>2, <4>3
    <3>2. QED  BY <3>1
  <2> HIDE DEF f
  <2>6. QED  BY <1>11, <2>4, <2>5, NoLarger
<1> HIDE DEF B
<1>14. Cardinality(Won) \in Nat /\ Cardinality(Kept) \in Nat
  BY <1>10, FS_CardinalityType
<1>15. Cardinality(B) \in Cardinality(Won) .. Cardinality(Kept)
  BY <1>11, <1>12, <1>13, <1>14
<1>16. QED  BY <1>14, <1>15 DEF B, n

(* What aucApprox makes of samples in the order of their scores. *)
LEMMA AucOfTheSort ==
  ASSUME samples \in TestSet, weights \in Seq(Int),
         NEW p, IsPermutation(p, Len(samples)), NEW s, SortedBy(s, p)
  PROVE  LET pos == Eval!Positives(s) IN
         /\ pos = Cardinality(Eval!Labelled(1))
         /\ Len(s) - pos = Cardinality(Eval!Labelled(0))
         /\ Eval!Ranks(s) - (pos * (pos + 1)) \div 2 \in Cardinality(Won) .. Cardinality(Kept)
<1> DEFINE n == Len(samples)
<1>1. n \in Nat /\ \A i \in 1 .. n : samples[i].label \in {0, 1}
  BY SamplesOf
<1>2. s = [i \in 1 .. n |-> Judged(p[i])]
  BY DEF SortedBy
<1>3. Len(s) = n /\ DOMAIN s = 1 .. n
  BY <1>1, <1>2
<1>4. \A i \in 1 .. n : s[i].label \in {0, 1}
  BY <1>1, <1>2 DEF Judged, IsPermutation
<1>5. Eval!Positives(s) = Cardinality(Marked(s, n, 1))
  <2>1. {i \in DOMAIN s : s[i].label = 1} = Marked(s, n, 1)
    BY <1>3 DEF Marked
  <2>2. Eval!Cardinality({i \in DOMAIN s : s[i].label = 1}) = Cardinality(Marked(s, n, 1))
    BY <2>1, SameCardinality
  <2>3. QED  BY <2>2 DEF Eval!Positives
<1>6. /\ Cardinality(Marked(s, n, 1)) = Cardinality(Eval!Labelled(1))
      /\ Cardinality(Marked(s, n, 0)) = Cardinality(Eval!Labelled(0))
  BY <1>2, SortKeepsLabels
<1>7. Cardinality(Marked(s, n, 0)) = n - Cardinality(Marked(s, n, 1))
  <2> HIDE DEF n
  <2>1. QED  BY <1>1, <1>4, TwoLabels
<1>8. LET pos == Cardinality(Marked(s, n, 1)) IN
      Eval!Ranks(s) - (pos * (pos + 1)) \div 2 = Cardinality(Before(s, n))
  <2> HIDE DEF n
  <2>1. QED  BY <1>1, <1>3, <1>4, RanksCountPairs
<1>9. Cardinality(Before(s, n)) \in Cardinality(Won) .. Cardinality(Kept)
  BY PairsOfTheSort
<1> HIDE DEF n
<1>10. QED  BY <1>3, <1>5, <1>6, <1>7, <1>8, <1>9

----------------------------------------------------------------------------
(* From the file to the evaluation.                                        *)

(* What the compact loader has returned: rows, and of a compressed file as *)
(* many as were asked for.                                                 *)
Rowed == pc = "loaded" /\ compact # File!Error =>
           /\ compact \in Seq(Rows)
           /\ gz => Len(compact) = IF limit \in 1 .. Len(table) THEN limit ELSE Len(table)

(* A load of the compact dataset. *)
LEMMA RowedLoad ==
  ASSUME FileInv, table' = table, File!Load
  PROVE  Rowed'
<1> SUFFICES ASSUME compact' # File!Error
             PROVE  /\ compact' \in Seq(Rows)
                    /\ gz => Len(compact') = IF limit \in 1 .. Len(table) THEN limit
                                             ELSE Len(table)
  BY DEF Rowed, File!Load, File!Input, File!Error
<1> DEFINE eof == sealed \/ ~gz
<1>1. PICK cut \in File!Cuts, n \in 0 .. Len(disk) :
        /\ eof => n = Len(disk)
        /\ compact' = File!Compact(SubSeq(disk, 1, n), cut, eof)
  <2>1. Len(disk) \in 0 .. Len(disk)
    BY DEF FileInv, FileTypes, Pieces
  <2>2. PICK cut \in File!Cuts, n \in IF eof THEN {Len(disk)} ELSE 0 .. Len(disk) :
          compact' = File!Compact(SubSeq(disk, 1, n), cut, eof)
    BY DEF File!Load
  <2>3. n \in 0 .. Len(disk) /\ (eof => n = Len(disk))
    BY <2>1
  <2>4. QED  BY <2>2, <2>3
<1> DEFINE f == SubSeq(disk, 1, n)
           known == Known(f, cut, eof)
<1>2. eof \in BOOLEAN /\ limit \in Nat
  BY TotalType DEF FileInv, FileTypes
<1>3. Pieces(f) /\ Len(f) = n /\ Len(disk) <= Total /\ Len(disk) \in Nat
  BY FewerPieces DEF FileInv, FileTypes, Pieces
<1>4. Total = 2 * (Len(table) + 1) /\ Len(table) \in Nat
  BY TotalType DEF FileInv, FileTypes
<1>5. compact' = File!Compact(f, cut, eof)
  BY <1>1
<1>6. gz /\ eof => n = 2 * (Len(table) + 1)
  <2>1. gz /\ eof => sealed
    OBVIOUS
  <2>2. sealed => Len(disk) = Total
    BY DEF FileInv, Results
  <2>3. QED  BY <1>1, <1>4, <2>1, <2>2
<1> HIDE DEF eof, f
<1>7. /\ Len(f) >= 2
      /\ \/ limit \in 1 .. Len(known) - 1 /\ compact' = SubSeq(known, 1, limit)
         \/ limit \notin 1 .. Len(known) - 1 /\ eof /\ compact' = known
  BY <1>2, <1>3, <1>5, CompactIs
<1>8. /\ known \in Seq(Rows)
      /\ \A i \in 1 .. Len(known) : 2 * i + 1 <= Len(f)
  BY <1>2, <1>3, <1>7, KnownRows
<1>9. gz /\ eof => Len(known) = Len(table)
  <2> SUFFICES ASSUME gz /\ eof PROVE Len(known) = Len(table)
    OBVIOUS
  <2>1. Len(f) = 2 * (Len(table) + 1)
    BY <1>3, <1>6
  <2>2. File!CutRow(f, cut, eof) = <<>>
    <3>1. Len(f) % 2 # 1
      BY <1>4, <2>1
    <3>2. QED  BY <3>1 DEF File!CutRow
  <2>3. Len(File!Whole(f)) = Len(table)
    <3>1. (Len(f) \div 2) - 1 = Len(table)
      BY <1>4, <2>1
    <3>2. File!Whole(f) = [i \in 1 .. Len(table) |-> File!Row((f[2 * i + 1] - 1) \div 2, "no")]
      BY <3>1 DEF File!Whole
    <3>3. QED  BY <1>4, <3>2
  <2>4. known = File!Whole(f) \o <<>>
    BY <2>2 DEF Known
  <2>5. Len(File!Whole(f) \o <<>>) = Len(File!Whole(f))
    <3>1. \A S : \A w \in Seq(S) : Len(w \o <<>>) = Len(w)
      OBVIOUS
    <3>2. File!Whole(f) \in Seq({File!Row((f[2 * i + 1] - 1) \div 2, "no") :
                                 i \in 1 .. Len(table)})
      <4>1. (Len(f) \div 2) - 1 = Len(table)
        BY <1>4, <2>1
      <4>2. File!Whole(f) = [i \in 1 .. Len(table) |->
                               File!Row((f[2 * i + 1] - 1) \div 2, "no")]
        BY <4>1 DEF File!Whole
      <4>3. QED  BY <1>4, <4>2
    <3>3. QED  BY <3>1, <3>2
  <2>6. QED  BY <2>3, <2>4, <2>5
<1>10. Len(known) \in Nat /\ Len(known) <= Len(table)
  <2>1. Len(known) \in Nat
    BY <1>8
  <2>2. CASE Len(known) = 0
    BY <1>4, <2>2
  <2>3. CASE Len(known) # 0
    <3>1. 2 * Len(known) + 1 <= Len(f)
      BY <1>8, <2>1, <2>3
    <3>2. Len(f) <= 2 * (Len(table) + 1)
      BY <1>3, <1>4
    <3>3. QED  BY <1>3, <1>4, <2>1, <3>1, <3>2
  <2>4. QED  BY <2>2, <2>3
<1> HIDE DEF known
<1>11. CASE limit \in 1 .. Len(known) - 1 /\ compact' = SubSeq(known, 1, limit)
  <2>1. limit \in 1 .. Len(known) /\ limit \in 1 .. Len(table)
    BY <1>4, <1>10, <1>11
  <2>2. compact' \in Seq(Rows) /\ Len(compact') = limit
    BY <1>8, <1>11, <2>1, SubSeqProperties
  <2>3. QED  BY <2>1, <2>2
<1>12. CASE limit \notin 1 .. Len(known) - 1 /\ eof /\ compact' = known
  <2>1. gz => Len(known) = Len(table)
    BY <1>9, <1>12
  <2>2. gz /\ limit \in 1 .. Len(table) => limit = Len(table)
    BY <1>2, <1>4, <1>12, <2>1
  <2>3. QED  BY <1>8, <1>12, <2>1, <2>2
<1>13. QED  BY <1>7, <1>11, <1>12

(* Once the file is loaded, it is not touched. *)
LEMMA LoadedStays ==
  ASSUME FileInv, Next \/ UNCHANGED <<file, eval>>, pc = "loaded"
  PROVE  UNCHANGED file
<1>1. ~File!Next
  BY DEF File!Next, File!Create, File!Write, File!Spill, File!LastRow, File!Close, File!Kill,
         File!Load
<1>2. QED  BY <1>1 DEF Next, Prepare, Evaluate, Report, Done

(* A step of the file or the evaluation. *)
LEMMA RowedStep ==
  ASSUME FileInv, Rowed, Next \/ UNCHANGED <<file, eval>>
  PROVE  Rowed'
<1>1. CASE UNCHANGED file
  BY <1>1 DEF file, Rowed, File!Error
<1>2. CASE Prepare /\ ~File!Load
  <2>1. pc' # "loaded"
    BY <1>2 DEF Prepare, File!Next, File!Create, File!Write, File!Spill, File!LastRow,
                File!Close, File!Kill
  <2>2. QED  BY <2>1 DEF Rowed
<1>3. CASE Prepare /\ File!Load
  BY <1>3, RowedLoad DEF Prepare
<1>4. CASE Evaluate \/ Report \/ Done \/ UNCHANGED <<file, eval>>
  <2>1. UNCHANGED file
    BY <1>4 DEF Evaluate, Report, Done
  <2>2. QED  BY <1>1, <2>1
<1>5. QED  BY <1>2, <1>3, <1>4 DEF Next

(* A row becomes a sample with its label, and as many features: the cut is *)
(* within the digits of the last one.                                      *)
LEMMA SampleIs ==
  ASSUME table \in TestSet, NEW row, row.row \in 1 .. Len(table)
  PROVE  LET x == Sample(row)
             y == table[row.row]
         IN  /\ x \in [features : Seq(Int), label : {0, 1}]
             /\ x.label = y.label /\ Len(x.features) = Len(y.features)
<1> DEFINE y == table[row.row]
           f == y.features
           g == [f EXCEPT ![Len(f)] = 0]
<1>1. y \in [features : Seq(Int), label : {0, 1}]
  <2> DEFINE R == [features : Seq(Int), label : {0, 1}]
  <2>1. table \in Seq(R)
    BY DEF TestSet
  <2> HIDE DEF R
  <2>2. table[row.row] \in R
    BY <2>1
  <2>3. QED  BY <2>2 DEF R
<1>2. f \in Seq(Int) /\ y.label \in {0, 1} /\ y = [features |-> f, label |-> y.label]
  BY <1>1
<1> HIDE DEF f
<1>3. g \in Seq(Int) /\ Len(g) = Len(f)
  <2>1. g = [i \in 1 .. Len(f) |-> IF i = Len(f) THEN 0 ELSE f[i]]
    BY <1>2
  <2>2. Len(f) \in Nat
    BY <1>2
  <2> HIDE DEF g
  <2>3. \A i \in 1 .. Len(f) : (IF i = Len(f) THEN 0 ELSE f[i]) \in Int
    BY <1>2
  <2>4. QED  BY <2>1, <2>2, <2>3
<1>4. CASE row.cut # "value"
  <2>1. Sample(row) = y
    BY <1>4 DEF Sample
  <2>2. QED  BY <1>1, <2>1
<1>5. CASE row.cut = "value"
  <2>1. Sample(row) = [y EXCEPT !.features = g]
    BY <1>5 DEF Sample, f
  <2> HIDE DEF y, g
  <2>2. [y EXCEPT !.features = g] = [features |-> g, label |-> y.label]
    BY <1>2
  <2>3. QED  BY <1>2, <1>3, <2>1, <2>2 DEF f, y
<1>6. QED  BY <1>4, <1>5

(* The test set that is made of the rows: the first of the table, with     *)
(* their labels, all of one width.                                         *)
LEMMA SamplesAre ==
  ASSUME FileInv, Rowed, pc = "loaded", compact # File!Error,
         NEW s, s = [i \in DOMAIN compact |-> Sample(compact[i])]
  PROVE  /\ s \in TestSet /\ Len(s) = Len(compact) /\ Len(s) <= Len(table)
         /\ \A i \in 1 .. Len(s) : s[i].label = table[i].label
         /\ \A i, j \in 1 .. Len(s) : Len(s[i].features) = Len(s[j].features)
<1> DEFINE n == Len(compact)
<1>1. n \in Nat /\ DOMAIN compact = 1 .. n
  BY DEF Rowed
<1>2. table \in TestSet /\ Len(table) \in Nat
      /\ \A i, j \in 1 .. Len(table) : Len(table[i].features) = Len(table[j].features)
  BY PipelineAssumption DEF FileInv, FileTypes, TestSet
<1>3. \A i \in 1 .. n : compact[i].row = i /\ i <= Len(table)
  BY <1>1 DEF FileInv, LoadedIsPrefix, File!LoadedIsPrefix
<1>4. \A i \in 1 .. n : i \in 1 .. Len(table) /\ compact[i].row = i
  BY <1>1, <1>2, <1>3
<1>5. ASSUME NEW i \in 1 .. n
      PROVE  /\ Sample(compact[i]) \in [features : Seq(Int), label : {0, 1}]
             /\ Sample(compact[i]).label = table[i].label
             /\ Len(Sample(compact[i]).features) = Len(table[i].features)
  BY <1>2, <1>4, SampleIs
<1> HIDE DEF n
<1>6. s = [i \in 1 .. n |-> Sample(compact[i])]
  BY <1>1
<1>7. s \in TestSet /\ Len(s) = n
  BY <1>1, <1>5, <1>6 DEF TestSet
<1>8. \A i \in 1 .. n : s[i].label = table[i].label /\ Len(s[i].features) = Len(table[i].features)
  BY <1>5, <1>6
<1>9. n <= Len(table)
  <2>1. CASE n = 0
    BY <1>2, <2>1
  <2>2. CASE n # 0
    <3>1. n \in 1 .. n
      BY <1>1, <2>2
    <3>2. QED  BY <1>3, <3>1
  <2>3. QED  BY <2>1, <2>2
<1>10. ASSUME NEW i \in 1 .. n, NEW j \in 1 .. n
       PROVE  Len(s[i].features) = Len(s[j].features)
  <2>1. i \in 1 .. Len(table) /\ j \in 1 .. Len(table)
    BY <1>4
  <2>2. Len(table[i].features) = Len(table[j].features)
    BY <1>2, <2>1
  <2>3. QED  BY <1>8, <2>2
<1>11. n = Len(compact)
  BY DEF n
<1>12. s \in TestSet /\ Len(s) = Len(compact) /\ Len(s) <= Len(table)
  BY <1>7, <1>9, <1>11
<1>13. \A i \in 1 .. Len(s) : s[i].label = table[i].label
  BY <1>7, <1>8
<1>14. \A i, j \in 1 .. Len(s) : Len(s[i].features) = Len(s[j].features)
  BY <1>7, <1>10
<1>15. QED  BY <1>12, <1>13, <1>14

----------------------------------------------------------------------------
(* The inductive invariant of the evaluation.                              *)

(* What is evaluated: those rows, as samples and as a matrix.              *)
FromFile == /\ pc = "loaded" /\ compact # File!Error
            /\ samples = [i \in DOMAIN compact |-> Sample(compact[i])]
            /\ weights \in Seq(Int)
            /\ matrix = [X |-> Eval!FlattenSeq([i \in DOMAIN samples |-> samples[i].features]),
                         Y |-> [i \in DOMAIN samples |-> samples[i].label]]

Upto(S, k) == Cardinality(S \cap (1 .. k))

(* What the first k samples count. *)
Counted(k) ==
  /\ tp = Upto(Eval!Labelled(1) \cap Eval!Flagged, k)
  /\ fn = Upto(Eval!Labelled(1) \ Eval!Flagged, k)
  /\ fp = Upto(Eval!Labelled(0) \cap Eval!Flagged, k)
  /\ tn = Upto(Eval!Labelled(0) \ Eval!Flagged, k)
  /\ tp + fn = Upto(Eval!Labelled(1), k)
  /\ positives = tp + fn /\ tp + tn + fp + fn = k

EvalInv == phase # "idle" =>
  /\ FromFile
  /\ phase \in {"score", "rank", "done"} /\ next \in 1 .. Len(samples) + 1
  /\ Eval!P > 0 => Counted(next - 1)
  /\ Eval!P = 0 => tp = 0 /\ tn = 0 /\ fp = 0 /\ fn = 0 /\ phase # "rank"
  /\ phase = "score" => scored = [i \in 1 .. next - 1 |-> Judged(i)]
  /\ phase = "rank" => \E p \in [1 .. Len(samples) -> 1 .. Len(samples)] :
                         IsPermutation(p, Len(samples)) /\ SortedBy(scored, p)
  /\ phase # "score" /\ Eval!P > 0 => next = Len(samples) + 1
  /\ AucIsAShareOfPairs

(* One more number to count. *)
LEMMA UptoIs ==
  ASSUME NEW S, NEW k \in Nat
  PROVE  /\ Upto(S, k) \in Nat /\ Upto(S, 0) = 0
         /\ Upto(S, k + 1) = Upto(S, k) + (IF k + 1 \in S THEN 1 ELSE 0)
<1>1. IsFiniteSet(S \cap (1 .. k))
  <2>1. IsFiniteSet(1 .. k)
    BY FS_Interval
  <2>2. QED  BY <2>1, FS_Subset
<1>2. Upto(S, k) \in Nat
  BY <1>1, FS_CardinalityType DEF Upto
<1>3. Upto(S, 0) = 0
  <2>1. S \cap (1 .. 0) = {}
    OBVIOUS
  <2>2. QED  BY <2>1, FS_EmptySet DEF Upto
<1>4. 1 .. k + 1 = (1 .. k) \cup {k + 1} /\ k + 1 \notin 1 .. k
  OBVIOUS
<1>5. CASE k + 1 \in S
  <2>1. S \cap (1 .. k + 1) = (S \cap (1 .. k)) \cup {k + 1} /\ k + 1 \notin S \cap (1 .. k)
    BY <1>4, <1>5
  <2> DEFINE T == S \cap (1 .. k)
  <2>2. IsFiniteSet(T) /\ k + 1 \notin T
    BY <1>1, <2>1
  <2> HIDE DEF T
  <2>3. Cardinality(T \cup {k + 1}) = Cardinality(T) + 1
    BY <2>2, FS_AddElement
  <2>4. Upto(S, k + 1) = Upto(S, k) + 1
    BY <2>1, <2>3 DEF T, Upto
  <2>5. QED  BY <1>2, <1>3, <1>5, <2>4
<1>6. CASE k + 1 \notin S
  <2>1. S \cap (1 .. k + 1) = S \cap (1 .. k)
    BY <1>4, <1>6
  <2>2. Upto(S, k + 1) = Upto(S, k)
    BY <2>1 DEF Upto
  <2>3. QED  BY <1>2, <1>3, <1>6, <2>2
<1>7. QED  BY <1>2, <1>3, <1>5, <1>6

(* The samples that are evaluated, and their width. *)
LEMMA Evaluated ==
  ASSUME FileInv, Rowed, FromFile
  PROVE  /\ samples \in TestSet /\ Len(samples) = Len(compact) /\ Len(samples) <= Len(table)
         /\ Len(samples) \in Nat /\ DOMAIN samples = 1 .. Len(samples)
         /\ \A i \in 1 .. Len(samples) :
              /\ samples[i].features \in Seq(Int) /\ samples[i].label \in {0, 1}
              /\ samples[i].label = table[i].label /\ Len(samples[i].features) = Eval!P
         /\ Eval!P \in Nat /\ (Eval!P > 0 => Len(samples) > 0)
<1> DEFINE n == Len(samples)
<1>1. /\ samples \in TestSet /\ n = Len(compact) /\ n <= Len(table)
      /\ \A i \in 1 .. n : samples[i].label = table[i].label
      /\ \A i, j \in 1 .. n : Len(samples[i].features) = Len(samples[j].features)
  BY SamplesAre DEF FromFile
<1>2. /\ n \in Nat /\ DOMAIN samples = 1 .. n
      /\ \A i \in 1 .. n : samples[i].features \in Seq(Int) /\ samples[i].label \in {0, 1}
  BY <1>1, SamplesOf
<1>3. samples = <<>> <=> n = 0
  BY <1>1 DEF TestSet
<1> HIDE DEF n
<1>4. CASE n = 0
  <2>1. Eval!P = 0
    BY <1>3, <1>4 DEF Eval!P
  <2>2. QED  BY <1>1, <1>2, <1>4, <2>1 DEF n
<1>5. CASE n # 0
  <2>1. Eval!P = Len(samples[1].features)
    BY <1>3, <1>5 DEF Eval!P
  <2>2. 1 \in 1 .. n /\ n > 0
    BY <1>2, <1>5
  <2>3. \A i \in 1 .. n : Len(samples[i].features) = Eval!P
    BY <1>1, <2>1, <2>2
  <2>4. Eval!P \in Nat
    BY <1>2, <2>1, <2>2
  <2>5. QED  BY <1>1, <1>2, <2>2, <2>3, <2>4 DEF n
<1>6. QED  BY <1>4, <1>5

(* A row of the matrix has the features of its sample, so that the two     *)
(* evaluators see the same logit.                                          *)
LEMMA SameProbability ==
  ASSUME FileInv, Rowed, FromFile, Eval!P > 0, NEW i \in 1 .. Len(samples)
  PROVE  /\ Eval!CompactProbability(i) = Eval!PredictProbability(i)
         /\ matrix.Y[i] = samples[i].label
<1> DEFINE seqs == [k \in DOMAIN samples |-> samples[k].features]
           x == samples[i].features
           p == Eval!P
<1>1. /\ Len(samples) \in Nat /\ DOMAIN samples = 1 .. Len(samples) /\ p \in Nat
      /\ \A k \in 1 .. Len(samples) : samples[k].features \in Seq(Int)
                                     /\ Len(samples[k].features) = p
  BY Evaluated
<1>2. matrix.X = Eval!FlattenSeq(seqs) /\ matrix.Y[i] = samples[i].label
  BY <1>1 DEF FromFile
<1> HIDE DEF p
<1>3. seqs \in Seq(Seq(Int)) /\ Len(seqs) = Len(samples)
  BY <1>1
<1>4. \A k \in 1 .. Len(samples) : seqs[k] = samples[k].features
  BY <1>1
<1> HIDE DEF seqs
<1>5. \A k \in 1 .. Len(seqs) : Len(seqs[k]) = p
  BY <1>1, <1>3, <1>4
<1>6. Len(seqs) > 0
  BY <1>1, <1>3
<1>7. \A k \in 1 .. Len(seqs), j \in 1 .. p : Eval!FlattenSeq(seqs)[(k - 1) * p + j] = seqs[k][j]
  BY <1>1, <1>3, <1>5, <1>6, FlattenRows
<1>8. \A j \in 1 .. p : matrix.X[Eval!Base(i, j)] = x[j]
  BY <1>2, <1>3, <1>4, <1>7 DEF Eval!Base, p
<1>9. x \in Seq(Int) /\ Len(x) = p /\ weights \in Seq(Int)
  BY <1>1, PipelineAssumption DEF FromFile
<1>10. IsLogit(Eval!CompactProbability(i), x) /\ IsLogit(Eval!Logit(x), x)
  <2> HIDE DEF x
  <2>1. QED  BY <1>8, <1>9, CompactLogitIs, LogitIs DEF p
<1>11. Eval!CompactProbability(i) = Eval!Logit(x)
  <2> HIDE DEF x
  <2>1. QED  BY <1>9, <1>10, LogitUnique
<1>12. QED  BY <1>2, <1>11 DEF Eval!PredictProbability

(* What does not change with the report. *)
LEMMA SameSamples ==
  ASSUME UNCHANGED file, samples' = samples, weights' = weights, matrix' = matrix
  PROVE  /\ FromFile => FromFile'
         /\ Eval!P' = Eval!P /\ Eval!Flagged' = Eval!Flagged
         /\ Eval!Labelled(0)' = Eval!Labelled(0) /\ Eval!Labelled(1)' = Eval!Labelled(1)
         /\ \A i : Judged(i)' = Judged(i)
         /\ \A i : Eval!PredictProbability(i)' = Eval!PredictProbability(i)
<1>1. Eval!P' = Eval!P
  BY DEF Eval!P
<1>2. Eval!Labelled(0)' = Eval!Labelled(0) /\ Eval!Labelled(1)' = Eval!Labelled(1)
  BY DEF Eval!Labelled
<1>3. \A i : Eval!PredictProbability(i)' = Eval!PredictProbability(i)
  BY DEF Eval!PredictProbability, Eval!Logit
<1>4. Eval!Flagged' = Eval!Flagged
  BY <1>3 DEF Eval!Flagged
<1>5. \A i : Judged(i)' = Judged(i)
  BY <1>3 DEF Judged
<1>6. FromFile => FromFile'
  BY DEF FromFile, file, Sample, File!Error
<1>7. QED  BY <1>1, <1>2, <1>3, <1>4, <1>5, <1>6

(* An evaluation begins. *)
LEMMA EvaluateStep ==
  ASSUME FileInv, Rowed, Evaluate
  PROVE  EvalInv'
<1>1. PICK w \in Weights : Eval!Start([i \in DOMAIN compact |-> Sample(compact[i])], w)
  BY DEF Evaluate
<1>2. /\ samples' = [i \in DOMAIN compact |-> Sample(compact[i])] /\ weights' = w
      /\ phase' = "score" /\ next' = 1
      /\ tp' = 0 /\ tn' = 0 /\ fp' = 0 /\ fn' = 0 /\ positives' = 0 /\ scored' = <<>>
      /\ pc' = "loaded" /\ compact # File!Error /\ compact' = compact /\ table' = table
  BY <1>1 DEF Evaluate, Eval!Start, file
<1>3. FromFile'
  <2>1. matrix' = [X |-> Eval!FlattenSeq([i \in DOMAIN samples' |-> samples'[i].features]),
                   Y |-> [i \in DOMAIN samples' |-> samples'[i].label]]
    BY <1>1, <1>2 DEF Eval!Start
  <2>2. weights' \in Seq(Int)
    BY <1>2, PipelineAssumption
  <2>3. samples' = [i \in DOMAIN compact |-> Sample(compact[i])]'
    BY <1>2 DEF Sample
  <2>4. pc' = "loaded" /\ compact' # File!Error
    BY <1>2
  <2>5. QED  BY <2>1, <2>2, <2>3, <2>4 DEF FromFile, File!Error
<1>4. Len(samples') \in Nat
  <2>1. samples' \in TestSet
    BY <1>2, SamplesAre DEF Evaluate
  <2>2. QED  BY <2>1, SamplesOf
<1>5. Counted(0)'
  <2>1. \A S : Upto(S, 0) = 0
    BY UptoIs
  <2>2. QED  BY <1>2, <2>1 DEF Counted
<1>6. next' - 1 = 0
  BY <1>2
<1>7. scored' = [i \in 1 .. next' - 1 |-> Judged(i)']
  BY <1>2, <1>6
<1>8. Counted(next - 1)'
  BY <1>5, <1>6 DEF Counted
<1>9. AucIsAShareOfPairs'
  BY <1>2 DEF AucIsAShareOfPairs, Eval!AucIsAShareOfPairs
<1>10. next' \in 1 .. Len(samples') + 1
  BY <1>2, <1>4
<1>11. QED  BY <1>2, <1>3, <1>7, <1>8, <1>9, <1>10 DEF EvalInv

(* A test set without features is not evaluated. *)
LEMMA NothingStep ==
  ASSUME FileInv, Rowed, EvalInv, UNCHANGED file, Eval!Nothing
  PROVE  EvalInv'
<1>1. /\ phase = "score" /\ Eval!P = 0 /\ phase' = "done" /\ next' = next
      /\ samples' = samples /\ weights' = weights /\ matrix' = matrix
      /\ tp' = tp /\ tn' = tn /\ fp' = fp /\ fn' = fn
  BY DEF Eval!Nothing
<1>2. FromFile' /\ Eval!P' = 0
  BY <1>1, SameSamples DEF EvalInv
<1>3. AucIsAShareOfPairs'
  <2>1. ~(Eval!P > 0)'
    BY <1>2
  <2>2. QED  BY <2>1, Zenon DEF AucIsAShareOfPairs, Eval!AucIsAShareOfPairs
<1>4. QED  BY <1>1, <1>2, <1>3 DEF EvalInv

(* One turn of EvaluateCompact counts one sample more. *)
LEMMA ScoreStep ==
  ASSUME FileInv, Rowed, EvalInv, UNCHANGED file, Eval!Score
  PROVE  EvalInv'
<1> DEFINE k == next - 1
           z == Eval!PredictProbability(next)
           y == samples[next].label
           One(cond) == IF cond THEN 1 ELSE 0
<1>1. /\ phase = "score" /\ next <= Len(samples) /\ Eval!P > 0 /\ phase' = phase
      /\ next' = next + 1 /\ samples' = samples /\ weights' = weights /\ matrix' = matrix
  BY DEF Eval!Score
<1>2. FromFile /\ next \in 1 .. Len(samples) + 1 /\ Counted(k)
      /\ scored = [i \in 1 .. k |-> Judged(i)] /\ weights \in Seq(Int)
  BY <1>1 DEF EvalInv, FromFile
<1>3. /\ samples \in TestSet /\ Len(samples) \in Nat /\ DOMAIN samples = 1 .. Len(samples)
      /\ \A i \in 1 .. Len(samples) : samples[i].label \in {0, 1}
  BY <1>2, Evaluated
<1>4. next \in 1 .. Len(samples) /\ k \in Nat /\ k + 1 = next /\ next' - 1 = k + 1
  BY <1>1, <1>2, <1>3
<1>5. Eval!CompactProbability(next) = z /\ matrix.Y[next] = y
  BY <1>1, <1>2, <1>4, SameProbability
<1>6. z \in Int /\ y \in {0, 1}
  BY <1>2, <1>3, <1>4, ProbabilityType
<1>7. /\ tp' = tp + One(z >= 0 /\ y = 1) /\ tn' = tn + One(z < 0 /\ y = 0)
      /\ fp' = fp + One(z >= 0 /\ y = 0) /\ fn' = fn + One(z < 0 /\ y = 1)
      /\ positives' = positives + One(y = 1)
      /\ scored' = Append(scored, [score |-> z, label |-> y])
  BY <1>5 DEF Eval!Score
<1>8. /\ Eval!P' = Eval!P /\ FromFile' /\ Eval!Flagged' = Eval!Flagged
      /\ Eval!Labelled(0)' = Eval!Labelled(0) /\ Eval!Labelled(1)' = Eval!Labelled(1)
      /\ \A i : Judged(i)' = Judged(i)
  BY <1>1, <1>2, SameSamples
<1>9. /\ next \in Eval!Labelled(1) <=> y = 1
      /\ next \in Eval!Labelled(0) <=> y = 0
      /\ next \in Eval!Flagged <=> z >= 0
  BY <1>3, <1>4 DEF Eval!Labelled, Eval!Flagged
<1>10. Judged(next) = [score |-> z, label |-> y]
  BY DEF Judged
<1>11. scored' = [i \in 1 .. k + 1 |-> Judged(i)]
  <2> DEFINE S == {Judged(i) : i \in 1 .. next}
  <2>typed. \A i \in 1 .. next : Judged(i) \in S
    OBVIOUS
  <2> HIDE DEF S
  <2>1. scored \in Seq(S) /\ Len(scored) = k /\ Judged(next) \in S
    <3>1. /\ \A i \in 1 .. k : Judged(i) \in S
          /\ Judged(next) \in S
      BY <1>4, <2>typed
    <3>2. scored = [i \in 1 .. k |-> Judged(i)] /\ k \in Nat
      BY <1>2, <1>4
    <3> HIDE DEF k
    <3>3. QED  BY <3>1, <3>2
  <2> DEFINE e == Judged(next)
  <2> HIDE DEF e
  <2>2. Append(scored, e) \in Seq(S) /\ Len(Append(scored, e)) = k + 1
        /\ Append(scored, e)[k + 1] = e /\ \A i \in 1 .. k : Append(scored, e)[i] = scored[i]
    <3>1. e \in S
      BY <2>1 DEF e
    <3>2. QED  BY <1>4, <2>1, <3>1, AppendProperties
  <2> DEFINE t == Append(scored, e)
  <2>3. scored' = t
    BY <1>7, <1>10 DEF e
  <2> HIDE DEF t
  <2>4. t = [i \in 1 .. k + 1 |-> t[i]]
    <3>1. t \in Seq(S) /\ Len(t) = k + 1
      BY <2>2 DEF t
    <3>2. QED  BY <3>1
  <2>5. \A i \in 1 .. k + 1 : t[i] = Judged(i)
    <3>1. \A i \in 1 .. k : t[i] = Judged(i)
      BY <1>2, <2>2 DEF t
    <3>2. t[k + 1] = Judged(k + 1)
      BY <1>4, <2>2 DEF t, e
    <3>3. \A i \in 1 .. k + 1 : i \in 1 .. k \/ i = k + 1
      BY <1>4
    <3>4. QED  BY <3>1, <3>2, <3>3, Zenon
  <2>6. QED  BY <2>3, <2>4, <2>5
<1> DEFINE L1 == Eval!Labelled(1)
           L0 == Eval!Labelled(0)
           F == Eval!Flagged
<1>12. Counted(next - 1)'
  <2>1. \A S : /\ Upto(S, k) \in Nat
               /\ Upto(S, k + 1) = Upto(S, k) + (IF k + 1 \in S THEN 1 ELSE 0)
    BY <1>4, UptoIs
  <2>2. /\ tp = Upto(L1 \cap F, k) /\ fn = Upto(L1 \ F, k) /\ fp = Upto(L0 \cap F, k)
        /\ tn = Upto(L0 \ F, k) /\ tp + fn = Upto(L1, k) /\ positives = tp + fn
        /\ tp + tn + fp + fn = k
    BY <1>2 DEF Counted
  <2>3. z < 0 <=> ~(z >= 0)
    BY <1>6
  <2>4. k + 1 = next
    BY <1>4
  <2>5. /\ next \in L1 <=> y = 1
        /\ next \in L0 <=> y = 0
        /\ next \in F <=> z >= 0
    BY <1>9
  <2> HIDE DEF L1, L0, F, k, z, y
  <2>6. /\ tp' = Upto(L1 \cap F, next) /\ fn' = Upto(L1 \ F, next)
        /\ fp' = Upto(L0 \cap F, next) /\ tn' = Upto(L0 \ F, next)
    BY <1>7, <2>1, <2>2, <2>3, <2>4, <2>5
  <2>7. /\ tp \in Nat /\ fn \in Nat /\ fp \in Nat /\ tn \in Nat
    BY <2>1, <2>2
  <2> DEFINE a == One(z >= 0 /\ y = 1)
             b == One(z < 0 /\ y = 1)
             c == One(z >= 0 /\ y = 0)
             d == One(z < 0 /\ y = 0)
             e == One(y = 1)
  <2>one. /\ tp' = tp + a /\ fn' = fn + b /\ fp' = fp + c /\ tn' = tn + d
          /\ positives' = positives + e
    BY <1>7
  <2>two. /\ a \in Nat /\ b \in Nat /\ c \in Nat /\ d \in Nat /\ e \in Nat
          /\ a + b = e /\ e + c + d = 1
    BY <1>6, <2>3
  <2>three. Upto(L1, next) = Upto(L1, k) + e
    BY <2>1, <2>4, <2>5
  <2> HIDE DEF a, b, c, d, e
  <2>8. tp' + fn' = Upto(L1, next) /\ positives' = tp' + fn'
    <3>1. tp + fn = Upto(L1, k) /\ positives = tp + fn
      BY <2>2
    <3>2. tp' + fn' = (tp + fn) + e
      BY <2>7, <2>one, <2>two
    <3>3. QED  BY <2>one, <2>three, <3>1, <3>2
  <2>9. tp' + tn' + fp' + fn' = next
    <3>1. k \in Int
      BY <1>4
    <3>2. tp + tn + fp + fn = k
      BY <2>2
    <3>3. tp' + tn' + fp' + fn' = (tp + tn + fp + fn) + 1
      BY <2>7, <2>one, <2>two
    <3>4. QED  BY <2>4, <3>2, <3>3
  <2>10. next' - 1 = next
    BY <1>4, <2>4
  <2>11. QED  BY <1>8, <2>6, <2>8, <2>9, <2>10 DEF Counted, L1, L0, F
<1>13. next' \in 1 .. Len(samples') + 1
  BY <1>1, <1>2, <1>3
<1>14. scored' = [i \in 1 .. next' - 1 |-> Judged(i)']
  BY <1>4, <1>8, <1>11
<1>15. AucIsAShareOfPairs'
  BY <1>1 DEF AucIsAShareOfPairs, Eval!AucIsAShareOfPairs
<1> HIDE DEF k, z, y
<1>16. QED  BY <1>1, <1>8, <1>12, <1>13, <1>14, <1>15 DEF EvalInv

(* The scores are sorted, by some permutation of the samples. *)
LEMMA SortStep ==
  ASSUME FileInv, Rowed, EvalInv, UNCHANGED file, Eval!Sort
  PROVE  EvalInv'
<1> DEFINE n == Len(samples)
<1>1. /\ phase = "score" /\ next > n /\ Eval!P > 0 /\ phase' = "rank" /\ next' = next
      /\ samples' = samples /\ weights' = weights /\ matrix' = matrix
      /\ tp' = tp /\ tn' = tn /\ fp' = fp /\ fn' = fn /\ positives' = positives
  BY DEF Eval!Sort
<1>2. FromFile /\ next \in 1 .. n + 1 /\ Counted(next - 1)
      /\ scored = [i \in 1 .. next - 1 |-> Judged(i)]
  BY <1>1 DEF EvalInv
<1>3. n \in Nat /\ DOMAIN samples = 1 .. n
  BY <1>2, Evaluated
<1>4. next = n + 1 /\ scored = [i \in 1 .. n |-> Judged(i)]
  BY <1>1, <1>2, <1>3
<1>5. PICK p \in Eval!Bijection(1 .. n, 1 .. n) :
        /\ scored' = [i \in 1 .. n |-> scored[p[i]]]
        /\ \A i \in 2 .. n : scored'[i - 1].score <= scored'[i].score
  BY <1>3 DEF Eval!Sort
<1>6. p \in [1 .. n -> 1 .. n] /\ IsPermutation(p, n)
  BY DEF IsPermutation, Eval!Bijection, Eval!Injection, Eval!Surjection, Eval!IsInjective
<1>7. /\ Eval!P' = Eval!P /\ FromFile' /\ Eval!Flagged' = Eval!Flagged
      /\ Eval!Labelled(0)' = Eval!Labelled(0) /\ Eval!Labelled(1)' = Eval!Labelled(1)
      /\ \A i : Judged(i)' = Judged(i)
  BY <1>1, <1>2, SameSamples
<1>8. scored' = [i \in 1 .. n |-> Judged(p[i])]
  BY <1>4, <1>5, <1>6
<1>9. SortedBy(scored, p)'
  <2>1. scored' = [i \in 1 .. Len(samples') |-> Judged(p[i])']
    BY <1>1, <1>7, <1>8
  <2>2. \A i \in 2 .. Len(samples') : scored'[i - 1].score <= scored'[i].score
    BY <1>1, <1>5
  <2>3. QED  BY <2>1, <2>2 DEF SortedBy
<1>10. Counted(next - 1)'
  BY <1>1, <1>2, <1>7 DEF Counted
<1>11. AucIsAShareOfPairs'
  BY <1>1 DEF AucIsAShareOfPairs, Eval!AucIsAShareOfPairs
<1>12. \E q \in [1 .. Len(samples') -> 1 .. Len(samples')] :
         IsPermutation(q, Len(samples')) /\ SortedBy(scored, q)'
  BY <1>1, <1>6, <1>9
<1>13. next' = Len(samples') + 1 /\ next' \in 1 .. Len(samples') + 1
  BY <1>1, <1>2, <1>4
<1> HIDE DEF n
<1>14. QED  BY <1>1, <1>7, <1>10, <1>11, <1>12, <1>13 DEF EvalInv

(* The area under the curve of what was sorted. *)
LEMMA RankSumStep ==
  ASSUME FileInv, Rowed, EvalInv, UNCHANGED file, Eval!RankSum
  PROVE  EvalInv'
<1> DEFINE pos == Eval!Positives(scored)
           neg == Len(scored) - pos
<1>1. /\ phase = "rank" /\ phase' = "done" /\ next' = next
      /\ samples' = samples /\ weights' = weights /\ matrix' = matrix
      /\ tp' = tp /\ tn' = tn /\ fp' = fp /\ fn' = fn /\ positives' = positives
      /\ auc' = IF pos = 0 \/ neg = 0 THEN <<0, 1>>
                ELSE <<Eval!Ranks(scored) - (pos * (pos + 1)) \div 2, pos * neg>>
  BY DEF Eval!RankSum
<1>2. /\ FromFile /\ next \in 1 .. Len(samples) + 1 /\ weights \in Seq(Int)
      /\ (Eval!P > 0 => Counted(next - 1) /\ next = Len(samples) + 1)
      /\ (Eval!P = 0 => phase # "rank")
  BY <1>1 DEF EvalInv, FromFile
<1>3. PICK p \in [1 .. Len(samples) -> 1 .. Len(samples)] :
        IsPermutation(p, Len(samples)) /\ SortedBy(scored, p)
  BY <1>1 DEF EvalInv
<1>4. samples \in TestSet /\ Eval!P \in Nat
  BY <1>2, Evaluated
<1>5. /\ pos = Cardinality(Eval!Labelled(1)) /\ neg = Cardinality(Eval!Labelled(0))
      /\ Eval!Ranks(scored) - (pos * (pos + 1)) \div 2 \in Cardinality(Won) .. Cardinality(Kept)
  BY <1>2, <1>3, <1>4, AucOfTheSort
<1>6. /\ Eval!P' = Eval!P /\ FromFile' /\ Eval!Flagged' = Eval!Flagged
      /\ Eval!Labelled(0)' = Eval!Labelled(0) /\ Eval!Labelled(1)' = Eval!Labelled(1)
      /\ \A i : Eval!PredictProbability(i)' = Eval!PredictProbability(i)
  BY <1>1, <1>2, SameSamples
<1>7. \A y \in {0, 1} : Eval!Labelled(y) # {} => Cardinality(Eval!Labelled(y)) # 0
  <2>1. \A y : IsFiniteSet(Eval!Labelled(y))
    BY <1>3, <1>4, SortKeepsLabels DEF SortedBy
  <2>2. QED  BY <2>1, FS_EmptySet
<1> HIDE DEF pos, neg
<1>8. ASSUME Eval!Labelled(0) # {}, Eval!Labelled(1) # {}
      PROVE  /\ auc'[2] = Cardinality(Eval!Labelled(1)) * Cardinality(Eval!Labelled(0))
             /\ auc'[1] \in Cardinality(Won) .. Cardinality(Kept)
  <2>1. pos # 0 /\ neg # 0
    BY <1>5, <1>7, <1>8
  <2>2. auc' = <<Eval!Ranks(scored) - (pos * (pos + 1)) \div 2, pos * neg>>
    BY <1>1, <2>1
  <2>3. QED  BY <1>5, <2>2
<1>9. Won' = Won /\ Kept' = Kept
  BY <1>6 DEF Won, Kept
<1>10. AucIsAShareOfPairs'
  <2> SUFFICES ASSUME (Eval!Labelled(0) # {})', (Eval!Labelled(1) # {})'
               PROVE  /\ auc'[2] = (Cardinality(Eval!Labelled(1)) * Cardinality(Eval!Labelled(0)))'
                      /\ auc'[1] \in (Cardinality(Won) .. Cardinality(Kept))'
    BY SameCardinality DEF AucIsAShareOfPairs, Eval!AucIsAShareOfPairs, Eval!Pairs, Won, Kept
  <2>1. QED  BY <1>6, <1>8, <1>9
<1>11. (Eval!P > 0)' => Counted(next - 1)' /\ next' = Len(samples') + 1
  BY <1>1, <1>2, <1>6 DEF Counted
<1>12. (Eval!P > 0)'
  BY <1>1, <1>2, <1>4, <1>6
<1>13. QED  BY <1>1, <1>2, <1>6, <1>10, <1>11, <1>12 DEF EvalInv

(* What the initial states establish. *)
LEMMA EvalInit == Init => Rowed /\ EvalInv
BY DEF Init, File!Init, Eval!Init, Rowed, EvalInv

(* A step of the file or the evaluation. *)
LEMMA EvalStep ==
  ASSUME FileInv, Rowed, EvalInv, Next \/ UNCHANGED <<file, eval>>
  PROVE  EvalInv'
<1>1. CASE phase = "idle" /\ UNCHANGED eval
  BY <1>1 DEF EvalInv, eval
<1>2. CASE UNCHANGED file /\ UNCHANGED eval
  <2>1. /\ samples' = samples /\ weights' = weights /\ matrix' = matrix /\ phase' = phase
        /\ next' = next /\ tp' = tp /\ tn' = tn /\ fp' = fp /\ fn' = fn
        /\ positives' = positives /\ scored' = scored /\ auc' = auc
    BY <1>2 DEF eval
  <2>2. /\ Eval!P' = Eval!P /\ (FromFile => FromFile') /\ Eval!Flagged' = Eval!Flagged
        /\ Eval!Labelled(0)' = Eval!Labelled(0) /\ Eval!Labelled(1)' = Eval!Labelled(1)
        /\ \A i : Judged(i)' = Judged(i)
        /\ \A i : Eval!PredictProbability(i)' = Eval!PredictProbability(i)
    BY <1>2, <2>1, SameSamples
  <2>3. CASE phase = "idle"
    BY <2>1, <2>3 DEF EvalInv
  <2>4. CASE phase # "idle"
    <3>1. (Eval!P > 0 => Counted(next - 1)) => (Eval!P > 0 => Counted(next - 1))'
      BY <2>1, <2>2 DEF Counted
    <3>2. phase = "score" => scored' = [i \in 1 .. next' - 1 |-> Judged(i)']
      BY <2>1, <2>2, <2>4 DEF EvalInv
    <3>3. \A p : SortedBy(scored, p) => SortedBy(scored, p)'
      BY <2>1, <2>2 DEF SortedBy
    <3>4. phase = "rank" => \E p \in [1 .. Len(samples') -> 1 .. Len(samples')] :
                              IsPermutation(p, Len(samples')) /\ SortedBy(scored, p)'
      BY <2>1, <2>4, <3>3 DEF EvalInv
    <3>5. AucIsAShareOfPairs'
      <4>1. Won' = Won /\ Kept' = Kept
        BY <2>2 DEF Won, Kept
      <4> DEFINE Share == phase = "done" /\ Eval!P > 0 /\ Eval!Labelled(0) # {}
                            /\ Eval!Labelled(1) # {} =>
                          /\ auc[2] = Cardinality(Eval!Labelled(1)) * Cardinality(Eval!Labelled(0))
                          /\ auc[1] \in Cardinality(Won) .. Cardinality(Kept)
      <4>2. AucIsAShareOfPairs <=> Share
        BY SameCardinality DEF AucIsAShareOfPairs, Eval!AucIsAShareOfPairs, Eval!Pairs, Won, Kept
      <4>3. AucIsAShareOfPairs' <=> Share'
        BY SameCardinality DEF AucIsAShareOfPairs, Eval!AucIsAShareOfPairs, Eval!Pairs, Won, Kept
      <4>4. Share => Share'
        BY <2>1, <2>2, <4>1
      <4> HIDE DEF Share
      <4>5. QED  BY <2>4, <4>2, <4>3, <4>4 DEF EvalInv
    <3>6. QED  BY <2>1, <2>2, <2>4, <3>1, <3>2, <3>4, <3>5 DEF EvalInv
  <2>5. QED  BY <2>3, <2>4
<1>3. CASE Prepare
  <2>1. UNCHANGED eval
    BY <1>3 DEF Prepare
  <2>2. phase # "idle" => pc = "loaded"
    BY DEF EvalInv, FromFile
  <2>3. phase # "idle" => UNCHANGED file
    BY <2>2, LoadedStays
  <2>4. QED  BY <1>1, <1>2, <2>1, <2>3
<1>4. CASE Evaluate
  BY <1>4, EvaluateStep
<1>5. CASE Report
  <2>1. UNCHANGED file
    BY <1>5 DEF Report
  <2>2. QED  BY <1>5, <2>1, NothingStep, ScoreStep, SortStep, RankSumStep DEF Report, Eval!Next
<1>6. CASE Done \/ UNCHANGED <<file, eval>>
  <2>1. UNCHANGED file /\ UNCHANGED eval
    BY <1>6 DEF Done
  <2>2. QED  BY <1>2, <2>1
<1>7. QED  BY <1>3, <1>4, <1>5, <1>6 DEF Next

(* The invariants of the file and of the evaluation hold. *)
LEMMA EvalInvariant == Spec => [](FileInv /\ Rowed /\ EvalInv)
<1>1. Rowed /\ EvalInv /\ FileInv /\ [Next]_<<file, eval>> => Rowed' /\ EvalInv'
  BY RowedStep, EvalStep
<1>2. QED  BY <1>1, FileInvariant, EvalInit, PTL DEF Spec

(* What an evaluation that is over has counted. *)
LEMMA AllCounted ==
  ASSUME FileInv, Rowed, EvalInv, phase = "done", Eval!P > 0
  PROVE  /\ tp = Cardinality(Eval!Labelled(1) \cap Eval!Flagged)
         /\ fn = Cardinality(Eval!Labelled(1) \ Eval!Flagged)
         /\ fp = Cardinality(Eval!Labelled(0) \cap Eval!Flagged)
         /\ tn = Cardinality(Eval!Labelled(0) \ Eval!Flagged)
         /\ tp + fn = Cardinality(Eval!Labelled(1))
         /\ positives = tp + fn /\ tp + tn + fp + fn = Len(samples)
<1> DEFINE n == Len(samples)
<1>1. FromFile /\ next = n + 1 /\ Counted(next - 1)
  BY DEF EvalInv
<1>2. n \in Nat /\ DOMAIN samples = 1 .. n
  BY <1>1, Evaluated
<1>3. Counted(n)
  <2>1. next - 1 = n
    BY <1>1, <1>2
  <2>2. QED  BY <1>1, <2>1
<1>4. Eval!Labelled(0) \subseteq 1 .. n /\ Eval!Labelled(1) \subseteq 1 .. n
  BY <1>2 DEF Eval!Labelled
<1> HIDE DEF n
<1>5. \A S : S \subseteq 1 .. n => Upto(S, n) = Cardinality(S)
  <2>1. \A S : S \subseteq 1 .. n => S \cap (1 .. n) = S
    OBVIOUS
  <2>2. QED  BY <2>1 DEF Upto
<1>6. /\ Eval!Labelled(1) \cap Eval!Flagged \subseteq 1 .. n
      /\ Eval!Labelled(1) \ Eval!Flagged \subseteq 1 .. n
      /\ Eval!Labelled(0) \cap Eval!Flagged \subseteq 1 .. n
      /\ Eval!Labelled(0) \ Eval!Flagged \subseteq 1 .. n
  BY <1>4
<1>7. QED  BY <1>3, <1>4, <1>5, <1>6 DEF Counted, n

(* The evaluation of the flattened matrix agrees with the one of the       *)
(* samples it was made from, for any number of samples and features, and   *)
(* for models with more or fewer weights.                                  *)
THEOREM EvaluationsAgree == Spec => []EvaluatorsAgree
<1>1. FileInv /\ Rowed /\ EvalInv => EvaluatorsAgree
  <2> SUFFICES ASSUME FileInv, Rowed, EvalInv, phase = "done", Eval!P > 0
               PROVE  /\ tp = Cardinality(Eval!Labelled(1) \cap Eval!Flagged)
                      /\ fn = Cardinality(Eval!Labelled(1) \ Eval!Flagged)
                      /\ fp = Cardinality(Eval!Labelled(0) \cap Eval!Flagged)
                      /\ tn = Cardinality(Eval!Labelled(0) \ Eval!Flagged)
                      /\ positives = tp + fn
    BY SameCardinality DEF EvaluatorsAgree, Eval!EvaluatorsAgree
  <2>1. QED  BY AllCounted
<1>2. QED  BY <1>1, EvalInvariant, PTL

(* aucApprox, a sum of ranks, is the share of the pairs of a positive and  *)
(* a negative sample that the scores order rightly, where a tie may go     *)
(* either way, for test sets of any size and however sort.Slice leaves     *)
(* samples of one score.                                                   *)
THEOREM AreaIsAShare == Spec => []AucIsAShareOfPairs
<1>1. FileInv /\ Rowed /\ EvalInv => AucIsAShareOfPairs
  <2>1. CASE phase # "idle"
    BY <2>1 DEF EvalInv
  <2>2. CASE phase = "idle"
    BY <2>2 DEF AucIsAShareOfPairs, Eval!AucIsAShareOfPairs
  <2>3. QED  BY <2>1, <2>2
<1>2. QED  BY <1>1, EvalInvariant, PTL

(* A report counts each prepared sample once, with its label, and of a     *)
(* compressed file all of them up to the limit, whatever became of the     *)
(* disk and of cmd/prepare.                                                *)
THEOREM ReportsTheTable == Spec => []ReportsWhatWasPrepared
<1>1. ASSUME FileInv, Rowed, EvalInv, phase = "done", tp + tn + fp + fn > 0
      PROVE  LET n == tp + tn + fp + fn IN
             /\ tp + fn = Cardinality({i \in 1 .. n : table[i].label = 1})
             /\ n = IF gz THEN IF limit \in 1 .. Len(table) THEN limit ELSE Len(table)
                    ELSE Len(compact)
  <2>1. FromFile /\ (Eval!P = 0 => tp = 0 /\ tn = 0 /\ fp = 0 /\ fn = 0)
    BY <1>1 DEF EvalInv
  <2>2. /\ Eval!P \in Nat /\ Len(samples) = Len(compact) /\ DOMAIN samples = 1 .. Len(samples)
        /\ \A i \in 1 .. Len(samples) : samples[i].label = table[i].label
    BY <1>1, <2>1, Evaluated
  <2>3. Eval!P > 0
    <3>1. Eval!P # 0
      BY <1>1, <2>1
    <3>2. QED  BY <2>2, <3>1
  <2>4. tp + fn = Cardinality(Eval!Labelled(1)) /\ tp + tn + fp + fn = Len(samples)
    BY <1>1, <2>3, AllCounted
  <2>5. Eval!Labelled(1) = {i \in 1 .. Len(samples) : table[i].label = 1}
    BY <2>2 DEF Eval!Labelled
  <2>6. Len(compact) = IF gz THEN IF limit \in 1 .. Len(table) THEN limit ELSE Len(table)
                       ELSE Len(compact)
    BY <1>1, <2>1 DEF Rowed, FromFile
  <2>7. QED  BY <2>2, <2>4, <2>5, <2>6
<1>2. FileInv /\ Rowed /\ EvalInv => ReportsWhatWasPrepared
  BY <1>1 DEF ReportsWhatWasPrepared
<1>3. QED  BY <1>2, EvalInvariant, PTL
=============================================================================
