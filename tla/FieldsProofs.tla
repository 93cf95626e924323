---------------------------- MODULE FieldsProofs ----------------------------
(***************************************************************************)
(* Proofs about the data of actions (ActionData), for every choice of the  *)
(* constants of MCFields: whatever fields are described, under whatever    *)
(* names, however often, and whatever is accessed then.                    *)
(***************************************************************************)
EXTENDS MCFields, SequenceTheorems, WellFoundedInduction, TLAPS

\* The data of actions change only by their own steps.
LEMMA DataAlone == FieldsSpec => Data!Spec
<1>1. FieldsInit => Data!Init
  BY DEF FieldsInit
<1>2. [FieldsNext]_<<which, vars, view, data>> => [Data!Next]_(Data!vars)
  BY DEF FieldsNext, data, Data!vars
<1>. QED
  BY <1>1, <1>2, PTL DEF FieldsSpec, Data!Spec

\* What the constants are, as the proofs use it.
LEMMA DataConstants ==
  /\ Data!Nameless \notin DataNames /\ DataNames \subseteq DOMAIN DataFolded
  /\ DataShapes \subseteq [type : Data!FieldTypes, count : Nat] /\ MaxElement \in Nat
BY DataConstantsOK DEF Data!ActionDataConstantsOK

(***************************************************************************)
(* Arithmetic of fields.                                                   *)
(***************************************************************************)
Sizes == {0, 1, 2, 4, 12}

\* Every type has one of the sizes, and is aligned to a number of bytes.
LEMMA SizesOfTypes ==
  ASSUME NEW type \in Data!FieldTypes
  PROVE  Data!FieldSize[type] \in Sizes /\ Data!Alignment(type) \in {0, 1, 2, 4}
BY DEF Data!FieldTypes, Data!FieldSize, Data!Alignment, Sizes

\* An element is as large as its type says.
LEMMA ElementSize ==
  ASSUME NEW count \in Nat, count > 0, NEW size \in Sizes
  PROVE  (size * count) \div count = size
BY DEF Sizes

\* The elements of a field lie inside the field.
LEMMA ElementInside ==
  ASSUME NEW count \in Nat, NEW element \in 0 .. (count - 1), NEW size \in Sizes
  PROVE  element * size + size <= size * count /\ element * size \in Nat
BY DEF Sizes

\* And one after another.
LEMMA ElementsOrdered ==
  ASSUME NEW count \in Nat, NEW e \in 0 .. (count - 1), NEW f \in 0 .. (count - 1), e < f, NEW size \in Sizes
  PROVE  e * size + size <= f * size
BY DEF Sizes

\* Padding never moves a field back.
LEMMA AlignedUp ==
  ASSUME NEW offset \in Nat, NEW align \in {0, 1, 2, 4}
  PROVE  Data!AlignedOffset(offset, align) \in Nat /\ Data!AlignedOffset(offset, align) >= offset
<1>1. CASE align = 0
  BY <1>1 DEF Data!AlignedOffset
<1>2. CASE align # 0
  <2>1. (-offset) % align \in Nat
    BY <1>2
  <2>. QED
    BY <1>2, <2>1 DEF Data!AlignedOffset
<1>. QED
  BY <1>1, <1>2

(***************************************************************************)
(* Descriptions: the fields follow each other without overlaps, up to the  *)
(* size.                                                                   *)
(***************************************************************************)
Descriptors ==
  [name : DataNames \union {Data!Nameless}, type : Data!FieldTypes, count : Nat, bytes : Nat, offset : Nat]

Described(d) == d.bytes = Data!FieldSize[d.type] * d.count

Laid(ds, size) ==
  /\ ds \in Seq(Descriptors) /\ size \in Nat
  /\ \A i \in 1 .. Len(ds) : Described(ds[i]) /\ ds[i].offset + ds[i].bytes <= size
  /\ \A i, j \in 1 .. Len(ds) : i < j => ds[i].offset + ds[i].bytes <= ds[j].offset

\* Fields that fit fit in more room.
LEMMA LaidInMore ==
  ASSUME NEW ds, NEW size, NEW more \in Nat, Laid(ds, size), size <= more
  PROVE  Laid(ds, more)
<1>1. ds \in Seq(Descriptors) /\ size \in Nat /\ Len(ds) \in Nat /\ \A i \in 1 .. Len(ds) : ds[i] \in Descriptors
  BY LenProperties, ElementOfSeq DEF Laid
<1>2. \A i \in 1 .. Len(ds) : ds[i].offset \in Nat /\ ds[i].bytes \in Nat
  BY <1>1 DEF Descriptors
<1>. QED
  BY <1>1, <1>2 DEF Laid

\* A field is added after the others.
LEMMA LaidAfter ==
  ASSUME NEW ds, NEW size, Laid(ds, size), NEW d \in Descriptors, Described(d), d.offset >= size
  PROVE  Laid(Append(ds, d), d.offset + d.bytes) /\ size <= d.offset + d.bytes
<1> DEFINE es == Append(ds, d)
<1>1. ds \in Seq(Descriptors) /\ size \in Nat /\ Len(ds) \in Nat /\ \A i \in 1 .. Len(ds) : ds[i] \in Descriptors
  BY LenProperties, ElementOfSeq DEF Laid
<1>2. /\ es \in Seq(Descriptors) /\ Len(es) = Len(ds) + 1 /\ es[Len(ds) + 1] = d
      /\ \A i \in 1 .. Len(ds) : es[i] = ds[i]
  BY <1>1, AppendProperties
<1>3. d.offset \in Nat /\ d.bytes \in Nat /\ d.offset + d.bytes \in Nat /\ size <= d.offset + d.bytes
  BY <1>1 DEF Descriptors
<1>4. \A i \in 1 .. Len(ds) : ds[i].offset \in Nat /\ ds[i].bytes \in Nat
  BY <1>1 DEF Descriptors
<1> HIDE DEF es
<1>5. \A i \in 1 .. Len(es) : i = Len(ds) + 1 \/ i \in 1 .. Len(ds)
  BY <1>1, <1>2
<1>6. \A i \in 1 .. Len(es) : Described(es[i]) /\ es[i].offset + es[i].bytes <= d.offset + d.bytes
  <2> SUFFICES ASSUME NEW i \in 1 .. Len(es) PROVE Described(es[i]) /\ es[i].offset + es[i].bytes <= d.offset + d.bytes
    OBVIOUS
  <2>1. CASE i = Len(ds) + 1
    BY <1>2, <1>3, <2>1
  <2>2. CASE i \in 1 .. Len(ds)
    <3>1. es[i] = ds[i] /\ Described(ds[i]) /\ ds[i].offset + ds[i].bytes <= size
      BY <1>2, <2>2 DEF Laid
    <3>. QED
      BY <1>1, <1>3, <1>4, <2>2, <3>1
  <2>. QED
    BY <1>5, <2>1, <2>2
<1>7. ASSUME NEW i \in 1 .. Len(es), NEW j \in 1 .. Len(es), i < j
      PROVE  es[i].offset + es[i].bytes <= es[j].offset
  <2>1. i \in 1 .. Len(ds)
    BY <1>1, <1>2, <1>7
  <2>2. CASE j = Len(ds) + 1
    <3>1. es[i] = ds[i] /\ ds[i].offset + ds[i].bytes <= size
      BY <1>2, <2>1 DEF Laid
    <3>. QED
      BY <1>1, <1>2, <1>3, <1>4, <2>1, <2>2, <3>1
  <2>3. CASE j \in 1 .. Len(ds)
    BY <1>2, <1>7, <2>1, <2>3 DEF Laid
  <2>. QED
    BY <1>5, <2>2, <2>3
<1>8. Laid(es, d.offset + d.bytes)
  BY <1>2, <1>3, <1>6, <1>7 DEF Laid
<1>. QED
  BY <1>3, <1>8 DEF es

Descriptions == [start : {0}, descs : Seq(Descriptors), size : Nat]

\* A field that is defined is laid after those that are.
LEMMA DefinedLaid ==
  ASSUME NEW d \in Descriptions, Laid(d.descs, d.size), NEW name \in DataNames, NEW type \in Data!FieldTypes,
         NEW count \in Nat
  PROVE  LET e == Data!DefineField(d, name, type, count)
         IN e \in Descriptions /\ Laid(e.descs, e.size) /\ d.size <= e.size
<1> DEFINE align == Data!Alignment(type)
           bytes == Data!FieldSize[type] * count
           offset == Data!AlignedOffset(d.start + d.size, align)
           field == Data!Descriptor(name, type, count, bytes, offset)
           e == Data!DefineField(d, name, type, count)
<1>1. d.start = 0 /\ d.descs \in Seq(Descriptors) /\ d.size \in Nat /\ d.start + d.size = d.size
  BY DEF Descriptions
<1>2. bytes \in Nat
  BY SizesOfTypes DEF Sizes
<1>3. offset \in Nat /\ offset >= d.size
  BY <1>1, SizesOfTypes, AlignedUp
<1>4. e = [d EXCEPT !.descs = Append(d.descs, field), !.size = offset + bytes - d.start]
  BY DEF Data!DefineField, Data!Extend
<1> HIDE DEF bytes, offset
<1>5. field \in Descriptors /\ field.offset = offset /\ field.bytes = bytes
  BY <1>2, <1>3 DEF Data!Descriptor, Descriptors
<1>6. Described(field)
  BY DEF Described, Data!Descriptor, bytes
<1> HIDE DEF field
<1>7. Laid(Append(d.descs, field), offset + bytes) /\ d.size <= offset + bytes
  BY <1>3, <1>5, <1>6, LaidAfter
<1>8. e.descs = Append(d.descs, field) /\ e.size = offset + bytes - 0 /\ e.start = 0 /\ DOMAIN e = DOMAIN d
  BY <1>1, <1>4 DEF Descriptions
<1>9. offset + bytes - 0 = offset + bytes
  BY <1>2, <1>3
<1>10. e \in Descriptions
  <2>1. Append(d.descs, field) \in Seq(Descriptors) /\ offset + bytes \in Nat
    BY <1>2, <1>3, <1>7 DEF Laid
  <2>. QED
    BY <1>1, <1>4, <1>9, <2>1 DEF Descriptions
<1>. QED
  BY <1>7, <1>8, <1>9, <1>10

\* The end of a description adds room at most, and a field without bytes when there is none.
LEMMA EndedLaid ==
  ASSUME NEW d \in Descriptions, Laid(d.descs, d.size)
  PROVE  LET e == Data!EndDescription(d)
         IN e \in Descriptions /\ Laid(e.descs, e.size) /\ d.size <= e.size
<1> DEFINE size == Data!AlignedOffset(d.size, Data!PointerSize)
           void == Data!Descriptor(Data!Nameless, "void", 0, 0, 0)
           descs == IF d.descs # <<>> THEN d.descs ELSE <<void>>
           e == Data!EndDescription(d)
<1>1. d.start = 0 /\ d.descs \in Seq(Descriptors) /\ d.size \in Nat
  BY DEF Descriptions
<1>2. size \in Nat /\ d.size <= size
  BY <1>1, AlignedUp DEF Data!PointerSize
<1>3. e = [d EXCEPT !.descs = descs, !.size = size]
  BY DEF Data!EndDescription
<1>4. Laid(descs, size)
  <2>1. CASE d.descs # <<>>
    BY <1>2, <2>1, LaidInMore
  <2>2. CASE d.descs = <<>>
    <3>1. void \in Descriptors /\ Described(void) /\ void.offset = 0 /\ void.bytes = 0
      BY DEF Data!Descriptor, Descriptors, Described, Data!FieldTypes, Data!FieldSize
    <3> HIDE DEF void, size
    <3>2. <<void>> \in Seq(Descriptors) /\ Len(<<void>>) = 1 /\ <<void>>[1] = void
      BY <3>1
    <3>. QED
      BY <1>2, <2>2, <3>1, <3>2 DEF Laid
  <2>. QED
    BY <2>1, <2>2
<1> HIDE DEF size, descs
<1>5. e.descs = descs /\ e.size = size
  BY <1>1, <1>3 DEF Descriptions
<1>6. e \in Descriptions
  BY <1>1, <1>3, <1>4 DEF Descriptions, Laid
<1>. QED
  BY <1>2, <1>4, <1>5, <1>6

(***************************************************************************)
(* Finding a field.                                                        *)
(***************************************************************************)

\* The order of the natural numbers, as a relation.
Less == {p \in Nat \X Nat : p[1] < p[2]}

\* It is well founded.
LEMMA LessWellFounded == IsWellFoundedOn(Less, Nat)
<1>1. OpToRel(<, Nat) = Less
  BY Zenon DEF OpToRel, Less
<1>. QED
  BY <1>1, NatLessThanWellFounded, Zenon

\* A set of natural numbers has a least one.
LEMMA LeastNumber ==
  ASSUME NEW S \in SUBSET Nat, S # {}
  PROVE  \E x \in S : \A y \in S : x <= y
<1>1. PICK x \in S : \A y \in S : ~(<<y, x>> \in Less)
  BY LessWellFounded, WFMin
<1>2. ASSUME NEW y \in S PROVE x <= y
  <2>1. <<y, x>> \in Nat \X Nat /\ ~(<<y, x>>[1] < <<y, x>>[2])
    BY <1>1 DEF Less
  <2>. QED
    BY <2>1
<1>. QED
  BY <1>2

\* What is found in a map is one of its fields, or nothing.
LEMMA FoundInMap ==
  ASSUME NEW m \in Seq(Descriptors), NEW name
  PROVE  Data!Find(<<m>>, name) = {} \/ \E j \in 1 .. Len(m) : Data!Find(<<m>>, name) = {m[j]}
<1> DEFINE hits == {p \in UNION {{k} \X DOMAIN <<m>>[k] : k \in DOMAIN <<m>>} :
                      <<m>>[p[1]][p[2]].name = name /\ name # Data!Nameless}
           Foremost(p) == \A q \in hits : p[1] < q[1] \/ (p[1] = q[1] /\ p[2] <= q[2])
           first == CHOOSE p \in hits : Foremost(p)
           S == {j \in 1 .. Len(m) : <<1, j>> \in hits}
<1>1. Data!Find(<<m>>, name) = IF hits = {} THEN {} ELSE {<<m>>[first[1]][first[2]]}
  BY DEF Data!Find
<1>2. DOMAIN <<m>> = {1} /\ <<m>>[1] = m /\ DOMAIN m = 1 .. Len(m) /\ Len(m) \in Nat
  BY LenProperties
<1>3. \A p \in hits : \E j \in S : p = <<1, j>>
  <2> SUFFICES ASSUME NEW p \in hits PROVE \E j \in S : p = <<1, j>>
    OBVIOUS
  <2>1. PICK k \in DOMAIN <<m>> : p \in {k} \X DOMAIN <<m>>[k]
    OBVIOUS
  <2>2. k = 1 /\ p[1] = 1 /\ p[2] \in 1 .. Len(m) /\ p = <<1, p[2]>>
    BY <1>2, <2>1
  <2>. QED
    BY <2>2
<1> HIDE DEF hits
<1>4. ASSUME hits # {} PROVE \E j \in 1 .. Len(m) : first = <<1, j>>
  <2>1. S \in SUBSET Nat /\ S # {}
    <3>1. S \subseteq 1 .. Len(m)
      OBVIOUS
    <3> HIDE DEF S
    <3>. QED
      BY <1>2, <1>3, <1>4, <3>1
  <2>2. PICK j \in S : \A i \in S : j <= i
    <3> HIDE DEF S
    <3>. QED
      BY <2>1, LeastNumber
  <2>3. <<1, j>> \in hits /\ <<1, j>>[1] = 1 /\ <<1, j>>[2] = j
    BY <2>2
  <2> HIDE DEF S
  <2>4. ASSUME NEW q \in hits PROVE <<1, j>>[1] = q[1] /\ <<1, j>>[2] <= q[2]
    <3>1. PICK i \in S : q = <<1, i>>
      BY <1>3
    <3>. QED
      BY <2>2, <3>1
  <2>5. Foremost(<<1, j>>)
    BY <2>4
  <2> HIDE DEF Foremost
  <2>6. first \in hits
    BY <2>3, <2>5
  <2>. QED
    BY <1>3, <2>6 DEF S
<1> HIDE DEF first
<1>. QED
  BY <1>1, <1>2, <1>4

\* Without a map there is nothing to find.
LEMMA NothingFound == \A name : Data!Find(<<>>, name) = {}
<1> SUFFICES ASSUME NEW name PROVE Data!Find(<<>>, name) = {}
  OBVIOUS
<1>1. DOMAIN <<>> = {}
  OBVIOUS
<1>. QED
  BY <1>1 DEF Data!Find

(***************************************************************************)
(* The bytes of elements.                                                  *)
(***************************************************************************)

\* What ends before another begins has no byte in common with it.
LEMMA RangesApart ==
  ASSUME NEW x \in Nat, NEW n \in Nat, NEW y \in Nat, NEW k \in Nat, x + n <= y \/ y + k <= x
  PROVE  (x .. (x + n - 1)) \cap (y .. (y + k - 1)) = {}
OBVIOUS

\* Bytes stay in order when all are moved.
LEMMA Moved ==
  ASSUME NEW offset \in Nat, NEW p \in Nat, NEW n \in Nat, NEW q \in Nat, p + n <= q
  PROVE  (offset + p) + n <= offset + q
OBVIOUS

\* A range of bytes is no shorter when it may end later.
LEMMA RangeWithin ==
  ASSUME NEW x \in Nat, NEW n \in Nat, NEW y \in Nat, NEW k \in Nat, y <= x, x + n <= y + k
  PROVE  x .. (x + n - 1) \subseteq y .. (y + k - 1)
OBVIOUS

\* An element lies inside its field.
LEMMA ElementWithin ==
  ASSUME NEW d \in Descriptors, Described(d), NEW e \in Int, Data!ElementExists(d, e)
  PROVE  /\ d.count > 0 /\ e \in 0 .. (d.count - 1) /\ d.bytes \div d.count = Data!FieldSize[d.type]
         /\ Data!FieldSize[d.type] \in Sizes
         /\ Data!ElementOffset(d, e) = d.offset + e * Data!FieldSize[d.type]
         /\ Data!ElementOffset(d, e) \in Nat /\ Data!ElementOffset(d, e) >= d.offset
         /\ Data!ElementOffset(d, e) + Data!FieldSize[d.type] <= d.offset + d.bytes
<1> DEFINE n == Data!FieldSize[d.type]
<1>1. d.count \in Nat /\ d.bytes \in Nat /\ d.offset \in Nat /\ d.type \in Data!FieldTypes /\ d.bytes = n * d.count
  BY DEF Descriptors, Described
<1>2. n \in Sizes /\ n \in Nat
  BY <1>1, SizesOfTypes DEF Sizes
<1>3. d.count > 0 /\ e \in 0 .. (d.count - 1)
  BY <1>1 DEF Data!ElementExists
<1> HIDE DEF n
<1>4. d.bytes \div d.count = n
  BY <1>1, <1>2, <1>3, ElementSize
<1>5. Data!ElementOffset(d, e) = d.offset + e * n
  BY <1>4 DEF Data!ElementOffset
<1>6. e * n + n <= n * d.count /\ e * n \in Nat
  BY <1>1, <1>2, <1>3, ElementInside
<1>7. \A x \in Nat : x + n <= d.bytes => d.offset + x \in Nat /\ d.offset + x >= d.offset
                                         /\ (d.offset + x) + n <= d.offset + d.bytes
  BY <1>1, <1>2
<1>8. e * n + n <= d.bytes
  BY <1>1, <1>6
<1>. QED
  BY <1>2, <1>3, <1>4, <1>5, <1>6, <1>7, <1>8 DEF n

\* A native touches bytes of the field that it found.
LEMMA TouchedWithin ==
  ASSUME NEW d \in Descriptors, Described(d), NEW e \in Int, NEW native \in Data!Natives
  PROVE  Data!Touched(native, d, e) \subseteq d.offset .. (d.offset + d.bytes - 1)
<1> SUFFICES ASSUME Data!ElementAllowed(native, d, e), d.type \in DOMAIN Data!Stored[native]
             PROVE  Data!Touched(native, d, e) \subseteq d.offset .. (d.offset + d.bytes - 1)
  BY DEF Data!Touched
<1> DEFINE n == Data!FieldSize[d.type]
           first == Data!ElementOffset(d, e)
           length == Data!StoredLength(native, d)
<1>1. d.offset \in Nat /\ d.bytes \in Nat /\ d.count \in Nat /\ d.bytes = n * d.count
  BY DEF Descriptors, Described
<1>2. Data!ElementExists(d, e)
  BY DEF Data!ElementAllowed
<1>3. /\ first = d.offset + e * n /\ first \in Nat /\ first >= d.offset /\ first + n <= d.offset + d.bytes
      /\ n \in Nat
  BY <1>2, ElementWithin DEF Sizes
<1>4. Data!Touched(native, d, e) = first .. (first + length - 1)
  BY DEF Data!Touched
<1>5. length \in Nat /\ first + length <= d.offset + d.bytes
  <2>1. CASE native = "string" /\ d.type = "character"
    <3>1. e = 0 /\ length = d.count /\ n = 1
      BY <2>1 DEF Data!ElementAllowed, Data!StoredLength, Data!FieldSize
    <3>2. first = d.offset /\ d.bytes = d.count
      BY <1>1, <1>3, <3>1
    <3>. QED
      BY <1>1, <3>1, <3>2
  <2>2. CASE ~(native = "string" /\ d.type = "character")
    <3>1. length = Data!Stored[native][d.type]
      BY <2>2 DEF Data!StoredLength
    <3>2. Data!Stored[native][d.type] \in Nat /\ Data!Stored[native][d.type] <= n
      BY DEF Data!Stored, Data!Natives, Data!FieldSize
    <3> HIDE DEF n, first, length
    <3>. QED
      BY <1>1, <1>3, <3>1, <3>2
  <2>. QED
    BY <2>1, <2>2
<1> HIDE DEF n, first, length
<1>6. first \in Nat /\ d.offset <= first
  BY <1>1, <1>3
<1>7. first .. (first + length - 1) \subseteq d.offset .. (d.offset + d.bytes - 1)
  BY <1>1, <1>5, <1>6, RangeWithin
<1>. QED
  BY <1>4, <1>7

\* Two elements that exist, of fields that are laid out, have no byte in common.
LEMMA ElementsApart ==
  ASSUME NEW m, NEW size, Laid(m, size), NEW i \in 1 .. Len(m), NEW j \in 1 .. Len(m), i <= j,
         NEW e \in Int, NEW f \in Int, Data!ElementExists(m[i], e), Data!ElementExists(m[j], f),
         i = j => e # f
  PROVE  Data!ElementBytes(<<m[i], e>>) \cap Data!ElementBytes(<<m[j], f>>) = {}
<1> DEFINE n == Data!FieldSize[m[i].type]
           k == Data!FieldSize[m[j].type]
           x == Data!ElementOffset(m[i], e)
           y == Data!ElementOffset(m[j], f)
<1>1. m \in Seq(Descriptors) /\ Len(m) \in Nat /\ m[i] \in Descriptors /\ m[j] \in Descriptors
      /\ Described(m[i]) /\ Described(m[j])
  BY LenProperties, ElementOfSeq DEF Laid
<1>2. /\ n \in Sizes /\ x = m[i].offset + e * n /\ x \in Nat /\ x + n <= m[i].offset + m[i].bytes
      /\ e \in 0 .. (m[i].count - 1) /\ m[i].bytes \div m[i].count = n
  BY <1>1, ElementWithin
<1>3. /\ k \in Sizes /\ y = m[j].offset + f * k /\ y \in Nat /\ y >= m[j].offset
      /\ f \in 0 .. (m[j].count - 1) /\ m[j].bytes \div m[j].count = k
  BY <1>1, ElementWithin
<1>4. m[i].offset \in Nat /\ m[i].bytes \in Nat /\ m[i].count \in Nat /\ m[j].offset \in Nat
  BY <1>1 DEF Descriptors
<1>5. Data!ElementBytes(<<m[i], e>>) = x .. (x + n - 1)
  BY <1>2 DEF Data!ElementBytes
<1>6. Data!ElementBytes(<<m[j], f>>) = y .. (y + k - 1)
  BY <1>3 DEF Data!ElementBytes
<1>7. i = j => k = n
  OBVIOUS
<1> HIDE DEF n, k, x, y
<1>8. n \in Nat
  BY <1>2 DEF Sizes
<1>9. k \in Nat
  BY <1>3 DEF Sizes
<1>12. x \in Nat /\ y \in Nat
  BY <1>2, <1>3
<1>10. CASE i < j
  <2>1. m[i].offset + m[i].bytes <= m[j].offset
    BY <1>10 DEF Laid
  <2>2. x \in Nat /\ y \in Nat /\ x + n <= m[i].offset + m[i].bytes /\ m[j].offset <= y
    BY <1>2, <1>3, <1>4
  <2>3. \A o, b, q \in Nat : x + n <= o + b /\ o + b <= q /\ q <= y => x + n <= y
    BY ONLY <1>8, <1>12
  <2>4. x + n <= y
    BY ONLY <1>4, <1>8, <2>1, <2>2, <2>3
  <2>. QED
    BY ONLY <1>5, <1>6, <1>8, <1>9, <2>2, <2>4, RangesApart
<1>11. CASE i = j
  <2>1. /\ e \in 0 .. (m[i].count - 1) /\ f \in 0 .. (m[i].count - 1) /\ k = n
        /\ x = m[i].offset + e * n /\ y = m[i].offset + f * n
    BY <1>2, <1>3, <1>7, <1>11
  <2>2. e * n \in Nat /\ f * n \in Nat
    BY <1>2, <1>4, <2>1, ElementInside
  <2>3. CASE e < f
    <3>1. e * n + n <= f * n
      BY <1>2, <1>4, <2>1, <2>3, ElementsOrdered
    <3>2. x + n <= y
      BY <1>4, <1>8, <2>1, <2>2, <3>1, Moved
    <3>. QED
      BY ONLY <1>5, <1>6, <1>8, <1>9, <1>12, <3>2, RangesApart
  <2>4. CASE f < e
    <3>1. f * n + n <= e * n
      BY <1>2, <1>4, <2>1, <2>4, ElementsOrdered
    <3>2. y + k <= x
      BY <1>4, <1>8, <2>1, <2>2, <3>1, Moved
    <3>. QED
      BY ONLY <1>5, <1>6, <1>8, <1>9, <1>12, <3>2, RangesApart
  <2>. QED
    BY <1>11, <2>3, <2>4
<1>13. i < j \/ i = j
  <2>1. i \in Nat /\ j \in Nat
    BY <1>1
  <2>. QED
    BY <2>1
<1>. QED
  BY <1>10, <1>11, <1>13

(***************************************************************************)
(* The inductive invariant.                                                *)
(***************************************************************************)
DataTyped ==
  /\ dataDesc \in Descriptions /\ Laid(dataDesc.descs, dataDesc.size)
  /\ dataComplete \in BOOLEAN /\ dataBegun \in Nat
  /\ action \in [Actions -> [alive : BOOLEAN, size : Nat, begun : Nat]]
  /\ \A a \in Actions : action[a].begun <= dataBegun

\* Without a map nothing is cached, and no action has data under the present description.
Unmapped ==
  dataMap = <<>> => DOMAIN dataCache = {} /\ \A a \in Actions : action[a].begun = dataBegun => action[a].size = 0

\* The fields of the map fit in the data of every action that has data under the present
\* description, and in those of every action to come.
Mapped ==
  dataMap # <<>> =>
    /\ dataComplete
    /\ \E m \in Seq(Descriptors) :
         /\ dataMap = <<m>> /\ Laid(m, dataDesc.size)
         /\ \A a \in Actions : action[a].begun = dataBegun /\ action[a].size > 0 => Laid(m, action[a].size)

\* What the last native touched is in the action's data.
Inside ==
  \A a \in last.on : a \in Actions /\ (action[a].begun = dataBegun => last.bytes \subseteq 0 .. (action[a].size - 1))

DataInv == DataTyped /\ Unmapped /\ Mapped /\ Inside /\ CacheFresh

\* Nothing is described, cached or made at first.
LEMMA DataInitially == Data!Init => DataInv
<1> SUFFICES ASSUME Data!Init PROVE DataInv
  OBVIOUS
<1>1. /\ dataDesc = [start |-> 0, descs |-> <<>>, size |-> 0] /\ dataComplete = FALSE /\ dataMap = <<>>
      /\ dataCache = Data!NoCache /\ dataBegun = 0
      /\ action = [a \in Actions |-> [alive |-> FALSE, size |-> 0, begun |-> 0]]
      /\ last = [on |-> {}, bytes |-> {}]
  BY DEF Data!Init, Data!EmptyDescription, Data!NoAction, Data!NoAccess
<1>2. <<>> \in Seq(Descriptors) /\ Len(<<>>) = 0
  BY EmptySeq
<1>3. dataDesc \in Descriptions /\ Laid(dataDesc.descs, dataDesc.size)
  BY <1>1, <1>2 DEF Descriptions, Laid
<1>4. DataTyped
  <2>1. dataComplete \in BOOLEAN /\ dataBegun \in Nat
        /\ action \in [Actions -> [alive : BOOLEAN, size : Nat, begun : Nat]]
    BY <1>1
  <2>2. \A a \in Actions : action[a].begun <= dataBegun
    BY <1>1
  <2>. QED
    BY <1>3, <2>1, <2>2 DEF DataTyped
<1>5. DOMAIN dataCache = {}
  BY <1>1 DEF Data!NoCache
<1>. QED
  BY <1>1, <1>4, <1>5 DEF DataInv, Unmapped, Mapped, Inside, CacheFresh, Data!CacheFresh

\* A new description: the map and the cache go, and every action is of an older one.
LEMMA BeginKeeps == DataInv /\ Data!BeginDataMapDesc => DataInv'
<1> SUFFICES ASSUME DataInv, Data!BeginDataMapDesc PROVE DataInv'
  OBVIOUS
<1>1. /\ dataDesc' = [start |-> 0, descs |-> <<>>, size |-> 0] /\ dataComplete' = FALSE /\ dataMap' = <<>>
      /\ dataBegun' = dataBegun + 1 /\ last' = [on |-> {}, bytes |-> {}] /\ action' = action
      /\ dataCache' = IF dataMap = <<>> THEN dataCache ELSE Data!NoCache
  BY DEF Data!BeginDataMapDesc, Data!EmptyDescription, Data!NoAccess, Data!PurgedCache
<1>2. /\ action \in [Actions -> [alive : BOOLEAN, size : Nat, begun : Nat]] /\ dataBegun \in Nat
      /\ \A a \in Actions : action[a].begun <= dataBegun
  BY DEF DataInv, DataTyped
<1>3. \A a \in Actions : action[a].begun <= dataBegun + 1 /\ action[a].begun # dataBegun + 1
  BY <1>2
<1>4. <<>> \in Seq(Descriptors) /\ Len(<<>>) = 0
  BY EmptySeq
<1>5. dataDesc' \in Descriptions /\ Laid(dataDesc'.descs, dataDesc'.size)
  BY <1>1, <1>4 DEF Descriptions, Laid
<1>6. DataTyped'
  <2>1. dataComplete' \in BOOLEAN
    BY <1>1
  <2>2. dataBegun' \in Nat
    BY <1>1, <1>2
  <2>3. action' \in [Actions -> [alive : BOOLEAN, size : Nat, begun : Nat]]
    BY <1>1, <1>2
  <2>4. \A a \in Actions : action'[a].begun <= dataBegun'
    BY <1>1, <1>3
  <2>. QED
    BY <1>5, <2>1, <2>2, <2>3, <2>4 DEF DataTyped
<1>7. DOMAIN dataCache' = {}
  <2>1. dataMap = <<>> => DOMAIN dataCache = {}
    BY DEF DataInv, Unmapped
  <2>2. DOMAIN Data!NoCache = {}
    BY DEF Data!NoCache
  <2>. QED
    BY <1>1, <2>1, <2>2
<1>8. Unmapped' /\ Mapped'
  BY <1>1, <1>3, <1>7 DEF Unmapped, Mapped
<1>9. Inside' /\ CacheFresh'
  BY <1>1, <1>7 DEF Inside, CacheFresh, Data!CacheFresh
<1>. QED
  BY <1>6, <1>8, <1>9 DEF DataInv

\* The description grows; map, cache and actions stay.
LEMMA DescribingKeeps ==
  ASSUME DataInv, NEW e \in Descriptions, Laid(e.descs, e.size), dataDesc.size <= e.size,
         dataDesc' = e, dataComplete' \in BOOLEAN, dataComplete => dataComplete', last' = Data!NoAccess,
         UNCHANGED <<dataMap, dataCache, dataBegun, action>>
  PROVE  DataInv'
<1>1. DataTyped'
  BY DEF DataInv, DataTyped
<1>2. Unmapped'
  BY DEF DataInv, Unmapped
<1>4. Inside'
  BY DEF Inside, Data!NoAccess
<1>5. CacheFresh'
  BY DEF DataInv, CacheFresh, Data!CacheFresh
<1>3. Mapped'
  <2> SUFFICES ASSUME dataMap # <<>> PROVE Mapped'
    BY DEF Mapped
  <2>1. PICK m \in Seq(Descriptors) :
          /\ dataMap = <<m>> /\ Laid(m, dataDesc.size)
          /\ \A a \in Actions : action[a].begun = dataBegun /\ action[a].size > 0 => Laid(m, action[a].size)
    BY DEF DataInv, Mapped
  <2>2. Laid(m, e.size)
    BY <2>1, LaidInMore DEF Descriptions
  <2>. QED
    BY <2>1, <2>2 DEF DataInv, Mapped
<1>. QED
  BY <1>1, <1>2, <1>3, <1>4, <1>5 DEF DataInv

\* A field is defined.
LEMMA DefiningKeeps ==
  ASSUME DataInv, NEW name \in DataNames, NEW shape \in DataShapes, Data!DefineDataField(name, shape)
  PROVE  DataInv'
<1> DEFINE e == Data!DefineField(dataDesc, name, shape.type, Data!Count(shape.count))
<1>1. shape.type \in Data!FieldTypes /\ Data!Count(shape.count) \in Nat
  <2>1. shape \in [type : Data!FieldTypes, count : Nat]
    BY DataConstants
  <2>. QED
    BY <2>1 DEF Data!Count
<1>2. e \in Descriptions /\ Laid(e.descs, e.size) /\ dataDesc.size <= e.size
  BY <1>1, DefinedLaid DEF DataInv, DataTyped
<1>3. dataDesc' = e /\ last' = Data!NoAccess /\ UNCHANGED <<dataComplete, dataMap, dataCache, dataBegun, action>>
  BY DEF Data!DefineDataField
<1>4. dataComplete \in BOOLEAN
  BY DEF DataInv, DataTyped
<1> HIDE DEF e
<1>. QED
  BY <1>2, <1>3, <1>4, DescribingKeeps

\* The description is ended.
LEMMA EndingKeeps == DataInv /\ Data!EndDataMapDesc => DataInv'
<1> SUFFICES ASSUME DataInv, Data!EndDataMapDesc PROVE DataInv'
  OBVIOUS
<1> DEFINE e == Data!EndDescription(dataDesc)
<1>1. e \in Descriptions /\ Laid(e.descs, e.size) /\ dataDesc.size <= e.size
  BY EndedLaid DEF DataInv, DataTyped
<1>2. dataDesc' = e /\ dataComplete' = TRUE /\ last' = Data!NoAccess /\ UNCHANGED <<dataMap, dataCache, dataBegun, action>>
  BY DEF Data!EndDataMapDesc
<1> HIDE DEF e
<1>. QED
  BY <1>1, <1>2, DescribingKeeps

\* An action is made with room for the fields of the map, which is made with it if need be.
LEMMA CreatingKeeps == ASSUME DataInv, NEW a \in Actions, Data!Create(a) PROVE DataInv'
<1>1. /\ dataMap' = IF dataComplete /\ dataMap = <<>> THEN <<dataDesc.descs>> ELSE dataMap
      /\ action' = [action EXCEPT ![a] = [alive |-> TRUE, size |-> Data!DataSize, begun |-> dataBegun]]
      /\ last' = Data!NoAccess /\ UNCHANGED <<dataDesc, dataComplete, dataCache, dataBegun>>
  BY DEF Data!Create
<1>2. /\ dataDesc \in Descriptions /\ Laid(dataDesc.descs, dataDesc.size)
      /\ dataComplete \in BOOLEAN /\ dataBegun \in Nat
      /\ action \in [Actions -> [alive : BOOLEAN, size : Nat, begun : Nat]]
      /\ \A b \in Actions : action[b].begun <= dataBegun
  BY DEF DataInv, DataTyped
<1>3. dataDesc.size \in Nat /\ Data!DataSize = IF dataComplete THEN dataDesc.size ELSE 0
  BY <1>2 DEF Descriptions, Data!DataSize
<1>4. /\ action'[a].size = Data!DataSize /\ action'[a].begun = dataBegun
      /\ \A b \in Actions : b # a => action'[b] = action[b]
  BY <1>1, <1>2
<1>5. DataTyped'
  <2>1. action' \in [Actions -> [alive : BOOLEAN, size : Nat, begun : Nat]]
    BY <1>1, <1>2, <1>3
  <2>2. \A b \in Actions : action'[b].begun <= dataBegun
    BY <1>2, <1>4
  <2>. QED
    BY <1>1, <1>2, <2>1, <2>2 DEF DataTyped
<1>6. CASE dataMap # <<>>
  <2>1. PICK m \in Seq(Descriptors) :
          /\ dataMap = <<m>> /\ Laid(m, dataDesc.size)
          /\ \A b \in Actions : action[b].begun = dataBegun /\ action[b].size > 0 => Laid(m, action[b].size)
    BY <1>6 DEF DataInv, Mapped
  <2>2. dataMap' = dataMap /\ dataComplete
    BY <1>1, <1>6 DEF DataInv, Mapped
  <2>3. \A b \in Actions : action'[b].begun = dataBegun /\ action'[b].size > 0 => Laid(m, action'[b].size)
    BY <1>3, <1>4, <2>1, <2>2
  <2>4. Mapped' /\ Unmapped'
    BY <1>1, <1>6, <2>1, <2>2, <2>3 DEF Mapped, Unmapped
  <2>5. Inside' /\ CacheFresh'
    BY <1>1, <2>2 DEF DataInv, Inside, CacheFresh, Data!CacheFresh, Data!NoAccess
  <2>. QED
    BY <1>5, <2>4, <2>5 DEF DataInv
<1>7. CASE dataMap = <<>>
  <2>1. DOMAIN dataCache = {} /\ \A b \in Actions : action[b].begun = dataBegun => action[b].size = 0
    BY <1>7 DEF DataInv, Unmapped
  <2>2. Inside' /\ CacheFresh'
    BY <1>1, <2>1 DEF Inside, CacheFresh, Data!CacheFresh, Data!NoAccess
  <2>3. \A b \in Actions : action'[b].begun = dataBegun => b = a \/ action'[b].size = 0
    BY <1>4, <2>1
  <2>4. CASE dataComplete
    <3>1. dataMap' = <<dataDesc.descs>> /\ dataDesc.descs \in Seq(Descriptors)
      BY <1>1, <1>2, <1>7, <2>4 DEF Laid
    <3>2. \A b \in Actions : action'[b].begun = dataBegun /\ action'[b].size > 0 => Laid(dataDesc.descs, action'[b].size)
      BY <1>2, <1>3, <1>4, <2>3, <2>4
    <3>3. Mapped' /\ Unmapped'
      BY <1>1, <1>2, <2>4, <3>1, <3>2 DEF Mapped, Unmapped
    <3>. QED
      BY <1>5, <2>2, <3>3 DEF DataInv
  <2>5. CASE ~dataComplete
    <3>1. dataMap' = <<>> /\ \A b \in Actions : action'[b].begun = dataBegun => action'[b].size = 0
      BY <1>1, <1>3, <1>4, <1>7, <2>3, <2>5
    <3>2. Mapped' /\ Unmapped'
      BY <1>1, <2>1, <3>1 DEF Mapped, Unmapped
    <3>. QED
      BY <1>5, <2>2, <3>2 DEF DataInv
  <2>. QED
    BY <1>2, <2>4, <2>5
<1>. QED
  BY <1>6, <1>7

\* An action that dies leaves its data to nobody.
LEMMA DestroyingKeeps == ASSUME DataInv, NEW a \in Actions, Data!Destroy(a) PROVE DataInv'
<1>1. /\ action' = [action EXCEPT ![a] = [alive |-> FALSE, size |-> 0, begun |-> 0]]
      /\ last' = Data!NoAccess /\ UNCHANGED <<dataDesc, dataComplete, dataMap, dataCache, dataBegun>>
  BY DEF Data!Destroy, Data!NoAction
<1>2. /\ dataDesc \in Descriptions /\ Laid(dataDesc.descs, dataDesc.size)
      /\ dataComplete \in BOOLEAN /\ dataBegun \in Nat
      /\ action \in [Actions -> [alive : BOOLEAN, size : Nat, begun : Nat]]
      /\ \A b \in Actions : action[b].begun <= dataBegun
  BY DEF DataInv, DataTyped
<1>3. /\ action'[a].size = 0 /\ action'[a].begun = 0
      /\ \A b \in Actions : b # a => action'[b] = action[b]
  BY <1>1, <1>2
<1>4. DataTyped'
  <2>1. action' \in [Actions -> [alive : BOOLEAN, size : Nat, begun : Nat]]
    BY <1>1, <1>2
  <2>2. \A b \in Actions : action'[b].begun <= dataBegun
    BY <1>2, <1>3
  <2>. QED
    BY <1>1, <1>2, <2>1, <2>2 DEF DataTyped
<1>5. Unmapped'
  BY <1>1, <1>3 DEF DataInv, Unmapped
<1>6. Mapped'
  <2> SUFFICES ASSUME dataMap # <<>> PROVE Mapped'
    BY <1>1 DEF Mapped
  <2>1. PICK m \in Seq(Descriptors) :
          /\ dataMap = <<m>> /\ Laid(m, dataDesc.size)
          /\ \A b \in Actions : action[b].begun = dataBegun /\ action[b].size > 0 => Laid(m, action[b].size)
    BY DEF DataInv, Mapped
  <2>2. \A b \in Actions : action'[b].begun = dataBegun /\ action'[b].size > 0 => Laid(m, action'[b].size)
    BY <1>3, <2>1
  <2>. QED
    BY <1>1, <2>1, <2>2 DEF DataInv, Mapped
<1>7. Inside' /\ CacheFresh'
  BY <1>1 DEF DataInv, Inside, CacheFresh, Data!CacheFresh, Data!NoAccess
<1>. QED
  BY <1>4, <1>5, <1>6, <1>7 DEF DataInv

\* A name that is looked up finds a field of the map or nothing, and is cached with it.
LEMMA LookedUp ==
  ASSUME DataInv, dataMap # <<>>, NEW name \in DataNames, dataCache' = Data!Remembered(name), dataMap' = dataMap
  PROVE  /\ CacheFresh'
         /\ \A m : dataMap = <<m>> => \A d \in Data!Lookup(name) : \E j \in 1 .. Len(m) : d = m[j]
<1> DEFINE key == DataFolded[name]
           found == Data!Lookup(name)
<1>1. PICK m \in Seq(Descriptors) : dataMap = <<m>>
  BY DEF DataInv, Mapped
<1>2. \A k \in DOMAIN dataCache : \E n \in DataNames : DataFolded[n] = k /\ Data!Find(dataMap, n) = {dataCache[k]}
  BY DEF DataInv, CacheFresh, Data!CacheFresh
<1>3. found # {} => \E n \in DataNames : DataFolded[n] = key /\ Data!Find(dataMap, n) = found
  <2>1. CASE key \in DOMAIN dataCache
    <3>1. found = {dataCache[key]}
      BY <2>1 DEF Data!Lookup
    <3>. QED
      BY <1>2, <2>1, <3>1
  <2>2. CASE key \notin DOMAIN dataCache
    <3>1. found = Data!Find(dataMap, name)
      BY <2>2 DEF Data!Lookup
    <3>. QED
      BY <3>1
  <2>. QED
    BY <2>1, <2>2
<1>4. found = {} \/ \E j \in 1 .. Len(m) : found = {m[j]}
  <2> SUFFICES ASSUME found # {} PROVE \E j \in 1 .. Len(m) : found = {m[j]}
    OBVIOUS
  <2>1. PICK n \in DataNames : Data!Find(dataMap, n) = found
    BY <1>3
  <2>. QED
    BY <1>1, <2>1, FoundInMap
<1>5. dataCache' = IF found = {} THEN dataCache
                   ELSE [k \in DOMAIN dataCache \cup {key} |-> IF k = key THEN CHOOSE d \in found : TRUE ELSE dataCache[k]]
  BY DEF Data!Remembered
<1> HIDE DEF key, found
<1>6. ASSUME found = {} PROVE CacheFresh'
  <2>1. dataCache' = dataCache
    BY <1>5, <1>6
  <2>. QED
    BY <2>1 DEF DataInv, CacheFresh, Data!CacheFresh
<1>7. ASSUME found # {} PROVE CacheFresh'
  <2>1. PICK d : found = {d}
    BY <1>4, <1>7
  <2>2. DOMAIN dataCache' = DOMAIN dataCache \cup {key} /\ dataCache'[key] = d
        /\ \A k \in DOMAIN dataCache : k # key => dataCache'[k] = dataCache[k]
    <3>1. (CHOOSE x \in found : TRUE) = d
      BY <2>1
    <3>. QED
      BY <1>5, <1>7, <3>1
  <2>3. \E n \in DataNames : DataFolded[n] = key /\ Data!Find(dataMap, n) = {dataCache'[key]}
    BY <1>3, <1>7, <2>1, <2>2
  <2>4. \A k \in DOMAIN dataCache' : \E n \in DataNames : DataFolded[n] = k /\ Data!Find(dataMap, n) = {dataCache'[k]}
    BY <1>2, <2>2, <2>3
  <2>5. \A k \in DOMAIN dataCache' : \E n \in DataNames : DataFolded[n] = k /\ Data!Find(dataMap', n) = {dataCache'[k]}
    BY <2>4
  <2>. QED
    BY <2>5 DEF CacheFresh, Data!CacheFresh
<1>8. CacheFresh'
  BY <1>6, <1>7
<1>9. \A n : dataMap = <<n>> => n = m
  BY <1>1
<1>. QED
  BY <1>4, <1>8, <1>9 DEF found

\* A native looks a field up and touches its bytes, in data with room for it.
LEMMA AccessKeeps ==
  ASSUME DataInv, NEW native \in Data!Natives, NEW a \in Actions, NEW name \in DataNames, NEW e \in Int,
         Data!AccessData(native, a, name, e)
  PROVE  DataInv'
<1>1. /\ action[a].size > 0 /\ dataMap # <<>> /\ dataCache' = Data!Remembered(name)
      /\ last' = [on |-> {a}, bytes |-> UNION {Data!Touched(native, d, e) : d \in Data!Lookup(name)}]
      /\ UNCHANGED <<dataDesc, dataComplete, dataMap, dataBegun, action>>
  BY DEF Data!AccessData
<1>2. DataTyped' /\ Mapped'
  BY <1>1 DEF DataInv, DataTyped, Mapped
<1>3. Unmapped'
  BY <1>1 DEF Unmapped
<1>4. CacheFresh'
  BY <1>1, LookedUp
<1>5. Inside'
  <2> SUFFICES ASSUME action[a].begun = dataBegun PROVE last'.bytes \subseteq 0 .. (action[a].size - 1)
    BY <1>1 DEF Inside
  <2>1. PICK m \in Seq(Descriptors) : dataMap = <<m>> /\ Laid(m, action[a].size)
    BY <1>1 DEF DataInv, Mapped
  <2>2. \A d \in Data!Lookup(name) : \E j \in 1 .. Len(m) : d = m[j]
    BY <1>1, <2>1, LookedUp
  <2>3. \A j \in 1 .. Len(m) : m[j] \in Descriptors /\ Described(m[j]) /\ m[j].offset + m[j].bytes <= action[a].size
    BY <2>1, ElementOfSeq DEF Laid
  <2>4. ASSUME NEW j \in 1 .. Len(m) PROVE Data!Touched(native, m[j], e) \subseteq 0 .. (action[a].size - 1)
    <3>1. Data!Touched(native, m[j], e) \subseteq m[j].offset .. (m[j].offset + m[j].bytes - 1)
      BY <2>3, TouchedWithin
    <3>2. m[j].offset \in Nat /\ m[j].bytes \in Nat /\ action[a].size \in Nat
      BY <2>1, <2>3 DEF Descriptors, Laid
    <3>3. m[j].offset .. (m[j].offset + m[j].bytes - 1) \subseteq 0 .. (0 + action[a].size - 1)
      BY <2>3, <3>2, RangeWithin
    <3>. QED
      BY <3>1, <3>2, <3>3
  <2>5. last'.bytes = UNION {Data!Touched(native, d, e) : d \in Data!Lookup(name)}
    BY <1>1
  <2>. QED
    BY <2>2, <2>4, <2>5
<1>. QED
  BY <1>2, <1>3, <1>4, <1>5 DEF DataInv

\* A name is looked up, and nothing is touched.
LEMMA HasKeeps == ASSUME DataInv, NEW a \in Actions, NEW name \in DataNames, Data!HasData(a, name) PROVE DataInv'
<1>1. /\ dataMap # <<>> /\ dataCache' = Data!Remembered(name) /\ last' = Data!NoAccess
      /\ UNCHANGED <<dataDesc, dataComplete, dataMap, dataBegun, action>>
  BY DEF Data!HasData
<1>2. DataTyped' /\ Mapped'
  BY <1>1 DEF DataInv, DataTyped, Mapped
<1>3. Unmapped' /\ Inside'
  BY <1>1 DEF Unmapped, Inside, Data!NoAccess
<1>4. CacheFresh'
  BY <1>1, LookedUp
<1>. QED
  BY <1>2, <1>3, <1>4 DEF DataInv

\* Every native, and every action that is made or dies, keeps the invariant.
LEMMA DataStays == DataInv /\ [Data!Next]_(Data!vars) => DataInv'
<1> SUFFICES ASSUME DataInv, [Data!Next]_(Data!vars) PROVE DataInv'
  OBVIOUS
<1>1. CASE UNCHANGED Data!vars
  BY <1>1 DEF Data!vars, DataInv, DataTyped, Unmapped, Mapped, Inside, CacheFresh, Data!CacheFresh
<1>2. CASE Data!BeginDataMapDesc \/ Data!EndDataMapDesc
  BY <1>2, BeginKeeps, EndingKeeps
<1>3. ASSUME NEW name \in DataNames, NEW shape \in DataShapes, Data!DefineDataField(name, shape) PROVE DataInv'
  BY <1>3, DefiningKeeps
<1>4. ASSUME NEW a \in Actions, Data!Create(a) \/ Data!Destroy(a) PROVE DataInv'
  BY <1>4, CreatingKeeps, DestroyingKeeps
<1>5. ASSUME NEW a \in Actions, NEW name \in DataNames, Data!HasData(a, name) PROVE DataInv'
  BY <1>5, HasKeeps
<1>6. ASSUME NEW native \in Data!Natives, NEW a \in Actions, NEW name \in DataNames, NEW e \in -1 .. MaxElement,
             Data!AccessData(native, a, name, e)
      PROVE  DataInv'
  <2>1. e \in Int
    BY DataConstants
  <2>. QED
    BY <1>6, <2>1, AccessKeeps
<1>. QED
  BY <1>1, <1>2, <1>3, <1>4, <1>5, <1>6 DEF Data!Next

\* The elements of the map's fields, when they are laid out, have no byte in common.
LEMMA PlacesApart == DataInv => DataApart
<1> SUFFICES ASSUME DataInv PROVE DataApart
  OBVIOUS
<1>1. \A a \in last.on : action[a].begun = dataBegun => last.bytes \subseteq 0 .. (action[a].size - 1)
  BY DEF DataInv, Inside
<1>2. ASSUME NEW p \in Data!Places(dataMap), NEW q \in Data!Places(dataMap), p # q
      PROVE  Data!ElementBytes(p) \cap Data!ElementBytes(q) = {}
  <2>1. /\ p \in Data!FieldsOf(dataMap) \X (0 .. MaxElement) /\ Data!ElementExists(p[1], p[2])
        /\ q \in Data!FieldsOf(dataMap) \X (0 .. MaxElement) /\ Data!ElementExists(q[1], q[2])
    BY <1>2 DEF Data!Places
  <2>2. dataMap # <<>>
    <3> SUFFICES ASSUME dataMap = <<>> PROVE FALSE
      OBVIOUS
    <3>1. Data!FieldsOf(<<>>) = {}
      <4>1. DOMAIN <<>> = {}
        OBVIOUS
      <4>. QED
        BY <4>1 DEF Data!FieldsOf
    <3>. QED
      BY <2>1, <3>1
  <2>3. PICK m \in Seq(Descriptors) : dataMap = <<m>> /\ Laid(m, dataDesc.size)
    BY <2>2 DEF DataInv, Mapped
  <2>4. Len(m) \in Nat /\ DOMAIN m = 1 .. Len(m)
    BY LenProperties
  <2>5. Data!FieldsOf(<<m>>) = {m[j] : j \in 1 .. Len(m)}
    <3>1. DOMAIN <<m>> = {1} /\ <<m>>[1] = m
      OBVIOUS
    <3>. QED
      BY <2>4, <3>1 DEF Data!FieldsOf, Data!ToSet
  <2>6. PICK i \in 1 .. Len(m), e \in 0 .. MaxElement : p = <<m[i], e>>
    BY <2>1, <2>3, <2>5
  <2>7. PICK j \in 1 .. Len(m), f \in 0 .. MaxElement : q = <<m[j], f>>
    BY <2>1, <2>3, <2>5
  <2>8. Data!ElementExists(m[i], e) /\ Data!ElementExists(m[j], f) /\ (i = j => e # f) /\ e \in Int /\ f \in Int
    BY <1>2, <2>1, <2>6, <2>7, DataConstants
  <2>9. CASE i <= j
    BY <2>3, <2>6, <2>7, <2>8, <2>9, ElementsApart
  <2>10. CASE j <= i
    <3>1. Data!ElementBytes(q) \cap Data!ElementBytes(p) = {}
      BY <2>3, <2>6, <2>7, <2>8, <2>10, ElementsApart
    <3>. QED
      BY <3>1
  <2>11. i <= j \/ j <= i
    BY <2>4
  <2>. QED
    BY <2>9, <2>10, <2>11
<1>. QED
  BY <1>1, <1>2 DEF DataApart, Data!DataApart

\* Whatever fields a plugin describes, and however often it describes them again, the natives
\* on an action of the present description touch its own data only, and no two fields or
\* elements share a byte.
THEOREM DataStayApart == FieldsSpec => []DataApart
BY DataInitially, DataStays, PlacesApart, DataAlone, PTL DEF Data!Spec

\* Under whatever names fields are looked up, no cached descriptor outlives its data map.
THEOREM CacheStaysFresh == FieldsSpec => []CacheFresh
<1>1. DataInv => CacheFresh
  BY DEF DataInv
<1>. QED
  BY <1>1, DataInitially, DataStays, DataAlone, PTL DEF Data!Spec

=============================================================================
