------------------------------ MODULE DataLayout ------------------------------
(***************************************************************************)
(* Where described fields lie in memory: the type descriptors that         *)
(* IDataMapContainer (idatamapcontainer.cpp) hands out, how a field is     *)
(* found in a chain of data maps (shared/datamaplookup.h), and how values  *)
(* are stored in bytes.  Entities, actions and the copies that clients     *)
(* keep of entities all use it.                                            *)
(***************************************************************************)
EXTENDS Integers, Sequences, SequencesExt, FiniteSets

CONSTANT ByteBits   \* the bits of a byte: 8, fewer for model checking

ASSUME ByteBitsOK == ByteBits \in 1 .. 8

Radix == 2 ^ ByteBits
PointerSize == 4
OutputSize == 24     \* sizeof(CBaseEntityOutput)

\* g_DataMapDescFieldSizes, for the types that the natives can define.
FieldSize ==
  [integer |-> 4, float |-> 4, time |-> 4, color32 |-> 4, ehandle |-> 4, string |-> 4, modelindex |-> 4,
   short |-> 2, character |-> 1, boolean |-> 1, vector |-> 12, void |-> 0]
FieldTypes == DOMAIN FieldSize

\* A vector is aligned like its components, everything else to its size.
Alignment(type) == IF type = "vector" THEN 4 ELSE FieldSize[type]

\* GetAlignedOffset: ~(offset - 1) & (align - 1) is -offset modulo a power of two.
AlignedOffset(offset, align) == IF align = 0 THEN offset ELSE offset + ((-offset) % align)

(***************************************************************************)
(* A description: where its fields start in the object, the descriptors    *)
(* and their size so far.                                                  *)
(***************************************************************************)
EmptyDescription(start) == [start |-> start, descs |-> <<>>, size |-> 0]

Descriptor(name, type, count, bytes, offset) ==
  [name |-> name, type |-> type, count |-> count, bytes |-> bytes, offset |-> offset]

\* Mutant: The padding before a field does not count in the size.
ExtendUnpadded(d, align, room, name, type, count, bytes) ==
  [d EXCEPT !.descs = Append(@, Descriptor(name, type, count, bytes, AlignedOffset(d.start + d.size, align))),
            !.size = @ + room]

\* Room for so many bytes more; the descriptor keeps fieldSizeInBytes, which is 0 for an output.
Extend(d, align, room, name, type, count, bytes) ==
  LET offset == AlignedOffset(d.start + d.size, align) IN
  [d EXCEPT !.descs = Append(@, Descriptor(name, type, count, bytes, offset)),
            !.size = offset + room - d.start]

DefineField(d, name, type, count) ==
  LET bytes == FieldSize[type] * count IN Extend(d, Alignment(type), bytes, name, type, count, bytes)

DefineOutput(d, name) == Extend(d, PointerSize, OutputSize, name, "output", 1, 0)

\* An input takes no room: its descriptor names a function.
DefineInputFunc(d, name) ==
  [d EXCEPT !.descs = Append(@, Descriptor(name, "void", 1, 0, 0))]

Nameless == ""
EndDescription(d) ==
  [d EXCEPT !.descs = IF @ # <<>> THEN @
                      ELSE <<Descriptor(Nameless, "void", 0, 0, 0)>>,
            !.size = AlignedOffset(@, PointerSize)]

\* CBaseNPCDataMapLookup::Find in a chain of maps, the most derived one first: the
\* set of the descriptor found, or the empty set.
Find(maps, name) ==
  LET hits == { p \in UNION { {m} \X DOMAIN maps[m] : m \in DOMAIN maps } :
                  maps[p[1]][p[2]].name = name /\ name # Nameless }
      first == CHOOSE p \in hits : \A q \in hits : p[1] < q[1] \/ (p[1] = q[1] /\ p[2] <= q[2])
  IN IF hits = {} THEN {} ELSE {maps[first[1]][first[2]]}

\* Mutant: One element too many.
ElementUpToCount(desc, element) == desc.count > 0 /\ element \in 0 .. desc.count
\* GetDataOffset, and the check of the element before it.
ElementExists(desc, element) == element \in 0 .. desc.count - 1
ElementOffset(desc, element) == desc.offset + element * (desc.bytes \div desc.count)

(***************************************************************************)
(* Memory: a function from addresses to bytes, little-endian.  A number has *)
(* at most four bytes.                                                      *)
(***************************************************************************)
ToBytes(value, n) == [i \in 1 .. n |-> (value \div Radix ^ (i - 1)) % Radix]
Unsigned(bytes) ==
  LET Weighed(i) == IF i \in DOMAIN bytes THEN bytes[i] * Radix ^ (i - 1) ELSE 0 IN
  Weighed(1) + Weighed(2) + Weighed(3) + Weighed(4)
Signed(bytes) ==
  LET u == Unsigned(bytes) IN IF 2 * u >= Radix ^ Len(bytes) THEN u - Radix ^ Len(bytes) ELSE u

\* Of the bytes next to the object only this is known: what is written there is lost to it.
Peek(memory, address, n) ==
  [i \in 1 .. n |-> IF address + i - 1 \in DOMAIN memory THEN memory[address + i - 1] ELSE 0]
Poke(memory, address, bytes) ==
  [a \in DOMAIN memory |-> IF a \in address .. address + Len(bytes) - 1 THEN bytes[a - address + 1]
                           ELSE memory[a]]
===============================================================================
