----------------------------- MODULE NetworkFields -----------------------------
(***************************************************************************)
(* The fields that plugins add to a network entity, from their definition  *)
(* to the values that natives see, in bytes: the descriptions of an entity *)
(* factory and of one derived from it (pluginentityfactory.cpp,            *)
(* natives/entityfactory.cpp), the send and receive tables made of them    *)
(* (sourcesdk/cbasenpcsendtable.cpp, cbasenpcrecvtable.cpp), the proxies   *)
(* that read and write the two memories, and the natives that reach the    *)
(* client's by name (client/cliententityproperties.cpp).                   *)
(*                                                                         *)
(* The server's memory and the client's are laid out separately.  Both     *)
(* factories declare a network class, and one entity of the derived one    *)
(* exists once the schema is final (NetworkSchema has the classes and their *)
(* publication, ClientEntities the life of the client's memory).           *)
(***************************************************************************)
EXTENDS DataLayout

CONSTANTS
  Names,       \* field names that plugins use
  Shapes,      \* the definitions they make: [kind, count, send, bits, unsigned, length]
  Values,      \* kind -> what they assign to fields of it
  Pool,        \* the game's string pool: a string_t is a position in it, or 0
  StockSize,   \* the size of the entity that the base factory extends
  MaxFields, MaxBegins, MaxSteps,  \* bounds: fields, descriptions begun, accesses to the entity
  MaxElement,  \* and the elements that are named: one past the longest array
  ModelBits, EntryBits, EdictBits, SerialBits, Circle   \* as in FieldStore

Levels == {"base", "derived"}
WordBits == ByteBits * 4
Kinds == [Int |-> "integer", Short |-> "short", Char |-> "character", Bool |-> "boolean", Float |-> "float",
          Angle |-> "float", Time |-> "time", Vector |-> "vector", VectorXY |-> "vector", QAngle |-> "vector",
          StringT |-> "string", Color32 |-> "color32", EHandle |-> "ehandle", ModelIndex |-> "modelindex"]

ASSUME NetworkFieldsConstantsOK ==
  /\ Nameless \notin Names /\ \A s \in Shapes : s.kind \in DOMAIN Kinds
  /\ EdictBits <= EntryBits /\ StockSize > 0

VARIABLES
  desc,      \* level -> m_vecEntityDataTypeDescriptors, m_DataMapDescSizeInBytes, m_iDataMapStartOffset
  defining,  \* level -> m_bDefiningDataDesc
  complete,  \* level -> m_bHasDataMapDesc
  sent,      \* level -> m_SendFields: [index, kind, bits, unsigned, length]
  begun,     \* how many descriptions have been begun
  phase,     \* "open", "final" or "failed"
  sends,     \* the SendTable, base class first: [name, kind, offset, count, stride, bits, unsigned]
  recvs,     \* the RecvTable, base class first: CBaseNPCRecvField with its name
  memory,    \* the bytes of the entity after the stock ones
  sidecar,   \* the bytes of the client's copy
  steps,
  view       \* what natives would read, of every field: the refinement mapping
vars == <<desc, defining, complete, sent, begun, phase, sends, recvs, memory, sidecar, steps>>
layout == <<desc, defining, complete, sent, begun, phase, sends, recvs>>
entity == <<sends, recvs, memory, sidecar, steps>>

NoBytes == [a \in {} |-> 0]
-----------------------------------------------------------------------------
(***************************************************************************)
(* Descriptions                                                            *)
(***************************************************************************)
DataDescSize(l) == IF complete[l] THEN desc[l].size ELSE 0
BaseEntitySize(l) == IF l = "base" THEN StockSize ELSE StockSize + DataDescSize("base")
EntitySize(l) == BaseEntitySize(l) + DataDescSize(l)
FieldCount == Len(desc["base"].descs) + Len(desc["derived"].descs)

\* The start of the fields is the size that the base factory has now.
BeginDataMapDesc(l) ==
  /\ phase = "open" /\ begun < MaxBegins
  /\ desc' = [desc EXCEPT ![l] = EmptyDescription(BaseEntitySize(l))]
  /\ defining' = [defining EXCEPT ![l] = TRUE]
  /\ complete' = [complete EXCEPT ![l] = FALSE]
  /\ sent' = [sent EXCEPT ![l] = <<>>]
  /\ begun' = begun + 1 /\ UNCHANGED <<entity, phase>>

\* CBaseNPC_ValidateSendFieldOptions, for the options that the model has.
OptionsValid(s) ==
  /\ s.unsigned => s.kind \in {"Int", "Short", "Char"}
  /\ s.kind \in {"Int", "Short", "Char"} => s.bits \in -1 .. WordBits
  /\ s.kind = "StringT" => s.length >= 1

\* Only network fields need a description that was begun.
DefineFieldNative(l, name, s) ==
  /\ phase = "open" /\ FieldCount < MaxFields
  /\ s.send => defining[l] /\ OptionsValid(s)
  /\ desc' = [desc EXCEPT ![l] = DefineField(@, name, Kinds[s.kind], s.count)]
  /\ sent' = IF ~s.send THEN sent
             ELSE [sent EXCEPT ![l] = Append(@, [index |-> Len(desc[l].descs) + 1, kind |-> s.kind, bits |-> s.bits,
                                                 unsigned |-> s.unsigned, length |-> s.length])]
  /\ UNCHANGED <<entity, defining, complete, begun, phase>>

\* An output has room of its own, an input only a descriptor.
DefineOther(l, extended) ==
  /\ phase = "open" /\ FieldCount < MaxFields
  /\ desc' = [desc EXCEPT ![l] = extended]
  /\ UNCHANGED <<entity, defining, complete, sent, begun, phase>>
DefineOutputNative(l) == DefineOther(l, DefineOutput(desc[l], "m_OnUse"))
DefineInputFuncNative(l) == DefineOther(l, DefineInputFunc(desc[l], "InputUse"))

EndDataMapDesc(l) ==
  /\ phase = "open"
  /\ desc' = [desc EXCEPT ![l] = EndDescription(@)]
  /\ defining' = [defining EXCEPT ![l] = FALSE]
  /\ complete' = [complete EXCEPT ![l] = TRUE]
  /\ UNCHANGED <<entity, sent, begun, phase>>
-----------------------------------------------------------------------------
(***************************************************************************)
(* The two tables                                                          *)
(***************************************************************************)
Integral == {"Int", "Short", "Char", "Bool", "Color32", "ModelIndex", "EHandle"}
Floats == {"Float", "Time", "Angle"}

\* MakeScalar: the bits on the wire.
WireBits(f, size) ==
  CASE f.kind = "Bool" -> 1
    [] f.kind = "Color32" -> WordBits
    [] f.kind = "ModelIndex" -> ModelBits
    [] f.kind = "EHandle" -> EdictBits + SerialBits
    [] f.kind \notin Integral -> WordBits
    [] OTHER -> IF f.bits <= 0 THEN size * ByteBits ELSE f.bits
SendUnsigned(f) == f.unsigned \/ f.kind \in {"Bool", "Color32", "EHandle"}

\* CBaseNPCSendTable::BuildField
SendField(l, f) ==
  LET td == desc[l].descs[f.index]
      size == td.bytes \div td.count
  IN [name |-> td.name, kind |-> f.kind, type |-> td.type, offset |-> td.offset, count |-> td.count, stride |-> size,
      bits |-> WireBits(f, size), unsigned |-> SendUnsigned(f)]
SendTableOf(l) == [i \in DOMAIN sent[l] |-> SendField(l, sent[l][i])]

\* CBaseNPCRecvTable::BuildField gives the field a place of its own after those so far.
RecvSize(f) ==
  CASE f.kind = "Short" -> 2 [] f.kind \in {"Char", "Bool"} -> 1 [] f.kind \in {"Vector", "QAngle"} -> 12
    [] f.kind = "VectorXY" -> 8 [] f.kind = "StringT" -> f.length [] OTHER -> 4
RecvAlignment(f) == IF f.kind = "Short" THEN 2 ELSE IF f.kind \in {"Char", "Bool", "StringT"} THEN 1 ELSE 4

EndOf(table) == IF table = <<>> THEN 0 ELSE Last(table).offset + Last(table).size * Last(table).count
RecvField(l, f, end) ==
  LET td == desc[l].descs[f.index] IN
  [name |-> td.name, kind |-> f.kind, offset |-> AlignedOffset(end, RecvAlignment(f)), size |-> RecvSize(f),
   count |-> td.count, unsigned |-> f.unsigned \/ f.kind \in {"Bool", "Color32"}]
\* The fields of a class follow those of its base class: inheritedSize.
RecvTableAfter(table, l) ==
  FoldLeft(LAMBDA made, f : Append(made, RecvField(l, f, EndOf(made))), table, sent[l])
-----------------------------------------------------------------------------
(***************************************************************************)
(* Finalization, and the entity                                            *)
(***************************************************************************)
SentNames(l) == { desc[l].descs[sent[l][i].index].name : i \in DOMAIN sent[l] }

\* What the finalization asks of a factory, of its description and of its field names.
LayoutAccepted(l) ==
  /\ ~defining[l] /\ (sent[l] # <<>> => complete[l])
  /\ complete[l] => desc[l].start = BaseEntitySize(l)
NamesAccepted ==
  /\ \A l \in Levels : Cardinality(SentNames(l)) = Len(sent[l])
  /\ SentNames("base") \cap SentNames("derived") = {}

\* CreateUserEntityData, over memory that the game has cleared; the sidecar is cleared
\* too, and InitializeStorage invalidates its handles.
AllOnes == Radix - 1
Fresh(size, start, table) ==
  [a \in start .. size - 1 |->
     IF \E i \in DOMAIN table : /\ table[i].kind = "EHandle"
                                /\ a \in table[i].offset .. table[i].offset + 4 * table[i].count - 1
     THEN AllOnes ELSE 0]

Finalize ==
  LET sendTable == SendTableOf("base") \o SendTableOf("derived")
      recvTable == RecvTableAfter(RecvTableAfter(<<>>, "base"), "derived")
  IN
  /\ phase = "open"
  /\ \A l \in Levels : LayoutAccepted(l)
  /\ NamesAccepted
  /\ phase' = "final" /\ sends' = sendTable /\ recvs' = recvTable
  /\ memory' = Fresh(EntitySize("derived"), StockSize, sendTable)
  /\ sidecar' = Fresh(EndOf(recvTable), 0, recvTable)
  /\ UNCHANGED <<desc, defining, complete, sent, begun, steps>>

FinalizeRefused ==
  /\ phase = "open"
  /\ ~((\A l \in Levels : LayoutAccepted(l)) /\ NamesAccepted)
  /\ phase' = "failed" /\ UNCHANGED <<desc, defining, complete, sent, begun, entity>>
-----------------------------------------------------------------------------
(***************************************************************************)
(* Values in memory                                                        *)
(***************************************************************************)
HandleWord(v) == v.entry + v.serial * 2 ^ EntryBits
Handle(word) == [entry |-> word % 2 ^ EntryBits, serial |-> word \div 2 ^ EntryBits]
InvalidHandle == Handle(2 ^ WordBits - 1)
String(word) == IF word = 0 THEN <<>> ELSE Pool[word]
Words(v, n) == [i \in 1 .. 4 * n |-> ToBytes(v[(i + 3) \div 4], 4)[((i - 1) % 4) + 1]]
WordsAt(m, address, n) == [i \in 1 .. n |-> Unsigned(Peek(m, address + 4 * (i - 1), 4))]

\* The server's natives, which are SourceMod's and find a field through the data maps.
MapOf(l) == IF complete[l] THEN desc[l].descs ELSE <<>>
Maps == <<MapOf("derived"), MapOf("base")>>
ServerBytes(td, v) ==
  CASE td.type = "vector" -> Words(v, 3)
    [] td.type = "string" -> ToBytes(IF v = <<>> THEN 0 ELSE CHOOSE i \in DOMAIN Pool : Pool[i] = v, 4)
    [] td.type = "ehandle" -> ToBytes(HandleWord(v), 4)
    [] td.type = "boolean" -> <<IF v = 0 THEN 0 ELSE 1>>
    [] OTHER -> ToBytes(v, FieldSize[td.type])
ServerValue(m, td, element) ==
  LET at == ElementOffset(td, element) IN
  CASE td.type = "vector" -> WordsAt(m, at, 3)
    [] td.type = "string" -> String(Unsigned(Peek(m, at, 4)))
    [] td.type = "ehandle" -> Handle(Unsigned(Peek(m, at, 4)))
    [] td.type \in {"float", "time"} -> Unsigned(Peek(m, at, 4))
    [] td.type = "boolean" -> Unsigned(Peek(m, at, 1))
    [] OTHER -> Signed(Peek(m, at, FieldSize[td.type]))

Accessible == phase = "final" /\ steps < MaxSteps
SetOnServer(name, element, v) ==
  /\ Accessible
  /\ \E td \in Find(Maps, name) :
       ElementExists(td, element) /\ memory' = Poke(memory, ElementOffset(td, element), ServerBytes(td, v))
  /\ steps' = steps + 1 /\ UNCHANGED <<layout, sidecar>>
-----------------------------------------------------------------------------
(***************************************************************************)
(* An update                                                               *)
(***************************************************************************)
InvalidOnWire == 2 ^ (EdictBits + SerialBits) - 1

\* The proxy of a kind, at an address: GetIntProxy by size and sign, AngleToFloat, QAngles,
\* VectorXYToVectorXY, StringTToString, Color32ToInt and those of the game.
Proxied(p, at) ==
  LET word == Unsigned(Peek(memory, at, 4)) IN
  CASE p.kind \in {"Int", "Short", "Char", "Bool", "ModelIndex"} ->
         LET bytes == Peek(memory, at, p.stride) IN IF p.unsigned THEN Unsigned(bytes) ELSE Signed(bytes)
    [] p.kind = "EHandle" ->
         IF Handle(word) = InvalidHandle THEN InvalidOnWire
         ELSE Handle(word).entry + 2 ^ EdictBits * (Handle(word).serial % 2 ^ SerialBits)
    [] p.kind = "Angle" -> word % Circle
    [] p.kind = "QAngle" -> [i \in 1 .. 3 |-> WordsAt(memory, at, 3)[i] % Circle]
    [] p.kind = "VectorXY" -> WordsAt(memory, at, 2) \o <<0>>
    [] p.kind = "Vector" -> WordsAt(memory, at, 3)
    [] p.kind = "StringT" -> String(word)
    [] OTHER -> word

\* The engine's coding of an integer: so many low bits, with or without a sign.
Coded(p, v) ==
  IF p.kind \notin Integral THEN v
  ELSE LET low == v % 2 ^ p.bits IN
       IF ~p.unsigned /\ 2 * low >= 2 ^ p.bits THEN low - 2 ^ p.bits ELSE low

Terminated(text, size) == SubSeq(text, 1, IF Len(text) < size THEN Len(text) ELSE size - 1) \o <<0>>

\* Receive: what is written into the element's place.
Received(r, v) ==
  CASE r.kind = "Bool" -> <<IF v # 0 THEN 1 ELSE 0>>
    [] r.kind \in {"Vector", "QAngle"} -> Words(v, 3)
    [] r.kind = "VectorXY" -> Words(v, 2)
    [] r.kind = "StringT" -> Terminated(v, r.size)
    [] r.kind = "EHandle" ->
         IF v = InvalidOnWire THEN ToBytes(HandleWord(InvalidHandle), 4)
         ELSE ToBytes(HandleWord([entry |-> v % 2 ^ EdictBits, serial |-> v \div 2 ^ EdictBits]), 4)
    [] OTHER -> ToBytes(v, r.size)

\* One property of an update reaches the place at the same position of the client's table.
Delivered(bytes, slot) ==
  LET p == sends[slot[1]]
      r == recvs[slot[1]]
      v == Coded(p, Proxied(p, p.offset + slot[2] * p.stride))
  IN Poke(bytes, r.offset + slot[2] * r.size, Received(r, v))

SendSlots == UNION { {i} \X (0 .. sends[i].count - 1) : i \in DOMAIN sends }
Update(slots) ==
  /\ Accessible
  /\ sidecar' = FoldLeft(Delivered, sidecar, SetToSeq(slots))
  /\ steps' = steps + 1 /\ UNCHANGED <<layout, memory>>
-----------------------------------------------------------------------------
(***************************************************************************)
(* The client's natives                                                    *)
(***************************************************************************)
\* FindRecvPropInfo: the base class is searched first; what is found lies in the sidecar.
FindRecv(table, bytes, name) ==
  LET hits == { i \in DOMAIN table : table[i].name = name }
      first == CHOOSE i \in hits : \A j \in hits : i <= j
  IN IF hits = {} \/ EndOf(<<table[first]>>) > Cardinality(DOMAIN bytes) THEN {} ELSE {table[first]}

\* ResolveRecvElement: the element exists and the property has the type of the native.
Fits(native, r, element) ==
  /\ element \in 0 .. r.count - 1
  /\ CASE native = "int" -> r.kind \in Integral
       [] native = "float" -> r.kind \in Floats
       [] native = "vector" -> r.kind \in {"Vector", "VectorXY", "QAngle"}
       [] native = "string" -> r.kind = "StringT"
       [] native = "entity" -> r.kind = "EHandle"

\* GetRecvIntegerBits, ReadInteger and WriteInteger.
IntegerBytes(r, v) == IF r.kind = "Bool" THEN <<IF v # 0 THEN 1 ELSE 0>> ELSE ToBytes(v, r.size)
ReadInteger(m, r, at) ==
  LET bytes == Peek(m, at, r.size) IN
  IF r.size = 4 \/ ~r.unsigned THEN Signed(bytes) ELSE Unsigned(bytes)

TextAt(m, at, size) ==
  LET bytes == Peek(m, at, size)
      ends == { i \in DOMAIN bytes : bytes[i] = 0 }
  IN SubSeq(bytes, 1, (CHOOSE i \in ends : \A j \in ends : i <= j) - 1)

Read(m, native, r, element) ==
  LET at == r.offset + element * r.size IN
  CASE native = "int" -> ReadInteger(m, r, at)
    [] native = "float" -> Unsigned(Peek(m, at, 4))
    [] native = "vector" -> IF r.kind = "VectorXY" THEN WordsAt(m, at, 2) \o <<0>> ELSE WordsAt(m, at, 3)
    [] native = "string" -> TextAt(m, at, r.size)
    [] native = "entity" -> Handle(Unsigned(Peek(m, at, 4)))

Written(native, r, v) ==
  CASE native = "int" -> IntegerBytes(r, v)
    [] native = "float" -> ToBytes(v, 4)
    [] native = "vector" -> Words(v, IF r.kind = "VectorXY" THEN 2 ELSE 3)
    [] native = "string" -> Terminated(v, r.size)
    [] native = "entity" -> ToBytes(HandleWord(v), 4)

\* SetProp, SetPropFloat, SetPropVector, SetPropString and SetPropEntity.
SetOnClient(native, name, element, v) ==
  /\ Accessible
  /\ \E r \in FindRecv(recvs, sidecar, name) :
       /\ Fits(native, r, element)
       /\ sidecar' = Poke(sidecar, r.offset + element * r.size, Written(native, r, v))
  /\ steps' = steps + 1 /\ UNCHANGED <<layout, memory>>

NativeOf(kind) ==
  CASE kind = "EHandle" -> "entity" [] kind \in Integral -> "int" [] kind \in Floats -> "float"
    [] kind = "StringT" -> "string" [] OTHER -> "vector"
-----------------------------------------------------------------------------
Init ==
  /\ desc = [l \in Levels |-> EmptyDescription(0)]
  /\ defining = [l \in Levels |-> FALSE] /\ complete = [l \in Levels |-> FALSE]
  /\ sent = [l \in Levels |-> <<>>] /\ begun = 0 /\ phase = "open"
  /\ sends = <<>> /\ recvs = <<>> /\ memory = NoBytes /\ sidecar = NoBytes /\ steps = 0

\* The kind of a field without a network property follows from its type.
KindOfType(type) == CHOOSE k \in {"Int", "Short", "Char", "Bool", "Float", "Time", "Vector", "StringT", "Color32",
                                  "EHandle", "ModelIndex"} : Kinds[k] = type
\* A handle may be given to SetProp as an integer.
ValuesFor(native, name) ==
  UNION { IF NativeOf(r.kind) = native THEN Values[r.kind]
          ELSE IF native = "int" /\ r.kind = "EHandle" THEN Values["Int"] ELSE {} : r \in FindRecv(recvs, sidecar, name) }
Next ==
  \/ \E l \in Levels : BeginDataMapDesc(l) \/ EndDataMapDesc(l) \/ DefineOutputNative(l)
                        \/ DefineInputFuncNative(l)
  \/ \E l \in Levels, name \in Names, s \in Shapes : DefineFieldNative(l, name, s)
  \/ Finalize \/ FinalizeRefused
  \/ \E name \in Names, element \in -1 .. MaxElement :
       \E v \in UNION { Values[KindOfType(td.type)] : td \in Find(Maps, name) } : SetOnServer(name, element, v)
  \/ \E slots \in SUBSET SendSlots : Update(slots)
  \/ \E native \in {"int", "float", "vector", "string", "entity"}, name \in Names, element \in -1 .. MaxElement :
       \E v \in ValuesFor(native, name) : SetOnClient(native, name, element, v)

-----------------------------------------------------------------------------
(***************************************************************************)
(* The refinement: fields, and their values on either side                 *)
(***************************************************************************)
SentAt(l, i) == SelectSeq(sent[l], LAMBDA f : f.index = i)
StoreFields ==
  [k \in { x \in Levels \X (1 .. MaxFields) : x[2] \in DOMAIN MapOf(x[1])
                /\ MapOf(x[1])[x[2]].name \in Names } |->
         LET td == desc[k[1]].descs[k[2]] IN
         IF SentAt(k[1], k[2]) = <<>>
         THEN [kind |-> KindOfType(td.type), count |-> td.count, send |-> FALSE, bits |-> 0, unsigned |-> FALSE, length |-> 0]
         ELSE LET f == SentAt(k[1], k[2])[1] IN
              [kind |-> f.kind, count |-> td.count, send |-> TRUE, bits |-> f.bits, unsigned |-> f.unsigned,
               length |-> f.length]]
SlotsOf(fs) == UNION { {k} \X (0 .. fs[k].count - 1) : k \in DOMAIN fs }
DescriptorAt(k) == desc[k[1]].descs[k[2]]
ClientValue(table, bytes, k, element) ==
  LET r == CHOOSE r \in FindRecv(table, bytes, DescriptorAt(k).name) : TRUE IN Read(bytes, NativeOf(r.kind), r, element)

View(fs, m, c, table) ==
  [fields |-> fs,
   server |-> [s \in SlotsOf(fs) |-> ServerValue(m, DescriptorAt(s[1]), s[2])],
   client |-> [s \in { x \in SlotsOf(fs) : fs[x[1]].send } |-> ClientValue(table, c, s[1], s[2])]]

ViewInit == Init /\ view = View(<<>>, memory, sidecar, recvs)
ViewNext ==
  /\ Next
  /\ view' = IF phase' # "final" THEN view
             ELSE View(IF phase = "final" THEN view.fields ELSE StoreFields, memory', sidecar', recvs')
Spec == ViewInit /\ [][ViewNext]_<<vars, view>>

Plain == { [kind |-> k, count |-> c, send |-> FALSE, bits |-> 0, unsigned |-> FALSE, length |-> 0] :
             k \in DOMAIN Kinds, c \in { s.count : s \in Shapes } }
Store == INSTANCE FieldStore WITH
  fields <- view.fields, server <- view.server, client <- view.client, 
  Keys <- Levels \X (1 .. MaxFields), Shapes <- Shapes \cup Plain,
  WordBits <- 4 * ByteBits, ShortBits <- 2 * ByteBits, CharBits <- ByteBits

\* What plugins store in a field, on the server or on the client, is what they find
\* there, and an update carries it over as far as the wire does, whatever the order and
\* the types of the fields: no value disturbs another one.
ImplementsStore == Store!Spec
===============================================================================
