------------------------------ MODULE FieldStore ------------------------------
(***************************************************************************)
(* What network fields promise to plugins, without memory, offsets, bits   *)
(* or tables: every element of every field of an entity is a variable on   *)
(* the server; an update hands its value to the client, as far as the wire *)
(* carries it; nothing else changes either.                                *)
(*                                                                         *)
(* A field is [kind, count, send, bits, unsigned, length].  Floats are     *)
(* unsigned words, angles words modulo a full circle, strings sequences of *)
(* characters and handles pairs of an entry and a serial number.           *)
(***************************************************************************)
EXTENDS Integers, Sequences, SequencesExt

CONSTANTS
  WordBits,    \* the bits of an int
  ShortBits, CharBits,
  ModelBits,   \* SP_MODEL_INDEX_BITS
  EntryBits,   \* NUM_ENT_ENTRY_BITS: the entry in a handle in memory
  EdictBits,   \* MAX_EDICT_BITS: the entry in a handle on the wire
  SerialBits,  \* the serial number on the wire
  Circle       \* 360 degrees

VARIABLES fields, server, client
vars == <<fields, server, client>>

None == <<>>   \* the function of an empty domain
Slots(fs) == UNION { {k} \X (0 .. fs[k].count - 1) : k \in DOMAIN fs }
SentSlots == { s \in Slots(fields) : fields[s[1]].send }

Modulo(v, bits) == v % 2 ^ bits
TwosComplement(v, bits) == IF Modulo(v, bits) >= 2 ^ (bits - 1) THEN Modulo(v, bits) - 2 ^ bits ELSE Modulo(v, bits)

IntegerBits == [Int |-> WordBits, Short |-> ShortBits, Char |-> CharBits, Color32 |-> WordBits, ModelIndex |-> WordBits]
Triples == {"Vector", "VectorXY", "QAngle"}
Invalid == [entry |-> 2 ^ EntryBits - 1, serial |-> 2 ^ (WordBits - EntryBits) - 1]
Handle(word) == [entry |-> word % 2 ^ EntryBits, serial |-> word \div 2 ^ EntryBits]

Initially(f) ==
  CASE f.kind \in Triples -> <<0, 0, 0>>
    [] f.kind = "StringT" -> <<>>
    [] f.kind = "EHandle" -> IF f.send THEN Invalid ELSE Handle(0)
    [] OTHER -> 0

\* What a variable of the kind can hold of a value.
Held(kind, v) ==
  CASE kind \in DOMAIN IntegerBits -> TwosComplement(v, IntegerBits[kind])
    [] kind = "Bool" -> IF v = 0 THEN 0 ELSE 1
    [] OTHER -> v

\* What the wire carries: as many bits as were asked for, at most as many as the
\* variable has; angles within the circle, two coordinates of a VectorXY, the
\* beginning of a string, the low bits of a serial number.
FewerBits(f) ==
  LET all == IntegerBits[f.kind]
      asked == IF f.kind = "ModelIndex" THEN ModelBits ELSE IF f.kind = "Color32" \/ f.bits <= 0 THEN all ELSE f.bits
  IN IF asked < all THEN asked ELSE all
Carried(f, v) ==
  CASE f.kind \in DOMAIN IntegerBits ->
         IF f.unsigned /\ (f.kind # "Int" \/ FewerBits(f) < WordBits) THEN Modulo(v, FewerBits(f))
         ELSE TwosComplement(v, FewerBits(f))
    [] f.kind = "Angle" -> v % Circle
    [] f.kind = "QAngle" -> <<v[1] % Circle, v[2] % Circle, v[3] % Circle>>
    [] f.kind = "VectorXY" -> <<v[1], v[2], 0>>
    [] f.kind = "StringT" -> IF Len(v) < f.length THEN v ELSE SubSeq(v, 1, f.length - 1)
    [] f.kind = "EHandle" ->
         LET low == [v EXCEPT !.serial = Modulo(v.serial, SerialBits)] IN
         IF low = [entry |-> 2 ^ EdictBits - 1, serial |-> 2 ^ SerialBits - 1] THEN Invalid ELSE low
    [] OTHER -> v

\* What the client's own variable holds of a value that a plugin gives it: what an
\* unsigned field holds is not negative, and a handle may be given as an integer.
HeldByClient(f, native, v) ==
  CASE native = "int" /\ f.kind = "EHandle" -> Handle(Modulo(v, WordBits))
    [] f.kind \in {"Short", "Char"} /\ f.unsigned -> Modulo(v, IntegerBits[f.kind])
    [] f.kind = "VectorXY" -> <<v[1], v[2], 0>>
    [] f.kind = "StringT" -> IF Len(v) < f.length THEN v ELSE SubSeq(v, 1, f.length - 1)
    [] OTHER -> Held(f.kind, v)
-----------------------------------------------------------------------------
CONSTANTS Keys, Shapes, Values   \* names of fields, what fields there may be, what plugins assign to each kind

Init == fields = None /\ server = None /\ client = None

Publish ==
  /\ fields = None /\ DOMAIN fields' \subseteq Keys /\ fields' \in [DOMAIN fields' -> Shapes]
  /\ server' = [s \in Slots(fields') |-> Initially(fields'[s[1]])]
  /\ client' = [s \in { x \in Slots(fields') : fields'[x[1]].send } |-> Initially(fields'[s[1]])]

Set(s, v) == server' = [server EXCEPT ![s] = Held(fields[s[1]].kind, v)] /\ UNCHANGED <<fields, client>>

Update(slots) ==
  /\ client' = [s \in DOMAIN client |-> IF s \in slots THEN Carried(fields[s[1]], server[s]) ELSE client[s]]
  /\ UNCHANGED <<fields, server>>

SetOnClient(s, native, v) ==
  client' = [client EXCEPT ![s] = HeldByClient(fields[s[1]], native, v)] /\ UNCHANGED <<fields, server>>

\* The kind of value that a native takes for a kind of field.
Given(kind) == {<<"own", kind>>} \cup IF kind = "EHandle" THEN {<<"int", "Int">>} ELSE {}

Next ==
  \/ Publish
  \/ \E s \in Slots(fields) : \E v \in Values[fields[s[1]].kind] : Set(s, v)
  \/ \E slots \in SUBSET SentSlots : Update(slots)
  \/ \E s \in SentSlots : \E g \in Given(fields[s[1]].kind) : \E v \in Values[g[2]] : SetOnClient(s, g[1], v)

Spec == Init /\ [][Next]_vars
===============================================================================
