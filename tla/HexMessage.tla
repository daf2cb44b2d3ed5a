----------------------------- MODULE HexMessage -----------------------------
(***************************************************************************)
(* The binary messages of devices, solixapi/mqtttypes.py: DeviceHexData    *)
(* builds a message from its fields and takes one apart, DeviceHexDataField*)
(* finds the length and the type of a field and writes values into it,     *)
(* MqttCmdValidator checks a value before.                                 *)
(*                                                                         *)
(* A message is a sequence of bytes: a header of nine bytes with the length*)
(* of the whole, sometimes an increment, the fields in the order of their  *)
(* names, and the exclusive or of all bytes before.  A field is its name,  *)
(* its length, mostly a type, and its value.  Text is ASCII or not text.   *)
(* Left out: fields of JSON, floating point, times, bit masks, of which    *)
(* DeviceCommand tells.                                                    *)
(***************************************************************************)
EXTENDS Integers, Sequences, SequencesExt, Functions, FiniteSets, FiniteSetsExt

CONSTANTS
  Increments,        \* increments of a header: <<>> or one byte
  FieldChoices,      \* [name |-> the fields it may have]
  MaxFields,         \* bound
  ValueDescs,        \* descriptions of numbers that commands send
  TestValues,        \* values that are asked for
  Layouts            \* fields with parts: a length and a sequence of parts

VARIABLES
  increment,         \* of msg_header
  msgFields,         \* msg_fields
  sent,              \* the number a command sent last
  composed           \* the field a command composed last

hexVars == <<increment, msgFields, sent, composed>>

Byte == 0..255
Str == 0
Ui == 1
Sile == 2
Var == 3
Bin == 4

(***************************************************************************)
(* Building a message.                                                     *)
(***************************************************************************)
FieldLength(f) == Len(f.type) + Len(f.value)
LengthBytes(n) == IF n = 0 THEN <<>> ELSE IF n < 256 THEN <<n>>
                  ELSE <<n % 256, n \div 256>>
FieldHex(name, f) == <<name>> \o LengthBytes(FieldLength(f)) \o f.type \o f.value

\* Some of the fields, in the order of their names.
BodyOf(fields, some) ==
  LET from[names \in SUBSET DOMAIN fields] ==
        IF names = {} THEN <<>>
        ELSE LET first == Min(names)
             IN FieldHex(first, fields[first]) \o from[names \ {first}]
  IN from[some]
Body(fields) == BodyOf(fields, DOMAIN fields)

XorOf(bytes) ==
  LET Ones(bit) == Cardinality({i \in DOMAIN bytes : (bytes[i] \div bit) % 2 = 1})
      Bit(bit) == bit * (Ones(bit) % 2)
  IN Bit(1) + Bit(2) + Bit(4) + Bit(8) + Bit(16) + Bit(32) + Bit(64) + Bit(128)

Hex(inc, fields) ==
  LET body == Body(fields)
      length == 9 + Len(inc) + Len(body) + 1
      all == <<255, 9, length % 256, length \div 256, 3, 0, 15, 4, 5>> \o inc \o body
  IN Append(all, XorOf(all))

(***************************************************************************)
(* Taking it apart.  A field is given with all the bytes that follow it.   *)
(***************************************************************************)
Decodable(bytes) == \A i \in DOMAIN bytes : bytes[i] < 128
LongLength(b) == b[2] + 256 * b[3]

\* A field has a type, or is one byte or more that cannot be a type.  Only
\* texts and binary data are long, and a text does not begin with the byte 4.
GoodField(f) ==
  /\ f \in [type : Seq(Byte), value : Seq(Byte)]
  /\ f.value # <<>> /\ FieldLength(f) < 65536
  /\ \/ f.type = <<>> /\ Len(f.value) < 256 /\ (Len(f.value) > 1 => f.value[1] > 49)
     \/ /\ Len(f.type) = 1 /\ f.type[1] <= 49
        /\ FieldLength(f) > 255 => f.type[1] \in {Str, Bin}
        /\ f.type[1] = Str => Decodable(f.value) /\ f.value[1] # Bin

ASSUME FieldAssumption ==
  /\ Increments \subseteq {<<>>} \cup {<<b>> : b \in Byte \ (160..169)}
  /\ DOMAIN FieldChoices \subseteq Byte
  /\ \A name \in DOMAIN FieldChoices : \A f \in FieldChoices[name] : GoodField(f)

\* Faulty: what would be text is not looked at.
LongFieldLoose(b) ==
  /\ Len(b) >= 4 /\ b[4] \in {Str, Bin}
  /\ 3 < LongLength(b) /\ LongLength(b) <= Len(b) - 4
  /\ b[4] = Bin =>
       Len(b) - LongLength(b) = 4 \/ b[4 + LongLength(b)] > b[1]

\* Whether the length has two bytes: the type and what would follow tell.
LongField(b) ==
  /\ Len(b) >= 4 /\ b[4] \in {Str, Bin}
  /\ 3 < LongLength(b) /\ LongLength(b) <= Len(b) - 4
  /\ IF b[4] = Bin
       THEN Len(b) - LongLength(b) = 4 \/ b[4 + LongLength(b)] > b[1]
       ELSE Decodable(SubSeq(b, 5, 3 + LongLength(b)))

HeadLength(b) == IF LongField(b) THEN 3 ELSE 2
ReadLength(b) == IF LongField(b) THEN LongLength(b) ELSE b[2]
ValidLength(b) == 0 < ReadLength(b) /\ ReadLength(b) <= Len(b) - 2

\* Only of two bytes or more the first may be a type.
HasType(b) == ValidLength(b) /\ ReadLength(b) > 1 /\ b[HeadLength(b) + 1] <= 49
ReadType(b) == IF HasType(b) THEN <<b[HeadLength(b) + 1]>> ELSE <<>>

\* A text takes the next byte too, if that can be no name but text.
TextGoesOn(b) ==
  LET next == HeadLength(b) + ReadLength(b) + 1
  IN /\ HasType(b) /\ b[HeadLength(b) + 1] = Str
     /\ next <= Len(b) /\ b[next] < b[1] /\ Decodable(<<b[next]>>)

ReadValue(b) ==
  IF ~ValidLength(b) THEN <<>>
  ELSE SubSeq(b, HeadLength(b) + 1 + Len(ReadType(b)),
              HeadLength(b) + ReadLength(b) + IF TextGoesOn(b) THEN 1 ELSE 0)

ParsedField(b) ==
  [field |-> [type |-> ReadType(b), value |-> ReadValue(b)],
   size |-> 1 + Len(ReadType(b)) + Len(ReadValue(b))
              + IF ReadLength(b) > 0 THEN HeadLength(b) - 1 ELSE 0]

ParsedFields(b, start) ==
  LET from[i \in 0..Len(b)] ==
        IF i >= Len(b) - 1 THEN <<>>
        ELSE LET f == ParsedField(SubSeq(b, i + 1, Len(b)))
                 rest == from[Min({i + f.size, Len(b)})]
             IN [name \in DOMAIN rest \cup {b[i + 1]} |->
                   IF name \in DOMAIN rest THEN rest[name] ELSE f.field]
  IN from[start]

Parsed(b) ==
  LET inc == IF b[10] \in 160..169 THEN <<>> ELSE <<b[10]>>
  IN [increment |-> inc, fields |-> ParsedFields(b, 9 + Len(inc))]

(***************************************************************************)
(* Numbers: MqttCmdValidator.check(), encode_value(), extract_value().     *)
(***************************************************************************)
Width(type) == CASE type = Ui -> 1 [] type = Sile -> 2 [] type = Var -> 4

\* The upper half of four bytes decides for them.
Fits(v, width, signed) ==
  LET top == IF width = 4 THEN v \div 65536 ELSE v
      half == IF width = 1 THEN 128 ELSE 32768
  IN IF signed THEN -half <= top /\ top < half ELSE 0 <= top /\ top < 2 * half

Place == <<1, 256, 65536, 16777216>>
LittleEndian(v, width) == [i \in 1..width |-> (v \div Place[i]) % 256]
Decoded(bytes, signed) ==
  LET n == Len(bytes)
      Digit(i) == IF i > n THEN 0
                  ELSE IF i = n /\ signed /\ bytes[n] >= 128 THEN bytes[n] - 256
                  ELSE bytes[i]
  IN Digit(1) + 256 * (Digit(2) + 256 * (Digit(3) + 256 * Digit(4)))

\* Half a step goes to the even number of steps.
NearestStep(v, step) ==
  LET low == v \div step
      twice == 2 * (v % step)
  IN step * IF twice < step \/ (twice = step /\ low % 2 = 0) THEN low ELSE low + 1

\* What a value becomes, if it is not refused.
Checked(d, v) ==
  IF v = d.default THEN {v}
  ELSE CASE \/ d.options # {} /\ v \notin d.options
            \/ d.min < d.max /\ v \notin d.min..d.max -> {}
         [] d.options = {} /\ d.step # 0 /\ d.min < v /\ v < d.max ->
              {Max({d.min, Min({d.max, NearestStep(v, d.step)})})}
         [] OTHER -> {v}

\* With a divider all numbers that may be sent are multiples of it.
Sendable(d) ==
  \/ d.divider = 1
  \/ /\ \A v \in d.options \cup {d.default, d.min, d.max, d.step} : v % d.divider = 0
     /\ d.options # {} \/ (d.step # 0 /\ d.min < d.max)

ASSUME DescAssumption ==
  /\ \A d \in ValueDescs :
       /\ d.type \in {Ui, Sile, Var} /\ d.signed \in BOOLEAN
       /\ d.min \in Int /\ d.max \in Int /\ d.default \in Int /\ d.options \subseteq Int
       /\ d.step \in Nat /\ d.divider \in Nat \ {0} /\ Sendable(d)
  /\ TestValues \subseteq Int

(***************************************************************************)
(* A field with subfields: generate_mqtt_command() writes each after the   *)
(* ones before, update() with an offset; extract_value() reads them.       *)
(***************************************************************************)
Space == 32
Letters == Space..126
Blanks == (9..13) \cup (28..Space)
Zeros(n) == [i \in 1..n |-> 0]
Padded(bytes, n) ==
  SubSeq(bytes, 1, Min({n, Len(bytes)})) \o Zeros(Max({0, n - Len(bytes)}))

\* A text without a length of its own is sent with one, but an empty text.
HasLengthByte(part) == part.type = Str /\ part.length = 0

\* Numbers fit, texts are printable and do not begin or end with a space, and in
\* a field of a given length only the last part is a text without one.
Bare(text) == text # <<>> => text[1] # Space /\ text[Len(text)] # Space
GoodPart(part) ==
  /\ part.gap \in Nat /\ part.length \in Nat /\ part.signed \in BOOLEAN
  /\ \/ /\ part.type = Str /\ part.value \in Seq(Letters) /\ Len(part.value) < 256
        /\ Bare(part.value)
     \/ /\ part.type \in {Ui, Sile, Var} /\ part.value \in Int
        /\ Fits(part.value, Width(part.type), part.signed)

ASSUME LayoutAssumption ==
  \A l \in Layouts :
    /\ l.length \in Nat /\ l.parts \in Seq(Range(l.parts))
    /\ \A i \in 1..Len(l.parts) : GoodPart(l.parts[i])
    /\ l.length > 0 => \A i \in 1..(Len(l.parts) - 1) : ~HasLengthByte(l.parts[i])

EncodedText(text, length) ==
  IF length > 0 THEN Padded(text, length)
  ELSE IF text = <<>> THEN <<>> ELSE <<Len(text)>> \o text
EncodedPart(part) ==
  IF part.type = Str THEN EncodedText(part.value, part.length)
  ELSE LittleEndian(part.value, Width(part.type))
PartLength(part) ==
  IF HasLengthByte(part) THEN Len(part.value) + 1 ELSE Len(EncodedPart(part))

\* A text within the field does not exceed it.
CutTo(room, part) ==
  LET full == EncodedPart(part)
      cut == SubSeq(full, 1, room)
  IN IF part.type # Str \/ room <= 0 \/ Len(full) <= room THEN full
     ELSE IF HasLengthByte(part) THEN <<room - 1>> \o Tail(cut) ELSE cut

\* A gap is filled with zeros.
Written(value, at, part) ==
  LET before == Padded(value, Max({at, Len(value)}))
      code == CutTo(Len(value) - at, part)
  IN IF EncodedPart(part) = <<>> THEN value
     ELSE SubSeq(before, 1, at) \o code \o SubSeq(before, at + Len(code) + 1, Len(before))

WritePart(done, part) ==
  LET at == done.at + part.gap
  IN [at |-> at + PartLength(part), value |-> Written(done.value, at, part)]

Composed(layout) ==
  LET done[i \in 0..Len(layout.parts)] ==
        IF i = 0 THEN [at |-> 0, value |-> Zeros(layout.length)]
        ELSE WritePart(done[i - 1], layout.parts[i])
  IN done[Len(layout.parts)].value

\* Text is shown without blanks around it and without what cannot be printed.
Stripped(bytes) ==
  LET inner == {i \in DOMAIN bytes : bytes[i] \notin Blanks}
  IN IF inner = {} THEN <<>> ELSE SubSeq(bytes, Min(inner), Max(inner))
Visible(bytes) ==
  LET shown[i \in 0..Len(bytes)] ==
        IF i = 0 THEN <<>>
        ELSE IF bytes[i] \in Letters THEN Append(shown[i - 1], bytes[i])
        ELSE shown[i - 1]
  IN shown[Len(bytes)]
Printable(bytes) == Visible(Stripped(bytes))

\* One part is read after the others, unless the field ends before it.
ReadPart(done, value, part) ==
  LET at == done.at + part.gap
      start == at + IF HasLengthByte(part) THEN 1 ELSE 0
      n == IF HasLengthByte(part) THEN value[at + 1]
           ELSE IF part.type = Str THEN part.length ELSE Width(part.type)
      bytes == SubSeq(value, start + 1, Min({start + n, Len(value)}))
  IN IF at >= Len(value) THEN [done EXCEPT !.at = at]
     ELSE [at |-> start + n,
           read |-> Append(done.read, IF part.type = Str THEN Printable(bytes)
                                      ELSE Decoded(bytes, part.signed))]

ReadParts(value, parts) ==
  LET done[i \in 0..Len(parts)] ==
        IF i = 0 THEN [at |-> 0, read |-> <<>>]
        ELSE ReadPart(done[i - 1], value, parts[i])
  IN done[Len(parts)].read

(***************************************************************************)
(* Steps.                                                                  *)
(***************************************************************************)
\* update_field() adds a field or replaces it.
UpdateField ==
  /\ \E name \in DOMAIN FieldChoices : \E f \in FieldChoices[name] :
       msgFields' = [n \in DOMAIN msgFields \cup {name} |->
                       IF n = name THEN f ELSE msgFields[n]]
  /\ Cardinality(DOMAIN msgFields') <= MaxFields
  /\ UNCHANGED <<increment, sent, composed>>

PopField ==
  /\ \E name \in DOMAIN msgFields :
       msgFields' = Restrict(msgFields, DOMAIN msgFields \ {name})
  /\ UNCHANGED <<increment, sent, composed>>

\* A command checks and encodes a value; one too large for its bytes raises.
SendValue ==
  /\ \E d \in ValueDescs : \E v \in TestValues : \E c \in Checked(d, v) :
       /\ Fits(c \div d.divider, Width(d.type), d.signed)
       /\ sent' = [desc |-> d, value |-> v, checked |-> c,
                   bytes |-> LittleEndian(c \div d.divider, Width(d.type))]
  /\ UNCHANGED <<increment, msgFields, composed>>

ComposeField ==
  /\ \E l \in Layouts : composed' = [parts |-> l.parts, value |-> Composed(l)]
  /\ UNCHANGED <<increment, msgFields, sent>>

NothingSent == [desc |-> <<>>, value |-> 0, checked |-> 0, bytes |-> <<>>]
NothingComposed == [parts |-> <<>>, value |-> <<>>]

HexInit ==
  /\ increment \in Increments /\ msgFields = <<>>
  /\ sent = NothingSent /\ composed = NothingComposed

HexNext == UpdateField \/ PopField \/ SendValue \/ ComposeField

HexSpec == HexInit /\ [][HexNext]_hexVars

(***************************************************************************)
(* Properties.                                                             *)
(***************************************************************************)
\* A command starts with the field a1.
StartsRight == msgFields # <<>> /\ Min(DOMAIN msgFields) \in 160..169
EndsInText == msgFields[Max(DOMAIN msgFields)].type = <<Str>>
BytesAfter(name) ==
  Len(BodyOf(msgFields, {n \in DOMAIN msgFields : n > name}))

\* A message is read as it was built: with short fields, with long texts and
\* long binary data.  Two messages are not: one that ends in a text, to which
\* the checksum is added when it looks like text, and one in which a short
\* field is followed by 256 bytes or more, when its bytes look like a length.
ReadAsBuilt ==
  (/\ StartsRight /\ ~EndsInText
   /\ \A n \in DOMAIN msgFields :
        FieldLength(msgFields[n]) > 255 \/ BytesAfter(n) < 256)
  => Parsed(Hex(increment, msgFields)) = [increment |-> increment, fields |-> msgFields]

\* A device reads from a command the value that was asked for, to the nearest
\* step within the range, for each type, sign and divider.
SentIsRead ==
  sent # NothingSent =>
    LET d == sent.desc
        error == sent.checked - sent.value
    IN /\ Decoded(sent.bytes, d.signed) * d.divider = sent.checked
       /\ \/ error = 0
          \/ /\ d.options = {} /\ sent.checked \in d.min..d.max
             /\ 2 * Max({error, -error}) <= d.step

\* Values written one after the other into a field are read again, also those
\* after an empty text; of a text that is too long the beginning is read.
PartsReadBack ==
  LET read == ReadParts(composed.value, composed.parts)
  IN \A i \in DOMAIN composed.parts :
       LET part == composed.parts[i]
       IN IF i > Len(read) THEN part.value = <<>>
          ELSE IF part.type = Str
            THEN IsPrefix(read[i], part.value)
                 /\ (i < Len(read) /\ HasLengthByte(part) => read[i] = part.value)
            ELSE read[i] = part.value

\* What is written is read: messages, values, and parts of fields.
WrittenIsRead == ReadAsBuilt /\ SentIsRead /\ PartsReadBack
=============================================================================
