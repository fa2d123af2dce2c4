------------------------------ MODULE HioCodec ------------------------------
(***************************************************************************)
(* The message codec of hostio.py at byte level: the field classes of      *)
(* api/base.py, the hio group of api/hio.py as the registry holds it,      *)
(* Message.pack, Message.unpack, HIO.lookup_class and HIO.unpack.          *)
(*                                                                         *)
(* One behaviour is one frame: either the host packs a request            *)
(* (HIO.call_async) or the device sends a frame laid out as the wire format *)
(* prescribes; then the receive path decodes it.                           *)
(***************************************************************************)
EXTENDS Integers, Sequences, SequencesExt

CONSTANTS
  ArgCountSlack,  \* how many arguments a caller may pass beyond or short of
                  \* the declared request fields (0: exactly the declared count)
  Extra           \* byte strings a device frame may carry after its fields

ASSUME ArgCountSlack \in Nat
ASSUME Extra \subseteq Seq(0..255)

-----------------------------------------------------------------------------
(* Field classes (api/base.py): a field is its struct format and array.   *)

Scalar == -1   \* array=None

\* field.__init__ with the class's _pyfmt; array is Scalar, N > 0 (fixed) or
\* 0 (variable, the rest of the frame).
MkField(name, fmt, array) == [name |-> name, fmt |-> fmt, array |-> array]
uint8(name, array)  == MkField(name, "B", array)
uint16(name, array) == MkField(name, "H", array)
uint32(name, array) == MkField(name, "I", array)
int32(name, array)  == MkField(name, "i", array)
string(name, array) == MkField(name, "s", array)
status == int32("status", Scalar)

\* field.pyfmt: a variable (u)int8 array packs and unpacks as a byte string.
PyFmt(f) == IF f.array = 0 /\ f.fmt \in {"B", "b"} THEN "s" ELSE f.fmt

\* struct.calcsize of one unit of a format.
UnitSize(fmt) == CASE fmt \in {"B", "b", "s"} -> 1
                   [] fmt \in {"H", "h"}      -> 2
                   [] fmt \in {"I", "i"}      -> 4

Signed(fmt) == fmt \in {"b", "h", "i"}

-----------------------------------------------------------------------------
(* The hio group (api/hio.py), GROUP_ID 0.  The registry metaclass numbers *)
(* the classes of a group in declaration order: msgid = its index.        *)

HioGroupId == 0

\* Each class with the directions it declares (get_fields(d) is None for
\* the others, given here as <<>>) and their field lists.
HioClasses == <<
  [name |-> "query", dirs |-> {"req", "rsp"},
   req |-> <<>>,
   rsp |-> <<status, uint8("version", Scalar), uint8("ngroups", Scalar),
             uint16("maxsize", Scalar), string("fw_rev", 10),
             string("patch_rev", 10), uint16("nmsg", 0)>>,
   ind |-> <<>>],
  [name |-> "config", dirs |-> {"req", "rsp"},
   req |-> <<uint8("wakeup_pin", Scalar), uint8("wakeup_level", Scalar),
             uint8("irq_pin", Scalar), uint8("irq_mode", Scalar)>>,
   rsp |-> <<status>>, ind |-> <<>>],
  [name |-> "sleep",  dirs |-> {"req"}, req |-> <<>>, rsp |-> <<>>, ind |-> <<>>],
  [name |-> "irqack", dirs |-> {"req"}, req |-> <<>>, rsp |-> <<>>, ind |-> <<>>],
  [name |-> "ping",   dirs |-> {"req", "rsp"}, req |-> <<uint8("payload", 0)>>,
                      rsp |-> <<uint8("payload", 0)>>, ind |-> <<>>],
  [name |-> "wakeup", dirs |-> {"ind"}, req |-> <<>>, rsp |-> <<>>,
                      ind |-> <<uint32("reserved", Scalar)>>],
  [name |-> "console", dirs |-> {"ind"}, req |-> <<>>, rsp |-> <<>>,
                       ind |-> <<string("str", 0)>>]
>>

\* registry: cls.msgid = len(messages[group]) at registration.
MsgId(i) == i - 1

\* message.get_fields(direction): HasFields is "is not None".
HasFields(i, dir) == dir \in HioClasses[i].dirs
GetFields(i, dir) == HioClasses[i][dir]

-----------------------------------------------------------------------------
(* Little-endian integers, as struct.pack/unpack with '<'.                 *)

\* Bug variant: the bytes are not reduced modulo 256.
EncodeIntNoMod(v, w) == [k \in 1..w |-> v \div (256 ^ (k - 1))]

\* Byte k (1-based) of v in two's complement; \div floors, % is non-negative.
LEByte(v, k) == (v \div (256 ^ (k - 1))) % 256
EncodeInt(v, w) == [k \in 1..w |-> LEByte(v, k)]

RECURSIVE UnsignedOf(_)
UnsignedOf(bs) == IF bs = <<>> THEN 0 ELSE Head(bs) + 256 * UnsignedOf(Tail(bs))

DecodeInt(bs, signed) ==
  LET w == Len(bs)
      top == bs[w]
  IN IF signed /\ top >= 128
       THEN UnsignedOf(SubSeq(bs, 1, w - 1)) + (top - 256) * 256 ^ (w - 1)
       ELSE UnsignedOf(bs)

\* '<Ns' packs a byte string padded with zeros or cut to N bytes.
PadTo(bs, n) == IF Len(bs) >= n THEN SubSeq(bs, 1, n)
                ELSE bs \o [k \in 1..(n - Len(bs)) |-> 0]

\* The 4-byte header '<BBH': group, msgid, trxid.
Header(group, msgid, trx) == <<group, msgid>> \o EncodeInt(trx, 2)

-----------------------------------------------------------------------------
(* Message.pack and Message.unpack (hostio.py).                            *)

\* One field of Message.pack: a scalar is one unit; an array packs num
\* units, num = len(arg) for a variable array; a byte string is padded.
PackField(f, arg) ==
  IF f.array = Scalar THEN EncodeInt(arg, UnitSize(f.fmt))
  ELSE LET num == IF f.array = 0 THEN Len(arg) ELSE f.array
       IN IF PyFmt(f) = "s" THEN PadTo(arg, num)
          ELSE FlattenSeq([k \in 1..num |-> EncodeInt(arg[k], UnitSize(f.fmt))])

\* Message(cls, 'req').pack(trxid, *args): the fields are zipped with the
\* arguments, so surplus arguments are ignored and missing ones leave
\* their fields out of the frame.
Pack(i, trx, args) ==
  Header(HioGroupId, MsgId(i), trx)
    \o FlattenSeq([p \in DOMAIN Zip(GetFields(i, "req"), args) |->
                     PackField(GetFields(i, "req")[p], args[p])])

\* One field of Message.unpack from its unit count: struct.unpack yields a
\* tuple; a scalar or a byte string is its single element.
DecodeField(f, num, bs) ==
  LET w == UnitSize(PyFmt(f))
  IN IF PyFmt(f) = "s" THEN bs
     ELSE IF f.array = Scalar THEN DecodeInt(bs, Signed(f.fmt))
     ELSE [k \in 1..num |-> DecodeInt(SubSeq(bs, (k-1)*w + 1, k*w), Signed(f.fmt))]

\* The field loop of Message.unpack from byte offset pos (0-based).  A
\* variable array takes len(payload[pos:]) // size units; a slice shorter
\* than the format makes struct.unpack raise (ok = FALSE).
RECURSIVE UnpackFrom(_, _, _)
UnpackFrom(fs, payload, pos) ==
  IF fs = <<>> THEN [ok |-> TRUE, vals |-> <<>>, pos |-> pos]
  ELSE
    LET f == Head(fs)
        w == UnitSize(PyFmt(f))
        num == IF f.array = Scalar THEN 1
               ELSE IF f.array > 0 THEN f.array
               ELSE (IF Len(payload) > pos THEN Len(payload) - pos ELSE 0) \div w
        chunk == num * w
    IN IF pos + chunk > Len(payload)
         THEN [ok |-> FALSE, vals |-> <<>>, pos |-> pos]
         ELSE LET rest == UnpackFrom(Tail(fs), payload, pos + chunk)
              IN [rest EXCEPT !.vals = <<DecodeField(f, num,
                                          SubSeq(payload, pos + 1, pos + chunk))>> \o @]

\* dirmap of HIO.lookup_class: direction bits 01 map to None.
DirMap == [b \in 0..3 |-> CASE b = 0 -> "req" [] b = 1 -> "none"
                            [] b = 2 -> "rsp" [] b = 3 -> "ind"]
\* Bug variant: the local id is taken without masking off the direction
\* bits (msgid instead of msgid & 0x3f).
LookupClassNoMask(group, msgid) ==
  IF group = HioGroupId /\ msgid + 1 \in DOMAIN HioClasses
    THEN [cls |-> msgid + 1, dir |-> DirMap[msgid \div 64]]
    ELSE [cls |-> 0, dir |-> "none"]

\* HIO.lookup_class: the direction is msgid >> 6 through dirmap, the class
\* is the one of the frame's group with msgid & 0x3f.
LookupClass(group, msgid) ==
  LET local == msgid % 64
  IN IF group = HioGroupId /\ local + 1 \in DOMAIN HioClasses
       THEN [cls |-> local + 1, dir |-> DirMap[msgid \div 64]]
       ELSE [cls |-> 0, dir |-> "none"]

\* HIO.unpack: lookup_class, Message(cls, direction) (which asserts a
\* known class and direction, and takes get_fields), then Message.unpack.
\* A frame shorter than the header makes struct.unpack raise.
Decoded(cls, dir, trx, vals, consumed) ==
  [ok |-> TRUE, cls |-> cls, dir |-> dir, trxid |-> trx, vals |-> vals,
   consumed |-> consumed]
Failed == [ok |-> FALSE, cls |-> 0, dir |-> "none", trxid |-> 0,
           vals |-> <<>>, consumed |-> 0]

\* Bug variant: the fields are decoded from offset 2, as if the header
\* were '<BB' without the trxid.
HioUnpackShortHeader(buf) ==
  IF Len(buf) < 4 THEN Failed
  ELSE
    LET lc == LookupClass(buf[1], buf[2])
        known == lc.cls # 0 /\ lc.dir # "none" /\ HasFields(lc.cls, lc.dir)
        r  == UnpackFrom(GetFields(lc.cls, lc.dir), buf, 2)
    IN IF ~known \/ ~r.ok THEN Failed
       ELSE Decoded(lc.cls, lc.dir, DecodeInt(SubSeq(buf, 3, 4), FALSE),
                    r.vals, r.pos)

HioUnpack(buf) ==
  IF Len(buf) < 4 THEN Failed
  ELSE
    LET lc == LookupClass(buf[1], buf[2])
        known == lc.cls # 0 /\ lc.dir # "none" /\ HasFields(lc.cls, lc.dir)
        r  == UnpackFrom(GetFields(lc.cls, lc.dir), buf, 4)
    IN IF ~known \/ ~r.ok THEN Failed
       ELSE Decoded(lc.cls, lc.dir, DecodeInt(SubSeq(buf, 3, 4), FALSE),
                    r.vals, r.pos)

-----------------------------------------------------------------------------
(* One frame through the codec.                                            *)

VARIABLES
  phase,  \* "empty", "framed" (a frame is on the wire) or "decoded"
  sent,   \* what the sender put in the frame: class, direction, trxid, values
  wire,   \* the frame payload, as readmsg hands it to HIO.unpack
  out     \* the result of HIO.unpack

vars == <<phase, sent, wire, out>>

\* Argument and field values: the extremes each format can carry.
Trxids == {7, 65535}
ScalarVals(fmt) == CASE fmt = "B" -> {0, 200}
                     [] fmt = "H" -> {513}
                     [] fmt = "I" -> {16909060}
                     [] fmt = "i" -> {0, -2}
ArrayVals(f) ==
  IF PyFmt(f) = "s"
    THEN IF f.array = 0 THEN {<<>>, <<7, 0>>} ELSE {[k \in 1..f.array |-> 65]}
    ELSE IF f.array = 0 THEN {<<>>, <<258>>, <<3, 65535>>}
    ELSE {[k \in 1..f.array |-> 1]}
FieldVals(f) == IF f.array = Scalar THEN ScalarVals(f.fmt) ELSE ArrayVals(f)

RECURSIVE ValueSeqs(_)
ValueSeqs(fs) == IF fs = <<>> THEN {<<>>}
                 ELSE {<<v>> \o r : v \in FieldVals(Head(fs)), r \in ValueSeqs(Tail(fs))}

\* The argument lists a caller may pass to call(): the declared fields,
\* or (with ArgCountSlack) some short or surplus by up to that many.
ArgLists(i) ==
  LET exact == ValueSeqs(GetFields(i, "req"))
  IN exact
     \cup UNION {{SubSeq(a, 1, Len(a) - d) : d \in 1..ArgCountSlack} : a \in exact}
     \cup {a \o [k \in 1..d |-> 0] : a \in exact, d \in 1..ArgCountSlack}

NoSent == [cls |-> 0, dir |-> "none", trxid |-> 0, vals |-> <<>>]

Init ==
  /\ phase = "empty"
  /\ sent = NoSent
  /\ wire = <<>>
  /\ out = Failed

\* HIO.call_async: Message(cls, 'req').pack(trxid, *args).
HostPack(i, trx, args) ==
  /\ phase = "empty"
  /\ HasFields(i, "req")
  /\ wire' = Pack(i, trx, args)
  /\ sent' = [cls |-> i, dir |-> "req", trxid |-> trx, vals |-> args]
  /\ phase' = "framed"
  /\ UNCHANGED out

\* The device's frame of a response or indication, laid out as the wire
\* format prescribes (direction bits 10 or 11 over the local id), possibly
\* followed by stray bytes.
DirBits == [rsp |-> 2, ind |-> 3]
DeviceSend(i, dir, trx, vals, x) ==
  /\ phase = "empty"
  /\ wire' = Header(HioGroupId, DirBits[dir] * 64 + MsgId(i), trx)
               \o FlattenSeq([p \in DOMAIN vals |-> PackField(GetFields(i, dir)[p], vals[p])])
               \o x
  /\ sent' = [cls |-> i, dir |-> dir, trxid |-> trx, vals |-> vals]
  /\ phase' = "framed"
  /\ UNCHANGED out

\* The read loop hands the frame to HIO.unpack.
Receive ==
  /\ phase = "framed"
  /\ out' = HioUnpack(wire)
  /\ phase' = "decoded"
  /\ UNCHANGED <<sent, wire>>

Next ==
  \/ \E i \in DOMAIN HioClasses, trx \in Trxids :
       \E args \in ArgLists(i) : HostPack(i, trx, args)
  \/ \E i \in DOMAIN HioClasses, dir \in {"rsp", "ind"}, trx \in Trxids, x \in Extra :
       /\ HasFields(i, dir)
       /\ \E vals \in ValueSeqs(GetFields(i, dir)) : DeviceSend(i, dir, trx, vals, x)
  \/ Receive

Spec == Init /\ [][Next]_vars

-----------------------------------------------------------------------------
(* Properties                                                              *)

\* Type invariant: Message.pack and the wire layout produce bytes, and the
\* decoder's result is well formed.
TypeOK ==
  /\ phase \in {"empty", "framed", "decoded"}
  /\ \A k \in DOMAIN wire : wire[k] \in 0..255
  /\ out.ok \in BOOLEAN /\ out.dir \in {"req", "rsp", "ind", "none"}
  /\ out.consumed \in 0..Len(wire)

\* Frame round trip (Message.pack, the wire layout, lookup_class and
\* Message.unpack agree): a frame decodes to the class, direction, trxid
\* and field values it was built from.
FrameRoundTrip ==
  phase = "decoded" =>
    /\ out.ok
    /\ out.cls = sent.cls /\ out.dir = sent.dir /\ out.trxid = sent.trxid
    /\ out.vals = sent.vals

\* Message.unpack never silently ignores bytes of a frame: a frame it
\* accepts is consumed to its last byte (a variable array holds exactly
\* the remaining bytes, and nothing trails the last field).
DecodeAccountsForFrame ==
  (phase = "decoded" /\ out.ok) => out.consumed = Len(wire)
=============================================================================
