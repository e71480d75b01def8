------------------------------ MODULE Datasets ------------------------------
(***************************************************************************)
(* The datasets of PTP as they are read and written by src/src/ptp-pack.c: *)
(* ObjectInfo in its two layouts, ObjectPropList, DeviceInfo, StorageInfo  *)
(* and the descriptions of properties, from answers that may be cut short  *)
(* anywhere, and what get_all_metadata_fast (src/src/libmtp.c) makes of a  *)
(* property list. A dataset is a sequence of bytes; a byte has Byte        *)
(* values, so that numbers of four bytes stay small and still wrap.        *)
(***************************************************************************)
EXTENDS Integers, Sequences, FiniteSets, SequencesExt

CONSTANTS Byte,        \* the number of values of a byte
          Scenarios    \* see ScenarioAssumption

\* size: of the object size in an ObjectInfo of the device, in bytes; infos, numbers,
\* lists, devices, storages, descs: what it may answer; calls: a bound.
ASSUME ScenarioAssumption ==
  \A sc \in Scenarios : sc.size \in {4, 8} /\ sc.calls \in Nat
ASSUME ByteAssumption == Byte \in Nat /\ Byte >= 2

VARIABLES
  scene,       \* which of Scenarios it is
  ocs64,       \* params->ocs64, the object sizes of this device have 64 bits
  seen,        \* whether an ObjectInfo of the device was read
  result,      \* the last call: what was sent, and what was made of it
  calls        \* how many there were

vars == <<scene, ocs64, seen, result, calls>>

Most == Byte ^ 4
Half == Most \div 2
Zeros(n) == [i \in 1 .. n |-> 0]
Little(n, width) == [i \in 1 .. width |-> (n \div Byte ^ (i - 1)) % Byte]
\* Past the end of the buffer there is no byte.
At(d, i) == IF i \in DOMAIN d THEN d[i] ELSE Byte
Number(d, at, width) ==
  LET from[i \in 1 .. width + 1] == IF i > width THEN 0 ELSE At(d, at + i) + Byte * from[i + 1]
  IN from[1]

Width == [u8 |-> 1, u16 |-> 2, u32 |-> 4, u64 |-> 8, u128 |-> 16]
Arrays == [au16 |-> 2, au32 |-> 4]
\* The data types by their codes; the last one is a type the code does not know.
Types == <<"u8", "u16", "u32", "u64", "u128", "au16", "au32", "str", "other">>
CodeOf(t) == CHOOSE i \in DOMAIN Types : Types[i] = t

-----------------------------------------------------------------------------
\* Writing

\* ptp_pack_string: the length counts a final zero, which the empty string has too.
PackString(s) == << Len(s) + 1 >> \o FlattenSeq([i \in DOMAIN s |-> << s[i], 0 >>]) \o << 0, 0 >>
\* ptp_pack_uint32_t_array, and the arrays of ptp_pack_DPV
PackArray(a, width) == Little(Len(a), 4) \o FlattenSeq([i \in DOMAIN a |-> Little(a[i], width)])
Pack(v, t) == IF t \in DOMAIN Width THEN Little(v, Width[t])
              ELSE IF t \in DOMAIN Arrays THEN PackArray(v, Arrays[t])
              ELSE IF t = "str" THEN PackString(v) ELSE Little(v, 1)
PackItem(p) == Little(p.h, 4) \o Little(p.code, 2) \o Little(CodeOf(p.type), 2) \o Pack(p.v, p.type)
PackList(ps) == Little(Len(ps), 4) \o FlattenSeq([i \in DOMAIN ps |-> PackItem(ps[i])])
PackFields(vs, ts) == FlattenSeq([i \in DOMAIN ts |-> Pack(vs[i], ts[i])])

\* ptp_pack_OI.
Extra == IF ocs64 THEN 4 ELSE 0
PackInfo(o) == Zeros(8) \o Little(o.size, 4) \o Zeros(Extra) \o Zeros(36) \o Little(o.seq, 4)
                 \o PackString(o.name) \o Zeros(3)

-----------------------------------------------------------------------------
\* Reading.  at is the offset of the first byte to read.

CutOff(at) == [ok |-> FALSE, v |-> << >>, at |-> at]
Short == CutOff(0)
Is(v, at) == [ok |-> TRUE, v |-> v, at |-> at]

\* ptp_unpack_string: up to a zero character.  When its characters do not fit, the
\* offset is behind the length all the same.
Chars(d, at, n) == LET s == [i \in 1 .. n |-> At(d, at + 2 * i - 1)]
                   IN SelectSeq(s, LAMBDA c : c # 0)
UnpackString(d, at) ==
  LET n == At(d, at + 1)
  IN IF at + 1 > Len(d) THEN CutOff(at)
     ELSE IF n # 0 /\ at + 1 + 2 * n > Len(d) THEN CutOff(at + 1)
     ELSE Is(Chars(d, at + 1, n), at + 1 + 2 * n)

\* RARR, ptp_unpack_uint16_t_array and ptp_unpack_uint32_t_array.
\* Mutant: elements are compared with bytes.
Holds_Elements(room, n, width) == n <= room
Holds(room, n, width) == n <= room \div width
UnpackArray(d, at, width) ==
  LET n == Number(d, at, 4)
  IN IF Len(d) - at < 4 THEN Short
     ELSE IF ~Holds(Len(d) - at - 4, n, width) THEN Short
     ELSE Is([i \in 1 .. n |-> Number(d, at + 4 + width * (i - 1), width)], at + 4 + width * n)

\* ptp_unpack_DPV; a number of 128 bits is skipped.
Unpack(d, at, t) ==
  IF at >= Len(d) \/ t = "other" THEN Short
  ELSE IF t \in DOMAIN Width
    THEN IF Len(d) - at < Width[t] THEN Short
         ELSE Is(IF t = "u128" THEN 0 ELSE Number(d, at, Width[t]), at + Width[t])
  ELSE IF t \in DOMAIN Arrays THEN UnpackArray(d, at, Arrays[t])
  ELSE UnpackString(d, at)

\* ptp_unpack_OPL, before the properties are sorted: it ends where one does not fit.
UnpackList(d) ==
  LET count == Number(d, 0, 4)
      type(at) == LET c == Number(d, at + 6, 2) IN IF c \in DOMAIN Types THEN Types[c] ELSE "other"
      from[i \in 1 .. count + 1, at \in Nat] ==
        IF i > count \/ Len(d) <= at + 8 THEN << >>
        ELSE LET value == Unpack(d, at + 8, type(at))
             IN IF ~value.ok THEN << >>
                ELSE << [h |-> Number(d, at, 4), code |-> Number(d, at + 4, 2), type |-> type(at),
                         v |-> value.v] >> \o from[i + 1, value.at]
  IN IF Len(d) < 4 THEN << >> ELSE from[1, 4]

\* Fields one after the other: the values of those before the first that does
\* not fit, and where they end.
UnpackFields(d, first, ts) ==
  LET from[i \in 1 .. Len(ts) + 1, at \in Nat] ==
        LET value == Unpack(d, at, ts[i])
        IN IF i > Len(ts) \/ ~value.ok THEN [vs |-> << >>, at |-> at]
           ELSE [from[i + 1, value.at] EXCEPT !.vs = << value.v >> \o @]
  IN from[1, first]

\* ptp_unpack_DI, after 8 bytes: the first fields must be there.  Each of the last four
\* strings is tried where the one before left the offset, inside that one if it was cut;
\* << >> is one that was not read.
DeviceFields == <<"str", "u16", "au16", "au16", "au16", "au16", "au16">>
DeviceStrings == <<"str", "str", "str", "str">>
UnpackStrings(d, first) ==
  LET from[i \in 1 .. Len(DeviceStrings) + 1, at \in Nat] ==
        LET one == UnpackString(d, at)
        IN IF i > Len(DeviceStrings) THEN << >>
           ELSE << IF one.ok THEN << one.v >> ELSE << >> >> \o from[i + 1, one.at]
  IN from[1, first]
UnpackDevice(d) ==
  LET fields == UnpackFields(d, 8, DeviceFields)
  IN IF Len(d) < 12 \/ Len(fields.vs) < Len(DeviceFields) THEN Short
     ELSE Is([fields |-> fields.vs, strings |-> UnpackStrings(d, fields.at)], 0)
\* ptp_unpack_SI, after 26 bytes.
StorageFields == <<"str", "str">>
UnpackStorage(d) ==
  LET fields == UnpackFields(d, 26, StorageFields)
  IN IF Len(d) < 26 \/ Len(fields.vs) < 2 THEN Short ELSE Is(fields.vs, fields.at)

\* ptp_unpack_DPD and ptp_unpack_OPD: what a property may be.  Its values end
\* with the dataset when their number is too high, as it is with its bytes swapped.
None == 0
Range3 == 1
Enum == 2
UnpackForm(d, at, flag, t) ==
  LET n == IF flag = Range3 THEN 3 ELSE Number(d, at, 2)
      values == UnpackFields(d, IF flag = Range3 THEN at ELSE at + 2, [i \in 1 .. n |-> t]).vs
  IN CASE flag = Range3 -> IF Len(values) < 3 THEN Short ELSE Is(values, 0)
       [] flag = Enum -> IF Len(d) - at < 2 \/ (n > 0 /\ values = << >>) THEN Short ELSE Is(values, 0)
       [] OTHER -> Is(<< >>, 0)
Description(fields, flag, form) == IF ~form.ok THEN Short ELSE Is(<< fields[1], flag, form.v >>, 0)
DataType(d) == LET c == Number(d, 2, 2) IN IF c \in DOMAIN Types THEN Types[c] ELSE "other"
UnpackDeviceProp(d) ==
  LET t == DataType(d)
      fields == UnpackFields(d, 5, << t, t, "u8" >>)
      n == Len(fields.vs)
  IN IF Len(d) <= 5 \/ n = 0 \/ (n = 1 /\ ~(t = "str" /\ fields.at = Len(d))) THEN Short
     ELSE IF n < 3 THEN Is(<< fields.vs[1], None, << >> >>, 0)
     ELSE Description(fields.vs, fields.vs[3], UnpackForm(d, fields.at, fields.vs[3], t))
UnpackObjectProp(d) ==
  LET t == DataType(d)
      fields == UnpackFields(d, 5, << t, "u32", "u8" >>)
  IN IF Len(d) < 5 \/ Len(fields.vs) < 3 THEN Short
     ELSE Description(fields.vs, fields.vs[3], UnpackForm(d, fields.at, fields.vs[3], t))

\* ptp_unpack_OI: an object size of 64 bits is recognised by the byte where the
\* length of the name would be and the one where it is then.  Mutant: it is not.
Wide_Never(d) == FALSE
Wide(d) == d[53] = 0 /\ d[57] # 0
UnpackInfo(d) ==
  LET shift == IF Wide(d) THEN 4 ELSE 0
  IN IF Len(d) < 57 THEN Short
     ELSE Is([size |-> Number(d, 8, 4), seq |-> Number(d, 48 + shift, 4),
              name |-> UnpackString(d, 52 + shift).v], Len(d))

-----------------------------------------------------------------------------
\* The list of all properties of all objects

\* _compare_func: the difference of two handles of 32 bits, as an int.
Compare(x, y) == ((x.h - y.h + Half) % Most) - Half
Orders(ps) == \A i, j, k \in DOMAIN ps : Compare(ps[i], ps[j]) <= 0 /\ Compare(ps[j], ps[k]) <= 0
                                          => Compare(ps[i], ps[k]) <= 0
Shuffled(ps) == {[i \in DOMAIN ps |-> ps[q[i]]] : q \in {f \in [DOMAIN ps -> DOMAIN ps] : IsInjective(f)}}
\* qsort need not be stable, and with a comparison that is not an order it may
\* return anything.
Qsort(ps) == {qs \in Shuffled(ps) :
                Orders(ps) => \A i \in 1 .. Len(ps) - 1 : Compare(qs[i], qs[i + 1]) <= 0}

\* get_all_metadata_fast: an object begins where the handle changes.
\* Mutant: lasthandle stays what it was first.
Begins_Once(ps) == {i \in DOMAIN ps : i = 1}
Begins(ps) == {i \in DOMAIN ps : i = 1 \/ ps[i].h # ps[i - 1].h}
Run(ps, i) == {j \in DOMAIN ps : j >= i /\ \A b \in Begins(ps) : b <= i \/ b > j}
Props(ps, js) == [c \in {ps[j].code : j \in js} |-> ps[CHOOSE j \in js : ps[j].code = c].v]
Objects(ps) == [i \in Begins(ps) |-> [h |-> ps[i].h, props |-> Props(ps, Run(ps, i))]]

-----------------------------------------------------------------------------
\* What a device sends.
DeviceString(s) == IF s = << >> THEN << 0 >> ELSE PackString(s)
DeviceInfo(o) == Zeros(8) \o Little(o.size, scene.size) \o Zeros(36) \o Little(o.seq, 4)
                   \o DeviceString(o.name) \o DeviceString(o.date) \o << 0, 0 >>
\* A description of a property; of a device it has two values before the form, of
\* an object a group.  Some devices swap the bytes of the number of values.
Swap(b) == << b[2], b[1] >>
DeviceForm(x) ==
  LET count == Little(Len(x.values), 2)
  IN (CASE x.flag = Enum -> IF x.swaps THEN Swap(count) ELSE count [] OTHER -> << >>)
       \o FlattenSeq([i \in DOMAIN x.values |-> Pack(x.values[i], x.type)])
DeviceDesc(x, of) ==
  Zeros(2) \o Little(CodeOf(x.type), 2) \o Zeros(1) \o Pack(x.default, x.type)
    \o (IF of = "deviceprop" THEN Pack(x.default, x.type) ELSE Zeros(4)) \o << x.flag >> \o DeviceForm(x)
\* An answer may be cut short.
Cut(d, n) == SubSeq(d, 1, n)

Init ==
  /\ scene \in Scenarios /\ ocs64 = FALSE /\ seen = FALSE /\ calls = 0
  /\ result = [op |-> "none", sent |-> << >>, of |-> << >>, read |-> << >>, made |-> << >>]
Made(op, sent, of, read, made) ==
  /\ calls < scene.calls /\ calls' = calls + 1
  /\ result' = [op |-> op, sent |-> sent, of |-> of, read |-> read, made |-> made]

\* ptp_getobjectinfo
GetObjectInfo ==
  \E o \in scene.infos :
    LET d == DeviceInfo(o)
    IN /\ Made("info", d, o, UnpackInfo(d), << >>)
       /\ ocs64' = (ocs64 \/ (Len(d) >= 57 /\ Wide(d))) /\ seen' = TRUE
       /\ UNCHANGED scene

\* ptp_sendobjectinfo
SendObjectInfo ==
  \E o \in scene.infos :
    /\ Made("send", PackInfo(o), o, << >>, << >>)
    /\ UNCHANGED <<scene, ocs64, seen>>

\* ptp_mtp_getobjectproplist in get_all_metadata_fast
GetObjectPropList ==
  \E ps \in scene.lists :
    LET d == PackList(ps)
    IN \E n \in 0 .. Len(d) :
         LET read == UnpackList(Cut(d, n))
         IN \E sorted \in Qsort(read) :
              /\ Made("list", Cut(d, n), ps, read, Objects(sorted))
              /\ UNCHANGED <<scene, ocs64, seen>>

\* ptp_getdeviceinfo and ptp_getstorageinfo
Read(op, d) == CASE op = "device" -> UnpackDevice(d)
                 [] op = "storage" -> UnpackStorage(d)
                 [] op = "deviceprop" -> UnpackDeviceProp(d)
                 [] OTHER -> UnpackObjectProp(d)
GetFields(op, all, size, fields) ==
  \E vs \in all :
    LET d == Zeros(size) \o PackFields(vs, fields)
    IN \E n \in 0 .. Len(d) :
         /\ Made(op, Cut(d, n), vs, Read(op, Cut(d, n)), << >>)
         /\ UNCHANGED <<scene, ocs64, seen>>
GetDeviceInfo == GetFields("device", scene.devices, 8, DeviceFields \o DeviceStrings)
GetStorageInfo == GetFields("storage", scene.storages, 26, StorageFields)

\* ptp_getdevicepropdesc and ptp_mtp_getobjectpropdesc
GetDesc(op) ==
  \E x \in scene.descs :
    LET d == DeviceDesc(x, op)
    IN \E n \in 0 .. Len(d) :
         /\ Made(op, Cut(d, n), x, Read(op, Cut(d, n)), << >>)
         /\ UNCHANGED <<scene, ocs64, seen>>
GetDevicePropDesc == GetDesc("deviceprop")
GetObjectPropDesc == GetDesc("objectprop")

Next == \/ GetObjectInfo \/ SendObjectInfo \/ GetObjectPropList
        \/ GetDeviceInfo \/ GetStorageInfo \/ GetDevicePropDesc \/ GetObjectPropDesc
Spec == Init /\ [][Next]_vars

-----------------------------------------------------------------------------
\* Of an answer that was cut short the parts that arrived whole are read, and a dataset
\* that misses a part it cannot do without is refused (ptp_unpack_OPL, ptp_unpack_DI,
\* ptp_unpack_SI).  A property list and a StorageInfo give nothing else.  Of a DeviceInfo
\* the string that was cut is not read, and no other behind it if the answer ends between
\* two strings; if it ends inside one, those behind it are read from what is left of it,
\* and the property does not say what they are.  A description may lose its form or
\* its last values, and gets no others (ptp_unpack_DPD, ptp_unpack_OPD).
Whole(parts, n) ==
  LET ends(i) == Len(FlattenSeq(SubSeq(parts, 1, i))) <= n
  IN {i \in DOMAIN parts : ends(i)}
FieldParts(vs, ts) == [i \in DOMAIN ts |-> Pack(vs[i], ts[i])]
ReadsWhole ==
  LET n == Len(result.sent)
      whole(size, ts) == Cardinality(Whole(FieldParts(result.of, ts), n - size))
  IN /\ result.op = "list" =>
          result.read = LET arrived == Whole([i \in DOMAIN result.of |-> PackItem(result.of[i])], n - 4)
                            known == {i \in arrived : \A j \in 1 .. i : result.of[j].type # "other"}
                        IN SubSeq(result.of, 1, Cardinality(known))
     /\ result.op = "device" =>
          LET fields == Len(DeviceFields)
              all == FieldParts(result.of, DeviceFields \o DeviceStrings)
              arrived == whole(8, DeviceFields \o DeviceStrings)
              between == Len(FlattenSeq(SubSeq(all, 1, arrived))) = n - 8
          IN /\ result.read.ok <=> arrived >= fields
             /\ result.read.ok =>
                  /\ result.read.v.fields = SubSeq(result.of, 1, fields)
                  /\ \A i \in DOMAIN DeviceStrings :
                       /\ fields + i <= arrived => result.read.v.strings[i] = << result.of[fields + i] >>
                       /\ fields + i = arrived + 1 \/ (between /\ fields + i > arrived) =>
                            result.read.v.strings[i] = << >>
     /\ result.op = "storage" =>
          /\ result.read.ok <=> whole(26, StorageFields) = 2
          /\ result.read.ok => result.read.v = result.of
     /\ result.op \in {"deviceprop", "objectprop"} =>
          /\ result.read.ok =>
               /\ result.read.v[1] = result.of.default
               /\ result.read.v[2] = result.of.flag \/ (result.op = "deviceprop" /\ result.read.v[2] = None)
               /\ IsPrefix(result.read.v[3], result.of.values)
          /\ result.sent = DeviceDesc(result.of, result.op) =>
               result.read.ok /\ result.read.v = << result.of.default, result.of.flag, result.of.values >>

\* The list makes one object of every handle, with all its properties and none
\* of another's, in whatever order the device lists them, as long as all
\* handles are less than half of their range apart.
OnePerHandle ==
  result.op = "list" /\ Orders(result.read) =>
    LET handles == {result.read[i].h : i \in DOMAIN result.read}
        props(h) == Props(result.read, {i \in DOMAIN result.read : result.read[i].h = h})
    IN /\ Cardinality(DOMAIN result.made) = Cardinality(handles)
       /\ {result.made[i] : i \in DOMAIN result.made} = {[h |-> h, props |-> props(h)] : h \in handles}

\* The ObjectInfo of a device is read in either layout, and once one was read
\* what is sent to the device has its layout: the device finds the name, and
\* after it the three empty strings that end the dataset.
Layout ==
  /\ result.op = "info" /\ result.read.ok =>
       result.read.v = [size |-> result.of.size % Most, seq |-> result.of.seq, name |-> result.of.name]
  /\ result.op = "send" /\ (scene.size = 4 \/ seen) =>
       LET name == UnpackString(result.sent, 48 + scene.size)
       IN /\ name.ok /\ name.v = result.of.name
          /\ Number(result.sent, 8, scene.size) = result.of.size
          /\ SubSeq(result.sent, name.at + 1, Len(result.sent)) = Zeros(3)
=============================================================================
