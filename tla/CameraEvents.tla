---------------------------- MODULE CameraEvents ----------------------------
(***************************************************************************)
(* The events of Canon EOS cameras (src/src/ptp.c, src/src/ptp-pack.c): an *)
(* answer to GetEvent is a row of records, which ptp_unpack_EOS_events     *)
(* reads twice, to count them and to make events of them.  On the way it   *)
(* fills canon_props, all the library knows of the properties of such a    *)
(* camera.  Bytes are those of Datasets.  Of an object the handle, the     *)
(* parent and the name are modelled; a property stands for all whose value *)
(* is read as its value is.  The status of the camera is only an event:     *)
(* nothing reads params->eos_camerastatus.                                 *)
(***************************************************************************)
EXTENDS Values

VARIABLES
  news,        \* the records the camera has not sent yet
  canon,       \* params->canon_props
  events,      \* params->eos_events, the queue of ptp_get_one_eos_event
  checking,    \* whether ptp_check_eos_events asks for more
  told, due,   \* what canon and events ought to be
  within,      \* whether every answer so far made no more events than there was room for
  crowded      \* whether one had two masks without a field before their version was known

cameraVars == <<news, canon, events, checking, told, due, within, crowded>>

\* Bits of a byte.
Bits == CHOOSE b \in 1 .. Byte : 2 ^ b = Byte
Bit(n, i) == (n \div 2 ^ i) % 2 = 1
Total(ns) == FoldLeft(LAMBDA x, y : x + y, 0, ns)

\* How the value of a property is read: numbers, strings that end with a zero, a
\* byte after four others (func), and three encodings of their own.  An unknown one
\* is not read.
Kind == [ModelID |-> "u32", OLCInfoVersion |-> "u32", ISOSpeed |-> "u16", ShutterSpeed |-> "u16",
         Aperture |-> "u16", AEModeDial |-> "u16", MeteringMode |-> "u8", Owner |-> "str",
         CustomFunc1 |-> "func", ImageFormat |-> "image", CustomFuncEx |-> "funcs",
         FocusInfoEx |-> "focus", ShutterRelease |-> "u16", Unknown |-> "undef"]
Names == << "ModelID", "OLCInfoVersion", "ISOSpeed", "ShutterSpeed", "Aperture", "AEModeDial", "MeteringMode",
            "Owner", "CustomFunc1", "ImageFormat", "CustomFuncEx", "FocusInfoEx" >>
NameOf(c) == IF c \in DOMAIN Names THEN Names[c] ELSE "Unknown"
GetOnly == {"ModelID", "FocusInfoEx"}
\* DataType: the special kinds become numbers of 16 bits and strings.
TypeOf == [u32 |-> "u32", u16 |-> "u16", u8 |-> "u8", str |-> "str", func |-> "u8", image |-> "u16",
           funcs |-> "str", focus |-> "str", undef |-> "undef"]

EventCodes == << "ObjectContentChanged", "ObjectInfoChangedEx", "ObjectAddedEx", "ObjectAddedEx64",
                 "RequestObjectTransfer", "RequestObjectTransfer64LFN", "ObjectRemoved", "AvailListChanged",
                 "PropValueChanged", "OLCInfoChanged", "CameraStatusChanged", "BulbExposureTime" >>
EventOf(c) == IF c \in DOMAIN EventCodes THEN EventCodes[c] ELSE "Unknown"

-----------------------------------------------------------------------------
\* Values

\* strdup: up to a zero.
CString(d, at) ==
  LET from[i \in Nat] == IF At(d, i) \in {0, Byte} THEN << >> ELSE << At(d, i) >> \o from[i + 1]
  IN from[at + 1]

\* ptp_unpack_EOS_ImageFormat: one or two entries of a type, a size and a compression
\* become four digits of 16 values; sizes from 14 on move down by one, a raw image
\* has the bit 8 in its compression, and without a second entry both digits are 15.
\* room is what it takes for the rest of the record: it does not count all
\* of a second entry.
Digit(n) == n % 16
Shrunk(s) == IF s >= 14 THEN s - 1 ELSE s
Raw(t, c) == (c % 8) + (IF t = 6 \/ Bit(c, 3) THEN 8 ELSE 0)
UnpackImage(d, at, room) ==
  LET n == Number(d, at, 4)
      field(i) == Number(d, at + 4 * i, 4)
      second == n = 2 /\ (Shrunk(field(7)) # 0 \/ field(8) # 0 \/ field(6) = 6)
      fits == /\ room >= 20 /\ n \in {1, 2} /\ field(1) = 16
              /\ n = 2 => room >= 36 /\ field(5) = 16
  IN [ok |-> fits, at |-> at + 4 + 16 * n, room |-> room - (IF n = 2 THEN 24 ELSE 20),
      v |-> IF ~fits THEN 0
            ELSE Digit(Shrunk(field(3))) * 4096 + Raw(field(2), field(4)) * 256
                   + (IF second THEN Digit(Shrunk(field(7))) * 16 + Raw(field(6), field(8)) ELSE 255)]
\* ptp_pack_EOS_ImageFormat
Grown(s) == IF s >= 13 THEN s + 1 ELSE s
PackEntry(size, comp) == FlattenSeq(<< Little(16, 4), Little(IF comp >= 8 THEN 6 ELSE 1, 4),
                                       Little(Grown(size), 4), Little(comp % 8, 4) >>)
PackImage(v) ==
  LET second == v % 256
      entry(two) == PackEntry(two \div 16, two % 16)
  IN Little(IF second = 255 THEN 1 ELSE 2, 4) \o entry(v \div 256)
       \o (IF second = 255 THEN << >> ELSE entry(second))

\* ptp_unpack_EOS_FocusInfoEx: the points that are selected, each with four numbers.
UnpackFocus(d, at, room) ==
  LET size == Number(d, at, 4)
      points == Number(d, at + 8, 2)
      used == Number(d, at + 10, 2)
      number(k, i) == Number(d, at + 20 + 2 * (k * points + i), 2)
      selected(i) == Bit(At(d, at + 8 * points + 20 + (i \div Bits) + 1), i % Bits)
      chosen == SelectSeq([i \in 1 .. used |-> i - 1], selected)
  IN IF room < 4 \/ size > room \/ size < 20 \/ points = 0 \/ used = 0 \/ size < points * 8 \/ used > points
        \/ 20 + points * 8 + ((points + Bits - 1) \div Bits) > size
     THEN << >>
     ELSE [j \in DOMAIN chosen |-> [k \in 1 .. 4 |-> number(<< 2, 3, 1, 0 >>[k], chosen[j])]]

\* ptp_unpack_EOS_CustomFuncEx: the numbers begin with the size.
UnpackFuncs(d, at, room) ==
  LET s == Number(d, at, 4)
  IN IF room < 4 \/ room < 4 + s THEN << >> ELSE [i \in 1 .. s \div 4 |-> Number(d, at + 4 * (i - 1), 4)]

\* Nothing checks that the record holds the number it is to be read.
ValueAt(d, at, room, kind) ==
  CASE kind \in {"u32", "u16", "u8"} -> Number(d, at, Width[kind])
    [] kind = "func" -> Number(d, at + 4, 1)
    [] kind = "str" -> CString(d, at)
    [] kind = "image" -> UnpackImage(d, at, room).v
    [] kind = "funcs" -> UnpackFuncs(d, at, room)
    [] kind = "focus" -> UnpackFocus(d, at, room)

-----------------------------------------------------------------------------
\* canon_props

Fresh(p) == [prop |-> p, type |-> "undef", GetSet |-> TRUE, default |-> 0, cur |-> 0, flag |-> None, values |-> << >>]
Find(props, p) == {i \in DOMAIN props : props[i].prop = p}
\* ptp_find_eos_devicepropdesc and _lookup_or_allocate_canon_prop
Known(props, p) == Find(props, p) # {}
Entry(props, p) == IF Known(props, p) THEN props[CHOOSE i \in Find(props, p) : TRUE] ELSE Fresh(p)
Put(props, e) ==
  IF Known(props, e.prop) THEN [i \in DOMAIN props |-> IF props[i].prop = e.prop THEN e ELSE props[i]]
  ELSE Append(props, e)

\* PropValueChanged
Unchosen(p, e) == IF p = "AEModeDial" THEN [e EXCEPT !.flag = Enum, !.values = << >>] ELSE e
WithValue(e, v) == [e EXCEPT !.type = TypeOf[Kind[e.prop]], !.default = v, !.cur = v]
SetValue(props, d, at, size) ==
  LET p == NameOf(Number(d, at + 8, 4))
      e == [Unchosen(p, Entry(props, p)) EXCEPT !.GetSet = p \notin GetOnly]
  IN IF size < 12 THEN props
     ELSE Put(props, IF Kind[p] = "undef" THEN e
                     ELSE WithValue(e, ValueAt(d, at + 12, size - 12, Kind[p])))

\* AvailListChanged: a list of numbers of four bytes each, for a property that is
\* known already; a list that does not fit is one of zeros.
ListOf(d, at, room, kind, n) ==
  CASE kind = "image" ->
         LET from[i \in 1 .. n + 1, a \in Nat, r \in Int] ==
               LET one == UnpackImage(d, a, r)
               IN IF i > n THEN << >> ELSE IF ~one.ok THEN Zeros(n + 1 - i) ELSE << one.v >> \o from[i + 1, one.at, one.room]
         IN from[1, at, room]
    [] kind \in {"u8", "u16", "u32"} ->
         IF Width[kind] * n > room THEN Zeros(n)
         ELSE [i \in 1 .. n |-> Number(d, at + 4 * (i - 1), Width[kind])]
    [] OTHER -> << >>
SetList(props, d, at, size) ==
  LET p == NameOf(Number(d, at + 8, 4))
      n == Number(d, at + 16, 4)
      kind == IF Kind[p] = "image" THEN "image" ELSE Entry(props, p).type
  IN IF size < 20 \/ Number(d, at + 12, 4) # 3 \/ ~Known(props, p) \/ n = 0 THEN props
     ELSE Put(props, [Entry(props, p) EXCEPT !.flag = Enum, !.values = ListOf(d, at + 20, size - 20, kind, n)])

-----------------------------------------------------------------------------
\* OLCInfoChanged: the fields whose bits are set in a mask, one after the other;
\* their sizes depend on a version, which is a property of its own.  Of the 13 fields
\* the first three are modelled (button, shutter speed, aperture), and of the
\* bits of the mask, which has more of them than there are fields, four.
OlcFields == << "Button", "ShutterSpeed", "Aperture" >>
MaskBits == 0 .. 3
OlcSizes(version) ==
  CASE version < 7 -> << 0, 0, 0 >>
    [] version \in 7 .. 14 -> << 2, 6, 5 >>
    [] version \in 15 .. 17 -> << 2, 7, 6 >>
    [] version \in 18 .. 19 -> << 2, 7, 9 >>
    [] OTHER -> << 2, 9, 9 >>
OlcOffset(field, version) ==
  IF field = "ShutterSpeed" THEN IF version >= 20 THEN 7 ELSE 5
                            ELSE IF version >= 18 THEN 7 ELSE 4
Mask(d, at) == {b \in MaskBits : Bit(Number(d, at + 12, 2), b)}
Unknown == << "Unknown" >>
Changed(p) == << "PropertyChanged", p >>

\* What a record adds to canon_props and to the events.
Also(st, props, es) == [st EXCEPT !.canon = props, !.events = @ \o es]

\* One field, which begins at an offset from at on.
ReadOlc(st, d, at, field, version) ==
  IF field = "Button" THEN Also(st, st.canon, << Unknown >>)
  ELSE Also(st, Put(st.canon, [Entry(st.canon, field) EXCEPT !.cur = Number(d, at + OlcOffset(field, version), 1)]),
            << Changed(field) >>)
\* Mutant: a field that is not in the mask takes its room all the same.
Room_Always(mask, j, size) == size
Room(mask, j, size) == IF j - 1 \in mask THEN size ELSE 0
ReadFields(st, d, at, size, version) ==
  LET mask == Mask(d, at)
      sizes == OlcSizes(version)
      step(acc, j) ==
        LET next == acc.off + Room(mask, j, sizes[j])
        IN IF acc.off > size \/ j - 1 \notin mask THEN [acc EXCEPT !.off = next]
           ELSE [st |-> ReadOlc(acc.st, d, at + acc.off, OlcFields[j], version), off |-> next]
  IN FoldLeft(step, [st |-> st, off |-> 16], << 1, 2, 3 >>).st
\* Without a version there is nothing to read, and the event says so.
OLCInfoChanged(st, d, at, size) ==
  LET props == Put(st.canon, Entry(st.canon, "OLCInfoVersion"))
      version == Entry(props, "OLCInfoVersion").cur
      len == Number(d, at + 8, 4)
  IN IF version = 0 \/ size < 14 \/ (len # size - 8 /\ len # size - 4) THEN Also(st, props, << Unknown >>)
     ELSE ReadFields([st EXCEPT !.canon = props], d, at, size, version)

\* The records about an object: the least size, and where the parent and the name
\* are, if they are sent.
ObjectEvents == [ObjectContentChanged |-> [least |-> 9, parent |-> 0, name |-> 0],
                 ObjectInfoChangedEx |-> [least |-> 41, parent |-> 32, name |-> 40],
                 ObjectAddedEx |-> [least |-> 41, parent |-> 32, name |-> 40],
                 ObjectAddedEx64 |-> [least |-> 45, parent |-> 36, name |-> 44],
                 RequestObjectTransfer |-> [least |-> 29, parent |-> 0, name |-> 28],
                 RequestObjectTransfer64LFN |-> [least |-> 37, parent |-> 29, name |-> 0],
                 ObjectRemoved |-> [least |-> 8, parent |-> 0, name |-> 0]]
Type == [ObjectContentChanged |-> "ObjectContentChanged", ObjectInfoChangedEx |-> "ObjectInfoChanged",
         ObjectAddedEx |-> "ObjectAdded", ObjectAddedEx64 |-> "ObjectAdded",
         RequestObjectTransfer |-> "ObjectTransfer", RequestObjectTransfer64LFN |-> "ObjectTransfer",
         ObjectRemoved |-> "ObjectRemoved"]
ReadObject(d, at, size, event) ==
  LET l == ObjectEvents[event]
  IN IF size < l.least THEN Unknown
     ELSE << Type[event], Number(d, at + 8, 4),
             IF l.parent = 0 THEN 0 ELSE Number(d, at + l.parent, 4),
             IF l.name = 0 THEN << >> ELSE CString(d, at + l.name) >>

ReadRecord(st, d, r) ==
  LET event == EventOf(r.code)
  IN CASE event \in DOMAIN ObjectEvents -> Also(st, st.canon, << ReadObject(d, r.at, r.size, event) >>)
       [] event = "PropValueChanged" ->
            Also(st, SetValue(st.canon, d, r.at, r.size),
                 << IF r.size < 12 THEN Unknown ELSE Changed(NameOf(Number(d, r.at + 8, 4))) >>)
       [] event = "AvailListChanged" -> Also(st, SetList(st.canon, d, r.at, r.size), << Unknown >>)
       [] event = "OLCInfoChanged" -> OLCInfoChanged(st, d, r.at, r.size)
       [] event = "CameraStatusChanged" -> Also(st, st.canon, << << "CameraStatus", Number(d, r.at + 8, 4) >> >>)
       [] OTHER -> Also(st, st.canon, << Unknown >>)

-----------------------------------------------------------------------------
\* ptp_unpack_EOS_events

\* The records both passes find: the last one is followed by something.
Records(d) ==
  LET from[at \in Nat] ==
        LET size == Number(d, at, 4)
            code == Number(d, at + 4, 4)
        IN IF \/ at + 8 >= Len(d) \/ size > Len(d) \/ size < 8 \/ (size = 8 /\ code = 0) \/ at + size >= Len(d)
           THEN << >>
           ELSE << [at |-> at, size |-> size, code |-> code] >> \o from[at + size]
  IN from[0]
\* The events the first pass counts for a record.
Count(d, r) == IF EventOf(r.code) = "OLCInfoChanged" /\ r.size >= 14 THEN Cardinality(Mask(d, r.at)) ELSE 1
Counted(d) == FoldLeft(LAMBDA n, r : n + Count(d, r), 0, Records(d))
\* The room of the array: one event more.
Slots(d) == Counted(d) + 1
\* The second pass ends when it has more events than were counted and there is more to
\* read.  Events it makes beyond the room it has are written behind the array.
Unpacked(props, d) ==
  LET counted == Counted(d)
      step(st, r) == IF Len(st.events) > counted THEN st ELSE ReadRecord(st, d, r)
  IN FoldLeft(step, [canon |-> props, events |-> << >>], Records(d))

-----------------------------------------------------------------------------
\* The camera.  A record is [event, ...]; a field of an OLCInfoChanged has a value.
Terminator == Little(8, 4) \o Zeros(4)
Code(e) == IF e \in Range(EventCodes) THEN CHOOSE i \in DOMAIN EventCodes : EventCodes[i] = e ELSE 60
PropCode(p) == IF p = "Unknown" THEN 50 ELSE CHOOSE i \in DOMAIN Names : Names[i] = p
Padded(b, n) == b \o Zeros(n - Len(b))
PackPoints(f) ==
  LET n == Len(f)
      column(k) == FlattenSeq([i \in 1 .. n |-> Little(f[i][<< 4, 3, 1, 2 >>[k]], 2)])
      selected(j) == {i \in 1 .. n : (i - 1) \div Bits = j /\ f[i][5] = 1}
      byte(j) == Total([i \in 1 .. n |-> IF i \in selected(j) THEN 2 ^ ((i - 1) % Bits) ELSE 0])
      body == Zeros(4) \o Little(n, 2) \o Little(n, 2) \o Zeros(8)
                \o FlattenSeq([k \in 1 .. 4 |-> column(k)])
                \o [j \in 1 .. (n + Bits - 1) \div Bits |-> byte(j - 1)]
  IN Little(4 + Len(body), 4) \o body
CameraValue(v, kind) ==
  CASE kind \in {"u32", "u16", "u8"} -> Padded(Little(v, Width[kind]), 4)
    [] kind = "func" -> Little(5, 4) \o << v >>
    [] kind = "str" -> v \o << 0 >>
    [] kind = "image" -> Little(Len(v), 4) \o FlattenSeq([i \in DOMAIN v |-> FlattenSeq(<<
                           Little(16, 4), Little(v[i][1], 4), Little(v[i][2], 4), Little(v[i][3], 4) >>)])
    [] kind = "funcs" -> FlattenSeq([i \in DOMAIN v |-> Little(v[i], 4)])
    [] kind = "focus" -> PackPoints(v)
    [] OTHER -> Zeros(4)
PackOlcField(field, v, version) ==
  LET size == OlcSizes(version)[CHOOSE j \in 1 .. 3 : OlcFields[j] = field]
      place == IF field = "Button" THEN 0 ELSE OlcOffset(field, version)
  IN [i \in 1 .. size |-> IF i = place + 1 THEN v ELSE 1]
MaskOf(r) == (IF r.more THEN 8 ELSE 0)
               + Total([j \in 1 .. 3 |-> IF OlcFields[j] \in DOMAIN r.fields THEN 2 ^ (j - 1) ELSE 0])
PackOlc(r) ==
  LET present == SelectSeq(OlcFields, LAMBDA f : f \in DOMAIN r.fields)
      body == Little(MaskOf(r), 2) \o Zeros(2)
                \o FlattenSeq([i \in DOMAIN present |-> PackOlcField(present[i], r.fields[present[i]], r.version)])
                \o (IF r.more THEN << 1, 1, 1 >> ELSE << >>)
  IN Little(4 + Len(body), 4) \o body
PackObject(r) ==
  LET l == ObjectEvents[r.event]
      size == IF l.name # 0 THEN l.name - 8 ELSE IF l.parent # 0 THEN l.parent - 4 ELSE 4
      head == [i \in 1 .. size |-> IF i <= 4 THEN Little(r.h, 4)[i]
                                   ELSE IF l.parent # 0 /\ i + 8 \in l.parent + 1 .. l.parent + 4
                                     THEN Little(r.parent, 4)[i + 8 - l.parent] ELSE 1]
  IN head \o (IF l.name # 0 THEN r.name \o << 0 >> ELSE Zeros(4))
Body(r) ==
  CASE r.event \in DOMAIN ObjectEvents -> PackObject(r)
    [] r.event = "PropValueChanged" -> Little(PropCode(r.prop), 4) \o CameraValue(r.v, Kind[r.prop])
    [] r.event = "AvailListChanged" ->
         Little(PropCode(r.prop), 4) \o Little(3, 4) \o Little(Len(r.vs), 4)
           \o FlattenSeq([i \in DOMAIN r.vs |-> CameraValue(r.vs[i], Kind[r.prop])])
    [] r.event = "OLCInfoChanged" -> PackOlc(r)
    [] OTHER -> Little(r.v, 4)
PackRecord(r) == Little(8 + Len(Body(r)), 4) \o Little(Code(r.event), 4) \o Body(r)
Answer(rs) == FlattenSeq([i \in DOMAIN rs |-> PackRecord(rs[i])]) \o Terminator

-----------------------------------------------------------------------------
CameraInit == news \in scene.streams /\ canon = << >> /\ events = << >> /\ checking = FALSE
              /\ told = << >> /\ due = << >> /\ within = TRUE /\ crowded = FALSE

\* What a record that arrives whole tells of the properties of the camera, and the
\* events it makes.  The choices of AEModeDial are never told; a list is of use only
\* for a property whose numbers are known, a mask only once its version is.
Listed(p) == Kind[p] \in {"u32", "u16", "u8", "image"}
ListTold(t, p) == IF p \in DOMAIN t THEN t[p].values ELSE << >>
Versioned(t) == "OLCInfoVersion" \in DOMAIN t /\ t["OLCInfoVersion"].cur # 0
Fields(t, r) == IF Versioned(t)
                THEN SelectSeq(OlcFields, LAMBDA f : f \in DOMAIN r.fields) ELSE << >>
Tells(t, r) ==
  CASE r.event = "PropValueChanged" /\ r.prop # "Unknown" ->
         (r.prop :> [cur |-> r.means, sent |-> r.v,
                      values |-> IF r.prop = "AEModeDial" THEN << >> ELSE ListTold(t, r.prop)]) @@ t
    [] r.event = "AvailListChanged" /\ r.prop \in DOMAIN t /\ Listed(r.prop) /\ r.vs # << >> ->
         [t EXCEPT ![r.prop].values = r.mean]
    [] r.event = "OLCInfoChanged" ->
         [f \in Range(Fields(t, r)) \ {"Button"} |->
            [cur |-> r.fields[f], sent |-> r.fields[f], values |-> ListTold(t, f)]] @@ t
    [] OTHER -> t
EventsOf(t, r) ==
  CASE r.event \in DOMAIN ObjectEvents ->
         LET l == ObjectEvents[r.event]
         IN << << Type[r.event], r.h, IF l.parent # 0 THEN r.parent ELSE 0, IF l.name # 0 THEN r.name ELSE << >> >> >>
    [] r.event = "PropValueChanged" -> << Changed(r.prop) >>
    [] r.event = "CameraStatusChanged" -> << << "CameraStatus", r.v >> >>
    [] r.event = "OLCInfoChanged" /\ Versioned(t) ->
         [i \in DOMAIN Fields(t, r) |-> IF Fields(t, r)[i] = "Button" THEN Unknown ELSE Changed(Fields(t, r)[i])]
    [] OTHER -> << Unknown >>
\* A mask without a field is counted as no event and makes one without its version.
Uncounted(t, r) == r.event = "OLCInfoChanged" /\ MaskOf(r) = 0 /\ ~Versioned(t)
After(st, r) == [told |-> Tells(st.told, r), due |-> st.due \o EventsOf(st.told, r),
                 uncounted |-> st.uncounted + (IF Uncounted(st.told, r) THEN 1 ELSE 0)]
\* Of the records that are whole in the first n bytes.
Heard(n) ==
  LET ends(i) == Len(FlattenSeq([j \in 1 .. i |-> PackRecord(news[j])])) < n
      whole == SelectSeq([i \in DOMAIN news |-> i], ends)
  IN FoldLeft(After, [told |-> told, due |-> due, uncounted |-> 0], SubSeq(news, 1, Len(whole)))

\* ptp_check_eos_events asks for events until an answer has none.  The camera sends
\* as many of its records as it likes; the answer may be cut short.
CheckEosEvents ==
  /\ ~checking /\ calls < scene.calls /\ checking' = TRUE /\ calls' = calls + 1
  /\ UNCHANGED <<scene, ocs64, seen, result, news, canon, events, told, due, within, crowded>>
GetEosEvents ==
  \E k \in (IF scene.cuts THEN {Len(news)} ELSE 0 .. Len(news)) :
    \E sent \in {Answer(SubSeq(news, 1, k))} :
      \E n \in (IF scene.cuts THEN 8 .. Len(sent) ELSE {Len(sent)}) :
        \E read \in {Unpacked(canon, SubSeq(sent, 1, n))}, after \in {Heard(n)} :
          /\ checking
          /\ news' = SubSeq(news, k + 1, Len(news))
          /\ canon' = read.canon /\ events' = events \o read.events
          /\ checking' = (read.events # << >>)
          /\ told' = after.told /\ due' = after.due
          /\ within' = (within /\ Len(read.events) <= Slots(SubSeq(sent, 1, n)))
          /\ crowded' = (crowded \/ after.uncounted > 1)
          /\ UNCHANGED <<scene, ocs64, seen, result, calls>>
\* ptp_get_one_eos_event
GetOneEosEvent ==
  /\ ~checking /\ events # << >>
  /\ events' = Tail(events) /\ due' = Tail(due)
  /\ UNCHANGED <<scene, ocs64, seen, result, calls, news, canon, checking, told, within, crowded>>

CameraNext == \/ (Next \/ UpdateNumber \/ GetAllowed) /\ ~checking /\ UNCHANGED cameraVars
              \/ CheckEosEvents \/ GetEosEvents \/ GetOneEosEvent

-----------------------------------------------------------------------------
\* Whatever the camera reports, in whatever pieces and cut wherever, canon_props has
\* the last values and the last lists of values that arrived whole, each property
\* once, and the queue has one event for every record or every field of one, in
\* their order, all of them in the room the first pass made for them; the events of
\* ptp_get_one_eos_event are these.  What ptp_canon_eos_setdevicepropvalue sends back for
\* an image format is what the camera sent, byte by byte.  The room has one slot to spare,
\* and one answer may need it: nothing is claimed once an answer had two masks without a
\* field while their version was unknown, which the first pass does not count and the
\* second makes an event of.  Then it drops the records that are left, or runs over.
AsReported ==
  crowded \/
  /\ within
  /\ events = due
  /\ {canon[i].prop : i \in DOMAIN canon} \ {"Unknown"} \subseteq DOMAIN told \cup {"OLCInfoVersion"}
  /\ \A p \in DOMAIN told : LET e == Entry(canon, p)
                            IN Known(canon, p) /\ e.cur = told[p].cur /\ e.values = told[p].values
  /\ \A i, j \in DOMAIN canon : canon[i].prop = canon[j].prop => i = j
  /\ "ImageFormat" \in DOMAIN told =>
       PackImage(told["ImageFormat"].cur) = CameraValue(told["ImageFormat"].sent, "image")
=============================================================================
