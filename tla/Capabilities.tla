----------------------------- MODULE Capabilities -----------------------------
(***************************************************************************)
(* What LIBMTP_Open_Raw_Device_Uncached finds out about a player, what     *)
(* libmtp.c tells a program of it from then on, and what is kept on the    *)
(* player itself: its names and the representative samples of its files.   *)
(* A call of the library is one step; each request of it may fail.         *)
(***************************************************************************)
EXTENDS Values, TLC

VARIABLES
  filemap, propertymap,  \* g_filemap, g_propertymap
  device,                \* what the library keeps of an open player
  keeps,                 \* what the player keeps, as it was sent to it
  promised                    \* what that ought to be

capVars == <<filemap, propertymap, device, keeps, promised>>
P == scene.player
Kept == UNCHANGED <<scene, ocs64, seen>>
Fails == [ok |-> FALSE, v |-> -1, at |-> 0]

-----------------------------------------------------------------------------
\* The numbers and names of formats and of properties, five or three of them.

OggFormat == 4
FlacFormat == 5
FileTypes == << << "FOLDER", 1 >>, << "WAV", 2 >>, << "MP3", 3 >>, << "OGG", OggFormat >>, << "FLAC", FlacFormat >>,
                << "JPEG", 6 >>, << "UNKNOWN", 0 >> >>
PropertyTypes == << << "NAME", "Name" >>, << "WIDTH", "Width" >>, << "HEIGHT", "Height" >> >>

\* register_filetype, register_property: what is registered already is replaced.
Place(map, id) == SelectInSeq(map, LAMBDA e : e.id = id)
Register(map, id, code) ==
  IF Place(map, id) = 0 THEN Append(map, [id |-> id, code |-> code]) ELSE [map EXCEPT ![Place(map, id)].code = code]
Registered(map, table) == FoldLeft(LAMBDA m, e : Register(m, e[1], e[2]), map, table)
\* map_libmtp_type_to_ptp_type and the other three: the first one that fits.
CodeFor(map, id, else) == LET i == Place(map, id) IN IF i = 0 THEN else ELSE map[i].code
IdFor(map, code) == LET i == SelectInSeq(map, LAMBDA e : e.code = code) IN IF i = 0 THEN "UNKNOWN" ELSE map[i].id
FormatOf(id) == CodeFor(filemap, id, 0)
FileType(format) == IdFor(filemap, format)

-----------------------------------------------------------------------------
\* parse_extension_descriptor.  A descriptor is a sequence of words: blanks, colons,
\* semicolons, names and numbers of versions.

Versions == "0" :> << 0, 0 >> @@ "1.0" :> << 1, 0 >> @@ "1.2" :> << 1, 2 >>
Blanks(s) == CHOOSE n \in 0 .. Len(s) : (\A i \in 1 .. n : s[i] = " ") /\ (n = Len(s) \/ s[n + 1] # " ")
AfterBlanks(s) == SubSeq(s, Blanks(s) + 1, Len(s))
\* Each ends with a semicolon; what comes after the last one is none.
Elements(desc) ==
  LET ends == SetToSortSeq({i \in DOMAIN desc : desc[i] = ";"}, <)
  IN [i \in DOMAIN ends |-> AfterBlanks(SubSeq(desc, IF i = 1 THEN 1 ELSE ends[i - 1] + 1, ends[i] - 1))]
\* A name, a colon and a version, or nothing.
Extension(element) ==
  LET colon == SelectInSeq(element, LAMBDA w : w = ":")
      version == AfterBlanks(SubSeq(element, colon + 1, Len(element)))
  IN IF colon = 0 \/ version = << >> THEN << >>
     ELSE IF version[1] \notin DOMAIN Versions THEN << >>
     ELSE << [name |-> SubSeq(element, 1, colon - 1), version |-> Versions[version[1]]] >>
Extensions(desc) == FlattenSeq([i \in DOMAIN Elements(desc) |-> Extension(Elements(desc)[i])])

-----------------------------------------------------------------------------
\* LIBMTP_Open_Raw_Device_Uncached

Has(exts, name) == \E i \in DOMAIN exts : exts[i].name = << name >>
Aricent(exts) == Has(exts, "microsoft.com/WPDNA") /\ Has(exts, "sonyericsson.com/SE") /\ ~Has(exts, "android.com")
Bugs(exts) ==
  CASE Aricent(exts) -> {"HEADERS", "SEND_PROPLIST", "GET_PROPLIST"}
    [] Has(exts, "android.com") -> {"SEND_PROPLIST", "GET_PROPLIST", "SET_PROPLIST", "TIMEOUT", "RESET"}
    [] ~Aricent(exts) /\ ~Has(exts, "android.com") /\ Has(exts, "sony.net/WMFU") -> {"GET_PROPLIST", "UNIQUE", "RESET"}
    [] OTHER -> {}
\* Formats it is said not to mention, unless it does after all.  Mutant: says so still.
Mentioned_Never(formats) == {}
Mentioned(formats) ==
  (IF OggFormat \in ToSet(formats) THEN {"OGG"} ELSE {}) \cup (IF FlacFormat \in ToSet(formats) THEN {"FLAC"} ELSE {})
FlagsOf(exts) == (P.flags \cup Bugs(exts)) \ Mentioned(P.formats)

\* The types of object sizes: 64 bits only if all the formats that answer agree.
ObjectBits(types) == IF "GetObjectPropsSupported" \in P.ops /\ types = {"u64"} THEN 64 ELSE 32
SizeTypes == {{P.sizes[f] : f \in answer} : answer \in SUBSET DOMAIN P.sizes}

\* The highest level of the battery: 100 if it has none or says 0.  Nothing looks
\* whether there was an answer, which leaves anything, nor whether it has a range.
MaxValue(d) ==
  LET t == DataType(d)
      fields == UnpackFields(d, 5, << t, t, "u8" >>)
      range == UnpackFields(d, fields.at, << t, t >>).vs
  IN IF Len(d) <= 5 \/ Len(fields.vs) < 3 THEN 0
     ELSE IF fields.vs[3] # Range3 \/ Len(range) < 2 THEN 0 ELSE range[2] % Byte
Level(n) == IF n = 0 THEN 100 ELSE n
Told(desc, n) == Cut(DeviceDesc(desc, "deviceprop"), n)
Length(desc) == Len(DeviceDesc(desc, "deviceprop"))
HasBattery(flags) == "BATTERY" \notin flags /\ "battery" \in P.has
\* params->device_flags is copied from the table before any of the others are known.
Closed == [open |-> FALSE]
NewDevice(exts, flags, types, maximum) ==
  [open |-> TRUE, extensions |-> exts, device_flags |-> P.flags, flags |-> flags,
   object_bitsize |-> ObjectBits(types), maximum_battery_level |-> maximum, props |-> P.cached]
OpenWith(exts, flags, maximum, sure) ==
  \E types \in SizeTypes :
    /\ device' = NewDevice(exts, flags, types, maximum) /\ promised' = [promised EXCEPT !.sure = sure]
    /\ Made("open", << >>, << >>, << >>, Is(0, 0))
    /\ Kept /\ UNCHANGED <<filemap, propertymap, keeps>>
OpenDevice ==
  /\ ~device.open /\ filemap # << >>
  /\ \E exts \in {Extensions(P.desc)} :
       \E flags \in {FlagsOf(exts)} :
         \/ ~HasBattery(flags) /\ OpenWith(exts, flags, 100, FALSE)
         \/ /\ HasBattery(flags)
            /\ \/ \E n \in 0 .. Byte - 1 : OpenWith(exts, flags, Level(n), FALSE)
               \/ \E n \in 0 .. Length(P.battery) :
                    OpenWith(exts, flags, Level(MaxValue(Told(P.battery, n))), n = Length(P.battery))
DeviceInfoFails ==
  /\ ~device.open /\ filemap # << >> /\ Made("open", << >>, << >>, << >>, Fails)
  /\ Kept /\ UNCHANGED capVars
\* LIBMTP_Init; "Never re-initialize libmtp!"
Initialise ==
  /\ filemap' = Registered(filemap, FileTypes) /\ propertymap' = Registered(propertymap, PropertyTypes)
  /\ Made("init", << >>, << >>, << >>, << >>)
  /\ Kept /\ UNCHANGED <<device, keeps, promised>>

-----------------------------------------------------------------------------
\* What it tells the program
Says(op, of, read, made) ==
  /\ Made(op, << >>, of, read, made)
  /\ Kept /\ UNCHANGED capVars

\* LIBMTP_Get_Supported_Filetypes.  at: the room it has.
KnownTypes(formats) == SelectSeq([i \in DOMAIN formats |-> FileType(formats[i])], LAMBDA id : id # "UNKNOWN")
Forgotten(flags) == SelectSeq(<< "OGG", "FLAC" >>, LAMBDA f : f \in flags)
RoomFor(flags) == Len(P.formats) + (IF Forgotten(flags) = << >> THEN 0 ELSE 1)
GetFiletypes ==
  Says("filetypes", << >>, << >>, Is(KnownTypes(P.formats) \o Forgotten(device.flags), RoomFor(device.flags)))

\* ptp_mtp_getobjectpropssupported: an array that does not arrive whole is none.
PropsOf(format) == IF format \in DOMAIN P.props THEN P.props[format] ELSE {}
IsPropertySupported ==
  \E id \in {"NAME", "WIDTH", "other"}, type \in {"MP3", "JPEG"} :
    \E got \in {{}, PropsOf(FormatOf(type))} :
      \/ "GetObjectPropsSupported" \notin P.ops /\ Says("supported", << id, type >>, got, Is(FALSE, 0))
      \/ /\ "GetObjectPropsSupported" \in P.ops
         /\ \/ Says("supported", << id, type >>, got, Is(CodeFor(propertymap, id, "0") \in got, 0))
            \/ Says("supported", << id, type >>, got, Fails)

Needed == [GetPartialObject |-> {{"GetPartialObject"}, {"ANDROID_GetPartialObject64"}},
           SendPartialObject |-> {{"ANDROID_SendPartialObject"}},
           EditObjects |-> {{"ANDROID_TruncateObject", "ANDROID_BeginEditObject", "ANDROID_EndEditObject"}},
           MoveObject |-> {{"MoveObject"}}, CopyObject |-> {{"CopyObject"}}]
CheckCapability ==
  \E cap \in DOMAIN Needed : Says("capability", cap, << >>, Is(\E ops \in Needed[cap] : ops \subseteq P.ops, 0))

Batterylevel ==
  \/ HasBattery(device.flags) /\ Says("battery", << >>, << >>, Is(<< device.maximum_battery_level, keeps.level >>, 0))
  \/ Says("battery", << >>, << >>, Fails)

-----------------------------------------------------------------------------
\* Names.  LIBMTP_Get_Friendlyname, LIBMTP_Get_Syncpartner and those that set them;
\* LIBMTP_Get_Secure_Time and LIBMTP_Get_Device_Certificate read an array of numbers as
\* text, up to its first zero.
Titles == {"friendlyname", "syncpartner"}
UpToZero(a) == LET z == SelectInSeq(a, LAMBDA c : c = 0) IN IF z = 0 THEN a ELSE SubSeq(a, 1, z - 1)
Text(d, p) ==
  LET a == Unpack(d, 0, IF p \in Titles THEN "str" ELSE "au16")
  IN IF ~a.ok THEN Fails ELSE IF p \in Titles THEN Is(a.v, 0) ELSE Is(UpToZero(a.v), 0)
GetText ==
  \E p \in DOMAIN P.texts :
    \/ p \in P.has /\ Says("text", p, << >>, Text(keeps[p], p))
    \/ Says("text", p, << >>, Fails)
SetName ==
  \E p \in Titles, name \in P.names :
    \/ /\ p \in P.has /\ Made("setname", PackString(name), p, name, Is(0, 0))
       /\ keeps' = [keeps EXCEPT ![p] = PackString(name)] /\ promised' = [promised EXCEPT ![p] = name]
       /\ Kept /\ UNCHANGED <<filemap, propertymap, device>>
    \/ Says("setname", p, name, Fails)

-----------------------------------------------------------------------------
\* Representative samples, of the one file of the player.

ImageLike == {"Data", "Format", "Height", "Width"}
SoundLike == {"Data", "Format", "Duration"}
SampleFields == ImageLike \cup SoundLike \cup {"Size"}

\* LIBMTP_Get_Representative_Sample_Format.  Nothing looks whether the descriptions
\* of whole are all that came: of the others anything is read.  A program ends where
\* the list of formats has no first one.
Limit(p) == LET opd == Described(DeviceDesc(P.samples[p], "objectprop"))
            IN IF opd.flag = Range3 THEN opd.values[2] ELSE 0
First(p) == Described(DeviceDesc(P.samples[p], "objectprop")).values[1]
Suits(has) == has \ {"Size"} \in {ImageLike, SoundLike}
SampleOf(has, whole, junk) ==
  LET limit(p) == IF p \notin has THEN 0 ELSE IF p \in whole THEN Limit(p) ELSE junk
  IN [type |-> FileType(IF "Format" \in whole THEN First("Format") ELSE junk), width |-> limit("Width"),
      height |-> limit("Height"), duration |-> limit("Duration"), size |-> limit("Size")]
SampleFormat ==
  \E type \in {"MP3", "JPEG", "WAV"} :
    \E has \in {PropsOf(FormatOf(type)) \cap SampleFields}, junk \in {0, Byte - 1} :
      \/ ~Suits(has) /\ Says("format", type, {}, Fails)
      \/ \E whole \in {has, has \ {"Width"}, {}} : Suits(has) /\ Says("format", type, whole, Is(SampleOf(has, whole, junk), 0))

\* LIBMTP_Send_Representative_Sample: the data first; whether the player then takes the
\* numbers is not looked at, and what is cached of them stays.
Pictures == {"JPEG"}
NumbersOf(sample) ==
  IF sample.type \notin Pictures THEN [Duration |-> sample.duration, Size |-> Len(sample.data)]
  ELSE IF "DIMENSIONS" \in device.flags THEN << >>
  ELSE [Height |-> sample.height, Width |-> sample.width]
HasSamples == "Data" \in PropsOf(P.object)
Stored(k, numbers, taken) == [p \in DOMAIN k |-> IF p \in taken THEN numbers[p] ELSE k[p]]
SampleTaken(sample, taken) ==
  /\ keeps' = [keeps EXCEPT !.data = PackArray(sample.data, 1), !.numbers = Stored(@, NumbersOf(sample), taken)]
  /\ promised' = [promised EXCEPT !.data = sample.data, !.numbers = Restrict(NumbersOf(sample), taken)]
SendSample ==
  \E sample \in P.sends :
    \/ Says("sendsample", sample, << >>, Fails)
    \/ /\ HasSamples
       /\ \E taken \in {{}, DOMAIN NumbersOf(sample), {"Width"} \cap DOMAIN NumbersOf(sample)} :
            ("SetObjectPropValue" \in P.ops \/ taken = {}) /\ SampleTaken(sample, taken)
       /\ Made("sendsample", PackArray(sample.data, 1), sample, << >>, Is(0, 0))
       /\ Kept /\ UNCHANGED <<filemap, propertymap, device>>

\* LIBMTP_Get_Representative_Sample: numbers that are cached are not asked for, and those
\* that cannot be had are 0.  asked: what the player answered.
NumberOf(p, asked) ==
  CASE p \in DOMAIN device.props -> device.props[p]
    [] p \notin DOMAIN device.props /\ p \in asked -> keeps.numbers[p]
    [] OTHER -> 0
SampleRead(asked) ==
  [data |-> UnpackArray(keeps.data, 0, 1).v, type |-> FileType(NumberOf("Format", asked)),
   width |-> NumberOf("Width", asked), height |-> NumberOf("Height", asked), duration |-> NumberOf("Duration", asked)]
GetSample ==
  \/ Says("sample", << >>, {}, Fails)
  \/ /\ HasSamples
     /\ \E asked \in {{}, {"Width"}, DOMAIN keeps.numbers} : Says("sample", << >>, asked, Is(SampleRead(asked), 0))

-----------------------------------------------------------------------------
\* Its user, and its battery
PlayerActs ==
  /\ Made("user", << >>, << >>, << >>, << >>)
  /\ \/ keeps.level > 0 /\ keeps' = [keeps EXCEPT !.level = @ - 1] /\ UNCHANGED promised
     \/ \E p \in Titles, name \in P.names :
          keeps' = [keeps EXCEPT ![p] = DeviceString(name)] /\ promised' = [promised EXCEPT ![p] = name]
  /\ Kept /\ UNCHANGED <<filemap, propertymap, device>>

CapabilityInit ==
  /\ filemap = << >> /\ propertymap = << >> /\ device = Closed
  /\ promised = [friendlyname |-> << >>, syncpartner |-> << >>, data |-> << >>, numbers |-> << >>, sure |-> FALSE]
  /\ keeps = P.texts @@ [data |-> PackArray(<< >>, 1), numbers |-> P.numbers, level |-> P.level]
CapabilityNext ==
  \/ Initialise \/ OpenDevice \/ DeviceInfoFails
  \/ device.open /\ \/ GetFiletypes \/ IsPropertySupported \/ CheckCapability \/ Batterylevel \/ GetText \/ SetName
                    \/ SampleFormat \/ SendSample \/ GetSample \/ PlayerActs
Capability == Init /\ CapabilityInit /\ [][CapabilityNext]_<<vars, capVars>>

-----------------------------------------------------------------------------
\* The extensions are those the player has, with their versions, in their order; one
\* after the last semicolon is not seen.
KnowsExtensions ==
  device.open => device.extensions = IF Last(P.desc) = ";" THEN P.extensions ELSE Front(P.extensions)
\* Numbers of formats and properties stand for the same as names, also after a second
\* LIBMTP_Init.  The list of file types has all the player can play and nothing twice, in
\* the room there is for it unless two formats were forgotten.
KnowsFormats ==
  /\ filemap # << >> => \A e \in ToSet(FileTypes) : FileType(FormatOf(e[1])) = e[1] /\ FormatOf(e[1]) = e[2]
  /\ result.op = "filetypes" =>
       /\ ToSet(result.made.v) = {e[1] : e \in {x \in ToSet(FileTypes) : x[2] \in P.plays}}
       /\ IsInjective(result.made.v)
       /\ Cardinality({"OGG", "FLAC"} \cap device.flags) < 2 => Len(result.made.v) <= result.made.at
\* No property or group of operations is taken for supported that is not.
ClaimsNoMore ==
  /\ result.op = "supported" /\ result.made.ok /\ result.made.v =>
       CodeFor(propertymap, result.of[1], "0") \in PropsOf(FormatOf(result.of[2]))
  /\ result.op = "capability" /\ result.of = "EditObjects" /\ result.made.v =>
       {"ANDROID_TruncateObject", "ANDROID_BeginEditObject", "ANDROID_EndEditObject"} \subseteq P.ops
\* The battery is never fuller than full, if its description came when the player was
\* opened.
LevelFits ==
  result.op = "battery" /\ result.made.ok /\ promised.sure => result.made.v[2] <= result.made.v[1]
\* A name is the last one that was set, on the player or by a program; a sample is the
\* last one that was sent, with the numbers the player took, unless the cache has others.
ReadsBackNames == result.op = "text" /\ result.made.ok /\ result.of \in Titles => result.made.v = promised[result.of]
ReadsBackSamples ==
  result.op = "sample" /\ result.made.ok =>
    LET back == [Width |-> result.made.v.width, Height |-> result.made.v.height, Duration |-> result.made.v.duration]
        sent == (DOMAIN promised.numbers \cap result.read \cap DOMAIN back) \ DOMAIN device.props
    IN result.made.v.data = promised.data /\ \A p \in sent : back[p] = promised.numbers[p]
\* What the library knows of a player and makes known of it is so, from when it was opened
\* (LIBMTP_Open_Raw_Device_Uncached) through all that is set and sent later.
KnowsPlayer == KnowsExtensions /\ KnowsFormats /\ ClaimsNoMore /\ LevelFits /\ ReadsBackNames /\ ReadsBackSamples
=============================================================================
