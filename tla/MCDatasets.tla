----------------------------- MODULE MCDatasets -----------------------------
\* Bytes of four values: handles are 0 .. 255, strings have up to two characters.
EXTENDS CameraFolders, Capabilities

Info(size, seq, name, date) == [size |-> size, seq |-> seq, name |-> name, date |-> date]
Infos == {Info(0, 0, << 1 >>, << >>), Info(200, 0, << 2, 3 >>, << 1, 1 >>), Info(77, 128, << 3 >>, << 1 >>)}

Prop(h, code, type, v) == [h |-> h, code |-> code, type |-> type, v |-> v]
\* Of objects 1, 2, 90, 170 and 250: no two of the first three and no two of the
\* last two are more than half a range apart.
P1 == << Prop(1, 1, "u32", 100), Prop(2, 1, "u32", 7), Prop(1, 2, "str", << 2, 1 >>) >>
P2 == << Prop(90, 3, "au16", << 5, 6 >>), Prop(1, 4, "u8", 2), Prop(90, 1, "u64", 300), Prop(1, 2, "str", << >>) >>
P3 == << Prop(250, 1, "u128", 0), Prop(170, 2, "other", 1), Prop(250, 5, "au32", << >>) >>
P4 == << Prop(170, 1, "u8", 0), Prop(250, 1, "u16", 1), Prop(170, 5, "au32", << 9 >>) >>
Lists == {<< >>, P1, P2, P3, P4}

Devices == {<< << 1 >>, 3, << 1, 2 >>, << 7 >>, << >>, << >>, << 4 >>, << 1, 2 >>, << 2 >>, << >>, << 3 >> >>}
Storages == {<< << 1, 2 >>, << 3 >> >>, << << >>, << 1 >> >>}
Desc(t, default, flag, values, swaps) ==
  [type |-> t, default |-> default, flag |-> flag, values |-> values, swaps |-> swaps]
Descs == {Desc("u8", 1, None, << >>, FALSE), Desc("u16", 5, Range3, << 1, 9, 2 >>, FALSE),
          Desc("str", << 1 >>, Enum, << << 1 >>, << 2, 3 >> >>, FALSE), Desc("u8", 3, Enum, << 1, 2, 3 >>, TRUE),
          Desc("u32", 6, Range3, << 4, 10, 4 >>, FALSE), Desc("u16", 0, Range3, << 0, 3, 0 >>, FALSE),
          Desc("u32", 3, Enum, << 3, 9, 6 >>, FALSE), Desc("u16", 3, Enum, << 3, 2 >>, TRUE),
          Desc("u16", 1, None, << >>, FALSE), Desc("u32", 1, Enum, << >>, FALSE),
          Desc("str", << 2 >>, None, << >>, FALSE), Desc("au16", << 7, 8 >>, Enum, << << 7, 8 >> >>, FALSE)}

\* What an EOS camera dials: a value and what it means to the library, a list, ...
Value(p, v, m) == [event |-> "PropValueChanged", prop |-> p, v |-> v, means |-> m]
Plain(p, v) == Value(p, v, v)
Listing(p, vs, m) == [event |-> "AvailListChanged", prop |-> p, vs |-> vs, mean |-> m]
Olc(version, fields, more) == [event |-> "OLCInfoChanged", version |-> version, fields |-> fields, more |-> more]
Object(e, h, parent, name) == [event |-> e, h |-> h, parent |-> parent, name |-> name]
Status(e, v) == [event |-> e, v |-> v]
\* The example of ptp_unpack_EOS_ImageFormat, 0x0bd2, and a fine JPEG alone, 0x23ff.
RawS1 == << << 6, 0, 3 >>, << 1, 14, 2 >> >>
Fine == << << 1, 2, 3 >> >>
Mixed ==
  << Plain("ISOSpeed", 9), Listing("ISOSpeed", << 1, 9, 14 >>, << 1, 9, 14 >>),
     Object("ObjectAddedEx", 200, 7, << 1, 2 >>), Value("ImageFormat", RawS1, 3026),
     Listing("ImageFormat", << Fine, RawS1, Fine >>, << 9215, 3026, 9215 >>), Status("CameraStatusChanged", 1) >>
EveryKind ==
  << Plain("ModelID", 77), Plain("MeteringMode", 2), Plain("Owner", << 1, 3 >>), Plain("CustomFunc1", 3),
     Plain("Unknown", 1), Plain("AEModeDial", 5), Listing("Aperture", << 1 >>, << >>),
     Value("CustomFuncEx", << 8, 5, 6 >>, << 8, 5 >>),
     Value("FocusInfoEx", << << 1, 2, 3, 4, 1 >>, << 5, 6, 7, 8, 0 >>, << 9, 1, 2, 3, 1 >> >>,
                          << << 1, 2, 3, 4 >>, << 9, 1, 2, 3 >> >>) >>
EveryObject ==
  << Object("ObjectContentChanged", 1, 0, << >>), Object("ObjectInfoChangedEx", 2, 1, << 3 >>),
     Object("ObjectAddedEx64", 3, 1, << >>), Object("RequestObjectTransfer", 4, 0, << 1, 2 >>),
     Object("RequestObjectTransfer64LFN", 5, 6, << >>), Object("ObjectRemoved", 6, 0, << >>),
     Status("BulbExposureTime", 4), Status("Other", 4) >>
Two == [ShutterSpeed |-> 2, Aperture |-> 3]
Three == [Button |-> 1] @@ Two
Masks(v) ==
  << Olc(v, << >>, FALSE), Olc(v, Two, FALSE), Plain("OLCInfoVersion", v), Olc(v, << >>, FALSE), Olc(v, Three, FALSE), Plain("Aperture", 11),
     Olc(v, [Aperture |-> 1], FALSE), Olc(v, [ShutterSpeed |-> 0], TRUE), Olc(v, [Button |-> 2], TRUE),
     Olc(v, << >>, TRUE), Status("CameraStatusChanged", 2) >>

\* More records without a field than there is room for, before the version is known.
Crowd(v) == << Olc(v, << >>, FALSE), Olc(v, << >>, FALSE), Plain("OLCInfoVersion", v), Olc(v, Two, FALSE), Plain("Aperture", 3) >>
NoPlayer == [desc |-> << >>, texts |-> << >>, numbers |-> << >>, level |-> 0]
Scene(s, infos, n) ==
  [size |-> s, infos |-> infos, lists |-> Lists, descs |-> Descs, devices |-> Devices, storages |-> Storages,
   numbers |-> 0 .. 10, heap |-> {0, 2, 99}, calls |-> n, streams |-> {<< >>}, cuts |-> FALSE, vendor |-> "none", mode |-> 0,
   second |-> FALSE, order |-> << >>, turns |-> {}, end |-> 0, dials |-> 0,
   things |-> << >>, adds |-> {}, answers |-> "plain", checks |-> "none", player |-> NoPlayer]
Without(sc) == [sc EXCEPT !.descs = {}, !.devices = {}, !.storages = {}]
\* What the library remembers between two answers comes from an ObjectInfo.
Remembering(s) == [Without(Scene(s, Infos, 3)) EXCEPT !.lists = {<< >>}]
Camera(streams, cuts, n) ==
  [Without(Scene(4, {}, n)) EXCEPT !.lists = {}, !.streams = streams, !.cuts = cuts]
Watching(vendor, turns, n) ==
  [Camera({<< >>}, FALSE, n) EXCEPT !.vendor = vendor, !.turns = turns, !.end = Start + 2, !.dials = 2]
Sony(mode, second, cuts, n) ==
  [Watching("sony", {"ISOSpeed", "MeteringMode"}, n) EXCEPT
     !.mode = mode, !.second = second, !.cuts = cuts, !.order = << "ISOSpeed", "MeteringMode" >>]
\* A folder with a file on each of two cards; the second file is taken later.
Item(parent, store, folder) == [parent |-> parent, store |-> store, folder |-> folder]
Items == << Item(0, 1, TRUE), Item(1, 1, FALSE), Item(0, 2, TRUE), Item(3, 2, FALSE) >>
Browsing(answers, checks, n, acts) ==
  [Camera({<< >>}, FALSE, n) EXCEPT !.things = Items, !.adds = {4}, !.answers = answers, !.checks = checks, !.dials = acts]
\* What players say of themselves.
Ext(name, version) == [name |-> << name >>, version |-> Versions[version]]
Droid == << "microsoft.com", ":", " ", "1.0", ";", " ", "android.com", ":", " ", "1.2", ";" >>
Walkman == << "junk", ";", "sony.net/WMFU", ":", "1.0", ";", " ", " ", "odd", ":", "x", ";", "name", " ", ":", "0", ";",
              "microsoft.com/WPDNA", ":", "1.0" >>
Ericsson == << "microsoft.com/WPDNA", ":", "1.0", ";", "sonyericsson.com/SE", ":", " ", "1.0", ";", " ", ";" >>
Restriction(type, flag, values) == Desc(type, 1, flag, values, FALSE)
AndroidPlayer ==
  [desc |-> Droid, extensions |-> << Ext("microsoft.com", "1.0"), Ext("android.com", "1.2") >>,
   flags |-> {"OGG", "BATTERY"}, formats |-> << 3, 0, 99, 2, OggFormat, 6 >>, plays |-> {2, 3, OggFormat, 6},
   sizes |-> (2 :> "u32" @@ 3 :> "u64"), has |-> {"battery", "friendlyname", "securetime"}, battery |-> << >>,
   ops |-> {"GetObjectPropsSupported", "SetObjectPropValue", "GetPartialObject", "ANDROID_TruncateObject", "ANDROID_BeginEditObject"},
   props |-> (3 :> ({"Name"} \cup SoundLike) @@ 6 :> (ImageLike \cup {"Size"})),
   samples |-> [Format |-> Restriction("u16", Enum, << 6, 3 >>), Size |-> Restriction("u32", Range3, << 0, 200, 1 >>),
                Height |-> Restriction("u32", Range3, << 0, 90, 1 >>), Width |-> Restriction("u32", Range3, << 0, 120, 1 >>),
                Duration |-> Restriction("u32", None, << >>)],
   object |-> 6, cached |-> << >>, numbers |-> [Width |-> 0, Height |-> 0, Duration |-> 0, Size |-> 0, Format |-> 6],
   texts |-> [friendlyname |-> << 0 >>, syncpartner |-> << 0 >>, securetime |-> PackArray(<< 1, 2, 0, 3 >>, 2)],
   level |-> 1, names |-> {<< >>, << 2, 3 >>},
   sends |-> {[data |-> << 1, 3, 2 >>, type |-> "JPEG", width |-> 7, height |-> 5, duration |-> 0],
              [data |-> << 2 >>, type |-> "MP3", width |-> 0, height |-> 0, duration |-> 9]}]
CowonPlayer ==
  [AndroidPlayer EXCEPT
     !.desc = Walkman, !.extensions = << Ext("sony.net/WMFU", "1.0"), [name |-> << "name", " " >>, version |-> << 0, 0 >>],
                                        Ext("microsoft.com/WPDNA", "1.0") >>,
     !.flags = {"OGG", "FLAC"}, !.formats = << 3, 2 >>, !.plays = {2, 3, OggFormat, FlacFormat},
     !.sizes = (2 :> "u64" @@ 3 :> "u64"), !.has = @ \cup {"syncpartner"}, !.battery = Restriction("u8", Range3, << 0, 3, 1 >>),
     !.ops = @ \cup {"ANDROID_EndEditObject"}, !.cached = [Width |-> 0]]
AricentPlayer ==
  [AndroidPlayer EXCEPT
     !.desc = Ericsson, !.extensions = << Ext("microsoft.com/WPDNA", "1.0"), Ext("sonyericsson.com/SE", "1.0") >>,
     !.flags = {"FLAC", "DIMENSIONS"}, !.formats = << 3, FlacFormat >>, !.plays = {3, FlacFormat}, !.ops = {},
     !.sizes = (3 :> "u64" @@ FlacFormat :> "other"), !.battery = Restriction("u16", Enum, << 1, 2 >>)]
Playing(player, n) == [Camera({<< >>}, FALSE, n) EXCEPT !.player = player]
MCScenarios ==
  {Remembering(s) : s \in {4, 8}} \cup {Scene(4, {}, 1)}
    \cup {Camera({Mixed, EveryKind, EveryObject} \cup {Masks(v) : v \in {7, 15, 18, 20}} \cup {Crowd(7)}, TRUE, 1),
          Camera({Mixed, EveryKind, EveryObject, Masks(20), Crowd(20)}, FALSE, 2)}
    \cup {Browsing(a, "pipe", 5, 1) : a \in {"plain", "fast", "flat", "nostore", "noparent"}}
    \cup {Browsing("plain", c, 3, 2) : c \in {"event", "eventex", "silent", "canon"}}
    \cup {[Browsing("plain", c, 2, 2) EXCEPT !.cuts = TRUE] : c \in {"event", "eventex"}}
    \cup {Watching("eos", {"ISOSpeed"}, 4), [Watching("other", {"ISOSpeed"}, 4) EXCEPT !.checks = "pipe"],
          Sony(2, TRUE, FALSE, 2), Sony(3, FALSE, TRUE, 2),
          [Sony(3, FALSE, FALSE, 2) EXCEPT !.turns = {"ISOSpeed", "ShutterRelease"}, !.order = << "ISOSpeed" >>]}
    \cup {Playing(p, 5) : p \in {AndroidPlayer, CowonPlayer, AricentPlayer}}

IsPlayer == scene.player # NoPlayer
AllVars == <<vars, cameraVars, propVars, folderVars, capVars>>
NextOfAll ==
  \/ ~IsPlayer /\ FolderNext /\ UNCHANGED capVars
  \/ IsPlayer /\ CapabilityNext /\ UNCHANGED <<cameraVars, propVars, folderVars>>
InitOfAll == FolderInit /\ CapabilityInit
Everything == InitOfAll /\ [][NextOfAll]_AllVars
=============================================================================
