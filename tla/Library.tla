------------------------------- MODULE Library -------------------------------
(***************************************************************************)
(* The calls of libmtp.c that put things on a device: sending a track,     *)
(* updating its metadata, creating folders and abstract lists (playlists   *)
(* and albums) and updating them, setting and getting one property.  Each  *)
(* is a series of transactions (GetStorageInfo, GetObjectPropsSupported,   *)
(* SendObjectPropList, SendObject, SetObjectReferences, ...), one action   *)
(* each, any of which may fail; beside them the object cache (an entry has *)
(* an object info, a property list, or neither) and the storage list that  *)
(* say what the library believes about the device.                         *)
(***************************************************************************)
EXTENDS Storage, FiniteSets

CONSTANTS Handle,     \* object handles; a device does not use one twice
          Scenarios   \* kinds of device, and what is done with it, see Scenario

Root == 0             \* "no parent given"
Top == 99             \* 0xffffffff: the root folder; as a handle, all objects
Formats == {"folder", "track", "list"}
Names == {"", "a", "a_1", "a_2", "b"}
Titles == {"none", "old", "new"}    \* strings; "none" is NULL
Counts == 0 .. 2                    \* numbers: a track's, say
Properties == {"name", "title", "track"}  \* file name, name, track number
Operations == {"SendObjectPropList", "SendObjectInfo", "SetObjPropList", "SetObjectPropValue",
               "GetObjPropList", "GetStorageInfo", "GetPartialObject", "GetPartialObject64", "EditObject"}

\* An object of the device.  What GetObjectInfo says of it, and its property list.
\* A size has 64 bits as a property and 32 in the info.
Word == 4             \* 2^32
Object == [parent : Handle \cup {Root, Top}, store : Store, fmt : Formats, name : Names,
           title : Titles, track : Counts, size : Nat, refs : Seq(Handle)]
InfoOf(o) == [parent |-> o.parent, store |-> o.store, fmt |-> o.fmt, name |-> o.name,
              size |-> o.size % Word]
PropsOf(o) == [title |-> o.title, track |-> o.track, size |-> o.size]
NoInfo == [parent |-> 0, store |-> Null, fmt |-> "none", name |-> "", size |-> 0]   \* zeroed
NoProps == [title |-> "no list", track |-> 0, size |-> 0]

\* order: the storages as the device lists them; kind, size: what they are; ops:
\* the operations it supports; formats: of the objects it takes; listed: the properties it lists for them; fixed:
\* those that can only be read; objects: what is on it; unique: UNIQUE_FILENAMES is
\* set for it; hangs: SAMSUNG_OFFSET_BUG is; cached: how it is opened; calls: what the program calls; max: bounds.
ScenarioFields == {"order", "kind", "size", "ops", "formats", "listed", "fixed", "objects", "unique", "hangs",
                   "cached", "calls", "max"}
ASSUME ScenarioAssumption ==
  \A sc \in Scenarios :
    /\ DOMAIN sc = ScenarioFields
    /\ sc.order \in Seq(Store) /\ \A i, j \in DOMAIN sc.order : sc.order[i] = sc.order[j] => i = j
    /\ sc.kind \in [Store -> StoreKind] /\ sc.size \in [Store -> 0 .. Unknown - 1] /\ sc.ops \subseteq Operations
    /\ sc.formats \subseteq Formats /\ sc.listed \subseteq Properties /\ sc.fixed \subseteq Properties
    /\ DOMAIN sc.objects \subseteq Handle
    /\ \A h \in DOMAIN sc.objects :
         sc.objects[h] \in Object /\ (sc.objects[h].fmt # "list" => sc.objects[h].refs = << >>)
    /\ sc.max \in [{"calls", "faults"} -> Nat]
ASSUME HandleAssumption == Handle \subseteq Nat \ {Root, Top} /\ IsFiniteSet(Handle)

VARIABLES
  scene,                \* which of Scenarios it is
  dev, used, room,      \* the device: objects, handles used, free space
  list, known,          \* device->storage, and what its nodes say
  folders,              \* default_music_folder, default_playlist_folder
  cache,                \* params->objects
  pc, call, my,         \* where the library is, the call and its local variables
  errors, result,       \* the error stack since the call began; what it returned
  spent                 \* how much of each bound is used

device == <<scene, dev, used, room>>
storages == <<list, known>>
vars == <<device, storages, folders, cache, pc, call, my, errors, result, spent>>

Supports(op) == op \in scene.ops
Settable(p) == p \in scene.listed /\ p \notin scene.fixed
With(f, h, x) == [g \in DOMAIN f \cup {h} |-> IF g = h THEN x ELSE f[g]]
Without(f, h) == [g \in DOMAIN f \ {h} |-> f[g]]

Fails == spent.faults < scene.max.faults /\ spent' = [spent EXCEPT !.faults = @ + 1]
Fault(what) == Fails /\ errors' = errors \cup {what}
Fine == UNCHANGED <<spent, errors>>

NoCall == [op |-> "none", fmt |-> "track", name |-> "", parent |-> Root, store |-> Null,
           title |-> "none", track |-> 0, refs |-> << >>, size |-> 0, h |-> 0, sort |-> "none", source |-> "descriptor"]
\* What programs call, here, in Listings and in Files; what is about an object.
OfObject == {"update", "settitle", "gettitle", "getlist", "file", "track", "album",
             "partial", "begin", "write", "truncate", "end", "getfile", "gethandler"}
ApiCalls == OfObject \cup {"send", "create", "folder", "storage", "files", "tracks", "playlists", "albums",
                          "within", "children", "folders"}
Request == [op : ApiCalls, fmt : Formats, name : Names, parent : Handle \cup {Root, Top}, store : Store \cup {Null},
            title : Titles, track : Counts, refs : Seq(Handle), size : Nat, h : {0},
            sort : {"none", "free", "max"}, source : {"descriptor", "file", "handler"}]
\* What is sent is a track and what is created a list or a folder; LIBMTP_track_t has no tracks on
\* it and LIBMTP_playlist_t and LIBMTP_album_t no number.
Sensible(c) ==
  /\ c.op = "send" => c.fmt = "track"
  /\ c.op = "create" => c.fmt = "list"
  /\ c.op = "folder" => c.fmt = "folder"
  /\ c.op \in {"send", "create", "update"} => IF c.fmt = "list" THEN c.track = 0 ELSE c.fmt = "track" /\ c.refs = << >>
ASSUME CallAssumption == \A sc \in Scenarios : sc.calls \subseteq Request /\ \A c \in sc.calls : Sensible(c)

Idle == [store |-> Null, parent |-> Root, id |-> 0, by |-> "none", at |-> Null, name |-> "",
         todo |-> {}, chosen |-> {}, blind |-> FALSE, updated |-> FALSE, left |-> << >>]

\* LIBMTP_Get_Storage in the order of the device, as when a device is opened.
Filled(order) == LET L[n \in 0 .. Len(order)] == IF n = 0 THEN Emptied ELSE Append1(L[n - 1], order[n])
                 IN L
Listed(order) == Filled(order)[Len(order)]
Present == {scene.order[i] : i \in DOMAIN scene.order}
Told(s) == IF Supports("GetStorageInfo")
             THEN [kind |-> scene.kind[s], free |-> room[s]]
             ELSE [kind |-> IF scene.kind[s] = "hollow" THEN "hollow" ELSE "rw", free |-> Unknown]

\* flush_handles: the default folders are looked for on the first storage.
DefaultFolder(name) ==
  LET found == {h \in DOMAIN cache : LET i == cache[h].info
                                     IN /\ i.fmt = "folder" /\ i.parent = Top /\ i.name = name
                                        /\ list.head # Null => i.store = list.head}
  IN IF found = {} THEN Top ELSE CHOOSE h \in found : \A g \in found : g <= h

\* flush_handles; how it goes about it is in ObjectCache.
Flushed == [h \in DOMAIN dev |-> [info |-> InfoOf(dev[h]),
                                 props |-> IF Supports("GetObjPropList") THEN PropsOf(dev[h]) ELSE NoProps]]

Init ==
  /\ scene \in Scenarios
  /\ dev = scene.objects /\ used = DOMAIN scene.objects /\ room = scene.size
  /\ list = Listed(scene.order) /\ known = [s \in Store |-> Told(s)]
  /\ cache = IF scene.cached
               THEN Flushed ELSE [h \in {} |-> 0]
  /\ folders = [music |-> DefaultFolder("a"), list |-> DefaultFolder("b")]
  /\ pc = "idle" /\ call = NoCall /\ my = Idle /\ errors = {}
  /\ result = [op |-> "none", ok |-> FALSE, id |-> 0, title |-> "none", refs |-> << >>]
  /\ spent = [calls |-> 0, faults |-> 0]

Return(ok, id) ==
  /\ result' = [op |-> call.op, ok |-> ok, id |-> id, title |-> "none", refs |-> << >>]
  /\ pc' = "idle"
Goto(p) == pc' = p /\ UNCHANGED result

-----------------------------------------------------------------------------
\* ptp_object_want(PTPOBJECT_MTPPROPLIST_LOADED) puts an entry into the cache
\* before it knows anything of the object, and leaves it there when the list cannot
\* be had; without GetObjPropList it asks for nothing.
Entry(h) == IF h \in DOMAIN cache THEN cache[h] ELSE [info |-> NoInfo, props |-> NoProps]
PropList(h) == IF h = Top THEN [title |-> "none", track |-> 0, size |-> 0] ELSE PropsOf(dev[h])

WantProps(h, then, otherwise) ==
  \/ /\ Entry(h).props # NoProps \/ ~Supports("GetObjPropList")
     /\ cache' = With(cache, h, Entry(h)) /\ then
  \/ /\ Entry(h).props = NoProps /\ Supports("GetObjPropList") /\ h \in DOMAIN dev \cup {Top}
     /\ cache' = With(cache, h, [Entry(h) EXCEPT !.props = PropList(h)]) /\ then
  \/ /\ Entry(h).props = NoProps /\ Supports("GetObjPropList")
     /\ cache' = With(cache, h, Entry(h)) /\ otherwise

\* A storage that was asked for is taken.
Stores(c) == IF c.store # Null THEN "place" ELSE "suggest"
\* get_suggested_storage_id: the storage of the parent if that is in the cache
\* with its info, or else ...
Suggest ==
  /\ pc = "suggest"
  /\ \/ /\ my.parent = Root
        /\ errors' = errors \cup {"storage"} /\ my' = [my EXCEPT !.at = list.head] /\ Goto("fit")
        /\ UNCHANGED <<cache, spent>>
     \/ /\ my.parent # Root
        /\ WantProps(my.parent,
             IF Entry(my.parent).info # NoInfo
               THEN my' = [my EXCEPT !.store = Entry(my.parent).info.store, !.by = "parent"]
                    /\ Goto("place") /\ Fine
               ELSE my' = [my EXCEPT !.at = list.head] /\ Goto("fit")
                    /\ errors' = errors \cup {"storage"} /\ UNCHANGED spent,
             Fault("storage") /\ my' = [my EXCEPT !.at = list.head] /\ Goto("fit"))
  /\ UNCHANGED <<device, storages, folders, call>>

\* Mutant: what was known of the free space will do.
FreeNow_Known(s) == known[s].free
FreeNow(s) == room[s]

\* ... get_writeable_storageid: the first one in the list that fits, as
\* GetStorageInfo now says.
Fit ==
  /\ pc = "fit"
  /\ LET s == my.at
         Next1 == my' = [my EXCEPT !.at = list.nxt[s]] /\ Goto("fit")
         Take(store) == my' = [my EXCEPT !.store = store, !.by = "fit"] /\ Goto("place")
     IN \/ list.head = Null /\ Take(Null) /\ Fine /\ UNCHANGED known
        \/ /\ list.head # Null /\ s = Null
           /\ Take(Nowhere) /\ errors' = errors \cup {"full"} /\ UNCHANGED <<spent, known>>
        \/ /\ s # Null /\ ~Writable(known[s].kind)
           /\ Next1 /\ Fine /\ UNCHANGED known
        \/ /\ s # Null /\ Writable(known[s].kind) /\ ~Supports("GetStorageInfo")
           /\ Take(s) /\ Fine /\ UNCHANGED known
        \/ /\ s # Null /\ Writable(known[s].kind) /\ Supports("GetStorageInfo")
           /\ \/ /\ known' = [known EXCEPT ![s] = [kind |-> scene.kind[s], free |-> FreeNow(s)]]
                 /\ IF Fits(call.size, FreeNow(s)) THEN Take(s) ELSE Next1
                 /\ Fine
              \/ Fault("space") /\ Next1 /\ UNCHANGED known
  /\ UNCHANGED <<device, list, folders, cache, call>>

-----------------------------------------------------------------------------
\* send_file_object_info: a track without a parent goes to the default folder
\* when the storage is the first in the list; on devices that take a property list 0
\* is written 0xffffffff.
Primary == list.head = Null \/ my.store = list.head
Creating == call.op = "create"
Destination ==
  LET p == IF call.op = "send" /\ my.parent = Root /\ Primary THEN folders.music ELSE my.parent
  IN IF call.op = "send" /\ p = Root /\ Supports("SendObjectPropList") THEN Top ELSE p

Place ==
  /\ pc = "place" /\ call.op # "create"
  /\ my' = [my EXCEPT !.parent = Destination]
  /\ Goto(IF call.op = "folder" \/ ~Supports("SendObjectPropList") THEN "sendinfo" ELSE "props")
  /\ Fine /\ UNCHANGED <<device, storages, folders, cache, call>>

\* create_new_abstract_list: a list has a name, which is looked at before anything
\* else, and a device may not take lists.
Nameless == call.title = "none"
PlaceList ==
  /\ \/ /\ \/ pc = "name?" /\ Nameless
           \/ pc = "place" /\ call.op = "create" /\ call.fmt \notin scene.formats
        /\ errors' = errors \cup {"create"} /\ UNCHANGED spent /\ Return(FALSE, 0)
     \/ pc = "name?" /\ ~Nameless /\ Goto(Stores(call)) /\ Fine
     \/ /\ pc = "place" /\ call.op = "create" /\ call.fmt \in scene.formats
        /\ Goto(IF Supports("SendObjectPropList") THEN "props" ELSE "sendinfo") /\ Fine
  /\ UNCHANGED <<device, storages, folders, cache, call, my>>

\* Which properties can be set on such an object: those GetObjectPropsSupported lists
\* whose GetObjectPropDesc says GetSet.  The others are passed over without a word;
\* when the first one fails, nobody says so either.
Props ==
  /\ pc = "props"
  /\ \/ my' = [my EXCEPT !.todo = scene.listed, !.chosen = {}] /\ Goto("descs") /\ Fine
     \/ /\ Fails /\ UNCHANGED errors /\ Goto("sendinfo")
        /\ my' = [my EXCEPT !.todo = {}, !.chosen = {}, !.blind = TRUE]
  /\ UNCHANGED <<device, storages, folders, cache, call>>

\* What there is to set: no string that is NULL, no number of a new object.
New(p) == CASE p = "name" -> TRUE [] p = "title" -> call.op = "send" \/ call.title # "none"
            [] p = "track" -> FALSE

Descs ==
  /\ pc = "descs"
  /\ \/ \E p \in my.todo :
          /\ \/ /\ my' = [my EXCEPT !.todo = @ \ {p},
                                    !.chosen = IF Settable(p) /\ New(p) THEN @ \cup {p} ELSE @]
                /\ Fine
             \/ Fault(p) /\ my' = [my EXCEPT !.todo = @ \ {p}]
          /\ Goto("descs")
     \/ my.todo = {} /\ Goto("sendinfo") /\ Fine /\ UNCHANGED my
  /\ UNCHANGED <<device, storages, folders, cache, call>>

\* What the device makes of it: no store, or the one that does not exist, may be any.
At(p) == IF p = Root THEN Top ELSE p
Accepts(s, p) ==
  /\ s \in Store => s \in Present /\ Writable(scene.kind[s])
  /\ At(p) = Top \/ (p \in DOMAIN dev /\ dev[p].fmt = "folder" /\ (s \in Store => dev[p].store = s))
StoreFor(s, p) == IF s \in Store THEN {s} ELSE IF At(p) # Top THEN {dev[p].store}
                  ELSE {t \in Present : Writable(scene.kind[t])}

\* The file name is in the object info, or one of the properties; the title of a
\* file is its name at first.
Named(p) == ~Supports("SendObjectPropList") \/ call.op = "folder" \/ p \in my.chosen
Created(s) ==
  [parent |-> At(my.parent), store |-> s, fmt |-> call.fmt,
   name |-> IF Named("name") THEN my.name ELSE "",
   title |-> IF call.fmt = "track" \/ ~Named("title") \/ ~Supports("SendObjectPropList")
               THEN "none" ELSE call.title,
   track |-> 0, size |-> call.size, refs |-> << >>]

\* A list is sent without data, as an object of no bytes after its properties, or not
\* at all.
AfterInfo ==
  CASE call.op = "folder" -> "add"
    [] call.op = "create" /\ ~Supports("SendObjectPropList") -> "oneprops"
    [] OTHER -> "senddata"

\* A device that has neither operation: no object is announced, and the call goes
\* on.  SendObject is refused, and references are; a list of no tracks is done, as object 0.
Announces == Supports("SendObjectPropList") \/ Supports("SendObjectInfo")
Unannounced ==
  IF Creating /\ call.refs = << >>
    THEN errors' = errors \cup {"cache"} /\ Return(TRUE, 0)
    ELSE errors' = errors \cup {IF Creating THEN "refs" ELSE "data"} /\ Return(FALSE, 0)

SendInfo ==
  /\ pc = "sendinfo"
  /\ \/ /\ Announces /\ Accepts(my.store, my.parent)
        /\ \E h \in Handle \ used, s \in StoreFor(my.store, my.parent) :
             /\ used' = used \cup {h} /\ dev' = With(dev, h, Created(s))
             /\ my' = [my EXCEPT !.id = h]
        /\ Goto(AfterInfo)
        /\ Fine
     \/ /\ IF Announces THEN my.store = Nowhere \/ ~Accepts(my.store, my.parent) ELSE call.op = "folder"
        /\ errors' = errors \cup {"refused"} /\ UNCHANGED spent
        /\ Return(FALSE, 0) /\ UNCHANGED <<dev, used, my>>
     \/ ~Announces /\ call.op # "folder" /\ Unannounced /\ UNCHANGED <<spent, dev, used, my>>
     \/ Announces /\ Fault("refused") /\ Return(FALSE, 0) /\ UNCHANGED <<dev, used, my>>
  /\ UNCHANGED <<scene, room, storages, folders, cache, call>>

\* SendObject; the empty one of a list needs no room.  The callback may cancel it.
HasRoom == call.fmt = "list" \/ call.size <= room[dev[my.id].store]
Sent ==
  /\ HasRoom /\ Fine /\ UNCHANGED dev
  /\ room' = IF call.fmt = "list" THEN room ELSE [room EXCEPT ![dev[my.id].store] = @ - call.size]
  /\ Goto(IF call.op = "create" THEN "refs" ELSE "add")
Unsent == dev' \in {dev, Without(dev, my.id)} /\ Return(FALSE, 0) /\ UNCHANGED room
Refused ==
  \/ \E what \in IF call.op = "create" THEN {"data"} ELSE {"data", "cancelled"} : Fault(what) /\ Unsent
  \/ ~HasRoom /\ errors' = errors \cup {"data"} /\ UNCHANGED spent /\ Unsent

\* LIBMTP_Send_File_From_File_Descriptor
SendData ==
  /\ pc = "senddata" /\ call.source # "handler"
  /\ Sent \/ Refused
  /\ UNCHANGED <<scene, used, storages, folders, cache, call, my>>

\* LIBMTP_Send_File_From_Handler: the bytes come from the program, which may end it; what
\* get_func_wrapper makes of its answers.
Wrapped(answer) == CASE answer = "OK" -> "none" [] answer = "CANCEL" -> "cancelled" [] OTHER -> "data"
SendFromHandler ==
  /\ pc = "senddata" /\ call.source = "handler"
  /\ \E answer \in {"OK", "ERROR", "CANCEL", "other"} :
       IF Wrapped(answer) = "none" THEN Sent \/ Refused ELSE Fault(Wrapped(answer)) /\ Unsent
  /\ UNCHANGED <<scene, used, storages, folders, cache, call, my>>

\* LIBMTP_Send_Track_From_File, _File_From_File: that the file cannot be opened does not
\* reach the error stack.
OpenFile ==
  /\ pc = "open"
  /\ \/ Goto(Stores(call)) /\ Fine
     \/ Fails /\ UNCHANGED errors /\ Return(FALSE, 0)
  /\ UNCHANGED <<device, storages, folders, cache, call, my>>

-----------------------------------------------------------------------------
\* set_object_string and set_object_u16, one transaction, for the properties of an
\* object one by one.  A string that is NULL is not sent and an error, a number
\* that is 0 is just not sent.  Only create_new_abstract_list gives up.  All but
\* update_abstract_list get the description first, and pass over what is read-only;
\* that one has the device refuse it.
Described == call.fmt = "track" \/ Creating
Value(p) == IF p = "title" THEN call.title ELSE call.track
Missing(p) == p = "title" /\ call.title = "none"
Skipped(p) == p = "track" /\ call.track = 0
SetProp(h, p) == [dev EXCEPT ![h] = IF p = "title" THEN [@ EXCEPT !.title = call.title]
                                    ELSE [@ EXCEPT !.track = call.track]]
Done(p) == my' = [my EXCEPT !.todo = @ \ {p}]

\* What a property that could not be set makes of the call.
Failed == IF Creating THEN Return(FALSE, 0) ELSE Goto("setone")
SetOne ==
  /\ pc = "setone"
  /\ \/ \E p \in my.todo :
             \/ /\ Described
                /\ Fault(p) /\ Done(p) /\ Goto("setone") /\ UNCHANGED dev
             \/ /\ Skipped(p) \/ (Described /\ ~Settable(p))
                /\ Done(p) /\ Goto("setone") /\ Fine /\ UNCHANGED dev
             \/ /\ Missing(p) \/ ~Supports("SetObjectPropValue") \/ ~Settable(p)
                /\ Described => Settable(p)
                /\ errors' = errors \cup {p} /\ UNCHANGED <<spent, dev>>
                /\ Done(p) /\ Failed
             \/ /\ ~Missing(p) /\ ~Skipped(p) /\ Supports("SetObjectPropValue") /\ Settable(p) /\ Done(p)
                /\ \/ dev' = SetProp(my.id, p) /\ Goto("setone") /\ Fine
                   \/ Fault(p) /\ Failed /\ UNCHANGED dev
     \/ /\ my.todo = {} /\ Goto(IF call.fmt = "list" THEN "refs" ELSE "updated")
        /\ Fine /\ UNCHANGED <<dev, my>>
  /\ UNCHANGED <<scene, used, room, storages, folders, cache, call>>

\* create_new_abstract_list without SendObjectPropList: a failure of
\* GetObjectPropsSupported goes unnoticed.
OneProps ==
  /\ pc = "oneprops"
  /\ \/ my' = [my EXCEPT !.todo = {"title"} \cap scene.listed] /\ Goto("setone") /\ Fine
     \/ /\ Fails /\ UNCHANGED errors /\ Goto("setone")
        /\ my' = [my EXCEPT !.todo = {}, !.blind = TRUE]
  /\ UNCHANGED <<device, storages, folders, cache, call>>

\* LIBMTP_Update_Track_Metadata and update_abstract_list: the properties in one
\* list, or one by one, or not at all.
Updatable == IF call.fmt = "track" THEN {"title", "track"} ELSE {"title"}
UpdateProps ==
  /\ pc = "update"
  /\ \/ /\ Supports("SetObjPropList") \/ Supports("SetObjectPropValue")
        /\ my' = [my EXCEPT !.todo = Updatable \cap scene.listed, !.chosen = {}]
        /\ Goto(IF Supports("SetObjPropList") THEN "setdescs" ELSE "setone") /\ Fine
     \/ /\ ~(Supports("SetObjPropList") \/ Supports("SetObjectPropValue"))
        /\ errors' = errors \cup {"update"} /\ UNCHANGED <<spent, my>> /\ Return(FALSE, 0)
     \/ Fault("update") /\ Return(FALSE, 0) /\ UNCHANGED my
  /\ UNCHANGED <<device, storages, folders, cache, call>>

\* For a list of properties update_abstract_list takes a name that is NULL, too.
Updates(p) == Settable(p) /\ (Missing(p) => call.fmt = "list")
SetDescs ==
  /\ pc = "setdescs"
  /\ \/ \E p \in my.todo :
          /\ \/ /\ my' = [my EXCEPT !.todo = @ \ {p}, !.chosen = IF Updates(p) THEN @ \cup {p} ELSE @]
                /\ Fine
             \/ Fault(p) /\ Done(p)
          /\ Goto("setdescs")
     \/ my.todo = {} /\ Goto("setlist") /\ Fine /\ UNCHANGED my
  /\ UNCHANGED <<device, storages, folders, cache, call>>

\* SetObjPropList; update_abstract_list sends no empty one.
SetList ==
  /\ pc = "setlist"
  /\ LET Next1 == Goto(IF call.fmt = "list" THEN "refs" ELSE "updated")
         o == dev[my.id]
         Set == [o EXCEPT !.title = IF "title" \in my.chosen THEN call.title ELSE @,
                          !.track = IF "track" \in my.chosen THEN call.track ELSE @]
     IN \/ dev' = [dev EXCEPT ![my.id] = Set] /\ Next1 /\ Fine
        \/ /\ call.fmt = "track" \/ my.chosen # {}
           /\ Fault("update") /\ Return(FALSE, 0) /\ UNCHANGED dev
  /\ UNCHANGED <<scene, used, room, storages, folders, cache, call, my>>

\* SetObjectReferences: what is on a list.
SetRefs ==
  /\ pc = "refs"
  /\ LET Next1 == Goto(IF Creating THEN "add" ELSE "updated")
     IN \/ Creating /\ call.refs = << >> /\ Next1 /\ Fine /\ UNCHANGED dev
        \/ /\ ~(Creating /\ call.refs = << >>)
           /\ \/ dev' = [dev EXCEPT ![my.id].refs = call.refs] /\ Next1 /\ Fine
              \/ Fault("refs") /\ Return(FALSE, 0) /\ UNCHANGED dev
  /\ UNCHANGED <<scene, used, room, storages, folders, cache, call, my>>

-----------------------------------------------------------------------------
\* update_metadata_cache: the entry is taken out and ...
Evicted_Kept == cache              \* mutant: it is not
Evicted == Without(cache, my.id)

Updated ==
  /\ pc = "updated"
  /\ cache' = Evicted /\ my' = [my EXCEPT !.updated = TRUE] /\ Goto("add")
  /\ Fine /\ UNCHANGED <<device, storages, folders, call>>

\* ... add_object_to_cache puts the object in with all there is to know; an entry
\* whose info cannot be had is taken out, and no failure stops the call.
Added == IF call.op = "send" /\ ~my.updated THEN Goto("reread") ELSE Return(TRUE, my.id)

AddInfo ==
  /\ pc = "add"
  /\ \/ Entry(my.id).info # NoInfo /\ Goto("addprops") /\ Fine /\ UNCHANGED cache
     \/ /\ Entry(my.id).info = NoInfo
        /\ \/ /\ cache' = With(cache, my.id, [Entry(my.id) EXCEPT !.info = InfoOf(dev[my.id])])
              /\ Goto("addprops") /\ Fine
           \/ cache' = Without(cache, my.id) /\ Fault("cache") /\ Added
  /\ UNCHANGED <<device, storages, folders, call, my>>

AddProps ==
  /\ pc = "addprops"
  /\ WantProps(my.id, Added /\ Fine, Fault("cache") /\ Added)
  /\ UNCHANGED <<device, storages, folders, call, my>>

\* LIBMTP_Send_File_From_File_Descriptor then asks the cache, or the device, where
\* the object really is.
\* LIBMTP_Get_Filemetadata needs the info and, where there are such, the property list.
Unfilled == scene.cached /\ DOMAIN cache = {}
Reread ==
  /\ pc = "reread"
  /\ \/ /\ cache' = IF Unfilled THEN Flushed
                     ELSE With(cache, my.id, IF Entry(my.id).info # NoInfo THEN Entry(my.id)
                                             ELSE [Entry(my.id) EXCEPT !.info = InfoOf(dev[my.id])])
        /\ Goto("rereadprops") /\ Fine
     \/ /\ ~Unfilled /\ Entry(my.id).info = NoInfo /\ cache' = Without(cache, my.id)
        /\ Fault("reread") /\ Return(FALSE, 0)
  /\ UNCHANGED <<device, storages, folders, call, my>>

RereadProps ==
  /\ pc = "rereadprops"
  /\ WantProps(my.id,
       /\ LET i == cache'[my.id].info
          IN my' = [my EXCEPT !.parent = i.parent, !.store = i.store]
       /\ Goto("update") /\ Fine,
       Fault("reread") /\ Return(FALSE, 0) /\ UNCHANGED my)
  /\ UNCHANGED <<device, storages, folders, call>>
-----------------------------------------------------------------------------
\* LIBMTP_Get_Storage: the list is freed, and filled with what the device says.  That
\* it names no storages, or fails to, is not an error on the stack.
StorageIds ==
  /\ pc = "ids"
  /\ \/ /\ scene.order # << >> /\ Supports("GetStorageInfo")
        /\ my' = [my EXCEPT !.left = scene.order] /\ Goto("info") /\ Fine /\ UNCHANGED storages
     \/ /\ scene.order # << >> /\ ~Supports("GetStorageInfo")
        /\ list' = Listed(scene.order) /\ known' = [s \in Store |-> Told(s)]
        /\ Return(TRUE, 1) /\ Fine /\ UNCHANGED my
     \/ /\ \/ scene.order = << >> /\ Fine
           \/ Fails /\ UNCHANGED errors
        /\ Return(FALSE, 0) /\ UNCHANGED <<storages, my>>
  /\ UNCHANGED <<device, folders, cache, call>>

Key == [s \in Store |-> IF call.sort = "max" THEN scene.size[s] ELSE known[s].free]

StorageInfo ==
  /\ pc = "info"
  /\ \/ /\ my.left # << >>
        /\ \/ /\ list' = Append1(list, Head(my.left)) /\ Fine
              /\ known' = [known EXCEPT ![Head(my.left)] = Told(Head(my.left))]
              /\ my' = [my EXCEPT !.left = Tail(@)] /\ Goto("info")
           \/ Fault("storage") /\ list' = Emptied /\ Return(FALSE, 0) /\ UNCHANGED <<known, my>>
     \/ /\ my.left = << >>
        /\ list' = IF call.sort = "none" THEN list ELSE SortedBy(list, Key)
        /\ Return(TRUE, 0) /\ Fine /\ UNCHANGED <<known, my>>
  /\ UNCHANGED <<device, folders, cache, call>>

-----------------------------------------------------------------------------
\* LIBMTP_Get_String_From_Object: the cached property, if there is a list of them.
HasProps(h) == h \in DOMAIN cache /\ cache[h].props # NoProps
Answer(ok, title, refs) ==
  /\ result' = [op |-> call.op, ok |-> ok, id |-> call.h, title |-> title, refs |-> refs]
  /\ pc' = "idle"

GetTitle ==
  /\ pc = "gettitle"
  /\ LET Next1(t) == IF call.op = "gettitle" THEN Answer(TRUE, t, << >>) /\ UNCHANGED my
                     ELSE my' = [my EXCEPT !.name = t] /\ Goto("getrefs")
     IN \/ HasProps(call.h) /\ Next1(cache[call.h].props.title) /\ Fine
        \/ ~HasProps(call.h) /\ Next1(dev[call.h].title) /\ Fine
        \/ ~HasProps(call.h) /\ Fault("title") /\ Next1("none")
  /\ UNCHANGED <<device, storages, folders, cache, call>>

\* LIBMTP_Get_Playlist: the info, the name, and the tracks, which are always asked for.
GetList ==
  /\ pc = "getlist"
  /\ \/ /\ cache' = With(cache, call.h, IF Entry(call.h).info # NoInfo THEN Entry(call.h)
                                        ELSE [Entry(call.h) EXCEPT !.info = InfoOf(dev[call.h])])
        /\ IF cache'[call.h].info.fmt = "list" THEN Goto("gettitle") ELSE Answer(FALSE, "none", << >>)
        /\ Fine
     \/ /\ Entry(call.h).info = NoInfo /\ cache' = Without(cache, call.h)
        /\ Fault("info") /\ Answer(FALSE, "none", << >>)
  /\ UNCHANGED <<device, storages, folders, call, my>>

GetRefs ==
  /\ pc = "getrefs"
  /\ \/ Answer(TRUE, my.name, dev[call.h].refs) /\ Fine
     \/ Fault("refs") /\ Answer(TRUE, my.name, << >>)
  /\ UNCHANGED <<device, storages, folders, cache, call, my>>

\* LIBMTP_Set_Object_String: the device, and not the cache.  A title that cannot be
\* set is not looked for; the device refuses it.
SetTitle ==
  /\ pc = "settitle"
  /\ \/ /\ ~Missing("title") /\ Supports("SetObjectPropValue") /\ Settable("title")
        /\ \/ dev' = SetProp(call.h, "title") /\ Return(TRUE, call.h) /\ Fine
           \/ Fault("title") /\ Return(FALSE, 0) /\ UNCHANGED dev
     \/ /\ Missing("title") \/ ~Supports("SetObjectPropValue") \/ ~Settable("title")
        /\ Return(FALSE, 0) /\ errors' = errors \cup {"title"} /\ UNCHANGED <<spent, dev>>
  /\ UNCHANGED <<scene, used, room, storages, folders, cache, call, my>>

-----------------------------------------------------------------------------
\* generate_unique_filename: a name no entry of the cache has.
CachedNames == {cache[h].info.name : h \in {g \in DOMAIN cache : cache[g].info # NoInfo}}
Suffixed(name, n) == IF n = 0 THEN name ELSE IF n = 1 THEN "a_1" ELSE "a_2"
Unique_Once(name) == IF name \in CachedNames THEN Suffixed(name, 1) ELSE name  \* mutant: once
Unique(name) ==
  LET free == {n \in 0 .. 2 : Suffixed(name, n) \notin CachedNames}
  IN Suffixed(name, CHOOSE n \in free : \A m \in free : n <= m)

\* LIBMTP_Create_New_Playlist has default folders of its own.
ListFolder == IF call'.parent # Root THEN call'.parent
              ELSE IF folders.list # Root THEN folders.list ELSE folders.music

\* A call: what comes first.
First == CASE call'.op = "create" -> "name?"
           [] call'.op = "send" /\ call'.source = "file" -> "open"
           [] call'.op \in {"send", "folder"} -> Stores(call')
           [] call'.op = "storage" -> "ids"
           [] OTHER -> call'.op

Call ==
  /\ pc = "idle" /\ spent.calls < scene.max.calls
  /\ \E c \in scene.calls :
       /\ \E h \in IF c.op \in OfObject
                     THEN {g \in DOMAIN dev : dev[g].fmt = c.fmt} ELSE {0} :
            call' = [c EXCEPT !.h = h]
       /\ c.op = "send" /\ scene.unique => \E n \in 0 .. 2 : Suffixed(c.name, n) \notin CachedNames
       /\ my' = [Idle EXCEPT !.store = c.store, !.id = call'.h,
                             !.parent = IF c.op = "create" THEN ListFolder ELSE c.parent,
                             !.name = IF c.op = "send" /\ scene.unique THEN Unique(c.name) ELSE c.name]
       /\ list' = IF c.op = "storage" THEN Emptied ELSE list
  /\ pc' = First /\ errors' = {} /\ spent' = [spent EXCEPT !.calls = @ + 1]
  /\ UNCHANGED <<device, known, folders, cache, result>>

Next ==
  \/ Call \/ Suggest \/ Fit \/ Place \/ PlaceList \/ Props \/ Descs \/ SendInfo \/ SendData
  \/ SendFromHandler \/ OpenFile
  \/ SetOne \/ OneProps \/ UpdateProps \/ SetDescs \/ SetList \/ SetRefs
  \/ Updated \/ AddInfo \/ AddProps \/ Reread \/ RereadProps \/ StorageIds \/ StorageInfo
  \/ GetTitle \/ GetList \/ GetRefs \/ SetTitle

Spec == Init /\ [][Next]_vars
-----------------------------------------------------------------------------
\* TypeOK: the variables keep their types; the storage list has two ends.
TypeOK ==
  /\ scene \in Scenarios /\ used \subseteq Handle /\ DOMAIN dev \subseteq used
  /\ \A h \in DOMAIN dev : /\ DOMAIN dev[h] = {"parent", "store", "fmt", "name", "title", "track", "size", "refs"}
                           /\ dev[h].parent \in Handle \cup {Top} /\ dev[h].store \in Store
                           /\ dev[h].name \in Names /\ dev[h].title \in Titles
  /\ \A s \in Store : room[s] \in 0 .. scene.size[s]
  /\ DOMAIN cache \subseteq Handle \cup {Top}
  /\ list.head \in Store \cup {Null} /\ list.last \in Store \cup {Null}
  /\ list.head # Null => list.prv[list.head] = Null /\ list.nxt[list.last] = Null
  /\ pc # "idle" => call.op # "none"
  /\ my.store \in Store \cup {Null, Nowhere} /\ my.parent \in Handle \cup {Root, Top}
  /\ my.todo \subseteq Properties /\ my.chosen \subseteq Properties

Succeeded(ops) == pc = "idle" /\ result.op \in ops /\ result.ok
Does(op) == \E c \in scene.calls : c.op = op
Faultless == spent.faults = 0

\* What the device does not list, or does not let be set, is left as it was.  (A
\* folder is created with its title whatever the device lists.)
AtFirst(h) == IF h \in DOMAIN scene.objects THEN PropsOf(scene.objects[h]) ELSE [title |-> "none", track |-> 0]
Untouched(h) ==
  /\ Settable("title") \/ dev[h].fmt = "folder" \/ dev[h].title = AtFirst(h).title
  /\ Settable("track") \/ dev[h].track = AtFirst(h).track
LeftAlone == \A h \in DOMAIN dev : Untouched(h)

Fulfilled ==
  /\ Succeeded({"send", "create", "update"}) /\ (Announces \/ ~Creating) =>
       LET o == dev[result.id]
       IN /\ o.fmt = call.fmt
          /\ Settable("title") => o.title = call.title \/ call.title = "none" \/ "title" \in errors \/ my.blind
          /\ Settable("track") => o.track = call.track \/ call.track = 0 \/ "track" \in errors
          /\ o.refs = call.refs
          /\ call.op # "update" =>
               /\ Settable("name") \/ ~Supports("SendObjectPropList") =>
                    o.name = my.name \/ "name" \in errors \/ my.blind
               /\ o.parent = At(my.parent) /\ (my.store \in Store => o.store = my.store)
          /\ call.op = "send" =>
               /\ call.parent # Root => o.parent = call.parent
               /\ call.store # Null => o.store = call.store
  /\ pc = "senddata" /\ call.op = "send" /\ scene.unique /\ dev[my.id].name = my.name =>
       \A h \in DOMAIN dev \ {my.id} : h \in DOMAIN cache /\ cache[h].info # NoInfo => dev[h].name # my.name
  /\ pc = "idle" /\ result.op \in {"send", "create", "update", "folder"} /\ ~result.ok =>
       errors # {} \/ call.source = "file"
  /\ Succeeded({"gettitle", "getlist"}) /\ Faultless /\ ~Does("settitle") =>
       /\ result.title = dev[result.id].title
       /\ call.op = "getlist" => result.refs = dev[result.id].refs

\* AsAsked: when a call says that it succeeded, the device has what was asked for:
\* each value of a property that the device lists and lets be set, but for those whose
\* failure is on the error stack; a property that is not listed, or read-only, keeps
\* its value, and the call succeeds without a word of it.  A file has the name that was
\* asked for or, where names are to be unique, one that no other object had whose info
\* was in the cache when it was created, and is where the call says it is; a list holds
\* just the tracks given; what is read is what the device has; and a call that fails says
\* why on the error stack, unless it could not open the file to send.  On a device that
\* has no operation to announce an object with, an empty list is "created" as object 0,
\* which does not exist: no claim is made of it.
AsAsked == LeftAlone /\ Fulfilled

\* CacheAgrees: after a call that changed an object and succeeded, the cache does
\* not contradict the device about that object, whatever failed on the way.
CacheAgrees ==
  Succeeded({"send", "create", "update", "folder", "end"}) /\ result.id \in DOMAIN dev \cap DOMAIN cache =>
    LET e == cache[result.id]
        o == dev[result.id]
    IN /\ e.info = NoInfo \/ e.info = InfoOf(o)
       /\ e.props = NoProps \/ e.props = PropsOf(o)

\* StorageSorted: once LIBMTP_Get_Storage has succeeded, the list holds every storage
\* of the device once, the links back are those forward reversed, and it is in the
\* order asked for, equal ones in the order of the device.
StorageSorted ==
  Succeeded({"storage"}) =>
    LET w == From(list, list.head)
        Place1(s) == CHOOSE i \in 1 .. Len(scene.order) : scene.order[i] = s
    IN /\ Len(w) = Len(scene.order) /\ {w[i] : i \in 1 .. Len(w)} = {scene.order[i] : i \in 1 .. Len(w)}
       /\ \A i \in 1 .. Len(w) : list.prv[w[i]] = IF i = 1 THEN Null ELSE w[i - 1]
       /\ \A i \in 1 .. Len(w) - 1 :
            IF call.sort = "none" \/ ~Supports("GetStorageInfo") \/ Key[w[i]] = Key[w[i + 1]]
              THEN Place1(w[i]) < Place1(w[i + 1])
              ELSE Key[w[i]] > Key[w[i + 1]]

\* SendsIfRoom: a file that is sent without naming a place is only refused if no
\* storage can take it (as long as the program left the storage list as it was when
\* the device was opened): space used up by earlier sends counts, the default
\* folder and the storage chosen go together.
SendsIfRoom ==
  /\ pc = "idle" /\ result.op = "send" /\ ~result.ok
  /\ call.parent = Root /\ call.store = Null
  /\ Faultless /\ ~Does("storage") /\ Supports("GetStorageInfo")
  /\ Announces
  /\ Supports("SetObjPropList") \/ Supports("SetObjectPropValue")
  => \A s \in Present : Writable(scene.kind[s]) => call.size > room[s]
=============================================================================
