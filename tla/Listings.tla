------------------------------ MODULE Listings ------------------------------
(***************************************************************************)
(* The calls of libmtp.c that list what is on a device, among and after    *)
(* those of Library that change it: files, tracks, playlists, albums,      *)
(* folders, the contents of a folder, and one object.  What an entry of    *)
(* the cache does not say is asked of the device, property by property,    *)
(* and each transaction may fail.                                          *)
(***************************************************************************)
EXTENDS Library, Folders, SequencesExt

VARIABLES reading,    \* the listing under way, and when it returned the listing
          lost        \* what calls that failed may have left on the device

AllVars == <<vars, reading, lost>>

\* left: handles to look up; item: the one at hand; fields: what to ask of it yet.
NoItem == [id |-> 0, name |-> "", title |-> "none", track |-> 0, size |-> 0, refs |-> << >>]
NotReading == [left |-> << >>, item |-> NoItem, fields |-> {}, items |-> << >>]
Walking == {"files", "tracks", "playlists", "albums"}
Inside == {"within", "children"}
Fetching == {"partial", "getfile", "gethandler"}      \* see Files
Single == {"file", "track", "album"} \cup Fetching
Listers == Walking \cup Inside \cup Single \cup {"folders"}

Unread == UNCHANGED <<device, storages, folders, call, my>>
Said(ok) == result' = [op |-> call.op, ok |-> ok, id |-> call.h, title |-> "none", refs |-> << >>]
            /\ pc' = "idle"

\* Listings flush an empty cache; LIBMTP_Get_Filemetadata only when the device is
\* opened cached.
Known == IF DOMAIN cache = {} /\ (call.op \in {"file"} \cup Fetching => scene.cached) THEN Flushed ELSE cache
Ordered(hs) == SetToSortSeq(hs, LAMBDA g, h : g < h)
OnStore(i) == call.store = Null \/ call.op \in {"files", "playlists"} \/ i.store = call.store

\* What is listed: tracks and lists by their format, and all but folders as files.
Lists(i) == /\ OnStore(i)
            /\ CASE call.op = "files" -> i.fmt # "folder" [] call.op = "tracks" -> i.fmt = "track"
                 [] OTHER -> i.fmt = "list"

\* LIBMTP_Get_Filelisting, _Tracklisting, _Playlist_List, _Album_List.
Begin ==
  /\ pc \in Walking
  /\ cache' = Known
  /\ reading' = [NotReading EXCEPT !.left = Ordered({h \in DOMAIN Known : Lists(Known[h].info)})]
  /\ Goto("next") /\ Fine /\ Unread

\* LIBMTP_Get_Filemetadata, _Trackmetadata, _Album.
BeginOne ==
  /\ pc \in Single
  /\ cache' = Known /\ reading' = [NotReading EXCEPT !.left = << call.h >>]
  /\ Goto("next") /\ Fine /\ Unread

\* LIBMTP_Get_Files_And_Folders and _Children: GetObjectHandles, not on a cached device.
Within(p) == {h \in DOMAIN dev : dev[h].parent = p /\ (call.store # Null => dev[h].store = call.store)}
BeginWithin ==
  /\ pc \in Inside
  /\ \/ scene.cached /\ Said(FALSE) /\ Fine /\ reading' = NotReading
     \/ ~scene.cached /\ Fault("handles") /\ Said(FALSE) /\ reading' = NotReading
     \/ /\ ~scene.cached /\ Fine
        /\ LET hs == Ordered(Within(call.parent))
           IN IF call.op = "within" THEN reading' = [NotReading EXCEPT !.left = hs] /\ Goto("next")
              ELSE /\ reading' = [NotReading EXCEPT !.items = [i \in DOMAIN hs |-> [NoItem EXCEPT !.id = hs[i]]]]
                   /\ Said(TRUE)
  /\ UNCHANGED cache /\ Unread

\* LIBMTP_Get_Folder_List_For_Storage
GetFolders ==
  /\ pc = "folders" /\ cache' = Known
  /\ LET on(h) == Known[h].info.fmt = "folder" /\ OnStore(Known[h].info)
         hs == Ordered({h \in DOMAIN Known : on(h)})
         fs == [i \in DOMAIN hs |-> [id |-> hs[i], parent |-> Known[hs[i]].info.parent]]
     IN reading' = [NotReading EXCEPT !.items = FolderTree(fs, Top)]
  /\ Said(TRUE) /\ Fine /\ Unread

-----------------------------------------------------------------------------
\* One object after the other.
At1 == Head(reading.left)
Item(h) == [NoItem EXCEPT !.id = h, !.name = cache[h].info.name, !.size = cache[h].info.size]
Onto(item) == reading' = [reading EXCEPT !.left = Tail(@), !.item = NoItem, !.fields = {},
                                         !.items = Append(@, item)]
Dropped == reading' = [reading EXCEPT !.left = Tail(@), !.item = NoItem] /\ Goto("next")

NextItem ==
  /\ pc = "next"
  /\ \/ reading.left = << >> /\ call.op \in Fetching /\ reading.items # << >>
        /\ Goto("fetch") /\ UNCHANGED reading
     \/ /\ reading.left = << >> /\ (call.op \in Fetching => reading.items = << >>)
        /\ Said(call.op \in Single => reading.items # << >>) /\ UNCHANGED reading
     \/ /\ reading.left # << >>
        /\ reading' = IF call.op \in Walking THEN [reading EXCEPT !.item = Item(At1)] ELSE reading
        /\ Goto(CASE call.op = "files" -> "look" [] call.op = "playlists" -> "name"
                  [] call.op \in Walking -> "list" [] OTHER -> "wantinfo")
  /\ Fine /\ Unread /\ UNCHANGED cache

\* ptp_object_want(PTPOBJECT_OBJECTINFO_LOADED); what is no track is no album either.
IsOne(i) == CASE call.op = "track" -> i.fmt = "track" [] call.op = "album" -> i.fmt = "list" [] OTHER -> TRUE
WantInfo ==
  /\ pc = "wantinfo"
  /\ LET i == IF Entry(At1).info # NoInfo THEN Entry(At1).info ELSE InfoOf(dev[At1])
     IN \/ /\ Entry(At1).info # NoInfo \/ At1 \in DOMAIN dev
           /\ cache' = With(cache, At1, [Entry(At1) EXCEPT !.info = i]) /\ Fine
           /\ IF IsOne(i)
                THEN reading' = [reading EXCEPT !.item = [NoItem EXCEPT !.id = At1, !.name = i.name, !.size = i.size]]
                     /\ Goto("list")
                ELSE Dropped
        \/ Entry(At1).info = NoInfo /\ Fault("info") /\ cache' = Without(cache, At1) /\ Dropped
  /\ Unread

\* pick_property_to_track_metadata, pick_property_to_album_metadata, obj2file.
\* Mutant: the size in the info will do.
Fields_NoSize == IF call.op \in {"tracks", "track"} THEN {"title", "track"}
                 ELSE IF call.op \in {"albums", "album"} THEN {"title"} ELSE {}
Fields == IF call.op \in {"tracks", "track"} THEN {"title", "track", "size"}
          ELSE IF call.op \in {"albums", "album"} THEN {"title"} ELSE {"size"}
Picked(item, props) == [p \in DOMAIN item |-> IF p \in Fields THEN props[p] ELSE item[p]]

\* With a property list it is all there; else the device is asked.
Albums == call.op \in {"albums", "album"}
Look ==
  /\ pc = "look" /\ Fine
  /\ LET item == Picked(reading.item, cache[At1].props)
     IN \/ ~HasProps(At1) /\ Goto("supported") /\ UNCHANGED reading
        \/ HasProps(At1) /\ Onto(item) /\ Goto("next")
  /\ ~Albums /\ UNCHANGED cache /\ Unread

\* get_album_metadata: of an album also the tracks are asked for, whatever came before.
LookAlbum ==
  /\ pc = "look" /\ Albums /\ Fine
  /\ \/ ~HasProps(At1) /\ Goto("supported") /\ UNCHANGED reading
     \/ HasProps(At1) /\ reading' = [reading EXCEPT !.item = Picked(@, cache[At1].props)] /\ Goto("members")
  /\ UNCHANGED cache /\ Unread

\* ptp_object_want(PTPOBJECT_MTPPROPLIST_LOADED): that it fails is only looked at for
\* a file.
WantList ==
  /\ pc = "list"
  /\ WantProps(At1, Goto("look") /\ Fine /\ UNCHANGED reading,
       Fault("list") /\ IF call.op \in {"file", "within"} \cup Fetching THEN Dropped ELSE Goto("look") /\ UNCHANGED reading)
  /\ Unread

\* GetObjectPropsSupported: without it a file keeps what its info said, a track
\* has no metadata.
Supported ==
  /\ pc = "supported"
  /\ \/ reading' = [reading EXCEPT !.fields = Fields] /\ Goto("field") /\ Fine
     \/ /\ Fault("supported")
        /\ IF Albums THEN Goto("members") /\ UNCHANGED reading ELSE Onto(reading.item) /\ Goto("next")
  /\ UNCHANGED cache /\ Unread

\* get_string_from_object, get_u16_from_object, get_u32_from_object,
\* get_u64_from_object: a property of one object, or the default.
Default(p) == IF p = "title" THEN "none" ELSE 0
Value1(p) == IF At1 \in DOMAIN dev THEN PropsOf(dev[At1])[p] ELSE Default(p)
Says(p, v) ==
  \/ At1 \in DOMAIN dev /\ v = Value1(p) /\ Fine
  \/ At1 \notin DOMAIN dev /\ v = Default(p) /\ errors' = errors \cup {p} /\ UNCHANGED spent
  \/ At1 \in DOMAIN dev /\ v = Default(p) /\ Fault(p)
Field ==
  /\ pc = "field"
  /\ \/ \E p \in reading.fields : \E v \in {Value1(p), Default(p)} :
          Says(p, v) /\ reading' = [reading EXCEPT !.fields = @ \ {p}, !.item[p] = v] /\ Goto("field")
     \/ /\ reading.fields = {} /\ Fine
        /\ IF Albums THEN Goto("members") /\ UNCHANGED reading ELSE Onto(reading.item) /\ Goto("next")
  /\ UNCHANGED cache /\ Unread

\* LIBMTP_Get_Playlist_List: the name, or else the name of the file.
Name ==
  /\ pc = "name"
  /\ \/ \E v \in {Value1("title"), Default("title")} :
          /\ ~HasProps(At1) /\ Says("title", v)
          /\ reading' = [reading EXCEPT !.item.title = v]
     \/ /\ HasProps(At1) /\ Fine
        /\ reading' = [reading EXCEPT !.item.title = cache[At1].props.title]
  /\ Goto("members") /\ UNCHANGED cache /\ Unread

\* GetObjectReferences, always of the device.
Members ==
  /\ pc = "members"
  /\ \/ At1 \in DOMAIN dev /\ Onto([reading.item EXCEPT !.refs = dev[At1].refs]) /\ Fine
     \/ Fault("refs") /\ Onto(reading.item)
  /\ Goto("next") /\ UNCHANGED cache /\ Unread

Reads == \/ Begin \/ BeginOne \/ BeginWithin \/ GetFolders \/ NextItem \/ WantInfo \/ Look \/ LookAlbum
         \/ WantList \/ Supported \/ Field \/ Name \/ Members
AnyCall == \/ Next /\ UNCHANGED reading
              /\ lost' = IF pc' = "idle" /\ ~result'.ok THEN lost \cup {my.id} ELSE lost
           \/ Reads /\ UNCHANGED lost

-----------------------------------------------------------------------------
Ids == {reading.items[i].id : i \in DOMAIN reading.items}
Listing == pc = "idle" /\ call.op \in Listers \ ({"folders"} \cup Fetching) /\ result.op = call.op /\ result.ok

\* What is listed is each object of the kind once, with the values the device has
\* or, where the device could not be asked for one, without it and with an error
\* (for a size, with the lower half of it if the info said that): whether it comes from the
\* property lists of the cache or from property after property, after whatever
\* was sent, created or updated before.  (A title set by LIBMTP_Set_Object_String
\* does not reach the cache.)
ListsAll ==
  Listing =>
    LET what(h) == CASE call.op \in Inside -> h \in Within(call.parent)
                     [] call.op \in Single -> h = call.h
                     [] OTHER -> Lists(InfoOf(dev[h]))
        right(item, p, v) == \/ item[p] = PropsOf(dev[item.id])[p]
                             \/ item[p] = Default(p) /\ p \in errors
                             \/ item[p] = v /\ "supported" \in errors
    IN /\ Cardinality(Ids) = Len(reading.items)
       /\ \A h \in Ids \cap DOMAIN dev : what(h)
       /\ Faultless /\ (scene.cached \/ call.op \in Inside) => {h \in DOMAIN dev \ lost : what(h)} \subseteq Ids
       /\ call.op # "children" =>
            \A item \in {x \in ToSet(reading.items) : x.id \in DOMAIN dev} :
              LET o == dev[item.id]
              IN /\ item.name = o.name
                 /\ call.op \in {"tracks", "track", "albums", "album", "playlists"} =>
                      right(item, "title", "none") \/ Does("settitle")
                 /\ call.op \in {"tracks", "track"} => right(item, "track", 0)
                 /\ call.op \in {"tracks", "track", "files", "file", "within"} =>
                      right(item, "size", o.size % Word)
                 /\ call.op \in {"albums", "album", "playlists"} =>
                      item.refs = o.refs \/ (item.refs = << >> /\ "refs" \in errors)

\* The folder list is the tree of all folders of the cache that hang together with
\* the root, each once, below its parent and in the order of the cache.
FoldersInPlace ==
  pc = "idle" /\ call.op = "folders" /\ result.op = "folders" =>
    LET hs == Ordered({h \in DOMAIN cache : cache[h].info.fmt = "folder" /\ OnStore(cache[h].info)})
        fs == [i \in DOMAIN hs |-> [id |-> hs[i], parent |-> cache[hs[i]].info.parent]]
        root == IF \E i \in DOMAIN fs : fs[i].parent = 0 THEN 0 ELSE Top
    IN reading.items = Below(fs, root)
=============================================================================
