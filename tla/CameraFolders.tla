---------------------------- MODULE CameraFolders ----------------------------
(***************************************************************************)
(* The folders of a camera as ptp_list_folder (src/src/ptp.c) lists them,  *)
(* once each and from then on out of params->objects, and the events that  *)
(* make the library forget: ptp_check_event takes them from the interrupt  *)
(* pipe or asks for them, as the vendor has it, handle_event_internal      *)
(* acts on them and the program takes them from a queue.  A listing and    *)
(* what it asks the camera are one step; what the camera does comes        *)
(* between.                                                                *)
(***************************************************************************)
EXTENDS CameraProps

VARIABLES
  alive,             \* the objects in the camera, of scene.things
  plugged,           \* the slots that have a card
  kept,              \* params->objects, by handle: how it is sorted is in ObjectArray
  ids,               \* params->storageids
  pending,           \* events the library does not have yet
  queue,             \* params->events
  works,             \* params->event90c7works
  coming,            \* the events the program should get
  owed,              \* the children that were in a folder or a root when it was first listed
  lost               \* whether ids could not be had, or an answer with events was cut short

folderVars == <<alive, plugged, kept, ids, pending, queue, works, coming, owed, lost>>
All == 99            \* PTP_HANDLER_SPECIAL
X == {"info", "store", "parent"}
Thing(h) == scene.things[h]
Supplied == {h \in alive : Thing(h).store \in plugged}

-----------------------------------------------------------------------------
\* params->objects.  What is not known yet is 0.

NewEntry == [parent |-> 0, store |-> 0, folder |-> FALSE, flags |-> {}]
Hold(k, h, e) == [g \in DOMAIN k \cup {h} |-> IF g = h THEN e ELSE k[g]]
Drop(k, h) == [g \in DOMAIN k \ {h} |-> k[g]]
Cached(k, h) == IF h \in DOMAIN k THEN k[h] ELSE NewEntry

\* ptp_object_want(PTPOBJECT_OBJECTINFO_LOADED): a parent that is known stays.
Loaded(e, h) ==
  [e EXCEPT !.store = Thing(h).store, !.folder = Thing(h).folder, !.flags = @ \cup X,
            !.parent = IF "parent" \in e.flags THEN @ ELSE Thing(h).parent]
Wants(k, h) ==
  IF "info" \in Cached(k, h).flags THEN {Is(k, 0)}
  ELSE {[ok |-> FALSE, v |-> Drop(k, h), at |-> 0]} \cup (IF h \in Supplied THEN {Is(Hold(k, h, Loaded(Cached(k, h), h)), 0)} ELSE {})

-----------------------------------------------------------------------------
\* The camera: GetObjectHandles of a storage and a folder, of all of them if it does
\* not know either parameter.  Some cameras say that all files are in the root.
Knows(s, p) == CASE scene.answers = "nostore" -> s = All
                 [] scene.answers = "noparent" -> s = All /\ p = 0
                 [] OTHER -> s = All \/ s \in plugged
HandlesIn(s, p) ==
  {h \in Supplied : /\ s \in {All, Thing(h).store}
                    /\ CASE p = 0 -> TRUE
                         [] p = All -> Thing(h).parent = 0 \/ scene.answers = "flat"
                         [] OTHER -> Thing(h).parent = p}

\* ptp_list_folder: one of the objects that were listed, new or known.  In a root
\* there may be all files, so a new one is not tagged with it.
Tagged(handle) == handle \notin {All, 0}
Flag(e, store, handle, parent) ==
  [e EXCEPT !.parent = IF parent THEN handle ELSE @, !.store = IF store # All THEN store ELSE @,
            !.flags = @ \cup (IF parent THEN {"parent"} ELSE {}) \cup (IF store # All THEN {"store"} ELSE {})]
Found(k, store, handle, h) ==
  IF h \in DOMAIN k THEN Flag(k[h], store, handle, handle # All) ELSE Flag(NewEntry, store, handle, Tagged(handle))
FoundAll(k, store, handle, hs) == [h \in DOMAIN k \cup hs |-> IF h \in hs THEN Found(k, store, handle, h) ELSE k[h]]

\* ptp_list_folder_eos: the entries come with all there is to know.
Entered(k, store, handle, h) ==
  IF h \in DOMAIN k THEN Flag(k[h], store, handle, TRUE)
  ELSE [NewEntry EXCEPT !.parent = handle, !.store = store, !.folder = Thing(h).folder, !.flags = X]
EnteredAll(k, store, handle, hs) == [h \in DOMAIN k \cup hs |-> IF h \in hs THEN Entered(k, store, handle, h) ELSE k[h]]

\* What there is in the cache of a root or of a folder.
RootOf(k, store) == {h \in DOMAIN k : k[h].parent = 0 /\ k[h].store = store}
Inside(k, handle) == {h \in DOMAIN k : k[h].parent = handle}

\* The three ways to ask, each after the one before was not understood, with the
\* storage and the folder the objects are then tagged with.
Ways(store, handle) ==
  << [s |-> store, p |-> IF handle = 0 THEN All ELSE handle, store |-> store, handle |-> handle],
     [s |-> All, p |-> IF handle = 0 THEN All ELSE handle, store |-> All, handle |-> handle],
     [s |-> All, p |-> 0, store |-> All, handle |-> All] >>
Way(store, handle) ==
  LET known == {i \in 1 .. 3 : Knows(Ways(store, handle)[i].s, Ways(store, handle)[i].p)}
  IN Ways(store, handle)[CHOOSE i \in known : \A j \in known : i <= j]

Outcome(ok, from, children, k) == [ok |-> ok, from |-> from, children |-> children, kept |-> k]
Refused(k) == Outcome(FALSE, "camera", {}, k)
AskedFor(k, w) == Outcome(TRUE, "camera", HandlesIn(w.s, w.p), FoundAll(k, w.store, w.handle, HandlesIn(w.s, w.p)))
AskFast(k, store, handle, hs) == Outcome(TRUE, "camera", hs, EnteredAll(k, store, handle, hs))
\* What a folder that is in the cache is: asked for, or listed already; a storage that
\* is gone is refused.
Fast(store) == scene.answers = "fast" /\ store # All
Gone(store) == store \notin plugged \cup {All} /\ scene.answers \in {"plain", "flat", "fast"}
FromDevice(k, store, handle) ==
  {Refused(k)} \cup (IF Gone(store) THEN {} ELSE {AskedFor(k, Way(store, handle))})
    \cup (IF Fast(store) /\ ~Gone(store)
            THEN {AskFast(k, store, handle, HandlesIn(store, IF handle = 0 THEN All ELSE handle))} ELSE {})
\* The flag is set before the camera is asked.
Marked(k, h) == [k EXCEPT ![h].flags = @ \cup {"dir"}]
FromFolder(k, store, handle) ==
  CASE ~k[handle].folder -> {Outcome(FALSE, "cache", {}, k)}
    [] k[handle].folder /\ "dir" \in k[handle].flags -> {Outcome(TRUE, "cache", Inside(k, handle), k)}
    [] OTHER -> FromDevice(Marked(k, handle), store, handle)
Listings(store, handle, children) ==
  CASE handle = 0 /\ children /\ kept # << >> -> {Outcome(TRUE, "cache", RootOf(kept, store), kept)}
    [] handle = 0 /\ ~(children /\ kept # << >>) -> FromDevice(kept, store, 0)
    [] OTHER -> UNION {IF w.ok THEN FromFolder(w.v, store, handle) ELSE {Refused(w.v)} : w \in Wants(kept, handle)}

-----------------------------------------------------------------------------
\* Events.  A camera has a pipe for them, or answers when it is asked.

EventNames == << "DevicePropChanged", "StoreAdded", "StoreRemoved", "ObjectAdded", "CaptureComplete" >>
EventCode(e) == CHOOSE i \in DOMAIN EventNames : EventNames[i] = e.code
NamedEvent(c) == IF c \in DOMAIN EventNames THEN EventNames[c] ELSE "Unknown"
Event(code, params) == [code |-> code, params |-> params]
Numbers4(d, at, n) == [i \in 1 .. n |-> Number(d, at + 4 * (i - 1), 4)]

\* ptp_unpack_Nikon_EC: each has one number.
PackEC(es) == Little(Len(es), 2) \o FlattenSeq([i \in DOMAIN es |-> Little(EventCode(es[i]), 2) \o Little(es[i].params[1], 4)])
UnpackEC(d) ==
  LET n == Number(d, 0, 2)
  IN IF Len(d) < 2 \/ n > (Len(d) - 2) \div 6 THEN << >>
     ELSE [i \in 1 .. n |-> Event(NamedEvent(Number(d, 6 * i - 4, 2)), Numbers4(d, 6 * i - 2, 1))]
\* ptp_unpack_Nikon_EC_EX: each has up to five; one that does not fit spoils all.
PackECEX(es) ==
  Little(Len(es), 2) \o Zeros(2)
    \o FlattenSeq([i \in DOMAIN es |-> Little(EventCode(es[i]), 2) \o Little(Len(es[i].params), 2)
                     \o FlattenSeq([j \in DOMAIN es[i].params |-> Little(es[i].params[j], 4)])])
OneMore(st, d, n) ==
  IF Len(d) < st.at + 4 \/ n > 5 \/ Len(d) < st.at + 4 + 4 * n THEN [st EXCEPT !.ok = FALSE]
  ELSE [ok |-> TRUE, at |-> st.at + 4 + 4 * n,
        es |-> Append(st.es, Event(NamedEvent(Number(d, st.at, 2)), Numbers4(d, st.at + 4, n)))]
ReadECEX(d, n) == FoldLeft(LAMBDA st, i : IF st.ok THEN OneMore(st, d, Number(d, st.at + 2, 2)) ELSE st,
                           [ok |-> TRUE, at |-> 4, es |-> << >>], [i \in 1 .. n |-> i])
UnpackECEX(d) ==
  IF Len(d) < 2 \/ Number(d, 0, 2) > (Len(d) - 2) \div 4 \/ ~ReadECEX(d, Number(d, 0, 2)).ok THEN << >>
  ELSE ReadECEX(d, Number(d, 0, 2)).es
\* ptp_unpack_canon_event: a container with up to three; without its length, no event.
PackCanon(e) ==
  Little(12 + 4 * Len(e.params), 4) \o Little(4, 2) \o Little(EventCode(e), 2) \o Zeros(4)
    \o FlattenSeq([j \in DOMAIN e.params |-> Little(e.params[j], 4)])
Fitting(length) == Cardinality({i \in 1 .. 3 : length >= 12 + 4 * i})
UnpackCanon(d) ==
  IF Number(d, 0, 4) > Len(d) THEN Event("Unknown", << >>)
  ELSE Event(NamedEvent(Number(d, 6, 2)),
             IF Number(d, 4, 2) # 4 THEN << >> ELSE Numbers4(d, 12, Fitting(Number(d, 0, 4))))

\* handle_event_internal, which may fail to get the storages; of the slots only those
\* that have a card are storages.
CardSlots == {1, 2}
StorageIds == {s \in CardSlots : s \in plugged}
Handled(st, e, fetched) ==
  CASE e.code = "DevicePropChanged" ->
         [st EXCEPT !.cache = Outdated(@, NameOf(e.params[1])),
                    !.until = [p \in DOMAIN @ |-> IF p = NameOf(e.params[1]) THEN [v \in Settings |-> 0] ELSE @[p]]]
    [] e.code \in {"StoreAdded", "StoreRemoved"} ->
         [st EXCEPT !.ids = IF fetched THEN StorageIds ELSE {}, !.kept = << >>, !.owed = << >>, !.lost = ~fetched]
    [] OTHER -> st
Handle(es) ==
  \E fetched \in BOOLEAN :
    \E st \in {FoldLeft(LAMBDA acc, e : Handled(acc, e, fetched),
                        [cache |-> cache, until |-> until, ids |-> ids, kept |-> kept, owed |-> owed, lost |-> lost], es)} :
      /\ cache' = st.cache /\ until' = st.until /\ ids' = st.ids /\ kept' = st.kept /\ owed' = st.owed
      /\ lost' = st.lost
Lose == lost' = TRUE /\ UNCHANGED <<cache, until, ids, kept, owed>>
NoEvents == UNCHANGED <<cache, until, ids, kept, owed, lost>>

Asking == /\ Calling /\ UNCHANGED <<alive, plugged, camera, now, turned, result>> /\ Untouched
\* One event of the pipe, or of CheckEvent, if there is one.
Took(e) == pending' = Tail(pending) /\ queue' = Append(queue, e) /\ Handle(<< e >>)
Interrupt ==
  /\ \/ pending # << >> /\ Took(Head(pending))
     \/ UNCHANGED <<pending, queue>> /\ NoEvents
  /\ UNCHANGED <<works, coming>>

\* ptp_wait_event and ptp_check_event_queue look at the pipe.
WaitEvent == scene.checks \in {"pipe", "silent"} /\ Asking /\ Interrupt
\* ptp_check_event: a Nikon camera is asked for its events, and once it had some the
\* pipe is of no interest; a silent one never has any.
Nikon == {"event", "eventex", "silent"}
Batch(k) == IF scene.checks = "silent" THEN << >> ELSE SubSeq(pending, 1, k)
PackBatch(es) == IF scene.checks = "eventex" THEN PackECEX(es) ELSE PackEC(es)
UnpackBatch(d) == IF scene.checks = "eventex" THEN UnpackECEX(d) ELSE UnpackEC(d)
Unsent(k, whole) == IF whole THEN coming ELSE SubSeq(coming, 1, Len(queue)) \o SubSeq(coming, Len(queue) + k + 1, Len(coming))
CheckNikon ==
  /\ scene.checks \in Nikon /\ Asking
  /\ \E k \in 0 .. Len(pending) : \E sent \in {PackBatch(Batch(k))} :
       \E n \in {Len(sent)} \cup (IF scene.cuts THEN 0 .. Len(sent) ELSE {}) :
         \E es \in {UnpackBatch(SubSeq(sent, 1, n))} :
           \/ /\ es = << >> /\ ~works /\ (k = 0 \/ scene.checks = "silent") /\ Interrupt
           \/ /\ es # << >> \/ (k > 0 /\ scene.checks # "silent") \/ works
              /\ pending' = SubSeq(pending, Len(Batch(k)) + 1, Len(pending))
              /\ queue' = queue \o es /\ works' = (works \/ es # << >>)
              /\ coming' = Unsent(Len(Batch(k)), n = Len(sent))
              /\ IF n = Len(sent) \/ k = 0 THEN Handle(es) ELSE Lose
\* A Canon camera that has CheckEvent.
CheckCanon ==
  /\ scene.checks = "canon" /\ Asking /\ UNCHANGED <<works, coming>>
  /\ \/ pending # << >> /\ Took(UnpackCanon(PackCanon(Head(pending))))
     \/ UNCHANGED <<pending, queue>> /\ NoEvents

\* ptp_get_one_event and ptp_get_one_event_by_type: the first, or the first of a type.
OfType(es, code) == {i \in DOMAIN es : es[i].code = code}
FirstOf(es, code) == CHOOSE i \in OfType(es, code) : \A j \in OfType(es, code) : i <= j
GetOneEvent ==
  /\ queue # << >> /\ queue' = Tail(queue) /\ coming' = Tail(coming)
  /\ UNCHANGED <<alive, plugged, kept, ids, pending, works, owed, lost, calls, result>> /\ UNCHANGED propVars /\ Untouched
GetByType(code) ==
  /\ OfType(queue, code) # {}
  /\ queue' = RemoveAt(queue, FirstOf(queue, code)) /\ coming' = RemoveAt(coming, FirstOf(coming, code))
  /\ UNCHANGED <<alive, plugged, kept, ids, pending, works, owed, lost, calls, result>> /\ UNCHANGED propVars /\ Untouched

-----------------------------------------------------------------------------
\* The program lists the roots, then folders it has found.
RootsListed == \A s \in plugged : << s, 0 >> \in DOMAIN owed
Reachable == DOMAIN kept \cup (IF RootsListed THEN Supplied ELSE {})
Key(store, handle) == IF handle = 0 THEN << store, 0 >> ELSE << 0, handle >>
Owed(key) == IF key \in DOMAIN owed THEN owed[key] ELSE {}
\* A child is forgotten when its info cannot be had.
Less(os, k) == [key \in DOMAIN os |-> os[key] \ (DOMAIN kept \ DOMAIN k)]
InPlace(key) == {h \in DOMAIN scene.things : Thing(h).parent = key[2] /\ (key[2] = 0 => Thing(h).store = key[1])}
Due(store, handle, r) ==
  IF r.ok /\ r.from = "camera" THEN (Key(store, handle) :> r.children \cap InPlace(Key(store, handle))) @@ owed
  ELSE Less(owed, r.kept)
ListFolder(store, handle, children) ==
  /\ Calling
  /\ handle = 0 => children \/ << store, 0 >> \notin DOMAIN owed
  /\ \E r \in Listings(store, handle, children) :
       /\ kept' = r.kept /\ owed' = Due(store, handle, r)
       /\ result' = [op |-> "folder", sent |-> r.from, of |-> Key(store, handle), read |-> Owed(Key(store, handle)),
                     made |-> IF r.ok THEN Is(r.children, 0) ELSE Short]
  /\ UNCHANGED <<alive, plugged, ids, pending, queue, works, coming, lost>> /\ UNCHANGED propVars /\ Untouched
GetInfo(h) ==
  /\ Calling
  /\ \E w \in Wants(kept, h) : kept' = w.v /\ owed' = Less(owed, w.v)
  /\ UNCHANGED <<result, alive, plugged, ids, pending, queue, works, coming, lost>> /\ UNCHANGED propVars /\ Untouched

\* The camera, and its user.
Happens(e) == pending' = Append(pending, e) /\ coming' = Append(coming, e)
Does == turned < scene.dials /\ turned' = turned + 1
ParamsOf(h) == IF scene.checks = "event" THEN << h >> ELSE << h, Thing(h).store >>
CameraActs ==
  /\ scene.things # << >> /\ Does
  /\ \/ \E h \in scene.adds \ alive : alive' = alive \cup {h} /\ Happens(Event("ObjectAdded", ParamsOf(h))) /\ UNCHANGED plugged
     \/ \E h \in alive \ scene.adds : alive' = alive \ {h} /\ UNCHANGED <<plugged, pending, coming>>
     \/ \E s \in plugged : plugged' = plugged \ {s} /\ Happens(Event("StoreRemoved", << s >>)) /\ UNCHANGED alive
     \/ \E s \in CardSlots \ plugged : plugged' = plugged \cup {s} /\ Happens(Event("StoreAdded", << s >>)) /\ UNCHANGED alive
     \/ scene.checks \in {"eventex", "canon"} /\ Happens(Event("CaptureComplete", << >>)) /\ UNCHANGED <<alive, plugged>>
  /\ UNCHANGED <<kept, ids, queue, works, owed, lost, calls, result, cache, camera, now, until>> /\ Untouched

\* A dial that is turned makes an event.
Dialled == {p \in DOMAIN camera : camera'[p] # camera[p]}
DialEvents == IF scene.checks # "none" /\ turned' # turned THEN [i \in 1 .. 1 |-> Event("DevicePropChanged", << PropCode(CHOOSE p \in Dialled : TRUE) >>)]
         ELSE << >>

FolderInit ==
  /\ PropInit
  /\ alive = DOMAIN scene.things \ scene.adds /\ plugged = CardSlots /\ kept = << >> /\ ids = StorageIds
  /\ pending = << >> /\ queue = << >> /\ works = FALSE /\ coming = << >> /\ owed = << >> /\ lost = FALSE
FolderNext ==
  \/ PropNext /\ pending' = pending \o DialEvents /\ coming' = coming \o DialEvents
     /\ UNCHANGED <<alive, plugged, kept, ids, queue, works, owed, lost>>
  \/ WaitEvent \/ CheckNikon \/ CheckCanon \/ GetOneEvent \/ CameraActs
  \/ \E c \in Range(EventNames) : GetByType(c)
  \/ \E s \in plugged, children \in BOOLEAN : scene.things # << >> /\ ListFolder(s, 0, children)
  \/ \E h \in Reachable : \/ GetInfo(h) \/ ListFolder(All, h, TRUE) \/ ListFolder(Thing(h).store, h, TRUE)
Folders == FolderInit /\ [][FolderNext]_<<vars, cameraVars, propVars, folderVars>>

-----------------------------------------------------------------------------
\* What params->objects says of an object is so: its storage, its folder, and whether
\* it is one.
Placed ==
  \A h \in DOMAIN kept :
    LET e == kept[h]
    IN /\ "parent" \in e.flags => e.parent = Thing(h).parent
       /\ "store" \in e.flags => e.store = Thing(h).store
       /\ "info" \in e.flags => e.folder = Thing(h).folder
\* A listing has nothing but what is in that folder, and all that was when it was listed
\* first.
ListsFolders ==
  result.op = "folder" /\ result.made.ok =>
    LET root == result.of[2] = 0
    IN /\ scene.answers \in {"plain", "fast"} \/ (scene.answers = "nostore" /\ ~root) =>
            result.made.v \subseteq InPlace(result.of)
       /\ scene.answers \in {"plain", "fast", "flat"} \/ (scene.answers = "nostore" /\ ~root) =>
            result.read \subseteq result.made.v
\* No event is lost, made or moved; when those about cards are handled, the library
\* knows of the cards there are and of nothing on others.
EventsKept ==
  /\ coming = queue \o pending
  /\ ~lost /\ OfType(pending, "StoreAdded") \cup OfType(pending, "StoreRemoved") = {} =>
       ids = plugged /\ \A h \in DOMAIN kept : Thing(h).store \in plugged
\* What the library knows of a camera is what the camera reported: its properties
\* (ptp_unpack_EOS_events), no older than they may be (ptp_generic_getdevicepropdesc), its
\* folders (ptp_list_folder) and what happens (ptp_check_event).
KnowsCamera == AsReported /\ Recent /\ Placed /\ ListsFolders /\ EventsKept
=============================================================================
