--------------------------- MODULE LibraryProofs ----------------------------
(***************************************************************************)
(* What the object cache says after the calls of Library, Listings and     *)
(* Files, and what reading a file gives, for any device, any calls and any *)
(* bounds.  The first part shows CacheAgrees: between SendObjectInfo and   *)
(* add_object_to_cache the cache knows nothing of the new object, and      *)
(* update_metadata_cache forgets the one that was changed before it is     *)
(* looked up again.  The second follows the size of a file, from the cache *)
(* or the device to the parts asked for: ReadsBack and WholeOrNone.  The   *)
(* third, AskInv, follows what was asked for through the transactions of a *)
(* call, from where the object is to go to each property it gets: AsAsked. *)
(* The fourth is about the storage list.  A list is Chained to a sequence  *)
(* of storages when its links lead through it both ways; each turn of      *)
(* sort_storage_by takes one from the old chain and puts it behind the new *)
(* one; all in the new one goes before all in the old one, which keeps its *)
(* own order: StorageSorted.  The last, RoomInv, follows a send along that *)
(* list: the storages tried have no room, the one chosen has: SendsIfRoom. *)
(***************************************************************************)
EXTENDS Files, FiniteSetTheorems, WellFoundedInduction, TLAPS

\* What an entry of the cache may say: nothing at all of an object, or what is so.
Blank(e) == e.info = NoInfo /\ e.props = NoProps
Nothing(h) == h \in DOMAIN cache => Blank(cache[h])
Agrees(h) ==
  h \in DOMAIN cache =>
    /\ cache[h].info = NoInfo \/ cache[h].info = InfoOf(dev[h])
    /\ cache[h].props = NoProps \/ cache[h].props = PropsOf(dev[h])

\* The records have their fields.
Shapes ==
  /\ scene \in Scenarios
  /\ DOMAIN my = DOMAIN Idle /\ DOMAIN call = DOMAIN NoCall
  /\ \A h \in DOMAIN cache : cache[h] = [info |-> cache[h].info, props |-> cache[h].props]
\* A handle the device has not given out yet is nothing to the cache.
Handles ==
  /\ DOMAIN dev \subseteq used /\ used \subseteq Handle
  /\ call.h \in used \cup {0} /\ my.id \in used \cup {0}
  /\ \A h \in Handle \ used : Nothing(h)

\* Which calls get where.
Looking == {"next", "wantinfo", "look", "list", "supported", "field", "name", "members", "fetch"}
Where ==
  /\ pc \in {"ids", "info"} => call.op = "storage"
  /\ pc \in {"reread", "rereadprops", "open"} => call.op = "send"
  /\ pc \in {"update", "setdescs", "setlist"} => call.op \in {"send", "update"}
  /\ pc \in {"gettitle", "getrefs"} => call.op \in {"gettitle", "getlist"}
  /\ pc \in Walking \cup Inside \cup Single \cup {"folders", "getlist", "settitle", "begin", "write", "truncate", "end"}
       => call.op = pc
  /\ pc \in Looking => call.op \in Listers

\* What is about to be entered: nothing, until the object is known to be complete.
Entered ==
  /\ pc \in {"senddata", "oneprops"} => Nothing(my.id)
  /\ pc \in {"setone", "refs"} /\ call.op = "create" => Nothing(my.id)
  /\ pc \in {"add", "addprops"} => Agrees(my.id)

\* Where the object the call is about exists.
Settled == {"senddata", "oneprops", "setone", "refs", "add", "addprops", "reread", "rereadprops", "update", "setdescs",
            "setlist", "updated", "end"}
OnDevice ==
  /\ pc \in Settled => my.id \in DOMAIN dev
  /\ call.op \in OfObject /\ pc # "idle" => call.h \in DOMAIN dev

\* The inductive invariant behind CacheAgrees.
CInv == Shapes /\ Handles /\ Where /\ OnDevice /\ Entered /\ CacheAgrees

\* The cache is left alone, flushed, loses an entry, or learns of one object from
\* the device.
Moves ==
  \/ cache' = cache
  \/ cache' = Flushed
  \/ \E h : cache' = Without(cache, h)
  \/ \E h : cache' = With(cache, h, Entry(h))
  \/ \E h \in DOMAIN dev \cup {Top} : cache' = With(cache, h, [Entry(h) EXCEPT !.props = PropList(h)])
  \/ \E h \in DOMAIN dev : cache' = With(cache, h, [Entry(h) EXCEPT !.info = InfoOf(dev[h])])

\* None of that makes the cache wrong about an object, as long as the object stays
\* as it is.
LEMMA MovesKeep ==
  ASSUME Shapes, Handles, Moves, used \subseteq used'
  PROVE  /\ \A h \in DOMAIN cache' : cache'[h] = [info |-> cache'[h].info, props |-> cache'[h].props]
         /\ \A h \in Handle \ used' : Nothing(h)'
         /\ dev' = dev => \A h \in used \cup {0} : Agrees(h) => Agrees(h)'
<1>0. Root \notin Handle /\ Top \notin Handle /\ Root = 0 /\ Top = 99
  BY HandleAssumption DEF Root, Top
<1>1. \A h : Entry(h) = [info |-> Entry(h).info, props |-> Entry(h).props]
  BY DEF Entry, Shapes
<1>2. ASSUME NEW h, NEW e, e = [info |-> e.info, props |-> e.props], cache' = With(cache, h, e),
             h \in Handle \ used => Blank(e),
             dev' = dev /\ h \in used \cup {0} /\ Agrees(h) =>
               /\ e.info = NoInfo \/ e.info = InfoOf(dev[h])
               /\ e.props = NoProps \/ e.props = PropsOf(dev[h])
      PROVE  /\ \A g \in DOMAIN cache' : cache'[g] = [info |-> cache'[g].info, props |-> cache'[g].props]
             /\ \A g \in Handle \ used' : Nothing(g)'
             /\ dev' = dev => \A g \in used \cup {0} : Agrees(g) => Agrees(g)'
  <2>1. /\ DOMAIN cache' = DOMAIN cache \cup {h}
        /\ \A g \in DOMAIN cache' : cache'[g] = IF g = h THEN e ELSE cache[g]
    BY <1>2 DEF With
  <2>2. \A g \in DOMAIN cache' : cache'[g] = [info |-> cache'[g].info, props |-> cache'[g].props]
    BY <1>2, <2>1 DEF Shapes
  <2>3. \A g \in Handle \ used' : Nothing(g)'
    BY <1>2, <2>1 DEF Nothing, Handles
  <2>4. dev' = dev => \A g \in used \cup {0} : Agrees(g) => Agrees(g)'
    BY <1>2, <2>1 DEF Agrees
  <2> QED
    BY <2>2, <2>3, <2>4
<1>3. CASE cache' = cache
  BY <1>3 DEF Shapes, Handles, Nothing, Agrees
<1>4. CASE cache' = Flushed
  <2>1. /\ DOMAIN cache' = DOMAIN dev
        /\ \A g \in DOMAIN cache' : cache'[g] = [info |-> InfoOf(dev[g]),
             props |-> IF Supports("GetObjPropList") THEN PropsOf(dev[g]) ELSE NoProps]
    BY <1>4 DEF Flushed
  <2> QED
    BY <2>1 DEF Handles, Nothing, Agrees
<1>5. ASSUME NEW h, cache' = Without(cache, h)
      PROVE  /\ \A g \in DOMAIN cache' : cache'[g] = [info |-> cache'[g].info, props |-> cache'[g].props]
             /\ \A g \in Handle \ used' : Nothing(g)'
             /\ dev' = dev => \A g \in used \cup {0} : Agrees(g) => Agrees(g)'
  <2>1. /\ DOMAIN cache' = DOMAIN cache \ {h}
        /\ \A g \in DOMAIN cache' : cache'[g] = cache[g]
    BY <1>5 DEF Without
  <2> QED
    BY <2>1 DEF Shapes, Handles, Nothing, Agrees
<1>6. ASSUME NEW h PROVE /\ h \in Handle \ used => Blank(Entry(h))
                         /\ Agrees(h) => /\ Entry(h).info = NoInfo \/ Entry(h).info = InfoOf(dev[h])
                                         /\ Entry(h).props = NoProps \/ Entry(h).props = PropsOf(dev[h])
  BY DEF Entry, Handles, Nothing, Blank, Agrees
<1>7. ASSUME NEW h, cache' = With(cache, h, Entry(h))
      PROVE  /\ \A g \in DOMAIN cache' : cache'[g] = [info |-> cache'[g].info, props |-> cache'[g].props]
             /\ \A g \in Handle \ used' : Nothing(g)'
             /\ dev' = dev => \A g \in used \cup {0} : Agrees(g) => Agrees(g)'
  BY <1>1, <1>2, <1>6, <1>7
<1>8. ASSUME NEW h \in DOMAIN dev \cup {Top}, cache' = With(cache, h, [Entry(h) EXCEPT !.props = PropList(h)])
      PROVE  /\ \A g \in DOMAIN cache' : cache'[g] = [info |-> cache'[g].info, props |-> cache'[g].props]
             /\ \A g \in Handle \ used' : Nothing(g)'
             /\ dev' = dev => \A g \in used \cup {0} : Agrees(g) => Agrees(g)'
  <2> DEFINE e == [Entry(h) EXCEPT !.props = PropList(h)]
  <2>1. e.info = Entry(h).info /\ e.props = PropList(h) /\ e = [info |-> e.info, props |-> e.props]
    BY <1>1
  <2>2. h \notin Handle \ used /\ (h \in used \cup {0} => PropList(h) = PropsOf(dev[h]))
    BY <1>0, <1>8 DEF Handles, PropList
  <2> HIDE DEF e
  <2> QED
    BY <1>2, <1>6, <1>8, <2>1, <2>2 DEF e
<1>9. ASSUME NEW h \in DOMAIN dev, cache' = With(cache, h, [Entry(h) EXCEPT !.info = InfoOf(dev[h])])
      PROVE  /\ \A g \in DOMAIN cache' : cache'[g] = [info |-> cache'[g].info, props |-> cache'[g].props]
             /\ \A g \in Handle \ used' : Nothing(g)'
             /\ dev' = dev => \A g \in used \cup {0} : Agrees(g) => Agrees(g)'
  <2> DEFINE e == [Entry(h) EXCEPT !.info = InfoOf(dev[h])]
  <2>1. e.info = InfoOf(dev[h]) /\ e.props = Entry(h).props /\ e = [info |-> e.info, props |-> e.props]
    BY <1>1
  <2>2. h \notin Handle \ used
    BY <1>0, <1>9 DEF Handles
  <2> HIDE DEF e
  <2> QED
    BY <1>2, <1>6, <1>9, <2>1, <2>2 DEF e
<1> QED
  BY <1>3, <1>4, <1>5, <1>7, <1>8, <1>9 DEF Moves

\* The calls that change an object, and what their steps leave as it is.
Changers == {"send", "create", "update", "folder", "end"}
Frame ==
  /\ scene' = scene /\ call' = call /\ used \subseteq used' /\ used' \subseteq Handle
  /\ DOMAIN dev' \subseteq used' /\ DOMAIN my' = DOMAIN my /\ my'.id \in used' \cup {0}
  /\ Moves

Steady == DOMAIN dev' = DOMAIN dev /\ my'.id = my.id /\ pc # "idle" /\ (pc' \in Settled => pc \in Settled)
\* Objects stay; a step of a call that neither ends well nor enters anything keeps CInv.
LEMMA SteadyKeeps == CInv /\ Frame /\ Steady => OnDevice'
BY DEF CInv, Frame, Steady, OnDevice

LEMMA FrameKeeps ==
  ASSUME CInv, Frame, Where', OnDevice', Entered', CacheAgrees'
  PROVE  CInv'
<1>1. Shapes' /\ Handles'
  BY MovesKeep DEF CInv, Frame, Shapes, Handles
<1> QED
  BY <1>1 DEF CInv

Harmless == pc' = "idle" => \/ result'.ok = FALSE
                            \/ result'.op = call.op /\ call.op \notin Changers
Entering == {"senddata", "oneprops", "setone", "refs", "add", "addprops"}

LEMMA HarmlessKeeps ==
  ASSUME CInv, Frame, Steady, Where', Harmless, pc' \notin Entering
  PROVE  CInv'
<1>1. Entered'
  BY DEF Entered, Entering
<1>2. CacheAgrees'
  BY DEF Harmless, Changers, CacheAgrees, Succeeded
<1> QED
  BY <1>1, <1>2, FrameKeeps, SteadyKeeps

\* How a call ends, or goes on.
LEMMA Answers ==
  /\ \A ok, id : Return(ok, id) => pc' = "idle" /\ result'.op = call.op /\ result'.ok = ok /\ result'.id = id
  /\ \A ok : Said(ok) => pc' = "idle" /\ result'.op = call.op /\ result'.ok = ok
  /\ \A p : Goto(p) => pc' = p
BY DEF Return, Said, Goto

\* send_file_object_info up to SendObjectInfo.
LEMMA SendingKeeps ==
  ASSUME CInv, Place \/ PlaceList \/ Props \/ Descs \/ OpenFile
  PROVE  CInv' /\ Frame
<1>1. Frame
  BY DEF CInv, Shapes, Handles, Frame, Moves, Place, PlaceList, Props, Descs, OpenFile, device, storages, Idle, Return, Goto
<1>2. pc' \in {"sendinfo", "props", "idle", "descs", "place", "suggest"} /\ call' = call
  BY DEF Place, PlaceList, Props, Descs, OpenFile, Return, Goto, Stores
<1>3. Where'
  BY <1>2 DEF Where, Walking, Inside, Single, Fetching, Looking
<1>4. Harmless
  BY DEF Harmless, Place, PlaceList, Props, Descs, OpenFile, Return, Goto, Stores
<1>5. Steady
  BY <1>2 DEF Steady, Settled, Place, PlaceList, Props, Descs, OpenFile, device, CInv, Shapes, Idle
<1> QED
  BY <1>1, <1>2, <1>3, <1>4, <1>5, HarmlessKeeps DEF Entering

\* get_suggested_storage_id, get_writeable_storageid.
LEMMA ChoosingKeeps ==
  ASSUME CInv, Suggest \/ Fit
  PROVE  CInv' /\ Frame
<1>1. Moves /\ UNCHANGED <<device, call>>
  BY DEF Suggest, Fit, WantProps, Moves
<1>2. DOMAIN my' = DOMAIN my /\ my'.id = my.id
  BY DEF CInv, Shapes, Suggest, Fit, WantProps, Idle
<1>3. pc' \in {"place", "fit"}
  BY DEF Suggest, Fit, WantProps, Goto
<1>4. Frame
  BY <1>1, <1>2 DEF Frame, CInv, Handles, device
<1>5. Where'
  BY <1>1, <1>3 DEF Where, Walking, Inside, Single, Fetching, Looking
<1>6. Steady
  BY <1>1, <1>2, <1>3 DEF Steady, Settled, device, Suggest, Fit
<1> QED
  BY <1>3, <1>4, <1>5, <1>6, HarmlessKeeps DEF Entering, Harmless

\* The handle is new, so the cache has nothing on it.
LEMMA SendInfoKeeps ==
  ASSUME CInv, SendInfo
  PROVE  CInv' /\ Frame
<1>1. cache' = cache /\ UNCHANGED <<scene, call>>
  BY DEF SendInfo
<1>2. CASE /\ \E h \in Handle \ used, s \in StoreFor(my.store, my.parent) :
                /\ used' = used \cup {h} /\ dev' = With(dev, h, Created(s))
                /\ my' = [my EXCEPT !.id = h]
           /\ Goto(AfterInfo)
  <2> PICK h \in Handle \ used, s \in StoreFor(my.store, my.parent) :
             /\ used' = used \cup {h} /\ dev' = With(dev, h, Created(s))
             /\ my' = [my EXCEPT !.id = h]
    BY <1>2
  <2>1. my'.id = h /\ DOMAIN my' = DOMAIN my
    BY DEF CInv, Shapes, Idle
  <2>2. DOMAIN dev' = DOMAIN dev \cup {h}
    BY DEF With
  <2>3. Frame
    BY <1>1, <2>1, <2>2 DEF Frame, Moves, CInv, Handles
  <2>4. Nothing(h) /\ Nothing(h)' /\ Agrees(h)'
    BY <1>1 DEF CInv, Handles, Nothing, Blank, Agrees
  <2>5. pc' \in {"add", "oneprops", "senddata"}
    BY <1>2 DEF AfterInfo, Goto
  <2>6. Where'
    BY <1>1, <2>5 DEF Where, Walking, Inside, Single, Fetching, Looking
  <2>7. Entered'
    BY <2>1, <2>4, <2>5 DEF Entered, Nothing, Agrees
  <2>8. CacheAgrees'
    BY <2>5 DEF CacheAgrees, Succeeded
  <2>9. OnDevice'
    BY <1>1, <2>1, <2>2 DEF OnDevice, CInv, SendInfo
  <2> QED
    BY <2>3, <2>6, <2>7, <2>8, <2>9, FrameKeeps
<1>3. ASSUME NEW ok \in BOOLEAN, UNCHANGED <<dev, used, my>>, Return(ok, 0)
      PROVE  CInv' /\ Frame
  <2>1. Frame
    BY <1>1, <1>3 DEF Frame, Moves, CInv, Handles
  <2>2. Where'
    BY <1>1, <1>3 DEF Return, Where, Walking, Inside, Single, Fetching, Looking
  <2>3. Steady
    BY <1>3 DEF Steady, Return, Settled, SendInfo
  <2>4. pc' = "idle" /\ result'.id = 0
    BY <1>3 DEF Return
  <2>5. 0 \notin DOMAIN dev'
    BY <1>3, HandleAssumption DEF CInv, Handles, Root
  <2>6. Entered' /\ CacheAgrees'
    BY <2>4, <2>5 DEF Entered, CacheAgrees
  <2>7. OnDevice'
    BY <2>1, <2>3, SteadyKeeps
  <2> QED
    BY <2>1, <2>2, <2>6, <2>7, FrameKeeps
<1> QED
  BY <1>2, <1>3 DEF SendInfo, Unannounced

\* SendObject, whether it works or the object is left behind.
LEMMA SendDataKeeps ==
  ASSUME CInv, SendData \/ SendFromHandler
  PROVE  CInv' /\ Frame
<1>1. /\ UNCHANGED <<scene, used, cache, call, my>> /\ pc = "senddata"
      /\ \/ dev' = dev /\ pc' = IF call.op = "create" THEN "refs" ELSE "add"
         \/ dev' \in {dev, Without(dev, my.id)} /\ pc' = "idle" /\ result'.ok = FALSE
  BY DEF SendData, SendFromHandler, Sent, Refused, Unsent, Goto, Return
<1>2. DOMAIN dev' \subseteq DOMAIN dev
  BY <1>1 DEF Without
<1>3. Frame
  BY <1>1, <1>2 DEF Frame, Moves, CInv, Handles
<1>4. Where'
  BY <1>1 DEF Where, Walking, Inside, Single, Fetching, Looking
<1>5. Nothing(my.id)
  BY <1>1 DEF CInv, Entered
<1>6. Entered'
  BY <1>1, <1>5 DEF Entered, Nothing, Blank, Agrees
<1>7. CacheAgrees'
  BY <1>1 DEF CacheAgrees, Succeeded
<1>8. OnDevice'
  BY <1>1 DEF CInv, OnDevice, Settled
<1> QED
  BY <1>3, <1>4, <1>6, <1>7, <1>8, FrameKeeps

\* Setting properties changes the device and not the cache; a new list is still
\* unknown, and after an update update_metadata_cache comes first.
LEMMA PropertiesKeep ==
  ASSUME CInv, SetOne \/ OneProps \/ UpdateProps \/ SetDescs \/ SetList \/ SetRefs
  PROVE  CInv' /\ Frame
<1>1. cache' = cache /\ UNCHANGED <<scene, used, call>> /\ DOMAIN dev' = DOMAIN dev
  BY DEF SetOne, OneProps, UpdateProps, SetDescs, SetList, SetRefs, device, SetProp
<1>2. DOMAIN my' = DOMAIN my /\ my'.id = my.id
  BY DEF CInv, Shapes, Idle, SetOne, OneProps, UpdateProps, SetDescs, SetList, SetRefs, Done
<1>3. Frame
  BY <1>1, <1>2 DEF Frame, Moves, CInv, Handles
<1>4. /\ pc' \in {"idle", "setone", "refs", "updated", "setdescs", "setlist", "add"}
      /\ pc' = "idle" => result'.ok = FALSE
  <2>1. CASE SetOne
    BY <2>1 DEF SetOne, Goto, Return, Failed
  <2>2. CASE OneProps \/ UpdateProps
    BY <2>2 DEF OneProps, UpdateProps, Goto, Return
  <2>3. CASE SetDescs
    BY <2>3 DEF SetDescs, Goto
  <2>4. CASE SetList
    BY <2>4 DEF SetList, Goto, Return
  <2>5. CASE SetRefs
    BY <2>5 DEF SetRefs, Goto, Return
  <2> QED
    BY <2>1, <2>2, <2>3, <2>4, <2>5
<1>5. pc' \in {"setdescs", "setlist"} => pc \in {"update", "setdescs"}
  BY DEF SetOne, OneProps, UpdateProps, SetDescs, SetList, SetRefs, Goto, Return, Failed
<1>6. Where'
  BY <1>1, <1>4, <1>5 DEF CInv, Where, Walking, Inside, Single, Fetching, Looking
<1>7. pc \in {"setone", "oneprops", "update", "setdescs", "setlist", "refs"}
  BY DEF SetOne, OneProps, UpdateProps, SetDescs, SetList, SetRefs
<1>8. call.op = "create" => Nothing(my.id) /\ Nothing(my.id)' /\ Agrees(my.id)'
  <2>1. call.op = "create" => Nothing(my.id)
    BY <1>7 DEF CInv, Where, Entered
  <2> QED
    BY <1>1, <1>2, <2>1 DEF Nothing, Blank, Agrees
<1>9. pc' = "add" => call.op = "create"
  BY DEF SetOne, OneProps, UpdateProps, SetDescs, SetList, SetRefs, Goto, Return, Failed, Creating
<1>10. Entered'
  BY <1>1, <1>2, <1>4, <1>8, <1>9 DEF Entered, Nothing, Agrees
<1>11. CacheAgrees'
  BY <1>4 DEF CacheAgrees, Succeeded
<1>12. Steady
  BY <1>1, <1>2, <1>7 DEF Steady, Settled
<1> QED
  BY <1>3, <1>6, <1>10, <1>11, <1>12, FrameKeeps, SteadyKeeps

\* add_object_to_cache and update_metadata_cache.
LEMMA AgreesMoves ==
  ASSUME CInv, Frame, UNCHANGED <<dev, used>>, my'.id = my.id, Agrees(my.id) \/ Nothing(my.id)
  PROVE  Agrees(my.id)'
<1>1. Agrees(my.id)
  BY DEF Nothing, Blank, Agrees
<1>2. Agrees(my.id) => Agrees(my.id)'
  BY MovesKeep DEF CInv, Frame, Handles, Agrees
<1> QED
  BY <1>1, <1>2

LEMMA CachingKeeps ==
  ASSUME CInv, Updated \/ AddInfo \/ AddProps
  PROVE  CInv' /\ Frame /\ UNCHANGED <<device, call>> /\ my'.id = my.id /\ Agrees(my.id)'
<1>1. UNCHANGED <<device, call>>
  BY DEF Updated, AddInfo, AddProps
<1>2. DOMAIN my' = DOMAIN my /\ my'.id = my.id
  BY DEF CInv, Shapes, Idle, Updated, AddInfo, AddProps
<1>3. Moves
  <2>1. CASE Updated
    BY <2>1 DEF Updated, Evicted, Moves
  <2>2. CASE AddInfo
    <3>1. my.id \in DOMAIN dev
      BY <2>2 DEF AddInfo, CInv, OnDevice, Settled
    <3> QED
      BY <2>2, <3>1 DEF AddInfo, Moves
  <2>3. CASE AddProps
    BY <2>3 DEF AddProps, WantProps, Moves
  <2> QED
    BY <2>1, <2>2, <2>3
<1>4. Frame
  BY <1>1, <1>2, <1>3 DEF Frame, CInv, Handles, device
<1>5. Agrees(my.id)'
  <2>1. CASE Updated
    BY <1>2, <2>1 DEF Updated, Evicted, Without, Agrees
  <2>2. CASE AddInfo \/ AddProps
    <3>1. Agrees(my.id)
      BY <2>2 DEF AddInfo, AddProps, CInv, Entered
    <3> QED
      BY <1>1, <1>2, <1>4, <3>1, AgreesMoves DEF device
  <2> QED
    BY <2>1, <2>2
<1>6. \/ pc' \in {"add", "addprops", "reread"}
      \/ Return(TRUE, my.id)
  <2>1. CASE Updated
    BY <2>1 DEF Updated, Goto
  <2>2. CASE AddInfo
    BY <2>2 DEF AddInfo, Goto, Added
  <2>3. CASE AddProps
    BY <2>3 DEF AddProps, WantProps, Goto, Added
  <2> QED
    BY <2>1, <2>2, <2>3
<1>7. pc' = "reread" => call.op = "send"
  BY DEF Updated, AddInfo, AddProps, WantProps, Goto, Added, Return
<1>8. Where'
  BY <1>1, <1>6, <1>7 DEF Return, Where, Walking, Inside, Single, Fetching, Looking
<1>9. Entered'
  BY <1>5, <1>6 DEF Entered, Return
<1>10. CacheAgrees'
  <2>1. pc' = "idle" => result'.id = my'.id
    BY <1>2, <1>6 DEF Return
  <2> QED
    BY <1>5, <2>1 DEF CacheAgrees, Succeeded, Agrees
<1>11. Steady
  BY <1>1, <1>2 DEF Steady, Settled, device, Updated, AddInfo, AddProps
<1> QED
  BY <1>1, <1>2, <1>4, <1>5, <1>8, <1>9, <1>10, <1>11, FrameKeeps, SteadyKeeps

\* LIBMTP_Send_File_From_File_Descriptor looks up where the file is.
LEMMA RereadKeeps ==
  ASSUME CInv, Reread \/ RereadProps
  PROVE  CInv' /\ Frame
<1>1. UNCHANGED <<device, call>> /\ call.op = "send"
  BY DEF Reread, RereadProps, CInv, Where
<1>2. DOMAIN my' = DOMAIN my /\ my'.id = my.id
  BY DEF CInv, Shapes, Idle, Reread, RereadProps, WantProps
<1>3. Moves
  <2>1. my.id \in DOMAIN dev
    BY DEF Reread, RereadProps, CInv, OnDevice, Settled
  <2>2. CASE Reread
    BY <2>1, <2>2 DEF Reread, Moves
  <2>3. CASE RereadProps
    BY <2>3 DEF RereadProps, WantProps, Moves
  <2> QED
    BY <2>2, <2>3
<1>4. Frame
  BY <1>1, <1>2, <1>3 DEF Frame, CInv, Handles, device
<1>5. \/ pc' \in {"rereadprops", "update"}
      \/ pc' = "idle" /\ result'.ok = FALSE
  <2>1. Goto("rereadprops") \/ Goto("update") \/ Return(FALSE, 0)
    BY DEF Reread, RereadProps, WantProps
  <2> QED
    BY <2>1, Answers
<1>6. Where'
  BY <1>1, <1>5 DEF Where, Walking, Inside, Single, Fetching, Looking
<1>7. Steady
  BY <1>1, <1>2 DEF Steady, Settled, device, Reread, RereadProps
<1> QED
  BY <1>4, <1>5, <1>6, <1>7, HarmlessKeeps DEF Entering, Harmless

\* LIBMTP_Get_Storage does not touch the cache.
LEMMA StoragesKeep ==
  ASSUME CInv, StorageIds \/ StorageInfo
  PROVE  CInv' /\ Frame
<1>1. UNCHANGED <<device, call, cache>> /\ call.op = "storage"
  BY DEF StorageIds, StorageInfo, CInv, Where
<1>2. DOMAIN my' = DOMAIN my /\ my'.id = my.id
  BY DEF CInv, Shapes, Idle, StorageIds, StorageInfo
<1>3. Frame
  BY <1>1, <1>2 DEF Frame, Moves, CInv, Handles, device
<1>4. \/ pc' = "info"
      \/ pc' = "idle" /\ result'.op = call.op
  <2>1. Goto("info") \/ Return(TRUE, 1) \/ Return(TRUE, 0) \/ Return(FALSE, 0)
    BY DEF StorageIds, StorageInfo
  <2> QED
    BY <2>1, Answers
<1>5. Where'
  BY <1>1, <1>4 DEF Where, Walking, Inside, Single, Fetching, Looking
<1>6. Steady
  BY <1>1, <1>2, <1>4 DEF Steady, Settled, device, StorageIds, StorageInfo
<1> QED
  BY <1>1, <1>3, <1>4, <1>5, <1>6, HarmlessKeeps DEF Entering, Harmless, Changers

\* Getting a property or a list, and LIBMTP_Set_Object_String, which leaves the
\* cache as it is and is none of Changers.
LEMMA GettingKeeps ==
  ASSUME CInv, GetTitle \/ GetList \/ GetRefs \/ SetTitle
  PROVE  CInv' /\ Frame
<1>1. UNCHANGED <<scene, used, call>> /\ DOMAIN dev' = DOMAIN dev
  BY DEF GetTitle, GetList, GetRefs, SetTitle, SetProp, device
<1>2. call.op \in {"gettitle", "getlist", "settitle"}
  BY DEF GetTitle, GetList, GetRefs, SetTitle, CInv, Where
<1>3. DOMAIN my' = DOMAIN my /\ my'.id = my.id
  BY DEF CInv, Shapes, Idle, GetTitle, GetList, GetRefs, SetTitle
<1>4. Moves
  <2>1. CASE GetList
    <3>1. call.h \in DOMAIN dev
      BY <1>2, <2>1 DEF GetList, CInv, OnDevice, OfObject
    <3> QED
      BY <2>1, <3>1 DEF GetList, Moves
  <2>2. CASE GetTitle \/ GetRefs \/ SetTitle
    BY <2>2 DEF GetTitle, GetRefs, SetTitle, Moves
  <2> QED
    BY <2>1, <2>2
<1>5. Frame
  BY <1>1, <1>3, <1>4 DEF Frame, CInv, Handles
<1>6. \/ pc' = "gettitle" /\ pc = "getlist"
      \/ pc' = "getrefs" /\ pc = "gettitle"
      \/ pc' = "idle" /\ result'.op = call.op
  BY DEF GetTitle, GetList, GetRefs, SetTitle, Goto, Return, Answer
<1>7. Where'
  BY <1>1, <1>6 DEF CInv, Where, Walking, Inside, Single, Fetching, Looking
<1>8. Steady
  BY <1>1, <1>3, <1>6 DEF Steady, Settled, GetTitle, GetList, GetRefs, SetTitle
<1> QED
  BY <1>2, <1>5, <1>6, <1>7, <1>8, HarmlessKeeps DEF Entering, Harmless, Changers

\* A call begins.
LEMMA CallKeeps ==
  ASSUME CInv, Call
  PROVE  CInv'
<1>1. /\ UNCHANGED <<device, cache>> /\ pc' = First
      /\ my' = [Idle EXCEPT !.store = my'.store, !.id = call'.h, !.parent = my'.parent, !.name = my'.name]
  BY DEF Call, Idle
<1>2. /\ call'.op \in ApiCalls /\ DOMAIN call' = DOMAIN NoCall /\ call'.h \in used \cup {0}
      /\ call'.op \in OfObject => call'.h \in DOMAIN dev
  <2> PICK c \in scene.calls : 
       \E h \in IF c.op \in OfObject
                     THEN {g \in DOMAIN dev : dev[g].fmt = c.fmt} ELSE {0} :
            call' = [c EXCEPT !.h = h]
    BY DEF Call
  <2> PICK h \in IF c.op \in OfObject
                     THEN {g \in DOMAIN dev : dev[g].fmt = c.fmt} ELSE {0} :
            call' = [c EXCEPT !.h = h]
    OBVIOUS
  <2>1. DOMAIN c = DOMAIN NoCall /\ c.op \in ApiCalls
    BY CallAssumption DEF CInv, Shapes, Request, NoCall
  <2>2. call'.op = c.op /\ call'.h = h /\ DOMAIN call' = DOMAIN NoCall
    BY <2>1 DEF NoCall
  <2>3. h \in used \cup {0}
    BY DEF CInv, Handles
  <2> QED
    BY <2>1, <2>2, <2>3
<1>3. DOMAIN my' = DOMAIN Idle /\ my'.id = call'.h
  BY <1>1 DEF Idle
<1>4. \/ call'.op = pc'
      \/ call'.op \in {"create", "send", "folder", "storage"} /\ pc' \in {"name?", "open", "place", "suggest", "ids"}
  BY <1>1 DEF First, Stores
<1>5. /\ pc' = "ids" => call'.op = "storage"
      /\ pc' = "open" => call'.op = "send"
  BY <1>1, <1>2 DEF First, Stores, ApiCalls, OfObject
<1>6. pc' \notin {"info", "reread", "rereadprops", "setdescs", "setlist", "getrefs", "idle"} \cup Looking \cup Entering
  BY <1>2, <1>4 DEF ApiCalls, OfObject, Looking, Entering
<1>7. Shapes' /\ Handles'
  BY <1>1, <1>2, <1>3 DEF Call, CInv, Shapes, Handles, Nothing, device
<1>8. Where'
  BY <1>2, <1>4, <1>5, <1>6 DEF Where, Walking, Inside, Single, Fetching
<1>9. Entered' /\ CacheAgrees'
  BY <1>6 DEF Entered, Entering, CacheAgrees, Succeeded
<1>10. OnDevice'
  BY <1>1, <1>2, <1>3, <1>4, <1>6 DEF OnDevice, Settled, Entering, ApiCalls, OfObject, device
<1> QED
  BY <1>7, <1>8, <1>9, <1>10 DEF CInv

\* The listings only add to the cache what the device says.
LEMMA ReadingKeeps ==
  ASSUME CInv, Reads
  PROVE  /\ CInv' /\ Frame /\ UNCHANGED <<device, call, my>> /\ call.op \in Listers /\ pc # "idle"
         /\ pc' \in Looking \/ (pc' = "idle" /\ result'.op = call.op)
<1>1. UNCHANGED <<device, storages, folders, call, my>>
  BY DEF Reads, Begin, BeginOne, BeginWithin, GetFolders, NextItem, WantInfo, Look, LookAlbum, WantList,
         Supported, Field, Name, Members, Unread
<1>2. call.op \in Listers
  BY DEF CInv, Where, Looking, Listers, Reads, Begin, BeginOne, BeginWithin, GetFolders, NextItem, WantInfo,
         Look, LookAlbum, WantList, Supported, Field, Name, Members
<1>3. Moves
  <2>1. CASE Begin \/ BeginOne \/ GetFolders
    BY <2>1 DEF Begin, BeginOne, GetFolders, Known, Moves
  <2>2. CASE WantInfo
    <3>1. CASE cache' = Without(cache, At1)
      BY <3>1 DEF Moves
    <3>2. CASE cache' # Without(cache, At1)
      <4>1. /\ Entry(At1).info # NoInfo \/ At1 \in DOMAIN dev
            /\ cache' = With(cache, At1, [Entry(At1) EXCEPT !.info =
                          IF Entry(At1).info # NoInfo THEN Entry(At1).info ELSE InfoOf(dev[At1])])
        BY <2>2, <3>2 DEF WantInfo
      <4>2. Entry(At1).info # NoInfo => [Entry(At1) EXCEPT !.info = Entry(At1).info] = Entry(At1)
        BY DEF Entry, CInv, Shapes
      <4> QED
        BY <4>1, <4>2 DEF Moves, CInv, Handles
    <3> QED
      BY <3>1, <3>2
  <2>3. CASE WantList
    BY <2>3 DEF WantList, WantProps, Moves
  <2>4. CASE BeginWithin \/ NextItem \/ Look \/ LookAlbum \/ Supported \/ Field \/ Name \/ Members
    BY <2>4 DEF Moves, BeginWithin, NextItem, Look, LookAlbum, Supported, Field, Name, Members
  <2> QED
    BY <2>1, <2>2, <2>3, <2>4 DEF Reads
<1>4. Frame
  BY <1>1, <1>3 DEF Frame, CInv, Handles, Shapes, device
<1>5. \/ pc' \in Looking
      \/ pc' = "idle" /\ result'.op = call.op
  <2>1. CASE Begin \/ BeginOne \/ BeginWithin \/ GetFolders
    <3>1. Goto("next") \/ Said(TRUE) \/ Said(FALSE)
      BY <2>1 DEF Begin, BeginOne, BeginWithin, GetFolders
    <3> QED
      BY <3>1, Answers DEF Looking
  <2>2. CASE NextItem
    BY <2>2 DEF NextItem, Goto, Said, Looking
  <2>3. CASE WantInfo
    BY <2>3 DEF WantInfo, Dropped, Goto, Looking
  <2>4. CASE WantList
    BY <2>4 DEF WantList, WantProps, Dropped, Goto, Looking
  <2>5. CASE Look \/ LookAlbum
    BY <2>5 DEF Look, LookAlbum, Goto, Looking
  <2>6. CASE Supported \/ Field
    BY <2>6 DEF Supported, Field, Goto, Looking
  <2>7. CASE Name \/ Members
    BY <2>7 DEF Name, Members, Goto, Looking
  <2> QED
    BY <2>1, <2>2, <2>3, <2>4, <2>5, <2>6, <2>7 DEF Reads
<1>6. Where'
  BY <1>1, <1>2, <1>5 DEF Where, Walking, Inside, Single, Fetching, Looking
<1>7. Steady
  BY <1>1, <1>5 DEF Steady, Settled, Looking, device, Walking, Inside, Single, Fetching,
       Reads, Begin, BeginOne, BeginWithin, GetFolders, NextItem, WantInfo, Look, LookAlbum, WantList,
       Supported, Field, Name, Members
<1>8. CInv'
  BY <1>2, <1>4, <1>5, <1>6, <1>7, HarmlessKeeps
     DEF Entering, Harmless, Changers, Listers, Walking, Inside, Single, Fetching, Looking
<1> QED
  BY <1>1, <1>2, <1>4, <1>5, <1>7, <1>8 DEF Steady

\* Files: an edited object is looked up again after EndEditObject.
LEMMA FilesKeep ==
  ASSUME CInv, Partial \/ GetFile \/ GetToHandler \/ Edit \/ EndEdit
  PROVE  /\ CInv' /\ Frame /\ UNCHANGED <<scene, used, cache, call, my>> /\ DOMAIN dev' = DOMAIN dev
         /\ \/ pc = "fetch" /\ pc' = "fetch" /\ call.op \in Fetching
            \/ pc = "end" /\ pc' = "updated"
            \/ pc' = "idle" /\ result'.op = call.op
<1>1. UNCHANGED <<scene, used, cache, call, my>> /\ DOMAIN dev' = DOMAIN dev
  BY DEF Partial, GetFile, GetToHandler, Edit, EndEdit, Changes, device
<1>2. Frame
  BY <1>1 DEF Frame, Moves, CInv, Shapes, Handles
<1>3. \/ pc = "fetch" /\ pc' = "fetch" /\ call.op \in Fetching
      \/ pc = "end" /\ pc' = "updated"
      \/ pc' = "idle" /\ result'.op = call.op /\ (call.op \notin Changers \/ result'.ok = FALSE)
  <2>1. CASE Partial
    BY <2>1 DEF Partial, Said, Changers
  <2>2. CASE GetFile
    <3>1. Said(TRUE) \/ Said(FALSE)
      BY <2>2 DEF GetFile
    <3>2. call.op \notin Changers
      BY <2>2 DEF GetFile, Changers
    <3> QED
      BY <3>1, <3>2, Answers
  <2>3. CASE GetToHandler
    <3>1. Said(TRUE) \/ Said(FALSE) \/ Goto("fetch")
      BY <2>3 DEF GetToHandler
    <3>2. pc = "fetch" /\ call.op \in Fetching /\ call.op \notin Changers
      BY <2>3 DEF GetToHandler, Changers, Fetching
    <3> QED
      BY <3>1, <3>2, Answers
  <2>4. CASE Edit
    <3>1. Said(TRUE) \/ Said(FALSE)
      BY <2>4 DEF Edit
    <3>2. call.op \notin Changers
      BY <2>4 DEF Edit, Changers, CInv, Where
    <3> QED
      BY <3>1, <3>2, Answers
  <2>5. CASE EndEdit
    BY <2>5 DEF EndEdit, Said, Ended, Goto
  <2> QED
    BY <2>1, <2>2, <2>3, <2>4, <2>5
<1>4. Where'
  BY <1>1, <1>3 DEF Where, Walking, Inside, Single, Fetching, Looking, Listers
<1>5. Steady
  <2>1. pc # "idle"
    BY DEF Partial, GetFile, GetToHandler, Edit, EndEdit
  <2> QED
    BY <1>1, <1>3, <2>1 DEF Steady, Settled
<1> QED
  BY <1>1, <1>2, <1>3, <1>4, <1>5, HarmlessKeeps DEF Entering, Harmless

\* CInv is inductive.
LEMMA EveryStepKeeps ==
  ASSUME CInv, [Everything]_EveryVar
  PROVE  CInv'
<1>1. CASE UNCHANGED EveryVar
  BY <1>1 DEF EveryVar, AllVars, vars, device, storages, CInv, Shapes, Handles, Where, OnDevice, Entered, CacheAgrees,
              Nothing, Blank, Agrees, Succeeded
<1>2. CASE Next
  BY <1>2, SendingKeeps, ChoosingKeeps, SendInfoKeeps, SendDataKeeps, PropertiesKeep, CachingKeeps,
     RereadKeeps, StoragesKeep, GettingKeeps, CallKeeps DEF Next
<1>3. CASE Reads
  BY <1>3, ReadingKeeps
<1>4. CASE Partial \/ GetFile \/ GetToHandler \/ Edit \/ EndEdit
  BY <1>4, FilesKeep
<1> QED
  BY <1>1, <1>2, <1>3, <1>4 DEF Everything, Elsewhere, AnyCall

LEMMA BegunHolds == Begun => CInv
<1> SUFFICES ASSUME Begun PROVE CInv
  OBVIOUS
<1>1. scene \in Scenarios /\ dev = scene.objects /\ used = DOMAIN scene.objects /\ pc = "idle" /\ call = NoCall
      /\ my = Idle /\ result.ok = FALSE
      /\ cache = IF scene.cached THEN Flushed ELSE [h \in {} |-> 0]
  BY DEF Begun, Init
<1>2. used \subseteq Handle
  BY <1>1, ScenarioAssumption
<1>3. Shapes
  BY <1>1 DEF Shapes, Flushed
<1>4. DOMAIN cache \subseteq DOMAIN dev
  BY <1>1 DEF Flushed
<1>5. Handles
  BY <1>1, <1>2, <1>4 DEF Handles, Nothing, NoCall, Idle
<1>6. Where /\ Entered /\ CacheAgrees
  BY <1>1 DEF Where, Entered, CacheAgrees, Succeeded, Walking, Inside, Single, Fetching, Looking, NoCall
<1>7. OnDevice
  BY <1>1 DEF OnDevice, Settled, NoCall, OfObject
<1> QED
  BY <1>3, <1>5, <1>6, <1>7 DEF CInv

\* CacheAgrees always holds: when a call that sent, created, updated or edited an
\* object has succeeded, whatever failed on the way, what add_object_to_cache and
\* update_metadata_cache left in the cache is what the device has.
THEOREM CacheIsRight == Device => []CacheAgrees
<1>1. Device => []CInv
  BY BegunHolds, EveryStepKeeps, PTL DEF Device
<1>2. CInv => CacheAgrees
  BY DEF CInv
<1> QED
  BY <1>1, <1>2, PTL

-----------------------------------------------------------------------------
\* Sizes are numbers.
ObjectFields == {"parent", "store", "fmt", "name", "title", "track", "size", "refs"}
Sizes ==
  /\ \A h \in DOMAIN dev : DOMAIN dev[h] = ObjectFields /\ dev[h].size \in Nat
  /\ \A h \in DOMAIN cache : cache[h].info.size \in Nat /\ cache[h].props.size \in Nat
  /\ call.size \in Nat
  /\ DOMAIN file = DOMAIN NoFile /\ file.pos \in Nat
  /\ DOMAIN spent = {"calls", "faults"} /\ spent.faults \in Nat
  /\ DOMAIN reading = DOMAIN NotReading /\ DOMAIN reading.item = DOMAIN NoItem

\* Reading a file, and where it passes.
FetchPlaces == {"next", "wantinfo", "list", "look", "supported", "field", "fetch"}
InFetch ==
  call.op \in Fetching => pc \in {"idle", call.op} \cup FetchPlaces

\* The size in the cache, whole or its lower half, is that of the object, unless the
\* object was changed and is not looked up again yet.
Aside(h) == h \in file.dirty \/ (h = my.id /\ pc = "updated")
SizesAgree ==
  \A h \in DOMAIN dev \cap DOMAIN cache :
    Aside(h) \/ /\ cache[h].info = NoInfo \/ cache[h].info.size = dev[h].size % Word
                /\ cache[h].props = NoProps \/ cache[h].props.size = dev[h].size
EndsOwn == pc = "end" => my.id = call.h

\* A step that leaves the sizes of the objects there are.
SizeFrame ==
  /\ \A h \in DOMAIN dev' : IF h \in DOMAIN dev
                              THEN dev'[h].size = dev[h].size /\ DOMAIN dev'[h] = DOMAIN dev[h]
                              ELSE dev'[h].size \in Nat /\ DOMAIN dev'[h] = ObjectFields /\ h \in Handle \ used
  /\ \/ dev' = dev /\ Moves
     \/ cache' = cache
  /\ file.dirty \subseteq file'.dirty
  /\ pc = "updated" => cache' = Without(cache, my.id)

InfoFits(h, i) == i.size \in Nat /\ (h \in DOMAIN dev => Aside(h) \/ i = NoInfo \/ i.size = dev[h].size % Word)
PropsFit(h, p) == p.size \in Nat /\ (h \in DOMAIN dev => Aside(h) \/ p = NoProps \/ p.size = dev[h].size)

\* Such a step keeps the sizes in the cache right, whatever the cache learns.
LEMMA SizesMove ==
  ASSUME CInv, Sizes, SizesAgree, SizeFrame
  PROVE  /\ SizesAgree'
         /\ \A h \in DOMAIN cache' : cache'[h].info.size \in Nat /\ cache'[h].props.size \in Nat
         /\ \A h \in DOMAIN dev' : DOMAIN dev'[h] = ObjectFields /\ dev'[h].size \in Nat
<1>0. \A h \in DOMAIN dev' : DOMAIN dev'[h] = ObjectFields /\ dev'[h].size \in Nat
  BY DEF SizeFrame, Sizes
<1>1. CASE cache' = cache
  <2>1. ASSUME NEW h \in DOMAIN dev' \cap DOMAIN cache'
        PROVE  Aside(h)' \/ /\ cache'[h].info = NoInfo \/ cache'[h].info.size = dev'[h].size % Word
                            /\ cache'[h].props = NoProps \/ cache'[h].props.size = dev'[h].size
    <3>1. CASE h \in DOMAIN dev
      <4>1. Aside(h) => Aside(h)' \/ h \notin DOMAIN cache'
        BY <1>1 DEF SizeFrame, Aside, Without
      <4> QED
        BY <1>1, <2>1, <3>1, <4>1 DEF SizesAgree, SizeFrame
    <3>2. CASE h \notin DOMAIN dev
      <4>1. Blank(cache[h])
        BY <1>1, <2>1, <3>2 DEF SizeFrame, CInv, Handles, Nothing
      <4> QED
        BY <1>1, <4>1 DEF Blank
    <3> QED
      BY <3>1, <3>2
  <2> QED
    BY <1>0, <1>1, <2>1 DEF SizesAgree, Sizes
<1>2. CASE dev' = dev /\ Moves
  <2>1. \A h : InfoFits(h, Entry(h).info) /\ PropsFit(h, Entry(h).props)
    BY DEF Entry, InfoFits, PropsFit, SizesAgree, Sizes, NoInfo, NoProps
  <2>2. \A h \in DOMAIN dev : InfoFits(h, InfoOf(dev[h])) /\ PropsFit(h, PropsOf(dev[h]))
    <3>1. \A n \in Nat : n % Word \in Nat
      BY DEF Word
    <3> QED
      BY <3>1 DEF InfoFits, PropsFit, InfoOf, PropsOf, Sizes
  <2>3. \A h \in DOMAIN dev \cup {Top} : PropsFit(h, PropList(h))
    <3>1. Top \notin DOMAIN dev
      BY HandleAssumption DEF CInv, Handles, Top, Root
    <3> QED
      BY <2>2, <3>1 DEF PropList, PropsFit
  <2>4. \A h : PropsFit(h, NoProps)
    BY DEF PropsFit, NoProps
  <2>5. \A h \in DOMAIN cache' : InfoFits(h, cache'[h].info) /\ PropsFit(h, cache'[h].props)
    <3>0. \A h \in DOMAIN cache : InfoFits(h, cache[h].info) /\ PropsFit(h, cache[h].props)
      BY <2>1 DEF Entry
    <3>1. CASE cache' = cache
      BY <3>0, <3>1
    <3>2. CASE cache' = Flushed
      BY <2>2, <2>4, <3>2 DEF Flushed
    <3>3. CASE \E h : cache' = Without(cache, h)
      BY <3>0, <3>3 DEF Without
    <3>4. CASE \E h : cache' = With(cache, h, Entry(h))
      BY <2>1, <3>0, <3>4 DEF With
    <3>5. ASSUME NEW h \in DOMAIN dev \cup {Top}, cache' = With(cache, h, [Entry(h) EXCEPT !.props = PropList(h)])
          PROVE  \A g \in DOMAIN cache' : InfoFits(g, cache'[g].info) /\ PropsFit(g, cache'[g].props)
      <4> DEFINE e == [Entry(h) EXCEPT !.props = PropList(h)]
      <4>1. e.info = Entry(h).info /\ e.props = PropList(h)
        BY DEF Entry, CInv, Shapes
      <4>2. InfoFits(h, e.info) /\ PropsFit(h, e.props)
        BY <2>1, <2>3, <4>1
      <4> HIDE DEF e
      <4> QED
        BY <3>0, <3>5, <4>2 DEF With, e
    <3>6. ASSUME NEW h \in DOMAIN dev, cache' = With(cache, h, [Entry(h) EXCEPT !.info = InfoOf(dev[h])])
          PROVE  \A g \in DOMAIN cache' : InfoFits(g, cache'[g].info) /\ PropsFit(g, cache'[g].props)
      <4> DEFINE e == [Entry(h) EXCEPT !.info = InfoOf(dev[h])]
      <4>1. e.info = InfoOf(dev[h]) /\ e.props = Entry(h).props
        BY DEF Entry, CInv, Shapes
      <4>2. InfoFits(h, e.info) /\ PropsFit(h, e.props)
        BY <2>1, <2>2, <4>1
      <4> HIDE DEF e
      <4> QED
        BY <3>0, <3>6, <4>2 DEF With, e
    <3> QED
      BY <1>2, <3>1, <3>2, <3>3, <3>4, <3>5, <3>6 DEF Moves
  <2>6. \A h \in DOMAIN cache' : Aside(h) => Aside(h)'
    BY DEF SizeFrame, Aside, Without
  <2> QED
    BY <1>0, <1>2, <2>5, <2>6 DEF SizesAgree, InfoFits, PropsFit
<1> QED
  BY <1>1, <1>2 DEF SizeFrame

\* The part of the invariant that is about sizes.
SizesInv == CInv /\ Sizes /\ InFetch /\ SizesAgree /\ EndsOwn

\* The calls of Library, once begun.
Calling ==
  \/ Suggest \/ Fit \/ Place \/ PlaceList \/ Props \/ Descs \/ SendInfo \/ SendData
  \/ SendFromHandler \/ OpenFile
  \/ SetOne \/ OneProps \/ UpdateProps \/ SetDescs \/ SetList \/ SetRefs
  \/ Updated \/ AddInfo \/ AddProps \/ Reread \/ RereadProps \/ StorageIds \/ StorageInfo
  \/ GetTitle \/ GetList \/ GetRefs \/ SetTitle

\* CInv for all of them; none is the reading of a file; all are as SizeFrame says.
LEMMA CallingKeeps ==
  ASSUME CInv, Calling
  PROVE  CInv' /\ Frame
BY SendingKeeps, ChoosingKeeps, SendInfoKeeps, SendDataKeeps, PropertiesKeep, CachingKeeps,
   RereadKeeps, StoragesKeep, GettingKeeps DEF Calling

LEMMA CallingApart ==
  ASSUME SizesInv, Calling
  PROVE  /\ call.op \notin Fetching /\ pc # "idle" /\ pc' # "end"
         /\ DOMAIN spent' = DOMAIN spent /\ spent'.faults \in Nat
<1>1. pc \notin {"idle"} \cup Fetching \cup FetchPlaces
  BY DEF Calling, Fetching, FetchPlaces, Suggest, Fit, Place, PlaceList, Props, Descs, SendInfo, SendData, SendFromHandler, OpenFile,
    SetOne, OneProps, UpdateProps, SetDescs, SetList, SetRefs, Updated, AddInfo, AddProps, Reread, RereadProps, StorageIds, StorageInfo,
    GetTitle, GetList, GetRefs, SetTitle
<1>2. pc' # "end"
  <2>1. CASE \/ Suggest \/ Fit \/ Place \/ PlaceList \/ Props \/ Descs \/ SendInfo \/ SendData \/ SendFromHandler \/ OpenFile
    BY <2>1 DEF Suggest, Fit, Place, PlaceList, Props, Descs, SendInfo, SendData, SendFromHandler, OpenFile, WantProps, Goto,
      Return, Stores, AfterInfo, Unannounced, Sent, Refused, Unsent
  <2>2. CASE SetOne \/ OneProps \/ UpdateProps \/ SetDescs \/ SetList \/ SetRefs
    BY <2>2 DEF SetOne, OneProps, UpdateProps, SetDescs, SetList, SetRefs, Goto, Return, Failed
  <2>3. CASE Updated \/ AddInfo \/ AddProps \/ Reread \/ RereadProps
    BY <2>3 DEF Updated, AddInfo, AddProps, Reread, RereadProps, WantProps, Goto, Return, Added
  <2>4. CASE StorageIds \/ StorageInfo \/ GetTitle \/ GetList \/ GetRefs \/ SetTitle
    BY <2>4 DEF StorageIds, StorageInfo, GetTitle, GetList, GetRefs, SetTitle, Goto, Return, Answer
  <2> QED
    BY <2>1, <2>2, <2>3, <2>4 DEF Calling
<1>3. spent' = spent \/ Fails
  BY DEF Calling, Suggest, Fit, Place, PlaceList, Props, Descs, SendInfo, SendData, SendFromHandler, OpenFile,
    SetOne, OneProps, UpdateProps, SetDescs, SetList, SetRefs, Updated, AddInfo, AddProps, Reread, RereadProps, StorageIds, StorageInfo,
    GetTitle, GetList, GetRefs, SetTitle, WantProps, Fault, Fine, Sent, Refused, Unsent
<1>4. DOMAIN spent' = DOMAIN spent /\ spent'.faults \in Nat
  BY <1>3 DEF Fails, SizesInv, Sizes
<1> QED
  BY <1>1, <1>2, <1>4 DEF SizesInv, InFetch

LEMMA CallingSizes ==
  ASSUME SizesInv, Calling, file' = file
  PROVE  SizeFrame
<1>1. /\ Moves /\ file.dirty \subseteq file'.dirty
  BY CallingKeeps DEF SizesInv, Frame
<1>2. pc = "updated" => cache' = Without(cache, my.id)
  BY DEF Calling, Suggest, Fit, Place, PlaceList, Props, Descs, SendInfo, SendData, SendFromHandler, OpenFile,
    SetOne, OneProps, UpdateProps, SetDescs, SetList, SetRefs, Updated, AddInfo, AddProps, Reread, RereadProps, StorageIds, StorageInfo,
    GetTitle, GetList, GetRefs, SetTitle, Evicted
<1>3. ASSUME dev' = dev
      PROVE  SizeFrame
  BY <1>1, <1>2, <1>3 DEF SizeFrame
<1>4. CASE SendInfo
  <2>1. cache' = cache
    BY <1>4 DEF SendInfo
  <2>2. \A h : Created(h).size = call.size /\ DOMAIN Created(h) = ObjectFields
    BY DEF Created, ObjectFields
  <2>3. \/ dev' = dev
        \/ \E h \in Handle \ used, s \in StoreFor(my.store, my.parent) : dev' = With(dev, h, Created(s))
    BY <1>4 DEF SendInfo
  <2>4. \A h \in DOMAIN dev' : IF h \in DOMAIN dev
                              THEN dev'[h].size = dev[h].size /\ DOMAIN dev'[h] = DOMAIN dev[h]
                              ELSE dev'[h].size \in Nat /\ DOMAIN dev'[h] = ObjectFields /\ h \in Handle \ used
    <3>1. CASE dev' = dev
      BY <3>1 DEF SizesInv
    <3>2. ASSUME NEW h \in Handle \ used, NEW s, dev' = With(dev, h, Created(s))
          PROVE  \A g \in DOMAIN dev' : IF g \in DOMAIN dev
                              THEN dev'[g].size = dev[g].size /\ DOMAIN dev'[g] = DOMAIN dev[g]
                              ELSE dev'[g].size \in Nat /\ DOMAIN dev'[g] = ObjectFields /\ g \in Handle \ used
      <4>1. \A g \in DOMAIN dev' : dev'[g] = IF g = h THEN Created(s) ELSE dev[g]
        BY <3>2 DEF With
      <4>2. \A g \in DOMAIN dev' : g \in DOMAIN dev => g # h
        BY DEF SizesInv, CInv, Handles
      <4>3. \A g \in DOMAIN dev' : g \notin DOMAIN dev => g = h
        BY <3>2 DEF With
      <4> QED
        BY <2>2, <4>1, <4>2, <4>3 DEF SizesInv, Sizes
    <3> QED
      BY <2>3, <3>1, <3>2
  <2> QED
    BY <1>1, <1>2, <2>1, <2>4 DEF SizeFrame
<1>5. CASE SendData \/ SendFromHandler
  <2>1. cache' = cache /\ (dev' = dev \/ dev' = Without(dev, my.id))
    BY <1>5 DEF SendData, SendFromHandler, Sent, Refused, Unsent
  <2> QED
    BY <1>1, <1>2, <2>1 DEF SizeFrame, Without
<1>6. CASE SetOne \/ SetList \/ SetRefs \/ SetTitle
  <2>1. cache' = cache
    BY <1>6 DEF SetOne, SetList, SetRefs, SetTitle
  <2>2. ASSUME NEW h, NEW new, dev' = [dev EXCEPT ![h] = new],
               h \in DOMAIN dev => new.size = dev[h].size /\ DOMAIN new = ObjectFields
        PROVE  /\ DOMAIN dev' = DOMAIN dev
               /\ \A g \in DOMAIN dev : dev'[g].size = dev[g].size /\ DOMAIN dev'[g] = DOMAIN dev[g]
    <3>1. /\ DOMAIN dev' = DOMAIN dev
          /\ \A g \in DOMAIN dev : dev'[g] = IF g = h THEN new ELSE dev[g]
      BY <2>2
    <3> QED
      BY <2>2, <3>1 DEF SizesInv, Sizes
  <2>3. \A h \in DOMAIN dev : \A t, n :
          /\ [dev[h] EXCEPT !.title = t].size = dev[h].size /\ DOMAIN [dev[h] EXCEPT !.title = t] = ObjectFields
          /\ [dev[h] EXCEPT !.track = t].size = dev[h].size /\ DOMAIN [dev[h] EXCEPT !.track = t] = ObjectFields
          /\ [dev[h] EXCEPT !.refs = t].size = dev[h].size /\ DOMAIN [dev[h] EXCEPT !.refs = t] = ObjectFields
          /\ [dev[h] EXCEPT !.title = t, !.track = n].size = dev[h].size
          /\ DOMAIN [dev[h] EXCEPT !.title = t, !.track = n] = ObjectFields
    BY DEF SizesInv, Sizes, ObjectFields
  <2>4. /\ DOMAIN dev' = DOMAIN dev
        /\ \A g \in DOMAIN dev : dev'[g].size = dev[g].size /\ DOMAIN dev'[g] = DOMAIN dev[g]
    <3>0. ASSUME NEW h, NEW p, dev' = SetProp(h, p)
          PROVE  /\ DOMAIN dev' = DOMAIN dev
                 /\ \A g \in DOMAIN dev : dev'[g].size = dev[g].size /\ DOMAIN dev'[g] = DOMAIN dev[g]
      <4> DEFINE new == IF p = "title" THEN [dev[h] EXCEPT !.title = call.title]
                        ELSE [dev[h] EXCEPT !.track = call.track]
      <4>1. dev' = [dev EXCEPT ![h] = new]
        BY <3>0 DEF SetProp
      <4>2. h \in DOMAIN dev => new.size = dev[h].size /\ DOMAIN new = ObjectFields
        BY <2>3
      <4> HIDE DEF new
      <4> QED
        BY <4>1, <4>2, <2>2
    <3>1. CASE SetOne
      <4>1. dev' = dev \/ \E p \in my.todo : dev' = SetProp(my.id, p)
        BY <3>1 DEF SetOne
      <4> QED
        BY <3>0, <4>1
    <3>2. CASE SetTitle
      <4>1. dev' = dev \/ dev' = SetProp(call.h, "title")
        BY <3>2 DEF SetTitle
      <4> QED
        BY <3>0, <4>1
    <3>3. CASE SetRefs
      <4> DEFINE new == [dev[my.id] EXCEPT !.refs = call.refs]
      <4>1. dev' = dev \/ dev' = [dev EXCEPT ![my.id] = new]
        BY <3>3 DEF SetRefs
      <4>2. my.id \in DOMAIN dev => new.size = dev[my.id].size /\ DOMAIN new = ObjectFields
        BY <2>3
      <4> HIDE DEF new
      <4> QED
        BY <2>2, <4>1, <4>2
    <3>4. CASE SetList
      <4> DEFINE new == [dev[my.id] EXCEPT !.title = IF "title" \in my.chosen THEN call.title ELSE @,
                          !.track = IF "track" \in my.chosen THEN call.track ELSE @]
      <4>1. dev' = dev \/ dev' = [dev EXCEPT ![my.id] = new]
        BY <3>4 DEF SetList
      <4>2. my.id \in DOMAIN dev => new.size = dev[my.id].size /\ DOMAIN new = ObjectFields
        BY <2>3
      <4> HIDE DEF new
      <4> QED
        BY <2>2, <4>1, <4>2
    <3> QED
      BY <1>6, <3>1, <3>2, <3>3, <3>4
  <2> QED
    BY <1>1, <1>2, <2>1, <2>4 DEF SizeFrame
<1>7. CASE /\ ~SendInfo /\ ~SendData /\ ~SendFromHandler /\ ~SetOne /\ ~SetList /\ ~SetRefs /\ ~SetTitle
  <2>1. dev' = dev
    BY <1>7 DEF Calling, Suggest, Fit, Place, PlaceList, Props, Descs, OpenFile,
      OneProps, UpdateProps, SetDescs, Updated, AddInfo, AddProps, Reread, RereadProps, StorageIds, StorageInfo,
      GetTitle, GetList, GetRefs, device
  <2> QED
    BY <1>3, <2>1
<1> QED
  BY <1>4, <1>5, <1>6, <1>7

\* The file being read: what its size is, what a caller of LIBMTP_Get_Filemetadata is
\* told, the guess from its info, and how far LIBMTP_GetPartialObject and the handler
\* of LIBMTP_Get_File_To_Handler got.
TrueSize == dev[call.h].size
ToldSize(size) ==
  /\ size \in Nat
  /\ call.h \notin file.dirty => /\ size <= TrueSize
                                 /\ size = TrueSize \/ errors # {}
Guess(size) == size \in Nat /\ (call.h \notin file.dirty => size = TrueSize % Word)
Fetch ==
  call.op \in Fetching /\ pc \in FetchPlaces =>
    /\ reading.left \in {<< >>, << call.h >>}
    /\ pc \in FetchPlaces \ {"next", "fetch"} => reading.left = << call.h >>
    /\ reading.left # << >> => reading.items = << >>
    /\ reading.left = << >> => IF reading.items = << >> THEN errors # {} /\ ~Faultless
                               ELSE Len(reading.items) = 1 /\ ToldSize(reading.items[1].size)
    /\ pc = "fetch" => reading.left = << >> /\ reading.items # << >>
    /\ pc \in {"list", "look", "supported"} => Guess(reading.item.size)
    /\ pc = "field" => reading.fields \subseteq {"size"} /\ reading.item.size \in Nat
    /\ pc = "field" /\ reading.fields = {} => ToldSize(reading.item.size)
    /\ pc = "look" => call.h \in DOMAIN cache
Reaches ==
  pc # "idle" =>
    /\ call.op = "partial" => ~file.ended
    /\ call.op = "gethandler" => file.disk = file.pos /\ file.pos <= TrueSize

\* The inductive invariant behind ReadsBack and WholeOrNone.
FilesInv == SizesInv /\ Fetch /\ Reaches /\ ReadsBack /\ WholeOrNone

\* A step of any other call does not matter to reading.
LEMMA NotFetching ==
  ASSUME call' = call, call.op \notin Fetching
  PROVE  InFetch' /\ Fetch' /\ Reaches' /\ ReadsBack' /\ WholeOrNone'
BY DEF InFetch, Fetch, Reaches, ReadsBack, WholeOrNone, Fetching

LEMMA CallingKeepsFiles ==
  ASSUME FilesInv, Calling, UNCHANGED reading, Elsewhere
  PROVE  FilesInv'
<1>1. CInv' /\ Frame /\ call.op \notin Fetching /\ pc # "idle" /\ pc' # "end"
      /\ DOMAIN spent' = DOMAIN spent /\ spent'.faults \in Nat
  BY CallingKeeps, CallingApart DEF FilesInv, SizesInv
<1>2. file' = file /\ call' = call
  BY <1>1 DEF Elsewhere, Frame, Fetching
<1>3. SizeFrame
  BY <1>2, CallingSizes DEF FilesInv
<1>4. Sizes' /\ SizesAgree'
  BY <1>1, <1>2, <1>3, SizesMove DEF Sizes, FilesInv, SizesInv
<1>5. EndsOwn'
  BY <1>1 DEF EndsOwn
<1> QED
  BY <1>1, <1>2, <1>4, <1>5, NotFetching DEF FilesInv, SizesInv

\* A call begins: the program reads on, or from the start.
LEMMA CallKeepsFiles ==
  ASSUME FilesInv, Call, UNCHANGED reading, Elsewhere
  PROVE  FilesInv'
<1>1. CInv'
  BY CallKeeps DEF FilesInv, SizesInv
<1>2. /\ UNCHANGED <<dev, cache>> /\ pc' = First /\ pc = "idle" /\ my'.id = call'.h
      /\ DOMAIN spent' = DOMAIN spent /\ spent'.faults = spent.faults
  <2>1. /\ UNCHANGED <<dev, cache>> /\ pc' = First /\ pc = "idle"
        /\ my' = [Idle EXCEPT !.store = my'.store, !.id = call'.h, !.parent = my'.parent, !.name = my'.name]
        /\ spent' = [spent EXCEPT !.calls = @ + 1]
    BY DEF Call, Idle, device
  <2> QED
    BY <2>1 DEF Idle, FilesInv, SizesInv, Sizes
<1>3. call'.size \in Nat /\ call'.op \in ApiCalls
  <2> PICK c \in scene.calls : 
       \E h \in IF c.op \in OfObject
                     THEN {g \in DOMAIN dev : dev[g].fmt = c.fmt} ELSE {0} :
            call' = [c EXCEPT !.h = h]
    BY DEF Call
  <2>1. c \in Request
    BY CallAssumption DEF FilesInv, SizesInv, CInv, Shapes
  <2> QED
    BY <2>1 DEF Request
<1>4. \/ call'.op = pc'
      \/ call'.op \in {"create", "send", "folder", "storage"} /\ pc' \in {"name?", "open", "place", "suggest", "ids"}
  BY <1>2 DEF First, Stores
<1>5. \/ file' = [Reset EXCEPT !.disk = 0] /\ call'.op = "gethandler"
      \/ file' = Reset /\ call'.op # "gethandler"
      \/ file' = file /\ call'.op # "gethandler" /\ (call'.op = "partial" => ~file.ended)
  <2>1. file' = IF Continues THEN file ELSE IF call'.op = "gethandler" THEN [Reset EXCEPT !.disk = 0] ELSE Reset
    BY <1>2 DEF Elsewhere
  <2> QED
    BY <2>1 DEF Continues
<1>6. /\ DOMAIN file' = DOMAIN file /\ file'.dirty = file.dirty /\ file'.pos \in Nat
      /\ call'.op = "partial" => ~file'.ended
      /\ call'.op = "gethandler" => file'.disk = 0 /\ file'.pos = 0
  <2>1. /\ DOMAIN Reset = DOMAIN file /\ Reset.dirty = file.dirty /\ Reset.pos = 0 /\ ~Reset.ended
        /\ DOMAIN [Reset EXCEPT !.disk = 0] = DOMAIN file /\ [Reset EXCEPT !.disk = 0].dirty = file.dirty
        /\ [Reset EXCEPT !.disk = 0].pos = 0 /\ [Reset EXCEPT !.disk = 0].disk = 0
    BY DEF Reset, NoFile, FilesInv, SizesInv, Sizes
  <2>2. DOMAIN file' = DOMAIN file /\ file'.dirty = file.dirty
    BY <1>5, <2>1
  <2>3. file'.pos \in Nat
    <3>1. file'.pos = 0 \/ file' = file
      BY <1>5, <2>1
    <3>2. file.pos \in Nat
      BY DEF FilesInv, SizesInv, Sizes
    <3> QED
      BY <3>1, <3>2
  <2>4. call'.op = "partial" => ~file'.ended
    BY <1>5, <2>1
  <2>5. call'.op = "gethandler" => file'.disk = 0 /\ file'.pos = 0
    BY <1>5, <2>1
  <2> QED
    BY <2>2, <2>3, <2>4, <2>5
<1>7. pc' \notin {"idle", "updated"} \cup FetchPlaces
  BY <1>3, <1>4 DEF ApiCalls, OfObject, FetchPlaces
<1>8. Sizes'
  BY <1>2, <1>3, <1>6 DEF FilesInv, SizesInv, Sizes
<1>9. InFetch' /\ Fetch' /\ ReadsBack' /\ WholeOrNone'
  BY <1>4, <1>7 DEF InFetch, Fetch, ReadsBack, WholeOrNone, Fetching
<1>10. SizesAgree'
  BY <1>2, <1>6 DEF FilesInv, SizesInv, SizesAgree, Aside
<1>11. EndsOwn'
  BY <1>2 DEF EndsOwn
<1>12. Reaches'
  <2>1. call'.op = "gethandler" => dev'[call'.h].size \in Nat
    BY <1>1, <1>4, <1>8, <1>7 DEF CInv, OnDevice, OfObject, Sizes
  <2> QED
    BY <1>6, <2>1 DEF Reaches, TrueSize
<1> QED
  BY <1>1, <1>8, <1>9, <1>10, <1>11, <1>12 DEF FilesInv, SizesInv

\* The steps of Listings keep the sizes.
LEMMA ReadingSizes ==
  ASSUME FilesInv, Reads, Elsewhere
  PROVE  /\ CInv' /\ Sizes' /\ SizesAgree' /\ EndsOwn'
         /\ UNCHANGED <<dev, call, my>> /\ pc # "idle" /\ file'.dirty = file.dirty
         /\ pc' = "idle" /\ call.op = "getfile" => file'.disk = NoDisk
         /\ ~(pc' = "idle" /\ call.op = "getfile") => file' = file
<1>1. CInv' /\ Frame /\ UNCHANGED <<dev, call, my>>
  BY ReadingKeeps DEF FilesInv, SizesInv, Reads, Begin, BeginOne, BeginWithin, GetFolders, NextItem, WantInfo, Look, LookAlbum, WantList,
         Supported, Field, Name, Members, Unread, device
<1>2. pc \notin {"idle", "updated"}
  BY DEF Reads, Begin, BeginOne, BeginWithin, GetFolders, NextItem, WantInfo, Look, LookAlbum, WantList,
         Supported, Field, Name, Members, Walking, Single, Fetching, Inside
<1>3. file' = IF pc' = "idle" /\ call.op = "getfile" THEN [Reset EXCEPT !.disk = NoDisk] ELSE file
  BY <1>2 DEF Elsewhere
<1>4. /\ file'.dirty = file.dirty /\ DOMAIN file' = DOMAIN file /\ file'.pos \in Nat
      /\ pc' = "idle" /\ call.op = "getfile" => file'.disk = NoDisk
  BY <1>3 DEF Reset, NoFile, FilesInv, SizesInv, Sizes
<1>5. SizeFrame
  BY <1>1, <1>2, <1>4 DEF SizeFrame, Frame
<1>6. spent' = spent \/ Fails
  BY DEF Reads, Begin, BeginOne, BeginWithin, GetFolders, NextItem, WantInfo, Look, LookAlbum, WantList,
         Supported, Field, Name, Members, WantProps, Says, Fault, Fine
<1>7. DOMAIN spent' = DOMAIN spent /\ spent'.faults \in Nat
  BY <1>6 DEF Fails, FilesInv, SizesInv, Sizes
<1>8. DOMAIN reading' = DOMAIN NotReading /\ DOMAIN reading'.item = DOMAIN NoItem
  <2>1. DOMAIN reading = DOMAIN NotReading /\ DOMAIN reading.item = DOMAIN NoItem
    BY DEF FilesInv, SizesInv, Sizes
  <2>2. CASE Begin \/ BeginOne \/ BeginWithin \/ GetFolders
    <3>1. \/ reading' = NotReading
          \/ \E l : reading' = [NotReading EXCEPT !.left = l]
          \/ \E i : reading' = [NotReading EXCEPT !.items = i]
      BY <2>2 DEF Begin, BeginOne, BeginWithin, GetFolders
    <3> QED
      BY <3>1 DEF NotReading
  <2>3. CASE NextItem
    BY <2>1, <2>3 DEF NextItem, NotReading, Item, NoItem
  <2>4. CASE WantInfo
    BY <2>1, <2>4 DEF WantInfo, NotReading, NoItem, Dropped
  <2>5. CASE WantList
    BY <2>1, <2>5 DEF WantList, WantProps, NotReading, NoItem, Dropped
  <2>6. CASE Look \/ LookAlbum
    BY <2>1, <2>6 DEF Look, LookAlbum, NotReading, NoItem, Onto, Picked
  <2>7. CASE Supported
    BY <2>1, <2>7 DEF Supported, NotReading, NoItem, Onto
  <2>8. CASE Field
    BY <2>1, <2>8 DEF Field, NotReading, NoItem, Onto
  <2>9. CASE Name
    BY <2>1, <2>9 DEF Name, NotReading, NoItem
  <2>10. CASE Members
    BY <2>1, <2>10 DEF Members, NotReading, NoItem, Onto
  <2> QED
    BY <2>2, <2>3, <2>4, <2>5, <2>6, <2>7, <2>8, <2>9, <2>10 DEF Reads
<1>9. Sizes' /\ SizesAgree'
  BY <1>1, <1>4, <1>5, <1>7, <1>8, SizesMove DEF FilesInv, SizesInv, Sizes
<1>10. EndsOwn'
  BY <1>2 DEF EndsOwn, Reads, Begin, BeginOne, BeginWithin, GetFolders, NextItem, WantInfo, Look, LookAlbum, WantList,
         Supported, Field, Name, Members, WantProps, Goto, Said, Dropped
<1> QED
  BY <1>1, <1>2, <1>3, <1>4, <1>9, <1>10

\* ToldSize of a value, after the step.
ToldNext(size) ==
  /\ size \in Nat
  /\ call.h \notin file.dirty => /\ size <= TrueSize
                                 /\ size = TrueSize \/ errors' # {}

\* LIBMTP_Get_Filemetadata: the size is what the property list or the device says, or
\* there is an error.
LEMMA FetchReads ==
  ASSUME FilesInv, Reads, UNCHANGED <<dev, call, my>>, call.op \in Fetching, file'.dirty = file.dirty
  PROVE  /\ InFetch' /\ Fetch' 
         /\ pc' = "idle" => result'.ok = FALSE /\ errors' # {} /\ ~Faultless'
<1>0. call.h \in DOMAIN dev /\ dev[call.h].size \in Nat /\ TrueSize' = TrueSize
  <2>1. pc # "idle"
    BY DEF Reads, Begin, BeginOne, BeginWithin, GetFolders, NextItem, WantInfo, Look, LookAlbum, WantList,
         Supported, Field, Name, Members, Walking, Single, Fetching, Inside
  <2> QED
    BY <2>1 DEF FilesInv, SizesInv, CInv, OnDevice, OfObject, Sizes, Fetching, TrueSize
<1>1. /\ DOMAIN reading = DOMAIN NotReading /\ DOMAIN reading.item = DOMAIN NoItem
      /\ call.op \notin Walking \cup Inside \cup {"folders"} /\ ~Albums
      /\ DOMAIN spent = {"calls", "faults"} /\ spent.faults \in Nat
      /\ pc \notin Walking \cup Inside \cup {"folders", "name", "members"}
      /\ Fields = {"size"}
  BY DEF FilesInv, SizesInv, Sizes, InFetch, Fetching, Walking, Inside, FetchPlaces, Albums, Reads, Begin, BeginOne, BeginWithin,
         GetFolders, NextItem, WantInfo, Look, LookAlbum, WantList, Supported, Field, Name, Members, Single, Fields
<1>2. BeginOne \/ NextItem \/ WantInfo \/ WantList \/ Look \/ Supported \/ Field
  BY <1>1 DEF Reads, Begin, BeginWithin, GetFolders, LookAlbum, Name, Members
<1>3. \A what : Fault(what) => errors' # {} /\ ~Faultless'
  BY <1>1 DEF Fault, Fails, Faultless
<1>4. Head(<< call.h >>) = call.h /\ Tail(<< call.h >>) = << >> /\ << call.h >> # << >>
  OBVIOUS
<1>5. CASE BeginOne
  <2>1. reading' = [NotReading EXCEPT !.left = << call.h >>] /\ pc' = "next"
    BY <1>5 DEF BeginOne, Goto
  <2>2. reading'.left = << call.h >> /\ reading'.items = << >>
    BY <2>1 DEF NotReading
  <2> QED
    BY <1>4, <2>1, <2>2 DEF InFetch, Fetch, FetchPlaces
<1>6. CASE NextItem
  <2>1. reading' = reading
    BY <1>1, <1>6 DEF NextItem
  <2>2. /\ pc = "next" /\ errors' = errors /\ spent' = spent
        /\ \/ reading.left = << >> /\ reading.items # << >> /\ pc' = "fetch"
           \/ reading.left = << >> /\ reading.items = << >> /\ pc' = "idle" /\ result'.ok = FALSE
           \/ reading.left # << >> /\ pc' = "wantinfo"
    <3>1. pc = "next" /\ errors' = errors /\ spent' = spent
      BY <1>6 DEF NextItem, Fine
    <3>2. \/ reading.left = << >> /\ reading.items # << >> /\ Goto("fetch")
          \/ reading.left = << >> /\ reading.items = << >> /\ Said(call.op \in Single => reading.items # << >>)
          \/ reading.left # << >> /\ pc' = "wantinfo"
      BY <1>1, <1>6 DEF NextItem, Goto, Walking
    <3>3. Said(call.op \in Single => reading.items # << >>) /\ reading.items = << >> => pc' = "idle" /\ result'.ok = FALSE
      <4> SUFFICES ASSUME Said(call.op \in Single => reading.items # << >>), reading.items = << >>
                   PROVE  pc' = "idle" /\ result'.ok = FALSE
        OBVIOUS
      <4> DEFINE b == call.op \in Single => reading.items # << >>
      <4>1. b = FALSE
        BY DEF Single
      <4> HIDE DEF b
      <4>2. pc' = "idle" /\ result'.ok = b
        BY Answers DEF b
      <4> QED
        BY <4>1, <4>2
    <3> QED
      BY <3>1, <3>2, <3>3, Answers
  <2>3. pc' = "fetch" \/ pc' = "wantinfo" \/ (pc' = "idle" /\ result'.ok = FALSE)
    BY <2>2
  <2>4. pc' = "idle" => errors' # {} /\ ~Faultless'
    BY <2>2, <2>3 DEF FilesInv, Fetch, FetchPlaces, Faultless
  <2>5. Fetch'
    BY <1>0, <2>1, <2>2, <2>3 DEF FilesInv, Fetch, FetchPlaces, Faultless, ToldSize
  <2> QED
    BY <2>3, <2>4, <2>5 DEF InFetch, FetchPlaces
<1>7. pc \in FetchPlaces \ {"next", "fetch"} => At1 = call.h /\ reading.items = << >> /\ reading.left = << call.h >>
  BY <1>4 DEF FilesInv, Fetch, FetchPlaces, At1
<1>8. CASE WantInfo
  <2>1. At1 = call.h /\ reading.items = << >> /\ reading.left = << call.h >> /\ pc = "wantinfo"
    BY <1>7, <1>8 DEF WantInfo, FetchPlaces
  <2> DEFINE i == IF Entry(call.h).info # NoInfo THEN Entry(call.h).info ELSE InfoOf(dev[call.h])
  <2>2. i.size \in Nat /\ (call.h \notin file.dirty => i.size = TrueSize % Word)
    <3>1. call.h \notin DOMAIN cache => Entry(call.h).info = NoInfo
      BY DEF Entry
    <3>2. call.h \in DOMAIN cache => Entry(call.h).info.size \in Nat
      BY DEF Entry, FilesInv, SizesInv, Sizes
    <3>3. call.h \in DOMAIN cache /\ Entry(call.h).info # NoInfo /\ call.h \notin file.dirty =>
             Entry(call.h).info.size = TrueSize % Word
      BY <1>0, <2>1 DEF FilesInv, SizesInv, SizesAgree, Aside, Entry, TrueSize
    <3>4. InfoOf(dev[call.h]).size = TrueSize % Word /\ TrueSize % Word \in Nat
      BY <1>0 DEF InfoOf, TrueSize, Word
    <3> QED
      BY <3>1, <3>2, <3>3, <3>4
  <2>3. CASE reading' = [reading EXCEPT !.item = [NoItem EXCEPT !.id = call.h, !.name = i.name, !.size = i.size]] /\ pc' = "list"
    <3> HIDE DEF i
    <3>1. reading'.left = << call.h >> /\ reading'.items = << >> /\ reading'.item.size = i.size
      BY <1>1, <2>1, <2>3 DEF NotReading, NoItem
    <3> QED
      BY <1>0, <1>4, <2>2, <2>3, <3>1 DEF InFetch, Fetch, FetchPlaces, Guess
  <2>4. CASE Dropped /\ Fault("info")
    <3>1. reading'.left = << >> /\ reading'.items = << >> /\ pc' = "next"
      BY <1>1, <1>4, <2>1, <2>4 DEF Dropped, NotReading, Goto
    <3> QED
      BY <1>3, <2>4, <3>1 DEF InFetch, Fetch, FetchPlaces
  <2> QED
    BY <1>8, <2>1, <2>3, <2>4 DEF WantInfo, IsOne, Fetching, Goto
<1>9. CASE WantList
  <2>1. At1 = call.h /\ reading.items = << >> /\ reading.left = << call.h >> /\ pc = "list" /\ Guess(reading.item.size)
    BY <1>7, <1>9 DEF WantList, FetchPlaces, FilesInv, Fetch
  <2>2. CASE reading' = reading /\ pc' = "look" /\ call.h \in DOMAIN cache'
    BY <1>0, <1>4, <2>1, <2>2 DEF InFetch, Fetch, FetchPlaces, Guess
  <2>3. CASE Dropped /\ Fault("list")
    <3>1. reading'.left = << >> /\ reading'.items = << >> /\ pc' = "next"
      BY <1>1, <1>4, <2>1, <2>3 DEF Dropped, NotReading, Goto
    <3> QED
      BY <1>3, <2>3, <3>1 DEF InFetch, Fetch, FetchPlaces
  <2> QED
    BY <1>9, <2>1, <2>2, <2>3 DEF WantList, WantProps, Goto, With
<1>10. ASSUME NEW item, Onto(item), pc' = "next", reading.items = << >>, reading.left = << call.h >>, ToldNext(item.size)
       PROVE  /\ InFetch' /\ Fetch' 
              /\ pc' = "idle" => result'.ok = FALSE /\ errors' # {} /\ ~Faultless'
  <2>1. reading'.left = << >> /\ reading'.items = << item >>
    BY <1>1, <1>4, <1>10 DEF Onto, NotReading
  <2>2. Len(<< item >>) = 1 /\ << item >>[1] = item /\ << item >> # << >>
    OBVIOUS
  <2> QED
    BY <1>0, <1>10, <2>1, <2>2 DEF InFetch, Fetch, FetchPlaces, ToldNext, ToldSize
<1>11. CASE Look
  <2>1. At1 = call.h /\ reading.items = << >> /\ reading.left = << call.h >> /\ pc = "look" /\ Guess(reading.item.size)
        /\ call.h \in DOMAIN cache
    BY <1>7, <1>11 DEF Look, FetchPlaces, FilesInv, Fetch
  <2>2. CASE reading' = reading /\ pc' = "supported"
    BY <1>0, <1>4, <2>1, <2>2 DEF InFetch, Fetch, FetchPlaces, Guess
  <2>3. CASE HasProps(call.h) /\ Onto(Picked(reading.item, cache[call.h].props)) /\ pc' = "next"
    <3>1. Picked(reading.item, cache[call.h].props).size = cache[call.h].props.size
      BY <1>1 DEF Picked, NoItem
    <3>2. cache[call.h].props.size \in Nat
      BY <2>1 DEF FilesInv, SizesInv, Sizes
    <3>3. call.h \notin file.dirty => cache[call.h].props.size = TrueSize
      BY <1>0, <2>1, <2>3 DEF HasProps, FilesInv, SizesInv, SizesAgree, Aside, TrueSize
    <3>4. ToldNext(cache[call.h].props.size)
      <4>1. cache' = cache
        BY <1>11 DEF Look
      <4> QED
        BY <1>0, <3>2, <3>3, <4>1 DEF ToldNext, TrueSize
    <3> QED
      BY <1>10, <2>1, <2>3, <3>1, <3>4
  <2> QED
    BY <1>11, <2>1, <2>2, <2>3 DEF Look, Goto
<1>12. CASE Supported
  <2>1. At1 = call.h /\ reading.items = << >> /\ reading.left = << call.h >> /\ pc = "supported" /\ Guess(reading.item.size)
    BY <1>7, <1>12 DEF Supported, FetchPlaces, FilesInv, Fetch
  <2>2. CASE reading' = [reading EXCEPT !.fields = Fields] /\ pc' = "field"
    <3>1. reading'.left = << call.h >> /\ reading'.items = << >> /\ reading'.item = reading.item /\ reading'.fields = {"size"}
      BY <1>1, <2>1, <2>2 DEF NotReading
    <3> QED
      BY <1>4, <2>1, <2>2, <3>1 DEF InFetch, Fetch, FetchPlaces, Guess
  <2>3. CASE Fault("supported") /\ Onto(reading.item) /\ pc' = "next"
    <3>1. ToldNext(reading.item.size)
      <4>1. reading.item.size \in Nat /\ (call.h \notin file.dirty => reading.item.size <= TrueSize)
        BY <1>0, <2>1 DEF Guess, Word, TrueSize
      <4> QED
        BY <1>0, <1>3, <2>3, <4>1 DEF ToldNext
    <3> QED
      BY <1>10, <2>1, <2>3, <3>1
  <2> QED
    BY <1>1, <1>12, <2>2, <2>3 DEF Supported, Goto
<1>13. CASE Field
  <2>1. At1 = call.h /\ reading.items = << >> /\ reading.left = << call.h >> /\ pc = "field" 
        /\ reading.fields \subseteq {"size"} /\ (reading.fields = {} => ToldSize(reading.item.size))
    BY <1>7, <1>13 DEF Field, FetchPlaces, FilesInv, Fetch
  <2>2. CASE reading.fields = {} /\ Fine /\ Onto(reading.item) /\ pc' = "next"
    <3>1. ToldNext(reading.item.size)
      BY <1>0, <2>1, <2>2 DEF ToldSize, ToldNext, Fine
    <3> QED
      BY <1>10, <2>1, <2>2, <3>1
  <2>3. ASSUME NEW v, Says("size", v), reading' = [reading EXCEPT !.fields = @ \ {"size"}, !.item["size"] = v], pc' = "field"
        PROVE  /\ InFetch' /\ Fetch' 
               /\ pc' = "idle" => result'.ok = FALSE /\ errors' # {} /\ ~Faultless'
    <3>1. reading'.left = << call.h >> /\ reading'.items = << >> /\ reading'.item.size = v /\ reading'.fields = {}
      BY <1>1, <2>1, <2>3 DEF NotReading, NoItem
    <3>2. ToldNext(v)
      <4>1. v = TrueSize \/ (v = 0 /\ errors' # {})
        BY <1>0, <1>3, <2>1, <2>3 DEF Says, Value1, Default, PropsOf, TrueSize
      <4> QED
        BY <1>0, <4>1 DEF ToldNext, TrueSize
    <3> QED
      BY <1>0, <1>4, <2>3, <3>1, <3>2 DEF InFetch, Fetch, FetchPlaces, ToldSize, ToldNext
  <2>4. CASE reading.fields # {}
    <3>1. PICK p \in reading.fields : \E v \in {Value1(p), Default(p)} :
             Says(p, v) /\ reading' = [reading EXCEPT !.fields = @ \ {p}, !.item[p] = v] /\ pc' = "field"
      BY <1>13, <2>4 DEF Field, Goto
    <3>2. p = "size"
      BY <2>1
    <3> QED
      BY <2>3, <3>1, <3>2
  <2> QED
    BY <1>1, <1>13, <2>2, <2>4 DEF Field, Goto
<1> QED
  BY <1>2, <1>5, <1>6, <1>8, <1>9, <1>11, <1>12, <1>13

\* Both together.
LEMMA ReadingKeepsFiles ==
  ASSUME FilesInv, Reads, Elsewhere
  PROVE  FilesInv'
<1>1. /\ CInv' /\ Sizes' /\ SizesAgree' /\ EndsOwn'
      /\ UNCHANGED <<dev, call, my>> /\ pc # "idle" /\ file'.dirty = file.dirty
      /\ pc' = "idle" /\ call.op = "getfile" => file'.disk = NoDisk
      /\ ~(pc' = "idle" /\ call.op = "getfile") => file' = file
  BY ReadingSizes
<1>2. CASE call.op \notin Fetching
  BY <1>1, <1>2, NotFetching DEF FilesInv, SizesInv
<1>3. CASE call.op \in Fetching
  <2>1. /\ InFetch' /\ Fetch' 
        /\ pc' = "idle" => result'.ok = FALSE /\ errors' # {} /\ ~Faultless'
    BY <1>1, <1>3, FetchReads
  <2>2. Reaches'
    BY <1>1 DEF FilesInv, Reaches, TrueSize
  <2>3. ReadsBack' /\ WholeOrNone'
    BY <1>1, <2>1 DEF ReadsBack, WholeOrNone
  <2> QED
    BY <1>1, <2>1, <2>2, <2>3 DEF FilesInv, SizesInv
<1> QED
  BY <1>2, <1>3

\* What is asked for does not fill the last packet.
LEMMA NeverFull ==
  ASSUME NEW m \in Nat
  PROVE  /\ Asked(m) \in Nat /\ Asked(m) <= m
         /\ scene.hangs => ~Full(Asked(m))
<1>1. Full(m) => m > 0 /\ ~Full(m - 1)
  BY DEF Full, Packet, Header
<1> QED
  BY <1>1 DEF Asked

\* What the actions of Files leave alone.
LEMMA FilesApart ==
  ASSUME FilesInv, Partial \/ GetFile \/ GetToHandler \/ Edit \/ EndEdit
  PROVE  /\ CInv' /\ UNCHANGED <<used, cache, call, my, reading>> /\ pc \notin {"idle", "updated"} /\ pc' # "end"
         /\ DOMAIN spent' = {"calls", "faults"} /\ spent'.faults \in Nat
<1>1. CInv' /\ UNCHANGED <<used, cache, call, my, reading>>
  BY FilesKeep DEF FilesInv, SizesInv, Partial, GetFile, GetToHandler, Edit, EndEdit, device
<1>2. pc \notin {"idle", "updated"}
  BY DEF Partial, GetFile, GetToHandler, Edit, EndEdit
<1>3. pc' # "end"
  <2>1. CASE Partial \/ GetFile \/ Edit
    BY <2>1 DEF Partial, GetFile, Edit, Said
  <2>2. CASE GetToHandler
    BY <2>2 DEF GetToHandler, Said, Goto
  <2>3. CASE EndEdit
    BY <2>3 DEF EndEdit, Ended, Said, Goto
  <2> QED
    BY <2>1, <2>2, <2>3
<1>4. spent' = spent \/ Fails
  <2>1. CASE Partial
    BY <2>1 DEF Partial, Fine
  <2>2. CASE GetFile
    BY <2>2 DEF GetFile, Fault, Fine
  <2>3. CASE GetToHandler
    BY <2>3 DEF GetToHandler, Fault, Fine
  <2>4. CASE Edit
    BY <2>4 DEF Edit, Fine
  <2>5. CASE EndEdit
    BY <2>5 DEF EndEdit, Fine
  <2> QED
    BY <2>1, <2>2, <2>3, <2>4, <2>5
<1>5. DOMAIN spent' = {"calls", "faults"} /\ spent'.faults \in Nat
  BY <1>4 DEF Fails, FilesInv, SizesInv, Sizes
<1> QED
  BY <1>1, <1>2, <1>3, <1>5

\* Reading a file does not change it.
LEMMA SameSizes ==
  ASSUME FilesInv, Partial \/ GetFile \/ GetToHandler, file'.dirty = file.dirty,
         DOMAIN file' = DOMAIN file, file'.pos \in Nat
  PROVE  SizesAgree' /\ Sizes' /\ EndsOwn'
<1>1. /\ CInv' /\ UNCHANGED <<used, cache, call, my, reading>> /\ pc \notin {"idle", "updated"} /\ pc' # "end"
      /\ DOMAIN spent' = {"calls", "faults"} /\ spent'.faults \in Nat
  BY FilesApart
<1>2. dev' = dev
  BY DEF Partial, GetFile, GetToHandler, device
<1>3. SizeFrame
  BY <1>1, <1>2 DEF SizeFrame, Moves
<1> QED
  BY <1>1, <1>3, SizesMove DEF FilesInv, SizesInv, Sizes, EndsOwn

\* LIBMTP_GetPartialObject.
LEMMA PartialKeepsFiles ==
  ASSUME FilesInv, Partial
  PROVE  FilesInv'
<1>1. /\ CInv' /\ UNCHANGED <<dev, used, cache, call, my, reading>> /\ call.op = "partial" /\ pc = "fetch"
      /\ DOMAIN file = DOMAIN NoFile /\ file.pos \in Nat
      /\ call.size \in Nat /\ TrueSize \in Nat
      /\ DOMAIN spent = {"calls", "faults"} /\ spent.faults \in Nat
      /\ spent'.faults \in Nat /\ DOMAIN spent' = {"calls", "faults"}
  BY FilesApart DEF Partial, FilesInv, SizesInv, Sizes, CInv, OnDevice, OfObject, TrueSize, device
<1> DEFINE size == reading.items[1].size
           n == Asked(Least(call.size, size - file.pos))
           there == TrueSize - file.pos
<1>2. ToldSize(size)
  BY <1>1 DEF FilesInv, Fetch, FetchPlaces, Fetching
<1>3. ~file.ended
  BY <1>1 DEF FilesInv, Reaches
<1>4. pc' = "idle"
  BY DEF Partial, Said
<1>5. /\ DOMAIN Reset = DOMAIN file /\ Reset.dirty = file.dirty /\ Reset.pos = 0
  BY <1>1 DEF Reset, NoFile
<1>6. CASE file.pos >= size /\ Said(TRUE) /\ file' = [file EXCEPT !.ended = TRUE] /\ Fine
  <2>1. file'.dirty = file.dirty /\ file'.pos = file.pos /\ DOMAIN file' = DOMAIN file /\ result'.ok = TRUE
    BY <1>1, <1>6 DEF NoFile, Said
  <2>2. ReadsBack'
    BY <1>1, <1>2, <1>6, <2>1 DEF ReadsBack, ToldSize, TrueSize, Fine
  <2> QED
    BY <1>1, <1>4, <2>1, <2>2, SameSizes
       DEF FilesInv, SizesInv, InFetch, Fetch, FetchPlaces, Reaches, WholeOrNone
<1>7. CASE file.pos < size /\ Said(FALSE) /\ file' = Reset /\ "part" \in errors'
  <2>1. result'.ok = FALSE
    BY <1>7 DEF Said
  <2>2. ReadsBack'
    BY <1>7, <2>1 DEF ReadsBack
  <2> QED
    BY <1>1, <1>4, <1>5, <1>7, <2>2, SameSizes
       DEF FilesInv, SizesInv, InFetch, Fetch, FetchPlaces, Reaches, WholeOrNone
<1>8. CASE Said(FALSE) /\ file' = Reset /\ Fails
  <2>1. result'.ok = FALSE /\ ~Faultless'
    BY <1>1, <1>8 DEF Said, Fails, Faultless
  <2>2. ReadsBack'
    BY <2>1 DEF ReadsBack
  <2> QED
    BY <1>1, <1>4, <1>5, <1>8, <2>2, SameSizes
       DEF FilesInv, SizesInv, InFetch, Fetch, FetchPlaces, Reaches, WholeOrNone
<1>9. ASSUME file.pos < size
      PROVE  /\ n \in Nat
             /\ call.h \notin file.dirty => there > 0 /\ ~(scene.hangs /\ n = there /\ Full(n))
  <2>1. size \in Nat /\ size - file.pos \in Nat
    BY <1>1, <1>2, <1>9 DEF ToldSize
  <2>2. Least(call.size, size - file.pos) \in Nat
    BY <1>1, <2>1 DEF Least
  <2>3. n \in Nat /\ (scene.hangs => ~Full(n))
    BY <2>2, NeverFull
  <2>4. call.h \notin file.dirty => there > 0
    BY <1>1, <1>2, <1>9 DEF ToldSize
  <2> QED
    BY <2>3, <2>4
<1>10. CASE file.pos < size /\ there > 0 /\ Fine /\ Said(TRUE)
            /\ file' = [file EXCEPT !.h = call.h, !.pos = @ + Least(n, there)]
  <2>1. Least(n, there) \in Nat
    BY <1>1, <1>9, <1>10 DEF Least
  <2>2. file'.dirty = file.dirty /\ file'.pos \in Nat /\ DOMAIN file' = DOMAIN file /\ file'.ended = file.ended /\ result'.ok = TRUE
    BY <1>1, <1>10, <2>1 DEF NoFile, Said
  <2>3. ReadsBack'
    BY <1>3, <2>2 DEF ReadsBack
  <2> QED
    BY <1>1, <1>4, <2>2, <2>3, SameSizes
       DEF FilesInv, SizesInv, InFetch, Fetch, FetchPlaces, Reaches, WholeOrNone
<1>11. CASE /\ file.pos < size /\ Said(FALSE) /\ file' = Reset
            /\ (scene.hangs /\ n = there /\ Full(n)) \/ there <= 0
  <2>1. call.h \in file.dirty
    BY <1>1, <1>9, <1>11
  <2>2. ReadsBack'
    BY <1>1, <1>5, <1>11, <2>1 DEF ReadsBack
  <2> QED
    BY <1>1, <1>4, <1>5, <1>11, <2>2, SameSizes
       DEF FilesInv, SizesInv, InFetch, Fetch, FetchPlaces, Reaches, WholeOrNone
<1> QED
  BY <1>6, <1>7, <1>8, <1>10, <1>11 DEF Partial, TrueSize

\* LIBMTP_Get_File_To_File.
LEMMA GetFileKeepsFiles ==
  ASSUME FilesInv, GetFile
  PROVE  FilesInv'
<1>1. /\ CInv' /\ UNCHANGED <<dev, used, cache, call, my, reading>> /\ call.op = "getfile" /\ DOMAIN file = DOMAIN NoFile
  BY FilesApart DEF GetFile, FilesInv, SizesInv, Sizes, device
<1>2. \/ Said(TRUE) /\ file' = [Reset EXCEPT !.disk = TrueSize]
      \/ Said(FALSE) /\ file' = [Reset EXCEPT !.disk = NoDisk]
  BY DEF GetFile, Kept, TrueSize
<1>3. \/ pc' = "idle" /\ result'.ok = TRUE /\ file' = [Reset EXCEPT !.disk = TrueSize]
      \/ pc' = "idle" /\ result'.ok = FALSE /\ file' = [Reset EXCEPT !.disk = NoDisk]
  BY <1>2, Answers
<1>4. pc' = "idle"
  BY <1>3
<1>5. /\ file'.dirty = file.dirty /\ file'.pos = 0 /\ DOMAIN file' = DOMAIN file
      /\ IF result'.ok THEN file'.disk = TrueSize ELSE file'.disk = NoDisk
  BY <1>1, <1>3 DEF Reset, NoFile
<1>6. WholeOrNone'
  BY <1>1, <1>3, <1>4, <1>5 DEF WholeOrNone, TrueSize
<1>7. ReadsBack'
  BY <1>1 DEF ReadsBack
<1> QED
  BY <1>1, <1>4, <1>5, <1>6, <1>7, SameSizes DEF FilesInv, SizesInv, InFetch, Fetch, FetchPlaces, Reaches

\* LIBMTP_Get_File_To_Handler.
LEMMA HandlerKeepsFiles ==
  ASSUME FilesInv, GetToHandler
  PROVE  FilesInv'
<1>1. /\ CInv' /\ UNCHANGED <<dev, used, cache, call, my, reading>> /\ call.op = "gethandler" /\ pc = "fetch"
      /\ DOMAIN file = DOMAIN NoFile /\ file.pos \in Nat /\ TrueSize \in Nat
      /\ file.disk = file.pos /\ file.pos <= TrueSize
  BY FilesApart DEF GetToHandler, FilesInv, SizesInv, Sizes, Reaches, CInv, OnDevice, OfObject, TrueSize, device
<1>2. ReadsBack'
  BY <1>1 DEF ReadsBack
<1>3. CASE Said(FALSE) /\ file' = file /\ errors' # {}
  <2>1. pc' = "idle" /\ result'.ok = FALSE
    BY <1>3, Answers
  <2> QED
    BY <1>1, <1>2, <1>3, <2>1, SameSizes DEF FilesInv, SizesInv, InFetch, Fetch, FetchPlaces, Reaches, WholeOrNone
<1>4. CASE Said(TRUE) /\ file' = file /\ TrueSize - file.pos = 0
  <2>1. pc' = "idle"
    BY <1>4, Answers
  <2>2. file.disk = TrueSize
    BY <1>1, <1>4
  <2>3. WholeOrNone'
    BY <1>1, <1>4, <2>2, Answers DEF WholeOrNone, TrueSize
  <2> QED
    BY <1>1, <1>2, <1>4, <2>1, <2>3, SameSizes DEF FilesInv, SizesInv, InFetch, Fetch, FetchPlaces, Reaches
<1> DEFINE n == Least(IF file.pos = 0 THEN Packet - Header ELSE Packet, TrueSize - file.pos)
<1>5. n \in Nat /\ file.pos + n <= TrueSize
  BY <1>1 DEF Least, Packet, Header
<1>6. ASSUME NEW answer \in HandlerAnswers, NEW k \in 0 .. n, file' = [file EXCEPT !.pos = @ + n, !.disk = @ + k],
             IF Put(answer, k, n) THEN Goto("fetch") /\ UNCHANGED errors
                                  ELSE Said(FALSE) /\ errors' = errors \cup {"cancelled"}
      PROVE  FilesInv'
  <2> HIDE DEF n
  <2>1. file'.dirty = file.dirty /\ file'.pos = file.pos + n /\ file'.disk = file.disk + k /\ DOMAIN file' = DOMAIN file
    BY <1>1, <1>6 DEF NoFile
  <2>2. SizesAgree' /\ Sizes' /\ EndsOwn'
    BY <1>1, <1>5, <2>1, SameSizes
  <2>3. CASE Put(answer, k, n)
    <3>1. k = n /\ pc' = "fetch" /\ errors' = errors
      BY <1>6, <2>3, Answers DEF Put
    <3>2. Fetch'
      BY <1>1, <2>1, <3>1 DEF FilesInv, Fetch, FetchPlaces, Fetching, ToldSize, Faultless, TrueSize, GetToHandler
    <3>3. Reaches'
      BY <1>1, <1>5, <2>1, <3>1 DEF Reaches, TrueSize
    <3> QED
      BY <1>1, <1>2, <2>2, <3>1, <3>2, <3>3 DEF FilesInv, SizesInv, InFetch, FetchPlaces, WholeOrNone
  <2>4. CASE ~Put(answer, k, n)
    <3>1. pc' = "idle" /\ result'.ok = FALSE /\ errors' # {}
      BY <1>6, <2>4, Answers
    <3> QED
      BY <1>1, <1>2, <2>2, <3>1 DEF FilesInv, SizesInv, InFetch, Fetch, FetchPlaces, Reaches, WholeOrNone
  <2> QED
    BY <2>3, <2>4
<1> QED
  BY <1>3, <1>4, <1>6 DEF GetToHandler, Fault, TrueSize

\* LIBMTP_BeginEditObject, _SendPartialObject, _TruncateObject: the file is dirty.
LEMMA EditKeepsFiles ==
  ASSUME FilesInv, Edit
  PROVE  FilesInv'
<1>1. /\ CInv' /\ UNCHANGED <<used, cache, call, my, reading>> /\ call.op \in {"begin", "write", "truncate"}
      /\ call.h \in DOMAIN dev /\ DOMAIN file = DOMAIN NoFile /\ call.size \in Nat
      /\ DOMAIN spent' = {"calls", "faults"} /\ spent'.faults \in Nat /\ pc' = "idle" /\ pc # "updated"
  <2>1. pc \in {"begin", "write", "truncate"} /\ pc' = "idle"
    BY DEF Edit, Said
  <2>2. call.op \in {"begin", "write", "truncate"}
    BY <2>1 DEF FilesInv, SizesInv, CInv, Where
  <2> QED
    BY <2>1, <2>2, FilesApart DEF FilesInv, SizesInv, Sizes, CInv, OnDevice, OfObject
<1>2. call.op \notin Fetching
  BY <1>1 DEF Fetching
<1>3. \/ dev' = dev /\ (file' = file \/ file' = [file EXCEPT !.open = @ \cup {call.h}])
      \/ \E size \in Nat : dev' = [dev EXCEPT ![call.h].size = size] /\ file' = [file EXCEPT !.dirty = @ \cup {call.h}]
  <2> DEFINE Larger == IF call.size > dev[call.h].size THEN call.size ELSE dev[call.h].size
             Smaller == Least(call.size, dev[call.h].size)
  <2>1. Larger \in Nat /\ Smaller \in Nat
    BY <1>1 DEF Least, FilesInv, SizesInv, Sizes
  <2>2. \/ dev' = dev /\ (file' = file \/ file' = [file EXCEPT !.open = @ \cup {call.h}])
        \/ Changes(call.h, Larger) /\ file' = [file EXCEPT !.dirty = @ \cup {call.h}]
        \/ Changes(call.h, Smaller) /\ file' = [file EXCEPT !.dirty = @ \cup {call.h}]
    BY DEF Edit
  <2> HIDE DEF Larger, Smaller
  <2> QED
    BY <2>1, <2>2 DEF Changes
<1>4. /\ DOMAIN file' = DOMAIN file /\ file'.pos = file.pos /\ file.dirty \subseteq file'.dirty
      /\ dev' # dev => call.h \in file'.dirty
  <2>1. CASE dev' = dev /\ (file' = file \/ file' = [file EXCEPT !.open = @ \cup {call.h}])
    BY <1>1, <2>1 DEF NoFile
  <2>2. CASE file' = [file EXCEPT !.dirty = @ \cup {call.h}]
    BY <1>1, <2>2 DEF NoFile
  <2> QED
    BY <1>3, <2>1, <2>2
<1>5. /\ DOMAIN dev' = DOMAIN dev
      /\ \A h \in DOMAIN dev : /\ h # call.h => dev'[h] = dev[h]
                               /\ DOMAIN dev'[h] = ObjectFields /\ dev'[h].size \in Nat
  <2>1. CASE dev' = dev
    BY <2>1 DEF FilesInv, SizesInv, Sizes
  <2>2. ASSUME NEW size \in Nat, dev' = [dev EXCEPT ![call.h].size = size]
        PROVE  /\ DOMAIN dev' = DOMAIN dev
               /\ \A h \in DOMAIN dev : /\ h # call.h => dev'[h] = dev[h]
                                        /\ DOMAIN dev'[h] = ObjectFields /\ dev'[h].size \in Nat
    <3>1. /\ DOMAIN dev' = DOMAIN dev
          /\ \A h \in DOMAIN dev : h # call.h => dev'[h] = dev[h]
          /\ dev'[call.h] = [dev[call.h] EXCEPT !.size = size]
      BY <1>1, <2>2
    <3>2. DOMAIN dev[call.h] = ObjectFields
      BY <1>1 DEF FilesInv, SizesInv, Sizes
    <3>3. DOMAIN dev'[call.h] = ObjectFields /\ dev'[call.h].size \in Nat
      BY <3>1, <3>2 DEF ObjectFields
    <3> QED
      BY <3>1, <3>3 DEF FilesInv, SizesInv, Sizes
  <2> QED
    BY <1>3, <2>1, <2>2
<1>6. Sizes'
  BY <1>1, <1>4, <1>5 DEF FilesInv, SizesInv, Sizes
<1>7. SizesAgree'
  BY <1>1, <1>4, <1>5 DEF FilesInv, SizesInv, SizesAgree, Aside
<1>8. EndsOwn'
  BY <1>1 DEF EndsOwn
<1> QED
  BY <1>1, <1>2, <1>6, <1>7, <1>8, NotFetching DEF FilesInv, SizesInv

\* LIBMTP_EndEditObject: it no longer is, and is about to be looked up again.
LEMMA EndEditKeepsFiles ==
  ASSUME FilesInv, EndEdit
  PROVE  FilesInv'
<1>1. /\ CInv' /\ UNCHANGED <<dev, used, cache, call, my, reading>> /\ call.op = "end" /\ pc = "end" /\ pc' # "end"
      /\ DOMAIN spent' = {"calls", "faults"} /\ spent'.faults \in Nat /\ DOMAIN file = DOMAIN NoFile
  <2>1. pc = "end"
    BY DEF EndEdit
  <2>2. call.op = "end"
    BY <2>1 DEF FilesInv, SizesInv, CInv, Where
  <2> QED
    BY <2>1, <2>2, FilesApart DEF FilesInv, SizesInv, Sizes, EndEdit, device
<1>2. call.op \notin Fetching
  BY <1>1 DEF Fetching
<1>3. \/ pc' = "updated" /\ file' = [file EXCEPT !.open = @ \ {call.h}, !.dirty = file.dirty \ {call.h}]
      \/ file' = file
      \/ file' = [file EXCEPT !.open = @ \ {call.h}, !.dirty = file.dirty]
  BY DEF EndEdit, Ended, Goto
<1>4. /\ DOMAIN file' = DOMAIN file /\ file'.pos = file.pos
      /\ \/ file'.dirty = file.dirty
         \/ pc' = "updated" /\ file'.dirty = file.dirty \ {call.h}
  BY <1>1, <1>3 DEF NoFile
<1>5. Sizes' /\ EndsOwn'
  BY <1>1, <1>4 DEF FilesInv, SizesInv, Sizes, EndsOwn
<1>6. SizesAgree'
  BY <1>1, <1>4 DEF FilesInv, SizesInv, SizesAgree, Aside, EndsOwn
<1> QED
  BY <1>1, <1>2, <1>5, <1>6, NotFetching DEF FilesInv, SizesInv

\* FilesInv is inductive.
LEMMA EveryStepKeepsFiles ==
  ASSUME FilesInv, [Everything]_EveryVar
  PROVE  FilesInv'
<1>1. CASE UNCHANGED EveryVar
  <2>1. CInv'
    BY EveryStepKeeps DEF FilesInv, SizesInv
  <2> QED
    BY <1>1, <2>1 DEF EveryVar, AllVars, vars, device, storages, FilesInv, SizesInv, Sizes, InFetch, SizesAgree, Aside,
                EndsOwn, Fetch, ToldSize, Guess, TrueSize, Reaches, ReadsBack, WholeOrNone, Faultless
<1>2. CASE Elsewhere
  BY <1>2, CallingKeepsFiles, CallKeepsFiles, ReadingKeepsFiles DEF Elsewhere, AnyCall, Next, Calling
<1>3. CASE Partial \/ GetFile \/ GetToHandler \/ Edit \/ EndEdit
  BY <1>3, PartialKeepsFiles, GetFileKeepsFiles, HandlerKeepsFiles, EditKeepsFiles, EndEditKeepsFiles
<1> QED
  BY <1>1, <1>2, <1>3 DEF Everything

LEMMA BegunHoldsFiles == Begun => FilesInv
<1> SUFFICES ASSUME Begun PROVE FilesInv
  OBVIOUS
<1>1. CInv
  BY BegunHolds
<1>2. /\ scene \in Scenarios /\ dev = scene.objects /\ pc = "idle" /\ call = NoCall
      /\ cache = IF scene.cached THEN Flushed ELSE [h \in {} |-> 0]
      /\ spent = [calls |-> 0, faults |-> 0] /\ reading = NotReading /\ file = NoFile
  BY DEF Begun, Init
<1>3. \A h \in DOMAIN dev : DOMAIN dev[h] = ObjectFields /\ dev[h].size \in Nat
  BY <1>2, ScenarioAssumption DEF Object, ObjectFields
<1>4. \A h \in DOMAIN dev : InfoOf(dev[h]).size = dev[h].size % Word /\ InfoOf(dev[h]).size \in Nat
                            /\ PropsOf(dev[h]).size = dev[h].size
  BY <1>3 DEF InfoOf, PropsOf, Word
<1>5. \A h \in DOMAIN cache : /\ h \in DOMAIN dev /\ cache[h].info = InfoOf(dev[h])
                              /\ cache[h].props = NoProps \/ cache[h].props = PropsOf(dev[h])
  BY <1>2 DEF Flushed
<1>6. Sizes
  <2>1. \A h \in DOMAIN cache : cache[h].info.size \in Nat /\ cache[h].props.size \in Nat
    <3>1. NoProps.size \in Nat
      BY DEF NoProps
    <3> QED
      BY <1>3, <1>4, <1>5, <3>1
  <2>2. call.size \in Nat /\ DOMAIN file = DOMAIN NoFile /\ file.pos \in Nat
    BY <1>2 DEF NoCall, NoFile
  <2>3. /\ DOMAIN spent = {"calls", "faults"} /\ spent.faults \in Nat
        /\ DOMAIN reading = DOMAIN NotReading /\ DOMAIN reading.item = DOMAIN NoItem
    BY <1>2 DEF NotReading
  <2> QED
    BY <1>3, <2>1, <2>2, <2>3 DEF Sizes
<1>7. SizesAgree
  BY <1>4, <1>5 DEF SizesAgree
<1>8. InFetch /\ EndsOwn /\ Fetch /\ Reaches /\ ReadsBack /\ WholeOrNone
  BY <1>2 DEF InFetch, EndsOwn, Fetch, Reaches, ReadsBack, WholeOrNone, FetchPlaces, NoCall, Fetching
<1> QED
  BY <1>1, <1>6, <1>7, <1>8 DEF FilesInv, SizesInv

\* FilesInv always holds.
LEMMA FilesInvAlways == Device => []FilesInv
BY BegunHoldsFiles, EveryStepKeepsFiles, PTL DEF Device

\* ReadsBack always holds: who reads a file with LIBMTP_GetPartialObject until a part
\* is empty has all of it or an error, whatever the cache thought its size to be, and
\* no part asked for is one a device hangs on.
THEOREM PartsReadBack == Device => []ReadsBack
<1>1. FilesInv => ReadsBack
  BY DEF FilesInv
<1> QED
  BY <1>1, FilesInvAlways, PTL

\* WholeOrNone always holds: LIBMTP_Get_File_To_File leaves a whole file or none, and
\* LIBMTP_Get_File_To_Handler succeeds only when the handler took every byte.
THEOREM WholeFiles == Device => []WholeOrNone
<1>1. FilesInv => WholeOrNone
  BY DEF FilesInv
<1> QED
  BY <1>1, FilesInvAlways, PTL

-----------------------------------------------------------------------------
\* Before there is an object; who makes or changes one; where it is entered; where it
\* exists.
Before == {"open", "suggest", "fit", "place", "name?", "props", "descs", "sendinfo"}
Makers == {"send", "create", "update"}
Entries == {"updated", "add", "addprops"}
Made == Settled \ {"end"}

\* Which calls get where, and what was asked for is what some program asks.
Asking ==
  /\ pc # "idle" => \E c \in scene.calls : call = [c EXCEPT !.h = call.h]
  /\ pc \in Before => call.op \in {"send", "create", "folder"}
  /\ pc \in {"props", "descs"} => call.op # "folder"
  /\ pc = "senddata" => call.op \in {"send", "create"}
  /\ pc = "oneprops" => call.op = "create"
  /\ pc \in {"setone", "refs"} => call.op \in Makers
  /\ pc = "refs" => call.fmt = "list"
  /\ pc \in Entries => call.op \in Makers \cup {"folder", "end"}
  /\ pc = "updated" => call.op # "create"
  /\ pc \in {"suggest", "fit"} => call.store = Null
  /\ pc = "open" => call.source = "file"

\* What the cache says of names and titles is so.  A title may be old while its object
\* is being updated, and after a failure or LIBMTP_Set_Object_String.
Altering == {"setone", "setdescs", "setlist", "refs", "updated"}
Steadfast == Faultless /\ ~Does("settitle")
Off(h) == h = my.id /\ pc \in Altering
NamesKnown == \A h \in DOMAIN dev \cap DOMAIN cache : cache[h].info = NoInfo \/ cache[h].info.name = dev[h].name
TitlesKnown ==
  Steadfast => \A h \in DOMAIN dev \cap DOMAIN cache :
                 Off(h) \/ cache[h].props = NoProps \/ cache[h].props.title = dev[h].title
ListsOnly == \A h \in DOMAIN dev : dev[h].fmt # "list" => dev[h].refs = << >>
TitleRead == pc = "getrefs" /\ Steadfast => my.name = dev[call.h].title

\* Until there is an object: where it is to be, and which properties it gets.
Given(p) == p \in my.chosen \/ ~New(p) \/ p \in errors \/ ~Settable(p)
Placing ==
  pc \in Before =>
    /\ my.id = 0 /\ ~my.updated
    /\ call.store # Null => my.store = call.store
    /\ call.op = "send" /\ call.parent # Root => my.parent = call.parent
    /\ pc = "descs" => \A p \in Properties : p \in my.todo \/ Given(p)
    /\ pc = "sendinfo" /\ call.op # "folder" /\ Supports("SendObjectPropList") =>
         my.blind \/ \A p \in Properties : Given(p)
Distinct ==
  call.op = "send" /\ scene.unique /\ pc \in Before \cup {"senddata"} =>
    \A h \in DOMAIN dev \ {my.id} : h \in DOMAIN cache /\ cache[h].info # NoInfo => dev[h].name # my.name

\* From then on: what it has of what was asked for.
Titled(o) == Settable("title") => o.title = call.title \/ call.title = "none" \/ "title" \in errors \/ my.blind
Numbered(o) == Settable("track") => o.track = call.track \/ call.track = 0 \/ "track" \in errors
Placed(o) ==
  /\ o.fmt = call.fmt
  /\ call.op # "update" =>
       /\ Settable("name") \/ ~Supports("SendObjectPropList") => o.name = my.name \/ "name" \in errors \/ my.blind
       /\ o.parent = At(my.parent) /\ o.parent # Root /\ (my.store \in Store => o.store = my.store)
  /\ call.op = "send" =>
       /\ call.parent # Root => o.parent = call.parent
       /\ call.store # Null => o.store = call.store
Setting(o) ==
  IF call.op = "create"
    THEN /\ pc \in {"senddata", "refs", "add", "addprops"} => Titled(o)
         /\ pc = "setone" => "title" \in my.todo \/ Titled(o)
         /\ o.refs = IF pc \in {"add", "addprops"} THEN call.refs ELSE << >>
    ELSE /\ my.updated => pc \in {"add", "addprops"}
         /\ pc \in {"refs", "updated"} \/ my.updated => Titled(o) /\ Numbered(o)
         /\ pc = "setone" => /\ "title" \in my.todo \/ Titled(o)
                             /\ call.fmt = "track" => "track" \in my.todo \/ Numbered(o)
         /\ pc \in {"setdescs", "setlist"} =>
              \A p \in Updatable : p \in my.chosen \/ Missing(p) \/ ~Settable(p) \/ p \in errors \/ (pc = "setdescs" /\ p \in my.todo)
         /\ call.op = "update" /\ pc \in {"add", "addprops"} => my.updated
         /\ call.op = "update" /\ pc \in {"updated", "add", "addprops"} => o.refs = call.refs
Making == call.op \in Makers /\ pc \in Made => Placed(dev[my.id]) /\ Setting(dev[my.id])
Rereads ==
  /\ pc \in {"reread", "rereadprops"} => Agrees(my.id)
  /\ pc = "rereadprops" => my.id \in DOMAIN cache /\ cache[my.id].info # NoInfo

\* The inductive invariant behind Fulfilled, which is AsAsked but for what is left alone.
AskInv == Asking /\ NamesKnown /\ TitlesKnown /\ ListsOnly /\ TitleRead /\ Placing /\ Distinct /\ Making /\ Rereads /\ Fulfilled

\* What programs ask makes sense.
LEMMA Requested ==
  ASSUME FilesInv, Asking, pc # "idle"
  PROVE  /\ Does(call.op) /\ call.store \in Store \cup {Null}
         /\ call.op = "send" => call.fmt = "track"
         /\ call.op = "create" => call.fmt = "list"
         /\ call.op \in Makers => IF call.fmt = "list" THEN call.track = 0 ELSE call.fmt = "track" /\ call.refs = << >>
<1> PICK c \in scene.calls : call = [c EXCEPT !.h = call.h]
  BY DEF Asking
<1>1. c \in Request /\ Sensible(c)
  BY CallAssumption DEF FilesInv, SizesInv, CInv, Shapes
<1>2. /\ call.op = c.op /\ call.store = c.store /\ call.fmt = c.fmt /\ call.track = c.track /\ call.refs = c.refs
      /\ c.store \in Store \cup {Null}
  BY <1>1 DEF Request
<1> QED
  BY <1>1, <1>2 DEF Does, Sensible, Makers

\* A step that leaves names and formats, and titles but for those of an object that is
\* being changed.
KnowFrame ==
  /\ scene' = scene /\ (spent'.faults = spent.faults \/ Fails)
  /\ \A h \in DOMAIN dev' :
       IF h \in DOMAIN dev
         THEN /\ dev'[h].name = dev[h].name /\ dev'[h].fmt = dev[h].fmt
              /\ dev'[h].fmt # "list" => dev'[h].refs = dev[h].refs
              /\ Steadfast' => dev'[h].title = dev[h].title \/ Off(h)' \/ Nothing(h)
         ELSE h \in Handle \ used /\ (dev'[h].fmt # "list" => dev'[h].refs = << >>)
  /\ \/ dev' = dev /\ Moves
     \/ cache' = cache
  /\ Steadfast' => \A h : Off(h) => Off(h)' \/ h \notin DOMAIN cache' \/ (cache' = cache /\ Nothing(h))

InfoIs(h, i) == h \in DOMAIN dev => i = NoInfo \/ i.name = dev[h].name
PropsAre(h, p) == h \in DOMAIN dev => Off(h) \/ p = NoProps \/ p.title = dev[h].title

LEMMA Unfailing ==
  ASSUME FilesInv, scene' = scene, spent' = spent \/ Fails, Steadfast'
  PROVE  Steadfast /\ spent' = spent
BY DEF Steadfast, Faultless, Does, Fails, FilesInv, SizesInv, Sizes

\* The cache learns from the device.
LEMMA Learns ==
  ASSUME FilesInv, NamesKnown, Moves
  PROVE  /\ \A h \in DOMAIN cache' : InfoIs(h, cache'[h].info)
         /\ TitlesKnown /\ Steadfast => \A h \in DOMAIN cache' : PropsAre(h, cache'[h].props)
<1> DEFINE Told1 == TitlesKnown /\ Steadfast
           Fine1(h, e) == InfoIs(h, e.info) /\ (Told1 => PropsAre(h, e.props))
<1>1. \A h : Fine1(h, Entry(h))
  BY DEF Entry, InfoIs, PropsAre, NamesKnown, TitlesKnown
<1>2. \A h \in DOMAIN dev : InfoIs(h, InfoOf(dev[h])) /\ PropsAre(h, PropsOf(dev[h]))
  BY DEF InfoIs, PropsAre, InfoOf, PropsOf
<1>3. \A h \in DOMAIN dev \cup {Top} : PropsAre(h, PropList(h))
  <2>1. Top \notin DOMAIN dev
    BY HandleAssumption DEF FilesInv, SizesInv, CInv, Handles, Top, Root
  <2> QED
    BY <1>2, <2>1 DEF PropList, PropsAre
<1>4. \A h : PropsAre(h, NoProps)
  BY DEF PropsAre
<1>5. \A h \in DOMAIN cache : Fine1(h, cache[h])
  BY <1>1 DEF Entry
<1>6. \A h \in DOMAIN cache' : Fine1(h, cache'[h])
  <2>1. CASE cache' = cache
    BY <1>5, <2>1
  <2>2. CASE cache' = Flushed
    BY <1>2, <1>4, <2>2 DEF Flushed
  <2>3. CASE \E h : cache' = Without(cache, h)
    BY <1>5, <2>3 DEF Without
  <2>4. CASE \E h : cache' = With(cache, h, Entry(h))
    <3> HIDE DEF Fine1
    <3> QED
      BY <1>1, <1>5, <2>4 DEF With
  <2>5. ASSUME NEW h \in DOMAIN dev \cup {Top}, cache' = With(cache, h, [Entry(h) EXCEPT !.props = PropList(h)])
        PROVE  \A g \in DOMAIN cache' : Fine1(g, cache'[g])
    <3> DEFINE e == [Entry(h) EXCEPT !.props = PropList(h)]
    <3>1. e.info = Entry(h).info /\ e.props = PropList(h)
      BY DEF Entry, FilesInv, SizesInv, CInv, Shapes
    <3>2. Fine1(h, e)
      BY <1>1, <1>3, <3>1
    <3> HIDE DEF e, Fine1
    <3> QED
      BY <1>5, <2>5, <3>2 DEF With, e
  <2>6. ASSUME NEW h \in DOMAIN dev, cache' = With(cache, h, [Entry(h) EXCEPT !.info = InfoOf(dev[h])])
        PROVE  \A g \in DOMAIN cache' : Fine1(g, cache'[g])
    <3> DEFINE e == [Entry(h) EXCEPT !.info = InfoOf(dev[h])]
    <3>1. e.info = InfoOf(dev[h]) /\ e.props = Entry(h).props
      BY DEF Entry, FilesInv, SizesInv, CInv, Shapes
    <3>2. Fine1(h, e)
      BY <1>1, <1>2, <3>1
    <3> HIDE DEF e, Fine1
    <3> QED
      BY <1>5, <2>6, <3>2 DEF With, e
  <2> HIDE DEF Fine1
  <2> QED
    BY <2>1, <2>2, <2>3, <2>4, <2>5, <2>6 DEF Moves
<1> QED
  BY <1>6

LEMMA Knows ==
  ASSUME FilesInv, NamesKnown, TitlesKnown, ListsOnly, KnowFrame
  PROVE  NamesKnown' /\ TitlesKnown' /\ ListsOnly'
<1>1. ListsOnly'
  BY DEF KnowFrame, ListsOnly
<1>2. Steadfast' => Steadfast
  BY DEF KnowFrame, Steadfast, Faultless, Does, Fails, FilesInv, SizesInv, Sizes
<1>3. CASE cache' = cache
  <2>1. ASSUME NEW h \in DOMAIN dev' \cap DOMAIN cache', h \notin DOMAIN dev
        PROVE  cache'[h].info = NoInfo /\ cache'[h].props = NoProps
    BY <1>3, <2>1 DEF KnowFrame, FilesInv, SizesInv, CInv, Handles, Nothing, Blank
  <2>2. NamesKnown'
    BY <1>3, <2>1 DEF NamesKnown, KnowFrame
  <2>3. ASSUME Steadfast', NEW h \in DOMAIN dev' \cap DOMAIN cache'
        PROVE  Off(h)' \/ cache'[h].props = NoProps \/ cache'[h].props.title = dev'[h].title
    <3>1. CASE h \in DOMAIN dev
      <4>1. Nothing(h) => cache'[h].props = NoProps
        BY <1>3, <2>3 DEF Nothing, Blank
      <4>2. Off(h) => Off(h)' \/ Nothing(h)
        BY <2>3 DEF KnowFrame
      <4>3. dev'[h].title = dev[h].title \/ Off(h)' \/ Nothing(h)
        BY <2>3, <3>1 DEF KnowFrame
      <4>4. Off(h) \/ cache[h].props = NoProps \/ cache[h].props.title = dev[h].title
        BY <1>2, <1>3, <2>3, <3>1 DEF TitlesKnown
      <4> QED
        BY <1>3, <4>1, <4>2, <4>3, <4>4
    <3> QED
      BY <2>1, <2>3, <3>1
  <2>4. TitlesKnown'
    BY <2>3 DEF TitlesKnown
  <2> QED
    BY <1>1, <2>2, <2>4
<1>4. CASE dev' = dev /\ Moves /\ cache' # cache
  <2>1. NamesKnown'
    BY <1>4, Learns DEF NamesKnown, InfoIs
  <2>2. ASSUME Steadfast', NEW h \in DOMAIN dev' \cap DOMAIN cache'
        PROVE  Off(h)' \/ cache'[h].props = NoProps \/ cache'[h].props.title = dev'[h].title
    <3>1. PropsAre(h, cache'[h].props)
      BY <1>2, <1>4, <2>2, Learns
    <3>2. Off(h) => Off(h)'
      BY <1>4, <2>2 DEF KnowFrame
    <3> QED
      BY <1>4, <2>2, <3>1, <3>2 DEF PropsAre
  <2>3. TitlesKnown'
    BY <2>2 DEF TitlesKnown
  <2> QED
    BY <1>1, <2>1, <2>3
<1> QED
  BY <1>3, <1>4 DEF KnowFrame

\* A call that is about nothing here.
LEMMA Aloof ==
  ASSUME call' = call, call.op \notin Makers \cup {"folder"}, pc' \notin Before,
         pc' = "idle" => result'.op = call.op /\ call.op \notin {"gettitle", "getlist"}
  PROVE  Placing' /\ Distinct' /\ Making' /\ Fulfilled'
BY DEF Placing, Distinct, Making, Fulfilled, Succeeded, Makers

LEMMA StillAsking ==
  ASSUME Asking, call' = call, scene' = scene, pc # "idle", pc' \notin Before \cup {"senddata", "oneprops", "setone", "refs"},
         pc' \in Entries => (pc \in Entries /\ pc' # "updated") \/ call.op = "end"
  PROVE  Asking'
BY DEF Asking, Before, Entries

LEMMA ReadingAsks ==
  ASSUME FilesInv, AskInv, Reads
  PROVE  AskInv'
<1>1. /\ Frame /\ UNCHANGED <<device, call, my>> /\ call.op \in Listers /\ pc # "idle"
      /\ pc' \in Looking \/ (pc' = "idle" /\ result'.op = call.op)
  BY ReadingKeeps DEF FilesInv, SizesInv
<1>2. /\ spent' = spent \/ Fails
      /\ pc \notin Altering
  BY DEF Reads, Begin, BeginOne, BeginWithin, GetFolders, NextItem, WantInfo, Look, LookAlbum, WantList,
         Supported, Field, Name, Members, WantProps, Says, Fault, Fine, Altering, Walking, Inside, Single, Fetching
<1>3. KnowFrame
  BY <1>1, <1>2 DEF KnowFrame, Frame, device, Off
<1>4. NamesKnown' /\ TitlesKnown' /\ ListsOnly'
  BY <1>3, Knows DEF AskInv
<1>5. pc' \notin Before \cup Altering \cup Entries \cup {"senddata", "oneprops", "getrefs", "reread", "rereadprops"}
  BY <1>1 DEF Looking, Before, Altering, Entries
<1>6. call.op \notin Makers \cup {"folder", "gettitle", "getlist"}
  BY <1>1 DEF Listers, Makers, Walking, Inside, Single, Fetching
<1>7. Asking'
  BY <1>1, <1>5, StillAsking DEF AskInv, device, Altering
<1>8. Placing' /\ Distinct' /\ Making' /\ Fulfilled'
  BY <1>1, <1>5, <1>6, Aloof DEF Looking
<1> QED
  BY <1>4, <1>5, <1>7, <1>8 DEF AskInv, TitleRead, Rereads

LEMMA FilesAsk ==
  ASSUME FilesInv, AskInv, Partial \/ GetFile \/ GetToHandler \/ Edit \/ EndEdit
  PROVE  AskInv'
<1>1. /\ UNCHANGED <<scene, used, cache, call, my>> /\ DOMAIN dev' = DOMAIN dev
      /\ \/ pc = "fetch" /\ pc' = "fetch"
         \/ pc = "end" /\ pc' = "updated"
         \/ pc' = "idle" /\ result'.op = call.op
  BY FilesKeep DEF FilesInv, SizesInv
<1>2. /\ spent' = spent \/ Fails
      /\ pc \notin Altering \cup {"idle"}
  BY DEF Partial, GetFile, GetToHandler, Edit, EndEdit, Fault, Fine, Altering
<1>3. call.op \notin Makers \cup {"folder", "gettitle", "getlist"}
  BY DEF Partial, GetFile, GetToHandler, Edit, EndEdit, Makers, FilesInv, SizesInv, CInv, Where
<1>4. \A h \in DOMAIN dev : /\ dev'[h].name = dev[h].name /\ dev'[h].fmt = dev[h].fmt
                            /\ dev'[h].refs = dev[h].refs /\ dev'[h].title = dev[h].title
  <2>1. CASE dev' = dev
    BY <2>1
  <2>2. ASSUME NEW h, NEW size, dev' = [dev EXCEPT ![h].size = size]
        PROVE \A g \in DOMAIN dev : /\ dev'[g].name = dev[g].name /\ dev'[g].fmt = dev[g].fmt
                                    /\ dev'[g].refs = dev[g].refs /\ dev'[g].title = dev[g].title
    <3>1. \A g \in DOMAIN dev : dev'[g] = IF g = h THEN [dev[g] EXCEPT !.size = size] ELSE dev[g]
      BY <2>2
    <3>2. \A g \in DOMAIN dev : DOMAIN dev[g] = ObjectFields
      BY DEF FilesInv, SizesInv, Sizes
    <3> QED
      BY <3>1, <3>2 DEF ObjectFields
  <2>3. dev' = dev \/ \E h, size : dev' = [dev EXCEPT ![h].size = size]
    BY DEF Partial, GetFile, GetToHandler, Edit, EndEdit, Changes, device
  <2> QED
    BY <2>1, <2>2, <2>3
<1>5. KnowFrame
  BY <1>1, <1>2, <1>4 DEF KnowFrame, Off
<1>6. NamesKnown' /\ TitlesKnown' /\ ListsOnly'
  BY <1>5, Knows DEF AskInv
<1>7. pc' \notin Before \cup {"senddata", "oneprops", "setone", "refs", "getrefs", "reread", "rereadprops"}
  BY <1>1 DEF Before
<1>8. Asking'
  <2>1. pc' \in Entries => call.op = "end"
    BY <1>1 DEF Entries, FilesInv, SizesInv, CInv, Where
  <2> QED
    BY <1>1, <1>2, <1>7, <2>1, StillAsking DEF AskInv
<1>9. Placing' /\ Distinct' /\ Making' /\ Fulfilled'
  BY <1>1, <1>3, <1>7, Aloof
<1> QED
  BY <1>6, <1>7, <1>8, <1>9 DEF AskInv, TitleRead, Rereads

LEMMA StoragesAsk ==
  ASSUME FilesInv, AskInv, StorageIds \/ StorageInfo
  PROVE  AskInv'
<1>1. UNCHANGED <<device, call, cache>> /\ call.op = "storage" /\ my'.id = my.id /\ pc \notin Altering \cup {"idle"}
  BY DEF StorageIds, StorageInfo, FilesInv, SizesInv, CInv, Where, Shapes, Idle, Altering
<1>2. \/ pc' = "info"
      \/ pc' = "idle" /\ result'.op = call.op
  <2>1. Goto("info") \/ Return(TRUE, 1) \/ Return(TRUE, 0) \/ Return(FALSE, 0)
    BY DEF StorageIds, StorageInfo
  <2> QED
    BY <2>1, Answers
<1>3. spent' = spent \/ Fails
  BY DEF StorageIds, StorageInfo, Fault, Fine
<1>4. KnowFrame
  BY <1>1, <1>3 DEF KnowFrame, Off, Moves, device
<1>5. NamesKnown' /\ TitlesKnown' /\ ListsOnly'
  BY <1>4, Knows DEF AskInv
<1>6. pc' \notin Before \cup {"senddata", "oneprops", "setone", "refs", "getrefs", "reread", "rereadprops"}
  BY <1>2 DEF Before
<1>7. Asking'
  BY <1>1, <1>2, <1>6, StillAsking DEF AskInv, device, Entries
<1>8. Placing' /\ Distinct' /\ Making' /\ Fulfilled'
  BY <1>1, <1>2, <1>6, Aloof DEF Makers
<1> QED
  BY <1>5, <1>6, <1>7, <1>8 DEF AskInv, TitleRead, Rereads

\* LIBMTP_Get_String_From_Object, LIBMTP_Get_Playlist and LIBMTP_Set_Object_String.
LEMMA GettingAsks ==
  ASSUME FilesInv, AskInv, GetTitle \/ GetList \/ GetRefs \/ SetTitle
  PROVE  AskInv'
<1>1. CInv' /\ Frame
  BY GettingKeeps DEF FilesInv, SizesInv
<1>2. call.op \in {"gettitle", "getlist", "settitle"} /\ call.h \in DOMAIN dev
  BY DEF GetTitle, GetList, GetRefs, SetTitle, FilesInv, SizesInv, CInv, Where, OnDevice, OfObject
<1>3. /\ my'.id = my.id /\ UNCHANGED <<scene, call>> /\ (spent' = spent \/ Fails)
      /\ pc \notin Altering \cup {"idle"} \cup Before
  BY DEF GetTitle, GetList, GetRefs, SetTitle, FilesInv, SizesInv, CInv, Shapes, Idle, device, Fault, Fine, Altering, Before
<1>4. \/ pc' = "gettitle" /\ pc = "getlist"
      \/ pc' = "getrefs" /\ pc = "gettitle"
      \/ pc' = "idle" /\ result'.op = call.op
  BY DEF GetTitle, GetList, GetRefs, SetTitle, Goto, Return, Answer
<1>5. Does(call.op)
  BY <1>3, Requested DEF AskInv
<1>6. KnowFrame
  <2>1. CASE ~SetTitle
    <3>1. dev' = dev
      BY <2>1 DEF GetTitle, GetList, GetRefs, device
    <3> QED
      BY <1>1, <1>3, <3>1 DEF KnowFrame, Frame, Off
  <2>2. CASE SetTitle
    <3>1. ~Steadfast' /\ cache' = cache
      BY <1>2, <1>3, <1>5, <2>2 DEF Steadfast, Does, SetTitle, FilesInv, SizesInv, CInv, Where
    <3>2. ASSUME dev' = SetProp(call.h, "title")
          PROVE  /\ DOMAIN dev' = DOMAIN dev
                 /\ \A g \in DOMAIN dev : dev'[g].name = dev[g].name /\ dev'[g].fmt = dev[g].fmt /\ dev'[g].refs = dev[g].refs
      <4>1. /\ DOMAIN dev' = DOMAIN dev
            /\ \A g \in DOMAIN dev : dev'[g] = IF g = call.h THEN [dev[g] EXCEPT !.title = call.title] ELSE dev[g]
        BY <3>2 DEF SetProp
      <4>2. \A g \in DOMAIN dev : DOMAIN dev[g] = ObjectFields
        BY DEF FilesInv, SizesInv, Sizes
      <4> QED
        BY <4>1, <4>2 DEF ObjectFields
    <3>3. dev' = dev \/ dev' = SetProp(call.h, "title")
      BY <2>2 DEF SetTitle
    <3> QED
      BY <1>3, <3>1, <3>2, <3>3 DEF KnowFrame
  <2> QED
    BY <2>1, <2>2
<1>7. NamesKnown' /\ TitlesKnown' /\ ListsOnly'
  BY <1>6, Knows DEF AskInv
<1>8. pc' \notin Before \cup {"senddata", "oneprops", "setone", "refs", "reread", "rereadprops"}
  BY <1>4 DEF Before
<1>9. Asking'
  <2>1. pc' \notin Entries
    BY <1>4 DEF Entries
  <2> QED
    BY <1>3, <1>8, <2>1, StillAsking DEF AskInv
<1>10. Placing' /\ Distinct' /\ Making'
  BY <1>2, <1>3, <1>8 DEF Placing, Distinct, Making, Makers
<1>11. Steadfast' => Steadfast /\ ~Fails /\ spent' = spent
  <2>1. Steadfast' => Steadfast /\ spent' = spent
    BY <1>3, Unfailing
  <2>2. spent' = spent => ~Fails
    BY DEF Fails, FilesInv, SizesInv, Sizes
  <2> QED
    BY <2>1, <2>2
<1>12. Steadfast' /\ GetTitle =>
         \/ pc' = "idle" /\ result'.title = dev'[result'.id].title /\ call.op # "getlist"
         \/ pc' = "getrefs" /\ my'.name = dev'[call'.h].title
  <2> SUFFICES ASSUME Steadfast', GetTitle
               PROVE  \/ pc' = "idle" /\ result'.title = dev'[result'.id].title /\ call.op # "getlist"
                      \/ pc' = "getrefs" /\ my'.name = dev'[call'.h].title
    OBVIOUS
  <2>1. HasProps(call.h) => cache[call.h].props.title = dev[call.h].title
    <3>1. ~Off(call.h)
      BY <1>3 DEF Off
    <3> QED
      BY <1>2, <1>11, <3>1 DEF HasProps, AskInv, TitlesKnown
  <2>2. PICK t : /\ t = dev[call.h].title
                 /\ IF call.op = "gettitle" THEN Answer(TRUE, t, << >>) /\ UNCHANGED my
                    ELSE my' = [my EXCEPT !.name = t] /\ Goto("getrefs")
    BY <1>11, <2>1 DEF GetTitle, Fault
  <2>3. dev' = dev /\ call' = call
    BY DEF GetTitle, device
  <2>4. CASE call.op = "gettitle"
    BY <2>2, <2>3, <2>4 DEF Answer
  <2>5. CASE call.op # "gettitle"
    BY <2>2, <2>3, <2>5 DEF Goto, FilesInv, SizesInv, CInv, Shapes, Idle
  <2> QED
    BY <2>4, <2>5
<1>13. Steadfast' /\ GetRefs =>
         /\ pc' = "idle" /\ result'.title = dev'[result'.id].title
         /\ result'.refs = dev'[result'.id].refs
  BY <1>11 DEF GetRefs, Fault, AskInv, TitleRead, Answer, device
<1>14. TitleRead'
  BY <1>4, <1>12 DEF TitleRead, GetList, GetRefs, SetTitle, Goto, Return, Answer
<1>15. Fulfilled'
  <2>1. Succeeded({"send", "create", "update"})' = FALSE
    BY <1>2, <1>4 DEF Succeeded
  <2>2. pc' = "idle" => result'.op \notin {"send", "create", "update", "folder"}
    BY <1>2, <1>4
  <2>3. ASSUME Succeeded({"gettitle", "getlist"})', Steadfast'
        PROVE  /\ result'.title = dev'[result'.id].title
               /\ call'.op = "getlist" => result'.refs = dev'[result'.id].refs
    <3>1. pc' = "idle" /\ result'.op = call.op /\ result'.ok /\ call.op # "settitle"
      BY <1>4, <2>3 DEF Succeeded
    <3>2. GetTitle \/ GetRefs
      BY <3>1 DEF GetList, SetTitle, Answer, Goto, Return, FilesInv, SizesInv, CInv, Where
    <3> QED
      BY <1>3, <1>12, <1>13, <2>3, <3>1, <3>2
  <2> QED
    BY <1>8, <2>1, <2>2, <2>3 DEF Fulfilled, Steadfast
<1> QED
  BY <1>7, <1>8, <1>9, <1>10, <1>14, <1>15 DEF AskInv, Rereads

\* A name that is free.
LEMMA UniqueIsFree ==
  ASSUME NEW name, \E n \in 0 .. 2 : Suffixed(name, n) \notin CachedNames
  PROVE  Unique(name) \notin CachedNames
<1> DEFINE free == {n \in 0 .. 2 : Suffixed(name, n) \notin CachedNames}
<1>1. \E n \in free : \A m \in free : n <= m
  OBVIOUS
<1> DEFINE least == CHOOSE n \in free : \A m \in free : n <= m
<1>2. least \in free
  BY <1>1
<1>3. Unique(name) = Suffixed(name, least)
  BY DEF Unique
<1> QED
  BY <1>2, <1>3

LEMMA CallAsks ==
  ASSUME FilesInv, AskInv, Call
  PROVE  AskInv'
<1> PICK c \in scene.calls :
      /\ \E h \in IF c.op \in OfObject THEN {g \in DOMAIN dev : dev[g].fmt = c.fmt} ELSE {0} :
           call' = [c EXCEPT !.h = h]
      /\ c.op = "send" /\ scene.unique => \E n \in 0 .. 2 : Suffixed(c.name, n) \notin CachedNames
      /\ my' = [Idle EXCEPT !.store = c.store, !.id = call'.h,
                            !.parent = IF c.op = "create" THEN ListFolder ELSE c.parent,
                            !.name = IF c.op = "send" /\ scene.unique THEN Unique(c.name) ELSE c.name]
  BY DEF Call
<1> PICK h \in IF c.op \in OfObject THEN {g \in DOMAIN dev : dev[g].fmt = c.fmt} ELSE {0} : call' = [c EXCEPT !.h = h]
  OBVIOUS
<1>1. /\ UNCHANGED <<scene, dev, used, cache>> /\ pc' = First /\ pc = "idle" /\ errors' = {}
      /\ spent'.faults = spent.faults
  BY DEF Call, device, FilesInv, SizesInv, Sizes
<1>2. c \in Request
  BY CallAssumption DEF FilesInv, SizesInv, CInv, Shapes
<1>3. /\ call' = [c EXCEPT !.h = call'.h] /\ call'.op = c.op /\ call'.fmt = c.fmt /\ call'.store = c.store
      /\ call'.parent = c.parent /\ call'.source = c.source /\ call'.h = h /\ c.op \in ApiCalls
  BY <1>2 DEF Request
<1>4. /\ my'.store = c.store /\ my'.id = h /\ ~my'.updated
      /\ c.op # "create" => my'.parent = c.parent
      /\ c.op = "send" /\ scene.unique => my'.name = Unique(c.name)
  BY <1>3 DEF Idle
<1>5. \/ pc' = "name?" /\ c.op = "create"
      \/ pc' = "open" /\ c.op = "send" /\ c.source = "file"
      \/ pc' = "place" /\ c.op \in {"send", "folder"}
      \/ pc' = "suggest" /\ c.op \in {"send", "folder"} /\ c.store = Null
      \/ pc' = "ids" /\ c.op = "storage"
      \/ pc' = c.op /\ c.op \notin {"create", "send", "folder", "storage"}
  BY <1>1, <1>3 DEF First, Stores
<1>6. c.op \notin {"create", "send", "folder", "storage"} =>
        c.op \notin (Before \cup {"idle", "getrefs"} \cup Made) \ {"update"}
  BY <1>3 DEF ApiCalls, OfObject, Before, Made, Settled
<1>7. KnowFrame
  BY <1>1 DEF KnowFrame, Off, Moves, Altering
<1>8. NamesKnown' /\ TitlesKnown' /\ ListsOnly'
  BY <1>7, Knows DEF AskInv
<1>9. Asking'
  <2>1. pc' \in Before => c.op \in {"send", "create", "folder"}
    BY <1>5, <1>6 DEF Before
  <2>2. pc' \notin {"props", "descs", "senddata", "oneprops", "setone", "refs"}
    BY <1>5, <1>6 DEF Before, Made, Settled
  <2>3. pc' \in {"suggest", "fit"} => c.store = Null
    BY <1>5, <1>6 DEF Before
  <2>4. pc' = "open" => c.source = "file"
    BY <1>5, <1>6 DEF Before
  <2>5. pc' \notin Entries
    BY <1>5, <1>6 DEF Entries, Made, Settled
  <2> QED
    BY <1>1, <1>3, <2>1, <2>2, <2>3, <2>4, <2>5 DEF Asking, Entries
<1>10. Placing'
  <2>1. pc' \notin {"descs", "sendinfo"}
    BY <1>5, <1>6 DEF Before
  <2> QED
    BY <1>3, <1>4, <1>9, <2>1 DEF Placing, Asking, OfObject
<1>11. Distinct'
  <2> SUFFICES ASSUME c.op = "send", scene.unique, NEW g \in DOMAIN dev, g \in DOMAIN cache, cache[g].info # NoInfo
               PROVE  dev[g].name # Unique(c.name)
    BY <1>1, <1>3, <1>4 DEF Distinct
  <2>1. Unique(c.name) \notin CachedNames
    BY UniqueIsFree
  <2>2. cache[g].info.name = dev[g].name
    BY DEF AskInv, NamesKnown
  <2> QED
    BY <2>1, <2>2 DEF CachedNames
<1>12. Making'
  <2> SUFFICES ASSUME c.op \in Makers, pc' \in Made
               PROVE  Placed(dev[h])' /\ Setting(dev[h])'
    BY <1>1, <1>3, <1>4 DEF Making
  <2>1. pc' = "update" /\ c.op = "update"
    BY <1>5, <1>6 DEF Made, Settled
  <2>2. dev[h].fmt = c.fmt
    BY <2>1 DEF OfObject
  <2> QED
    BY <1>1, <1>3, <1>4, <2>1, <2>2 DEF Placed, Setting
<1>13. TitleRead' /\ Rereads' /\ Fulfilled'
  <2>1. pc' \notin {"idle", "getrefs", "senddata", "reread", "rereadprops"}
    BY <1>5, <1>6 DEF Made, Settled
  <2> QED
    BY <2>1 DEF TitleRead, Rereads, Fulfilled, Succeeded
<1> QED
  BY <1>8, <1>9, <1>10, <1>11, <1>12, <1>13 DEF AskInv

\* ptp_object_want(PTPOBJECT_MTPPROPLIST_LOADED) learns nothing of names.
LEMMA WantKeepsInfo ==
  ASSUME Shapes, NEW h,
         \/ cache' = cache
         \/ cache' = With(cache, h, Entry(h))
         \/ cache' = With(cache, h, [Entry(h) EXCEPT !.props = PropList(h)])
  PROVE  \A g \in DOMAIN cache' :
           cache'[g].info # NoInfo => g \in DOMAIN cache /\ cache'[g].info = cache[g].info
<1>1. [Entry(h) EXCEPT !.props = PropList(h)].info = Entry(h).info
  BY DEF Entry, Shapes
<1>2. Entry(h).info # NoInfo => h \in DOMAIN cache /\ Entry(h).info = cache[h].info
  BY DEF Entry
<1> QED
  BY <1>1, <1>2 DEF With

LEMMA ChoosingAsks ==
  ASSUME FilesInv, AskInv, Suggest \/ Fit
  PROVE  AskInv'
<1>1. /\ Frame /\ UNCHANGED <<device, call>> /\ pc \in {"suggest", "fit"} /\ pc' \in {"place", "fit"}
      /\ (spent' = spent \/ Fails)
  <2>1. Frame
    BY ChoosingKeeps DEF FilesInv, SizesInv
  <2>2. UNCHANGED <<device, call>> /\ pc \in {"suggest", "fit"} /\ pc' \in {"place", "fit"}
    BY DEF Suggest, Fit, WantProps, Goto
  <2>3. spent' = spent \/ Fails
    BY DEF Suggest, Fit, WantProps, Fault, Fine
  <2> QED
    BY <2>1, <2>2, <2>3
<1>2. my'.id = my.id /\ my'.parent = my.parent /\ my'.name = my.name /\ my'.updated = my.updated
  BY DEF Suggest, Fit, WantProps, FilesInv, SizesInv, CInv, Shapes, Idle
<1>3. \A g \in DOMAIN cache' :
        cache'[g].info # NoInfo => g \in DOMAIN cache /\ cache'[g].info = cache[g].info
  <2>1. \/ cache' = cache
        \/ cache' = With(cache, my.parent, Entry(my.parent))
        \/ cache' = With(cache, my.parent, [Entry(my.parent) EXCEPT !.props = PropList(my.parent)])
    BY DEF Suggest, Fit, WantProps
  <2> QED
    BY <2>1, WantKeepsInfo DEF FilesInv, SizesInv, CInv
<1>4. KnowFrame
  BY <1>1, <1>2 DEF KnowFrame, Frame, device, Off, Altering
<1>5. NamesKnown' /\ TitlesKnown' /\ ListsOnly'
  BY <1>4, Knows DEF AskInv
<1>6. Asking'
  BY <1>1 DEF AskInv, Asking, Before, Entries, device
<1>7. Placing'
  BY <1>1, <1>2 DEF AskInv, Asking, Placing, Before
<1>8. Distinct'
  BY <1>1, <1>2, <1>3 DEF AskInv, Distinct, Before, device
<1>9. Making' /\ TitleRead' /\ Rereads'
  BY <1>1 DEF Making, Made, Settled, TitleRead, Rereads
<1>10. Fulfilled'
  BY <1>1 DEF Fulfilled, Succeeded
<1> QED
  BY <1>5, <1>6, <1>7, <1>8, <1>9, <1>10 DEF AskInv

\* send_file_object_info up to SendObjectInfo.
LEMMA SendingAsks ==
  ASSUME FilesInv, AskInv, Place \/ PlaceList \/ Props \/ Descs \/ OpenFile
  PROVE  AskInv'
<1>1. /\ Frame /\ UNCHANGED <<device, cache, call>> /\ pc \in Before
      /\ pc' \in {"sendinfo", "props", "idle", "descs", "place", "suggest"}
      /\ (spent' = spent \/ Fails)
  <2>1. Frame
    BY SendingKeeps DEF FilesInv, SizesInv
  <2>2. UNCHANGED <<device, cache, call>> /\ pc \in Before
    BY DEF Place, PlaceList, Props, Descs, OpenFile, Before
  <2>3. pc' \in {"sendinfo", "props", "idle", "descs", "place", "suggest"}
    BY DEF Place, PlaceList, Props, Descs, OpenFile, Return, Goto, Stores
  <2>4. spent' = spent \/ Fails
    BY DEF Place, PlaceList, Props, Descs, OpenFile, Fault, Fine
  <2> QED
    BY <2>1, <2>2, <2>3, <2>4
<1>2. /\ my'.id = my.id /\ my'.name = my.name /\ my'.store = my.store /\ my'.updated = my.updated
      /\ call.op = "send" /\ call.parent # Root => my'.parent = call.parent
  <2>1. DOMAIN my = DOMAIN Idle
    BY DEF FilesInv, SizesInv, CInv, Shapes
  <2>2. CASE Place
    <3>1. my' = [my EXCEPT !.parent = Destination]
      BY <2>2 DEF Place
    <3>2. call.op = "send" /\ call.parent # Root => Destination = call.parent
      BY <1>1 DEF Destination, AskInv, Placing
    <3> QED
      BY <2>1, <3>1, <3>2 DEF Idle
  <2>3. CASE PlaceList \/ Props \/ Descs \/ OpenFile
    <3>1. /\ my'.id = my.id /\ my'.name = my.name /\ my'.store = my.store /\ my'.updated = my.updated
          /\ my'.parent = my.parent
      BY <2>1, <2>3 DEF PlaceList, Props, Descs, OpenFile, Idle
    <3> QED
      BY <1>1, <3>1 DEF AskInv, Placing
  <2> QED
    BY <2>2, <2>3
<1>3. KnowFrame
  BY <1>1, <1>2 DEF KnowFrame, Frame, device, Off, Altering, Before
<1>4. NamesKnown' /\ TitlesKnown' /\ ListsOnly'
  BY <1>3, Knows DEF AskInv
<1>5. Asking'
  <2>1. pc' \in {"props", "descs"} => call.op # "folder"
    BY DEF Place, PlaceList, Props, Descs, OpenFile, Return, Goto, Stores, AskInv, Asking
  <2>2. pc' = "suggest" => call.store = Null
    BY DEF Place, PlaceList, Props, Descs, OpenFile, Return, Goto, Stores
  <2> QED
    BY <1>1, <2>1, <2>2 DEF AskInv, Asking, Before, Entries, device
<1>6. pc' = "descs" => \A p \in Properties : p \in my'.todo \/ Given(p)'
  <2> SUFFICES ASSUME pc' = "descs", NEW p \in Properties PROVE p \in my'.todo \/ Given(p)'
    OBVIOUS
  <2>1. CASE Props
    BY <1>1, <2>1 DEF Props, Goto, FilesInv, SizesInv, CInv, Shapes, Idle, Given, Settable, device
  <2>2. CASE Descs
    <3>1. PICK q \in my.todo :
             \/ /\ my' = [my EXCEPT !.todo = @ \ {q}, !.chosen = IF Settable(q) /\ New(q) THEN @ \cup {q} ELSE @]
                /\ Fine
             \/ Fault(q) /\ my' = [my EXCEPT !.todo = @ \ {q}]
      BY <2>2 DEF Descs, Goto
    <3>2. p \in my.todo \/ Given(p)
      BY <2>2 DEF Descs, AskInv, Placing, Before
    <3>3. errors \subseteq errors' /\ my'.todo = my.todo \ {q} /\ my.chosen \subseteq my'.chosen
          /\ (q \in my'.chosen \/ ~New(q) \/ q \in errors' \/ ~Settable(q))
      BY <3>1 DEF Fine, Fault, FilesInv, SizesInv, CInv, Shapes, Idle
    <3> QED
      BY <1>1, <3>2, <3>3 DEF Given, New, Settable, device
  <2> QED
    BY <2>1, <2>2 DEF Place, PlaceList, OpenFile, Goto, Return, Stores
<1>7. pc' = "sendinfo" /\ call.op # "folder" /\ Supports("SendObjectPropList") =>
        my'.blind \/ \A p \in Properties : Given(p)'
  <2> SUFFICES ASSUME pc' = "sendinfo", call.op # "folder", Supports("SendObjectPropList")
               PROVE  my'.blind \/ \A p \in Properties : Given(p)'
    OBVIOUS
  <2>1. CASE Props
    BY <2>1 DEF Props, Goto, FilesInv, SizesInv, CInv, Shapes, Idle
  <2>2. CASE Descs
    <3>1. my.todo = {} /\ UNCHANGED <<my, errors>>
      BY <2>2 DEF Descs, Goto, Fine
    <3>2. \A p \in Properties : Given(p)
      BY <2>2, <3>1 DEF Descs, AskInv, Placing, Before
    <3> QED
      BY <1>1, <3>1, <3>2 DEF Given, New, Settable, device
  <2> QED
    BY <2>1, <2>2 DEF Place, PlaceList, OpenFile, Goto, Return, Stores
<1>8. Placing'
  BY <1>1, <1>2, <1>6, <1>7 DEF Placing, AskInv, Supports, device
<1>9. Distinct'
  BY <1>1, <1>2 DEF AskInv, Distinct, device, Before
<1>10. Fulfilled'
  <2>1. pc' = "idle" => result'.ok = FALSE /\ (errors' # {} \/ call.source = "file")
    <3>1. CASE OpenFile
      BY <3>1 DEF OpenFile, Return, Goto, Stores, AskInv, Asking
    <3>2. CASE PlaceList
      BY <3>2 DEF PlaceList, Return, Goto, Stores
    <3>3. CASE Place \/ Props \/ Descs
      BY <3>3 DEF Place, Props, Descs, Goto
    <3> QED
      BY <3>1, <3>2, <3>3
  <2> QED
    BY <1>1, <2>1 DEF Fulfilled, Succeeded
<1>11. Making' /\ TitleRead' /\ Rereads'
  BY <1>1 DEF Making, Made, Settled, TitleRead, Rereads
<1> QED
  BY <1>4, <1>5, <1>8, <1>9, <1>10, <1>11 DEF AskInv

\* There is an object, with what was asked for.
LEMMA SendInfoAsks ==
  ASSUME FilesInv, AskInv, SendInfo
  PROVE  AskInv'
<1>1. /\ UNCHANGED <<scene, cache, call>> /\ pc = "sendinfo" /\ pc \in Before /\ (spent' = spent \/ Fails)
      /\ call.op \in {"send", "create", "folder"} /\ my.id = 0 /\ ~my.updated
  BY DEF SendInfo, Before, Fine, Fault, AskInv, Asking, Placing
<1>2. CASE /\ \E h \in Handle \ used, s \in StoreFor(my.store, my.parent) :
                /\ used' = used \cup {h} /\ dev' = With(dev, h, Created(s))
                /\ my' = [my EXCEPT !.id = h]
           /\ Goto(AfterInfo)
           /\ Fine
  <2> PICK h \in Handle \ used, s \in StoreFor(my.store, my.parent) :
             /\ used' = used \cup {h} /\ dev' = With(dev, h, Created(s))
             /\ my' = [my EXCEPT !.id = h]
    BY <1>2
  <2> DEFINE o == Created(s)
  <2>1. /\ my'.id = h /\ my'.name = my.name /\ my'.parent = my.parent /\ my'.store = my.store
        /\ my'.blind = my.blind /\ my'.updated = my.updated
    BY DEF FilesInv, SizesInv, CInv, Shapes, Idle
  <2>2. DOMAIN dev' = DOMAIN dev \cup {h} /\ h \notin DOMAIN dev /\ dev'[h] = o
        /\ \A g \in DOMAIN dev : dev'[g] = dev[g]
    BY DEF With, FilesInv, SizesInv, CInv, Handles
  <2>3. /\ o.fmt = call.fmt /\ o.refs = << >> /\ o.parent = At(my.parent) /\ o.store = s
        /\ o.name = IF Named("name") THEN my.name ELSE ""
        /\ o.title = IF call.fmt = "track" \/ ~Named("title") \/ ~Supports("SendObjectPropList")
               THEN "none" ELSE call.title
    BY DEF Created
  <2> HIDE DEF o
  <2>4. errors' = errors /\ pc' = AfterInfo /\ spent' = spent
    BY <1>2 DEF Goto, Fine
  <2>5. KnowFrame
    BY <1>1, <2>2, <2>3 DEF KnowFrame, Off, Altering
  <2>6. NamesKnown' /\ TitlesKnown' /\ ListsOnly'
    BY <2>5, Knows DEF AskInv
  <2>7. /\ pc' \in {"add", "oneprops", "senddata"}
        /\ pc' = "oneprops" => call.op = "create" /\ ~Supports("SendObjectPropList")
        /\ pc' = "senddata" => call.op = "send" \/ (call.op = "create" /\ Supports("SendObjectPropList"))
        /\ pc' = "add" => call.op = "folder"
    BY <1>1, <2>4 DEF AfterInfo
  <2>8. Asking'
    BY <1>1, <2>7 DEF AskInv, Asking, Before, Entries, Makers
  <2>9. Distinct'
    <3>1. 0 \notin DOMAIN dev
      BY HandleAssumption DEF FilesInv, SizesInv, CInv, Handles, Root, Top
    <3> QED
      BY <1>1, <2>1, <2>2, <3>1 DEF AskInv, Distinct
  <2>10. call.op # "folder" => Placed(dev[h])'
    <3>1. Settable("name") \/ ~Supports("SendObjectPropList") =>
            o.name = my.name \/ "name" \in errors \/ my.blind \/ call.op = "folder"
      BY <1>1, <2>3 DEF Named, AskInv, Placing, Given, New, Properties
    <3>2. o.parent # Root
      <4>1. Top # Root
        BY DEF Top, Root
      <4> QED
        BY <2>3, <4>1 DEF At
    <3>3. my.store \in Store => s = my.store
      BY DEF StoreFor
    <3>4. call.op = "send" /\ call.parent # Root => o.parent = call.parent
      BY <1>1, <2>3 DEF AskInv, Placing, At
    <3>5. call.store # Null => o.store = call.store
      BY <1>1, <2>3, <3>3, Requested DEF AskInv, Placing
    <3> QED
      BY <1>1, <2>1, <2>2, <2>3, <2>4, <3>1, <3>2, <3>3, <3>4, <3>5 DEF Placed, Settable, Supports
  <2>11. call.op = "create" /\ pc' = "senddata" => Titled(dev[h])'
    <3> SUFFICES ASSUME call.op = "create", pc' = "senddata" PROVE Titled(dev[h])'
      OBVIOUS
    <3>1. Supports("SendObjectPropList") /\ call.fmt = "list"
      BY <1>1, <2>7, Requested DEF AskInv
    <3>2. my.blind \/ "title" \in my.chosen \/ call.title = "none" \/ "title" \in errors \/ ~Settable("title")
      BY <1>1, <3>1 DEF AskInv, Placing, Given, New, Properties
    <3> QED
      BY <1>1, <2>1, <2>2, <2>3, <2>4, <3>1, <3>2 DEF Titled, Named, Settable
  <2>12. Making'
    <3>1. call.op # "folder" => Setting(dev[h])'
      BY <1>1, <2>1, <2>2, <2>3, <2>7, <2>11 DEF Setting
    <3> QED
      BY <1>1, <2>1, <2>2, <2>7, <2>10, <3>1 DEF Making, Makers
  <2>13. TitleRead' /\ Rereads' /\ Fulfilled' /\ Placing'
    <3>1. TitleRead' /\ Rereads' /\ Placing'
      BY <2>7 DEF TitleRead, Rereads, Placing, Before
    <3>2. Fulfilled'
      BY <2>7, <2>9 DEF Fulfilled, Succeeded, Distinct
    <3> QED
      BY <3>1, <3>2
  <2> QED
    BY <2>6, <2>8, <2>9, <2>12, <2>13 DEF AskInv
<1>3. CASE /\ UNCHANGED <<dev, used, my>> /\ errors' # {}
           /\ Return(FALSE, 0) \/ (Return(TRUE, 0) /\ ~Announces /\ Creating)
  <2>1. KnowFrame
    BY <1>1, <1>3 DEF KnowFrame, Off, Altering, Moves
  <2>2. NamesKnown' /\ TitlesKnown' /\ ListsOnly'
    BY <2>1, Knows DEF AskInv
  <2>3. pc' = "idle" /\ result'.op = call.op /\ (result'.ok => ~Announces /\ Creating)
    BY <1>3 DEF Return
  <2>4. Asking' /\ Placing' /\ Distinct' /\ Making' /\ TitleRead' /\ Rereads'
    BY <2>3 DEF Asking, Entries, Placing, Distinct, Making, TitleRead, Rereads, Before, Made, Settled
  <2>5. Fulfilled'
    BY <1>1, <1>3, <2>3 DEF Fulfilled, Succeeded, Announces, Creating, Supports
  <2> QED
    BY <2>2, <2>4, <2>5 DEF AskInv
<1> QED
  BY <1>2, <1>3 DEF SendInfo, Fault, Unannounced

LEMMA SendDataAsks ==
  ASSUME FilesInv, AskInv, SendData \/ SendFromHandler
  PROVE  AskInv'
<1>1. /\ UNCHANGED <<scene, used, cache, call, my>> /\ pc = "senddata" /\ (spent' = spent \/ Fails)
      /\ \/ dev' = dev /\ pc' = (IF call.op = "create" THEN "refs" ELSE "add") /\ errors' = errors
         \/ dev' \in {dev, Without(dev, my.id)} /\ pc' = "idle" /\ result'.ok = FALSE /\ errors' # {}
  <2>1. UNCHANGED <<scene, used, cache, call, my>> /\ pc = "senddata"
    BY DEF SendData, SendFromHandler
  <2>2. Sent => /\ dev' = dev /\ pc' = (IF call.op = "create" THEN "refs" ELSE "add")
                /\ errors' = errors /\ spent' = spent
    BY DEF Sent, Goto, Fine
  <2>3. Unsent => dev' \in {dev, Without(dev, my.id)} /\ pc' = "idle" /\ result'.ok = FALSE
    BY DEF Unsent, Return
  <2>4. ASSUME NEW what, Fault(what) PROVE Fails /\ errors' # {}
    BY <2>4 DEF Fault
  <2>5. Refused => Unsent /\ errors' # {} /\ (spent' = spent \/ Fails)
    BY <2>4 DEF Refused
  <2>6. Sent \/ Refused \/ \E what : Fault(what) /\ Unsent
    BY DEF SendData, SendFromHandler
  <2> QED
    BY <2>1, <2>2, <2>3, <2>4, <2>5, <2>6
<1>2. DOMAIN dev' \subseteq DOMAIN dev /\ \A h \in DOMAIN dev' : dev'[h] = dev[h]
  BY <1>1 DEF Without
<1>3. KnowFrame
  BY <1>1, <1>2 DEF KnowFrame, Off, Altering
<1>4. NamesKnown' /\ TitlesKnown' /\ ListsOnly'
  BY <1>3, Knows DEF AskInv
<1>5. call.op \in {"send", "create"} /\ (call.op = "create" => call.fmt = "list") /\ call.op \in Makers /\ pc \in Made
  BY <1>1, Requested DEF AskInv, Asking, Makers, Made, Settled
<1>6. Asking'
  BY <1>1, <1>5 DEF AskInv, Asking, Before, Entries, Makers
<1>7. Placing' /\ TitleRead' /\ Rereads'
  BY <1>1 DEF Placing, TitleRead, Rereads, Before
<1>8. Distinct'
  BY <1>1, <1>2 DEF AskInv, Distinct
<1>9. Making'
  <2>1. CASE pc' = "idle"
    BY <2>1 DEF Making, Made, Settled
  <2>2. CASE dev' = dev /\ errors' = errors /\ pc' = IF call.op = "create" THEN "refs" ELSE "add"
    <3>1. Placed(dev[my.id])' /\ (call.op = "create" => Titled(dev[my.id])' /\ dev[my.id].refs = << >>)
      BY <1>1, <1>5, <2>2 DEF AskInv, Making, Placed, Setting, Titled, Settable, Supports
    <3>2. call.op = "send" => ~my.updated
      BY <1>1, <1>5 DEF AskInv, Making, Setting
    <3>3. Setting(dev[my.id])'
      BY <1>1, <1>5, <2>2, <3>1, <3>2 DEF Setting
    <3> QED
      BY <3>1, <3>3 DEF Making
  <2> QED
    BY <1>1, <2>1, <2>2
<1>10. Fulfilled'
  BY <1>1 DEF Fulfilled, Succeeded
<1> QED
  BY <1>4, <1>6, <1>7, <1>8, <1>9, <1>10 DEF AskInv

\* The properties and the references of an object are set, and it stays where it is.
SetsProperties == SetOne \/ OneProps \/ UpdateProps \/ SetDescs \/ SetList \/ SetRefs
LEMMA PropertiesSteps ==
  ASSUME FilesInv, AskInv, SetsProperties
  PROVE  /\ UNCHANGED <<scene, used, cache, call>> /\ (spent' = spent \/ Fails) /\ errors \subseteq errors'
         /\ my'.id = my.id /\ my'.name = my.name /\ my'.parent = my.parent /\ my'.store = my.store
         /\ my'.updated = my.updated /\ (my.blind => my'.blind)
         /\ pc \in Made \ {"senddata", "add", "addprops", "reread", "rereadprops", "updated"} /\ call.op \in Makers
         /\ my.id \in DOMAIN dev /\ DOMAIN dev[my.id] = ObjectFields
         /\ \/ pc' \in {"setone", "refs", "updated", "setdescs", "setlist"}
            \/ pc' = "add" /\ call.op = "create"
            \/ pc' = "idle" /\ result'.ok = FALSE /\ errors' # {}
         /\ pc' = "refs" => call.fmt = "list"
<1>1. /\ UNCHANGED <<scene, used, cache, call>>
      /\ pc \in {"setone", "oneprops", "update", "setdescs", "setlist", "refs"}
  BY DEF SetsProperties, SetOne, OneProps, UpdateProps, SetDescs, SetList, SetRefs, device
<1>2. call.op \in Makers
  BY <1>1 DEF AskInv, Asking, FilesInv, SizesInv, CInv, Where, Makers
<1>3. pc \in Made \ {"senddata", "add", "addprops", "reread", "rereadprops", "updated"}
  BY <1>1 DEF Made, Settled
<1>4. my.id \in DOMAIN dev /\ DOMAIN dev[my.id] = ObjectFields
  BY <1>1 DEF FilesInv, SizesInv, Sizes, CInv, OnDevice, Settled
<1>5. /\ my'.id = my.id /\ my'.name = my.name /\ my'.parent = my.parent /\ my'.store = my.store
      /\ my'.updated = my.updated /\ (my.blind => my'.blind)
  BY DEF SetsProperties, SetOne, OneProps, UpdateProps, SetDescs, SetList, SetRefs, Done, FilesInv, SizesInv, CInv, Shapes, Idle
<1>6. ASSUME NEW what, Fault(what) PROVE Fails /\ errors \subseteq errors' /\ errors' # {}
  BY <1>6 DEF Fault
<1>7. Failed => \/ pc' = "setone"
                \/ call.op = "create" /\ pc' = "idle" /\ result'.ok = FALSE
  BY DEF Failed, Creating, Goto, Return
<1>8. /\ (spent' = spent \/ Fails) /\ errors \subseteq errors'
      /\ \/ pc' \in {"setone", "refs", "updated", "setdescs", "setlist"}
         \/ pc' = "add" /\ call.op = "create"
         \/ pc' = "idle" /\ result'.ok = FALSE /\ errors' # {}
      /\ pc' = "refs" => call.fmt = "list"
  <2>1. CASE SetOne
    <3>1. CASE \E p \in my.todo : errors' = errors \cup {p} /\ UNCHANGED spent /\ Failed
      BY <1>7, <3>1
    <3>2. CASE \E p \in my.todo : Fault(p) /\ (Failed \/ Goto("setone"))
      BY <1>6, <1>7, <3>2 DEF Goto
    <3>3. CASE Fine /\ Goto("setone")
      BY <3>3 DEF Fine, Goto
    <3>4. CASE Fine /\ Goto(IF call.fmt = "list" THEN "refs" ELSE "updated")
      BY <3>4 DEF Fine, Goto
    <3> QED
      BY <2>1, <3>1, <3>2, <3>3, <3>4 DEF SetOne
  <2>2. CASE OneProps
    BY <2>2 DEF OneProps, Goto, Fine
  <2>3. CASE UpdateProps
    BY <1>6, <2>3 DEF UpdateProps, Goto, Fine, Return
  <2>4. CASE SetDescs
    <3>1. CASE \E p \in my.todo : Fault(p) /\ Goto("setdescs")
      BY <1>6, <3>1 DEF Goto
    <3>2. CASE Fine /\ (Goto("setdescs") \/ Goto("setlist"))
      BY <3>2 DEF Fine, Goto
    <3> QED
      BY <2>4, <3>1, <3>2 DEF SetDescs
  <2>5. CASE SetList
    BY <1>6, <2>5 DEF SetList, Goto, Fine, Return
  <2>6. CASE SetRefs
    <3>1. CASE Fine /\ Goto(IF Creating THEN "add" ELSE "updated")
      BY <3>1 DEF Fine, Goto, Creating
    <3>2. CASE Fault("refs") /\ Return(FALSE, 0)
      BY <1>6, <3>2 DEF Return
    <3> QED
      BY <2>6, <3>1, <3>2 DEF SetRefs
  <2> QED
    BY <2>1, <2>2, <2>3, <2>4, <2>5, <2>6 DEF SetsProperties
<1> QED
  BY <1>1, <1>2, <1>3, <1>4, <1>5, <1>8

\* What becomes of the object.
LEMMA PropertiesObject ==
  ASSUME FilesInv, AskInv, SetsProperties
  PROVE  LET o == dev[my.id]
             n == dev'[my.id]
         IN /\ DOMAIN dev' = DOMAIN dev /\ \A h \in DOMAIN dev \ {my.id} : dev'[h] = dev[h]
            /\ n.fmt = o.fmt /\ n.name = o.name /\ n.parent = o.parent /\ n.store = o.store
            /\ n.title = o.title \/ (n.title = call.title /\ pc' \in Altering)
            /\ n.track = o.track \/ n.track = call.track
            /\ n.refs = o.refs \/ (n.refs = call.refs /\ pc = "refs")
<1> DEFINE o == dev[my.id]
<1>1. my.id \in DOMAIN dev /\ DOMAIN o = ObjectFields
  BY PropertiesSteps
<1>2. ASSUME NEW new, dev' = [dev EXCEPT ![my.id] = new]
      PROVE  DOMAIN dev' = DOMAIN dev /\ dev'[my.id] = new /\ \A h \in DOMAIN dev \ {my.id} : dev'[h] = dev[h]
  BY <1>1, <1>2
<1>3. CASE dev' = dev
  BY <1>3
<1>4. ASSUME NEW p, dev' = SetProp(my.id, p), pc' = "setone"
      PROVE  /\ DOMAIN dev' = DOMAIN dev /\ \A h \in DOMAIN dev \ {my.id} : dev'[h] = dev[h]
             /\ dev'[my.id] = IF p = "title" THEN [o EXCEPT !.title = call.title] ELSE [o EXCEPT !.track = call.track]
  BY <1>1, <1>4 DEF SetProp
<1>5. CASE SetOne /\ dev' # dev
  <2> PICK p : dev' = SetProp(my.id, p) /\ pc' = "setone"
    BY <1>5 DEF SetOne, Goto
  <2> QED
    BY <1>1, <1>4 DEF ObjectFields, Altering
<1>6. CASE SetList /\ dev' # dev
  <2> DEFINE new == [o EXCEPT !.title = IF "title" \in my.chosen THEN call.title ELSE @,
                              !.track = IF "track" \in my.chosen THEN call.track ELSE @]
  <2>1. dev' = [dev EXCEPT ![my.id] = new] /\ pc' \in Altering
    BY <1>6 DEF SetList, Goto, Altering
  <2>2. dev'[my.id] = new /\ DOMAIN dev' = DOMAIN dev /\ \A h \in DOMAIN dev \ {my.id} : dev'[h] = dev[h]
    BY <1>1, <2>1
  <2> QED
    BY <1>1, <2>1, <2>2 DEF ObjectFields
<1>7. CASE SetRefs /\ dev' # dev
  <2>1. dev' = [dev EXCEPT ![my.id].refs = call.refs] /\ pc = "refs"
    BY <1>7 DEF SetRefs
  <2>2. dev'[my.id] = [o EXCEPT !.refs = call.refs] /\ DOMAIN dev' = DOMAIN dev
        /\ \A h \in DOMAIN dev \ {my.id} : dev'[h] = dev[h]
    BY <1>1, <2>1
  <2> QED
    BY <1>1, <2>1, <2>2 DEF ObjectFields
<1> QED
  BY <1>3, <1>5, <1>6, <1>7 DEF SetsProperties, OneProps, UpdateProps, SetDescs, device

\* So all is kept but what is yet to be shown of the properties.
LEMMA PropertiesRest ==
  ASSUME FilesInv, AskInv, SetsProperties, pc' # "idle" => Setting(dev[my.id])'
  PROVE  AskInv'
<1> DEFINE o == dev[my.id]
           n == dev'[my.id]
<1>1. /\ UNCHANGED <<scene, used, cache, call>> /\ (spent' = spent \/ Fails) /\ errors \subseteq errors'
      /\ my'.id = my.id /\ my'.name = my.name /\ my'.parent = my.parent /\ my'.store = my.store
      /\ (my.blind => my'.blind)
      /\ pc \in Made \ {"senddata", "add", "addprops", "reread", "rereadprops", "updated"} /\ call.op \in Makers
      /\ my.id \in DOMAIN dev
      /\ \/ pc' \in {"setone", "refs", "updated", "setdescs", "setlist"}
         \/ pc' = "add" /\ call.op = "create"
         \/ pc' = "idle" /\ result'.ok = FALSE /\ errors' # {}
      /\ pc' = "refs" => call.fmt = "list"
  BY PropertiesSteps
<1>2. /\ DOMAIN dev' = DOMAIN dev /\ \A h \in DOMAIN dev \ {my.id} : dev'[h] = dev[h]
      /\ n.fmt = o.fmt /\ n.name = o.name /\ n.parent = o.parent /\ n.store = o.store
      /\ n.title = o.title \/ (n.title = call.title /\ pc' \in Altering)
      /\ n.refs = o.refs \/ (n.refs = call.refs /\ pc = "refs")
  BY PropertiesObject
<1>3. Placed(o)
  BY <1>1 DEF AskInv, Making
<1>4. o.fmt # "list" => n.refs = o.refs
  BY <1>2, <1>3 DEF Placed, AskInv, Asking
<1>5. pc' \in Altering \/ pc \notin Altering \/ Fails \/ call.op = "create"
  BY <1>1 DEF SetsProperties, SetOne, OneProps, UpdateProps, SetDescs, SetList, SetRefs, Goto, Return, Failed, Creating, Fault, Altering
<1>6. call.op = "create" /\ pc \in Altering => Nothing(my.id)
  BY <1>1 DEF Altering, FilesInv, SizesInv, CInv, Entered, Where
<1>7. KnowFrame
  <2>1. ASSUME Steadfast' PROVE ~Fails
    <3>1. spent' = spent
      BY <1>1, <2>1, Unfailing
    <3> QED
      BY <3>1 DEF Fails, FilesInv, SizesInv, Sizes
  <2>2. ASSUME Steadfast', NEW h, Off(h)
        PROVE  Off(h)' \/ (cache' = cache /\ Nothing(h))
    BY <1>1, <1>5, <1>6, <2>1, <2>2 DEF Off
  <2>3. ASSUME NEW h \in DOMAIN dev'
        PROVE  /\ h \in DOMAIN dev /\ dev'[h].name = dev[h].name /\ dev'[h].fmt = dev[h].fmt
               /\ dev'[h].fmt # "list" => dev'[h].refs = dev[h].refs
               /\ dev'[h].title = dev[h].title \/ Off(h)'
    BY <1>1, <1>2, <1>4, <2>3 DEF Off
  <2> QED
    BY <1>1, <2>2, <2>3 DEF KnowFrame
<1>8. NamesKnown' /\ TitlesKnown' /\ ListsOnly'
  BY <1>7, Knows DEF AskInv
<1>9. Asking'
  <2>1. pc' = "updated" => call.op # "create"
    <3>1. call.op = "create" => call.fmt = "list"
      BY <1>1, Requested DEF AskInv, Made, Settled
    <3>2. pc = "setlist" => call.op # "create"
      BY DEF FilesInv, SizesInv, CInv, Where
    <3>3. CASE SetOne
      BY <3>1, <3>3 DEF SetOne, Goto, Failed, Return, Creating
    <3>4. CASE ~SetOne
      BY <3>2, <3>4 DEF SetsProperties, OneProps, UpdateProps, SetDescs, SetList, SetRefs, Goto, Return, Creating
    <3> QED
      BY <3>3, <3>4
  <2> QED
    BY <1>1, <2>1 DEF AskInv, Asking, Before, Entries, Makers, Made, Settled
<1>10. Placing' /\ TitleRead' /\ Rereads' /\ Distinct'
  BY <1>1 DEF Placing, TitleRead, Rereads, Distinct, Before
<1>11. Placed(dev[my.id])'
  BY <1>1, <1>2, <1>3 DEF Placed, Settable, Supports
<1>12. Making'
  BY <1>11 DEF Making, Made, Settled
<1>13. Fulfilled'
  BY <1>1 DEF Fulfilled, Succeeded
<1> QED
  BY <1>8, <1>9, <1>10, <1>12, <1>13 DEF AskInv

LEMMA PropertiesAsk ==
  ASSUME FilesInv, AskInv, SetsProperties
  PROVE  AskInv'
<1> DEFINE o == dev[my.id]
<1> SUFFICES ASSUME pc' # "idle" PROVE Setting(dev[my.id])'
  BY PropertiesRest
<1>1. /\ UNCHANGED <<scene, used, cache, call>> /\ errors \subseteq errors'
      /\ my'.id = my.id /\ my'.updated = my.updated /\ (my.blind => my'.blind)
      /\ pc \in Made \ {"senddata", "add", "addprops", "reread", "rereadprops", "updated"} /\ call.op \in Makers
      /\ my.id \in DOMAIN dev /\ DOMAIN o = ObjectFields /\ DOMAIN my = DOMAIN Idle
      /\ pc' \in {"setone", "refs", "updated", "setdescs", "setlist"} \/ (pc' = "add" /\ call.op = "create")
      /\ pc' = "refs" => call.fmt = "list"
  BY PropertiesSteps DEF FilesInv, SizesInv, CInv, Shapes
<1>2. /\ call.op = "create" => call.fmt = "list"
      /\ call.fmt # "list" => call.fmt = "track"
      /\ call.fmt = "list" => call.track = 0
  <2>1. pc # "idle"
    BY <1>1 DEF Made, Settled
  <2> QED
    BY <1>1, <2>1, Requested DEF AskInv
<1>3. Setting(o)
  BY <1>1 DEF AskInv, Making
<1>4. call.op # "create" => ~my.updated /\ ~my'.updated
  BY <1>1, <1>3 DEF Setting
<1>5. call.op = "create" => o.refs = << >>
  BY <1>1, <1>3 DEF Setting
<1>6. dev'[my.id].title = o.title \/ dev'[my.id].title = call.title
  BY PropertiesObject
<1>7. dev'[my.id].track = o.track \/ dev'[my.id].track = call.track
  BY PropertiesObject
<1>8. Titled(o) => Titled(dev[my.id])'
  BY <1>1, <1>6 DEF Titled, Settable
<1>9. Numbered(o) => Numbered(dev[my.id])'
  BY <1>1, <1>7 DEF Numbered, Settable
<1>10. pc # "refs" => dev'[my.id].refs = o.refs
  BY PropertiesObject
<1>11. CASE SetOne
  <2>1. ("title" \in my.todo \/ Titled(o)) /\ (call.fmt = "track" => "track" \in my.todo \/ Numbered(o))
    BY <1>2, <1>3, <1>11 DEF SetOne, Setting, Numbered
  <2>2. pc # "refs"
    BY <1>11 DEF SetOne
  <2>3. ASSUME NEW p \in my.todo, my'.todo = my.todo \ {p}, pc' = "setone",
               \/ p \in errors'
               \/ Skipped(p) \/ ~Settable(p)
               \/ dev' = SetProp(my.id, p)
        PROVE  Setting(dev[my.id])'
    <3>1. p = "title" => Titled(dev[my.id])'
      <4>1. dev' = SetProp(my.id, "title") => dev'[my.id].title = call.title
        BY <1>1 DEF SetProp, ObjectFields
      <4> QED
        BY <1>1, <2>3, <4>1 DEF Titled, Skipped, Settable
    <3>2. p = "track" => Numbered(dev[my.id])'
      <4>1. dev' = SetProp(my.id, "track") => dev'[my.id].track = call.track
        BY <1>1 DEF SetProp, ObjectFields
      <4> QED
        BY <1>1, <2>3, <4>1 DEF Numbered, Skipped, Settable
    <3>3. "title" \in my'.todo \/ Titled(dev[my.id])'
      BY <1>8, <2>1, <2>3, <3>1
    <3>4. call.fmt = "track" => "track" \in my'.todo \/ Numbered(dev[my.id])'
      BY <1>9, <2>1, <2>3, <3>2
    <3> QED
      BY <1>1, <1>4, <1>5, <1>10, <2>2, <2>3, <3>3, <3>4 DEF Setting
  <2>4. CASE /\ my.todo = {} /\ pc' = (IF call.fmt = "list" THEN "refs" ELSE "updated") /\ UNCHANGED my
    <3>1. Titled(dev[my.id])' /\ (call.fmt = "track" => Numbered(dev[my.id])')
      BY <1>8, <1>9, <2>1, <2>4
    <3>2. call.fmt = "list" => Numbered(dev[my.id])'
      BY <1>1, <1>2 DEF Numbered
    <3>3. call.op = "update" /\ pc' = "updated" => dev'[my.id].refs = call.refs
      <4> SUFFICES ASSUME call.op = "update", pc' = "updated" PROVE o.refs = call.refs
        BY <1>10, <2>2
      <4>1. call.fmt # "list" /\ call.refs = << >>
        BY <1>1, <1>2, <1>11, <2>4, Requested DEF AskInv, SetOne
      <4> QED
        BY <1>1, <4>1 DEF AskInv, Making, Placed, ListsOnly
    <3> QED
      BY <1>1, <1>2, <1>4, <1>5, <1>10, <2>2, <2>4, <3>1, <3>2, <3>3 DEF Setting
  <2>5. Failed => pc' = "setone"
    BY DEF Failed, Return, Goto
  <2>6. \/ \E p \in my.todo : /\ my'.todo = my.todo \ {p} /\ pc' = "setone"
                              /\ p \in errors' \/ Skipped(p) \/ ~Settable(p) \/ dev' = SetProp(my.id, p)
        \/ my.todo = {} /\ pc' = (IF call.fmt = "list" THEN "refs" ELSE "updated") /\ UNCHANGED my
    <3>1. ASSUME NEW p, Done(p) PROVE my'.todo = my.todo \ {p}
      BY <1>1, <3>1 DEF Done, Idle
    <3>2. ASSUME NEW p, Fault(p) \/ errors' = errors \cup {p} PROVE p \in errors'
      BY <3>2 DEF Fault
    <3>3. ASSUME my.todo = {} /\ Goto(IF call.fmt = "list" THEN "refs" ELSE "updated") /\ UNCHANGED <<dev, my>>
          PROVE  my.todo = {} /\ pc' = (IF call.fmt = "list" THEN "refs" ELSE "updated") /\ UNCHANGED my
      BY <3>3 DEF Goto
    <3>4. Goto("setone") => pc' = "setone"
      BY DEF Goto
    <3> QED
      BY <1>11, <2>5, <3>1, <3>2, <3>3, <3>4 DEF SetOne
  <2> QED
    BY <2>3, <2>4, <2>6
<1>12. CASE OneProps
  <2>1. pc = "oneprops" /\ pc' = "setone" /\ ("title" \in my'.todo \/ my'.blind \/ ~Settable("title"))
    <3>1. pc = "oneprops" /\ pc' = "setone"
      BY <1>12 DEF OneProps, Goto
    <3>2. DOMAIN my = DOMAIN Idle
      BY <1>1
    <3>3. "title" \in my'.todo \/ my'.blind \/ ~Settable("title")
      BY <1>12, <3>2 DEF OneProps, Idle, Settable
    <3> QED
      BY <3>1, <3>3
  <2>2. call.op = "create"
    BY <2>1 DEF AskInv, Asking
  <2> QED
    BY <1>1, <1>5, <1>10, <2>1, <2>2 DEF Setting, Titled, Settable
<1>13. CASE UpdateProps
  <2>1. /\ call.op # "create" /\ pc' \in {"setone", "setdescs"} /\ my'.todo = Updatable \cap scene.listed
    BY <1>1, <1>13 DEF UpdateProps, Goto, Return, FilesInv, SizesInv, CInv, Where, Idle
  <2>2. \A p \in Updatable : p \in my'.todo \/ ~Settable(p)
    BY <2>1 DEF Settable
  <2> QED
    BY <1>1, <1>4, <2>1, <2>2 DEF Setting, Updatable, Titled, Numbered, Settable
<1>14. CASE SetDescs
  <2>1. /\ call.op # "create" /\ pc' \in {"setdescs", "setlist"}
        /\ \A p \in Updatable : p \in my.todo \/ p \in my.chosen \/ Missing(p) \/ ~Settable(p) \/ p \in errors
    BY <1>3, <1>14 DEF SetDescs, Setting, Goto, FilesInv, SizesInv, CInv, Where
  <2>2. ASSUME NEW q \in my.todo, pc' = "setdescs", my'.todo = my.todo \ {q}, my.chosen \subseteq my'.chosen,
               q \in my'.chosen \/ Missing(q) \/ ~Settable(q) \/ q \in errors'
        PROVE  Setting(dev[my.id])'
    <3>1. \A p \in Updatable : p \in my'.chosen \/ Missing(p) \/ ~Settable(p) \/ p \in errors' \/ p \in my'.todo
      BY <1>1, <2>1, <2>2
    <3> QED
      BY <1>1, <1>4, <2>1, <2>2, <3>1 DEF Setting, Updatable, Missing, Settable
  <2>3. CASE my.todo = {} /\ pc' = "setlist" /\ UNCHANGED <<my, errors>>
    BY <1>1, <1>4, <2>1, <2>3 DEF Setting, Updatable, Missing, Settable
  <2>4. \/ \E q \in my.todo : /\ pc' = "setdescs" /\ my'.todo = my.todo \ {q} /\ my.chosen \subseteq my'.chosen
                              /\ q \in my'.chosen \/ Missing(q) \/ ~Settable(q) \/ q \in errors'
        \/ my.todo = {} /\ pc' = "setlist" /\ UNCHANGED <<my, errors>>
    <3>1. ASSUME NEW q \in my.todo, Goto("setdescs"),
                 \/ my' = [my EXCEPT !.todo = @ \ {q}, !.chosen = IF Updates(q) THEN @ \cup {q} ELSE @]
                 \/ Fault(q) /\ Done(q)
          PROVE  /\ pc' = "setdescs" /\ my'.todo = my.todo \ {q} /\ my.chosen \subseteq my'.chosen
                 /\ q \in my'.chosen \/ Missing(q) \/ ~Settable(q) \/ q \in errors'
      <4>1. CASE my' = [my EXCEPT !.todo = @ \ {q}, !.chosen = IF Updates(q) THEN @ \cup {q} ELSE @]
        BY <1>1, <3>1, <4>1 DEF Goto, Idle, Updates
      <4>2. CASE Fault(q) /\ Done(q)
        BY <1>1, <3>1, <4>2 DEF Goto, Fault, Done, Idle
      <4> QED
        BY <3>1, <4>1, <4>2
    <3>2. my.todo = {} /\ Goto("setlist") /\ Fine /\ UNCHANGED my =>
            my.todo = {} /\ pc' = "setlist" /\ UNCHANGED <<my, errors>>
      BY DEF Goto, Fine
    <3> QED
      BY <1>14, <3>1, <3>2 DEF SetDescs
  <2> QED
    BY <2>2, <2>3, <2>4
<1>15. CASE SetList
  <2>1. /\ call.op # "create" /\ pc' = (IF call.fmt = "list" THEN "refs" ELSE "updated") /\ my' = my /\ errors' = errors
        /\ \A p \in Updatable : p \in my.chosen \/ Missing(p) \/ ~Settable(p) \/ p \in errors
        /\ dev' = [dev EXCEPT ![my.id] = [o EXCEPT !.title = IF "title" \in my.chosen THEN call.title ELSE @,
                                                   !.track = IF "track" \in my.chosen THEN call.track ELSE @]]
    BY <1>3, <1>15 DEF SetList, Setting, Goto, Fine, Return, FilesInv, SizesInv, CInv, Where
  <2>2. Titled(dev[my.id])'
    <3>1. "title" \in my.chosen => dev'[my.id].title = call.title
      BY <1>1, <2>1 DEF ObjectFields
    <3>2. "title" \in Updatable
      BY DEF Updatable
    <3> QED
      BY <1>1, <2>1, <3>1, <3>2 DEF Titled, Missing, Settable
  <2>3. Numbered(dev[my.id])'
    <3>1. "track" \in my.chosen => dev'[my.id].track = call.track
      BY <1>1, <2>1 DEF ObjectFields
    <3>2. call.fmt = "track" => "track" \in Updatable
      BY DEF Updatable
    <3> QED
      BY <1>1, <1>2, <2>1, <3>1, <3>2 DEF Numbered, Missing, Settable
  <2>4. call.op = "update" /\ pc' = "updated" => dev'[my.id].refs = call.refs
    <3> SUFFICES ASSUME call.op = "update", pc' = "updated" PROVE o.refs = call.refs
      BY <1>10, <1>15 DEF SetList
    <3>1. call.fmt # "list" /\ call.refs = << >>
      BY <1>1, <2>1, <1>15, Requested DEF AskInv, SetList
    <3> QED
      BY <1>1, <3>1 DEF AskInv, Making, Placed, ListsOnly
  <2> QED
    BY <1>1, <1>2, <1>4, <2>1, <2>2, <2>3, <2>4 DEF Setting
<1>16. CASE SetRefs
  <2>1. /\ pc = "refs" /\ my' = my /\ errors' = errors /\ pc' = (IF call.op = "create" THEN "add" ELSE "updated")
        /\ \/ call.op = "create" /\ call.refs = << >> /\ dev' = dev
           \/ dev' = [dev EXCEPT ![my.id].refs = call.refs]
    BY <1>16 DEF SetRefs, Goto, Fine, Return, Creating
  <2>2. dev'[my.id].refs = call.refs
    BY <1>1, <1>5, <2>1 DEF ObjectFields
  <2>3. Titled(o) /\ (call.op # "create" => Numbered(o))
    BY <1>3, <2>1 DEF Setting
  <2> QED
    BY <1>1, <1>4, <1>8, <1>9, <2>1, <2>2, <2>3 DEF Setting
<1> QED
  BY <1>11, <1>12, <1>13, <1>14, <1>15, <1>16 DEF SetsProperties

\* add_object_to_cache and update_metadata_cache: the object is what it is.
LEMMA CachingAsks ==
  ASSUME FilesInv, AskInv, Updated \/ AddInfo \/ AddProps
  PROVE  AskInv'
<1> DEFINE o == dev[my.id]
<1>1. CInv' /\ Frame /\ UNCHANGED <<device, call>> /\ my'.id = my.id /\ Agrees(my.id)'
  BY CachingKeeps DEF FilesInv, SizesInv
<1>2. /\ my'.name = my.name /\ my'.parent = my.parent /\ my'.store = my.store /\ my'.blind = my.blind
      /\ (my'.updated <=> my.updated \/ Updated)
      /\ (spent' = spent \/ Fails) /\ errors \subseteq errors'
      /\ pc \in {"updated", "add", "addprops"}
  <2>1. CASE Updated
    BY <2>1 DEF Updated, Fine, FilesInv, SizesInv, CInv, Shapes, Idle
  <2>2. CASE AddInfo
    BY <2>2 DEF AddInfo, Updated, Fine, Fault, Added
  <2>3. CASE AddProps
    BY <2>3 DEF AddProps, Updated, WantProps, Fine, Fault
  <2> QED
    BY <2>1, <2>2, <2>3
<1>3. Added => \/ pc' = "reread" /\ call.op = "send" /\ ~my.updated
               \/ /\ pc' = "idle" /\ result'.op = call.op /\ result'.ok /\ result'.id = my.id
                  /\ call.op # "send" \/ my.updated
  BY DEF Added, Return, Goto
<1>4. \/ pc' = "add" /\ pc = "updated"
      \/ pc' = "addprops" /\ pc = "add" /\ ~Updated
      \/ pc' = "reread" /\ call.op = "send" /\ ~my.updated /\ ~Updated /\ pc # "updated"
      \/ /\ pc' = "idle" /\ result'.op = call.op /\ result'.ok /\ result'.id = my.id /\ ~Updated
         /\ call.op # "send" \/ my.updated
         /\ pc # "updated"
  <2>1. CASE Updated
    BY <2>1 DEF Updated, Goto
  <2>2. CASE AddInfo
    BY <1>3, <2>2 DEF AddInfo, Updated, Goto
  <2>3. CASE AddProps
    BY <1>3, <2>3 DEF AddProps, Updated, WantProps, Goto
  <2> QED
    BY <2>1, <2>2, <2>3
<1>5. scene' = scene /\ dev' = dev /\ call' = call
  BY <1>1 DEF device
<1>6. KnowFrame
  <2>1. ASSUME NEW h, Off(h) PROVE h \notin DOMAIN cache'
    <3>1. Updated /\ h = my.id
      BY <1>2, <2>1 DEF Off, Altering, AddInfo, AddProps
    <3> QED
      BY <3>1 DEF Updated, Evicted, Without
  <2> QED
    BY <1>1, <1>2, <2>1 DEF KnowFrame, Frame, device
<1>7. NamesKnown' /\ TitlesKnown' /\ ListsOnly'
  BY <1>6, Knows DEF AskInv
<1>8. Asking'
  BY <1>1, <1>2, <1>4, StillAsking DEF AskInv, Before, Entries, device
<1>9. Placing' /\ TitleRead' /\ Rereads' /\ Distinct'
  BY <1>1, <1>4 DEF Placing, TitleRead, Rereads, Distinct, Before
<1>10. call.op \in Makers => Placed(o) /\ Setting(o) /\ Placed(dev[my.id])'
  <2>1. call.op \in Makers => Placed(o) /\ Setting(o)
    BY <1>2 DEF AskInv, Making, Made, Settled
  <2> QED
    BY <1>1, <1>2, <1>5, <2>1 DEF Placed, Settable, Supports
<1>11. call.op \in Makers => (Titled(o) => Titled(dev[my.id])') /\ (Numbered(o) => Numbered(dev[my.id])')
  BY <1>1, <1>2, <1>5 DEF Titled, Numbered, Settable
<1>12. /\ call.op = "create" => call.fmt = "list" /\ call.track = 0
       /\ call.op = "send" => call.fmt # "list" /\ call.refs = << >>
  BY <1>2, Requested DEF AskInv, Makers
<1>13. pc' # "idle" /\ call.op \in Makers => Setting(dev[my.id])'
  <2> SUFFICES ASSUME pc' # "idle", call.op \in Makers PROVE Setting(dev[my.id])'
    OBVIOUS
  <2>1. dev'[my'.id] = o /\ call' = call
    BY <1>1 DEF device
  <2>2. pc' \notin {"senddata", "refs", "setone", "setdescs", "setlist", "updated"}
    BY <1>4
  <2>3. CASE call.op = "create"
    <3>1. pc # "updated"
      BY <1>2, <2>3 DEF AskInv, Asking
    <3>2. pc \in {"add", "addprops"} /\ pc' \in {"add", "addprops"} /\ Titled(o) /\ o.refs = call.refs
      BY <1>2, <1>4, <1>10, <2>3, <3>1 DEF Setting
    <3> QED
      BY <1>11, <2>1, <2>2, <2>3, <3>2 DEF Setting
  <2>4. CASE call.op # "create"
    <3>1. pc' \in {"add", "addprops"} \/ (pc' = "reread" /\ ~my'.updated)
      BY <1>2, <1>4
    <3>2. my'.updated => Titled(o) /\ Numbered(o)
      <4>1. Updated => pc = "updated"
        BY DEF Updated
      <4> QED
        BY <1>2, <1>10, <2>4, <4>1 DEF Setting
    <3>3. call.op = "update" /\ pc' \in {"add", "addprops"} => my'.updated /\ o.refs = call.refs
      <4>1. pc = "updated" => Updated
        BY DEF AddInfo, AddProps
      <4> QED
        BY <1>2, <1>4, <1>10, <2>4, <4>1 DEF Setting
    <3> QED
      BY <1>11, <2>1, <2>2, <2>4, <3>1, <3>2, <3>3 DEF Setting
  <2> QED
    BY <2>3, <2>4
<1>14. Making'
  BY <1>1, <1>10, <1>13 DEF Making, Made, Settled, device
<1>15. Fulfilled'
  <2> SUFFICES ASSUME pc' = "idle" PROVE Fulfilled'
    BY <1>4 DEF Fulfilled, Succeeded
  <2>1. /\ result'.op = call.op /\ result'.ok /\ result'.id = my.id /\ (call.op # "send" \/ my.updated)
        /\ pc \in {"add", "addprops"}
    BY <1>2, <1>4
  <2>2. dev'[result'.id] = o /\ call' = call /\ scene' = scene /\ dev' = dev
    BY <1>1, <2>1 DEF device
  <2>3. call.op \notin {"gettitle", "getlist"}
    BY <2>1 DEF AskInv, Asking, Entries, Makers
  <2>4. ASSUME call.op \in Makers
        PROVE  Titled(o) /\ Numbered(o) /\ o.refs = call.refs
    <3>1. CASE call.op = "create"
      BY <1>10, <1>12, <2>1, <2>4, <3>1 DEF Setting, Numbered
    <3>2. CASE call.op = "update"
      BY <1>10, <2>1, <2>4, <3>2 DEF Setting
    <3>3. CASE call.op = "send"
      <4>1. Titled(o) /\ Numbered(o)
        BY <1>10, <2>1, <2>4, <3>3 DEF Setting
      <4>2. o.refs = << >>
        <5>1. my.id \in DOMAIN dev
          BY <2>1 DEF FilesInv, SizesInv, CInv, OnDevice, Settled
        <5> QED
          BY <1>10, <1>12, <2>4, <3>3, <5>1 DEF AskInv, ListsOnly, Placed
      <4> QED
        BY <1>12, <3>3, <4>1, <4>2
    <3> QED
      BY <2>4, <3>1, <3>2, <3>3 DEF Makers
  <2>5. ASSUME Succeeded({"send", "create", "update"})'
        PROVE  LET n == dev'[result'.id]
               IN /\ n.fmt = call'.fmt
                  /\ Titled(dev[result.id])' /\ Numbered(dev[result.id])' /\ n.refs = call'.refs
                  /\ call'.op # "update" =>
                       /\ Settable("name")' \/ ~Supports("SendObjectPropList")' =>
                            n.name = my'.name \/ "name" \in errors' \/ my'.blind
                       /\ n.parent = At(my'.parent) /\ (my'.store \in Store => n.store = my'.store)
                  /\ call'.op = "send" =>
                       /\ call'.parent # Root => n.parent = call'.parent
                       /\ call'.store # Null => n.store = call'.store
    <3>1. call.op \in Makers
      BY <2>1, <2>5 DEF Succeeded, Makers
    <3>2. Titled(o) /\ Numbered(o) /\ o.refs = call.refs /\ Placed(o)
      BY <1>10, <2>4, <3>1
    <3>3. dev'[result'.id] = dev'[my'.id]
      BY <1>1, <2>1
    <3>4. Titled(dev[result.id])' /\ Numbered(dev[result.id])'
      BY <1>11, <3>1, <3>2, <3>3
    <3>5. Settable("name")' = Settable("name") /\ Supports("SendObjectPropList")' = Supports("SendObjectPropList")
      BY <2>2 DEF Settable, Supports
    <3> QED
      BY <1>2, <2>2, <3>2, <3>4, <3>5 DEF Placed
  <2> QED
    BY <2>1, <2>3, <2>5 DEF Fulfilled, Succeeded, Titled, Numbered
<1> QED
  BY <1>7, <1>8, <1>9, <1>14, <1>15 DEF AskInv

\* LIBMTP_Send_File_From_File_Descriptor says where the object really is.
LEMMA RereadAsks ==
  ASSUME FilesInv, AskInv, Reread \/ RereadProps
  PROVE  AskInv'
<1> DEFINE o == dev[my.id]
<1>1. /\ pc \in {"reread", "rereadprops"} /\ call.op = "send" /\ my.id \in DOMAIN dev /\ Frame /\ CInv
      /\ scene' = scene /\ dev' = dev /\ used' = used /\ call' = call
  BY RereadKeeps DEF Reread, RereadProps, device, FilesInv, SizesInv, CInv, Where, OnDevice, Settled
<1>2. /\ Agrees(my.id) /\ Placed(o) /\ Setting(o) /\ o.fmt = "track"
      /\ DOMAIN my = DOMAIN Idle /\ \A h : Entry(h) = [info |-> Entry(h).info, props |-> Entry(h).props]
  <2>1. Placed(o) /\ Setting(o)
    BY <1>1 DEF AskInv, Making, Makers, Made, Settled
  <2>2. call.fmt = "track"
    BY <1>1, Requested DEF AskInv
  <2> QED
    BY <1>1, <2>1, <2>2 DEF AskInv, Rereads, Placed, CInv, Shapes, Entry
<1>3. /\ spent' = spent \/ Fails
      /\ \/ pc' = "rereadprops" /\ Reread /\ my' = my /\ errors' = errors
         \/ pc' = "update" /\ RereadProps /\ errors' = errors
         \/ pc' = "idle" /\ result'.ok = FALSE /\ errors' # {} /\ my' = my
  <2>1. CASE Reread
    BY <2>1 DEF Reread, Goto, Return, Fine, Fault
  <2>2. CASE RereadProps
    BY <2>2 DEF RereadProps, WantProps, Goto, Return, Fine, Fault
  <2> QED
    BY <2>1, <2>2
<1>4. /\ my'.id = my.id /\ my'.name = my.name /\ my'.blind = my.blind /\ my'.updated = my.updated
  <2>1. my' = my \/ my' = [my EXCEPT !.parent = cache'[my.id].info.parent, !.store = cache'[my.id].info.store]
    BY DEF Reread, RereadProps, WantProps
  <2> QED
    BY <1>2, <2>1 DEF Idle
<1>5. Agrees(my.id)'
  BY <1>1, <1>2, <1>4, AgreesMoves
<1>6. pc' = "rereadprops" => my.id \in DOMAIN cache' /\ cache'[my.id].info # NoInfo
  <2> SUFFICES ASSUME Reread, pc' = "rereadprops" PROVE my.id \in DOMAIN cache' /\ cache'[my.id].info # NoInfo
    BY <1>3
  <2>1. InfoOf(o).fmt = "track" /\ NoInfo.fmt = "none"
    BY <1>2 DEF InfoOf, NoInfo
  <2>2. [Entry(my.id) EXCEPT !.info = InfoOf(o)].info = InfoOf(o)
    BY <1>2
  <2>3. CASE cache' = Flushed
    BY <1>1, <2>1, <2>3 DEF Flushed
  <2>4. ASSUME NEW e, cache' = With(cache, my.id, e) PROVE my.id \in DOMAIN cache' /\ cache'[my.id] = e
    BY <2>4 DEF With
  <2> QED
    BY <2>1, <2>2, <2>3, <2>4 DEF Reread, Return
<1>7. pc' = "update" => my'.parent = o.parent /\ my'.store = o.store
  <2> SUFFICES ASSUME RereadProps, pc' = "update" PROVE my'.parent = o.parent /\ my'.store = o.store
    BY <1>3
  <2>1. my.id \in DOMAIN cache /\ cache[my.id].info = InfoOf(o) /\ Entry(my.id) = cache[my.id]
    BY <1>2 DEF RereadProps, AskInv, Rereads, Agrees, Entry
  <2>2. [Entry(my.id) EXCEPT !.props = PropList(my.id)].info = Entry(my.id).info
    BY <1>2
  <2>3. ASSUME NEW e, cache' = With(cache, my.id, e) PROVE cache'[my.id] = e
    BY <2>3 DEF With
  <2>4. /\ cache'[my.id].info = InfoOf(o)
        /\ my' = [my EXCEPT !.parent = cache'[my.id].info.parent, !.store = cache'[my.id].info.store]
    BY <2>1, <2>2, <2>3 DEF RereadProps, WantProps, Return
  <2>5. InfoOf(o).parent = o.parent /\ InfoOf(o).store = o.store
    BY DEF InfoOf
  <2> HIDE DEF o
  <2> QED
    BY <1>2, <2>4, <2>5 DEF Idle
<1>8. KnowFrame
  BY <1>1, <1>3, <1>4 DEF KnowFrame, Frame, Off, Altering
<1>9. NamesKnown' /\ TitlesKnown' /\ ListsOnly'
  BY <1>8, Knows DEF AskInv
<1>10. Asking'
  BY <1>1, <1>3, StillAsking DEF AskInv, Before, Entries
<1>11. Placing' /\ Distinct' /\ TitleRead' /\ Rereads' /\ Fulfilled'
  BY <1>1, <1>3, <1>4, <1>5, <1>6 DEF Placing, Distinct, TitleRead, Rereads, Fulfilled, Succeeded, Before
<1>12. Making'
  <2>1. CASE pc' = "idle"
    BY <2>1 DEF Making, Made, Settled
  <2>2. CASE pc' = "rereadprops"
    <3>1. my' = my /\ errors' = errors
      BY <1>3, <2>2
    <3>2. Placed(dev[my.id])'
      BY <1>1, <1>2, <3>1 DEF Placed, Settable, Supports
    <3>3. Setting(dev[my.id])'
      BY <1>1, <1>2, <2>2, <3>1 DEF Setting
    <3> QED
      BY <3>2, <3>3 DEF Making
  <2>3. CASE pc' = "update"
    <3>1. errors' = errors /\ my'.parent = o.parent /\ my'.store = o.store
      BY <1>3, <1>7, <2>3
    <3>2. Placed(dev[my.id])'
      BY <1>1, <1>2, <1>4, <3>1 DEF Placed, At, Settable, Supports
    <3>3. Setting(dev[my.id])'
      BY <1>1, <1>2, <1>4, <2>3 DEF Setting
    <3> QED
      BY <3>2, <3>3 DEF Making
  <2> QED
    BY <1>3, <2>1, <2>2, <2>3
<1> QED
  BY <1>9, <1>10, <1>11, <1>12 DEF AskInv

\* AskInv is inductive.
LEMMA EveryStepAsks ==
  ASSUME FilesInv, AskInv, [Everything]_EveryVar
  PROVE  AskInv'
<1>1. CASE UNCHANGED EveryVar
  <2>1. UNCHANGED <<device, storages, folders, cache, pc, call, my, errors, result, spent>>
    BY <1>1 DEF EveryVar, AllVars, vars
  <2>2. UNCHANGED <<scene, dev, used, list, folders, cache>>
    BY <2>1 DEF device, storages
  <2>3. Asking' /\ NamesKnown' /\ TitlesKnown' /\ ListsOnly' /\ TitleRead' /\ Placing' /\ Distinct'
    <3>1. Steadfast' = Steadfast
      BY <2>1, <2>2 DEF Steadfast, Faultless, Does
    <3>2. Asking' /\ NamesKnown' /\ ListsOnly' /\ Distinct'
      BY <2>1, <2>2 DEF AskInv, Asking, NamesKnown, ListsOnly, Distinct
    <3>3. TitlesKnown' /\ TitleRead'
      BY <2>1, <2>2, <3>1 DEF AskInv, TitlesKnown, TitleRead, Off
    <3>4. Placing'
      BY <2>1, <2>2 DEF AskInv, Placing, Given, New, Supports, Settable
    <3> QED
      BY <3>2, <3>3, <3>4
  <2>4. Making' /\ Rereads'
    BY <2>1, <2>2 DEF AskInv, Making, Rereads, Placed, Setting, Titled, Numbered, Agrees, Missing, Updatable, Settable,
       Supports
  <2>5. Fulfilled'
    BY <2>1, <2>2 DEF AskInv, Fulfilled, Succeeded, Faultless, Does, Settable, Supports, Announces, Creating
  <2> QED
    BY <2>3, <2>4, <2>5 DEF AskInv
<1>2. CASE Next
  BY <1>2, CallAsks, ChoosingAsks, SendingAsks, SendInfoAsks, SendDataAsks, PropertiesAsk, CachingAsks, RereadAsks,
     StoragesAsk, GettingAsks DEF Next, SetsProperties
<1>3. CASE Reads
  BY <1>3, ReadingAsks
<1>4. CASE Partial \/ GetFile \/ GetToHandler \/ Edit \/ EndEdit
  BY <1>4, FilesAsk
<1> QED
  BY <1>1, <1>2, <1>3, <1>4 DEF Everything, Elsewhere, AnyCall

LEMMA BegunHoldsAsk == Begun => AskInv
<1> SUFFICES ASSUME Begun PROVE AskInv
  OBVIOUS
<1>1. /\ scene \in Scenarios /\ dev = scene.objects /\ pc = "idle" /\ call = NoCall
      /\ result.op = "none" /\ cache = IF scene.cached THEN Flushed ELSE [h \in {} |-> 0]
  BY DEF Begun, Init
<1>2. ListsOnly
  BY <1>1, ScenarioAssumption DEF ListsOnly
<1>3. NamesKnown /\ TitlesKnown
  BY <1>1 DEF NamesKnown, TitlesKnown, Flushed, InfoOf, PropsOf
<1>4. Asking /\ TitleRead /\ Placing /\ Distinct /\ Making /\ Rereads
  BY <1>1 DEF Asking, TitleRead, Placing, Distinct, Making, Rereads, Before, Made, Settled, Entries, NoCall
<1>5. Fulfilled
  BY <1>1 DEF Fulfilled, Succeeded
<1> QED
  BY <1>2, <1>3, <1>4, <1>5 DEF AskInv

-----------------------------------------------------------------------------
\* What the device does not list, or does not let be set: none of it is among the
\* properties that are sent, and no handle is used twice.
PassedInv ==
  /\ DOMAIN scene.objects \subseteq used
  /\ \A p \in my.chosen : Settable(p)
  /\ pc = "setone" => my.todo \subseteq {"title", "track"}
  /\ LeftAlone

\* A step that changes no such property and chooses none.
Choice ==
  /\ \A p \in my'.chosen : Settable(p)
  /\ pc' = "setone" => my'.todo \subseteq {"title", "track"}
KeepsValues(h) ==
  /\ dev'[h].fmt = dev[h].fmt
  /\ Settable("title") \/ dev'[h].title = dev[h].title
  /\ Settable("track") \/ dev'[h].track = dev[h].track
Fresh(h) ==
  /\ h \notin used /\ dev'[h].track = 0
  /\ Settable("title") \/ dev'[h].fmt = "folder" \/ dev'[h].title = "none"
PassesOver ==
  /\ scene' = scene /\ used \subseteq used' /\ Choice
  /\ \A h \in DOMAIN dev' : IF h \in DOMAIN dev THEN KeepsValues(h) ELSE Fresh(h)

LEMMA PassedStays ==
  ASSUME PassedInv, PassesOver
  PROVE  PassedInv'
<1>1. \A p : Settable(p)' = Settable(p)
  BY DEF PassesOver, Settable
<1>2. \A h : AtFirst(h)' = AtFirst(h)
  BY DEF PassesOver, AtFirst
<1>3. ASSUME NEW h \in DOMAIN dev' PROVE Untouched(h)'
  <2>1. CASE h \in DOMAIN dev
    <3>1. Untouched(h) /\ KeepsValues(h)
      BY <1>3, <2>1 DEF PassedInv, LeftAlone, PassesOver
    <3> QED
      BY <1>1, <1>2, <3>1 DEF Untouched, KeepsValues
  <2>2. CASE h \notin DOMAIN dev
    <3>1. Fresh(h)
      BY <1>3, <2>2 DEF PassesOver
    <3>2. AtFirst(h).title = "none" /\ AtFirst(h).track = 0
      BY <3>1 DEF PassedInv, Fresh, AtFirst
    <3> QED
      BY <1>1, <1>2, <3>1, <3>2 DEF Untouched, Fresh
  <2> QED
    BY <2>1, <2>2
<1>4. DOMAIN scene'.objects \subseteq used'
  BY DEF PassedInv, PassesOver
<1> QED
  BY <1>1, <1>3, <1>4 DEF PassedInv, PassesOver, Choice, LeftAlone

\* The step of a call that leaves the objects and what is chosen.
LEMMA IdlyPasses ==
  ASSUME PassedInv, UNCHANGED <<scene, dev, used>>, my'.chosen = my.chosen, pc' # "setone"
  PROVE  PassesOver
BY DEF PassedInv, PassesOver, Choice, KeepsValues

LEMMA SettingPasses ==
  ASSUME FilesInv, AskInv, PassedInv, SetsProperties
  PROVE  PassesOver
<1>1. /\ scene' = scene /\ used' = used /\ my.id \in DOMAIN dev /\ DOMAIN dev[my.id] = ObjectFields
      /\ DOMAIN my = DOMAIN Idle
  BY PropertiesSteps DEF FilesInv, SizesInv, CInv, Shapes
<1>2. /\ DOMAIN dev' = DOMAIN dev /\ \A h \in DOMAIN dev \ {my.id} : dev'[h] = dev[h]
      /\ dev'[my.id].fmt = dev[my.id].fmt
  BY PropertiesObject
<1>3. Updatable \subseteq {"title", "track"}
  BY DEF Updatable
<1>4. Choice
  <2>1. CASE SetOne
    <3>1. pc = "setone" /\ my'.chosen = my.chosen /\ my'.todo \subseteq my.todo
      BY <1>1, <2>1 DEF SetOne, Done, Idle
    <3> QED
      BY <3>1 DEF PassedInv, Choice
  <2>2. CASE OneProps
    BY <1>1, <2>2 DEF OneProps, PassedInv, Choice, Idle
  <2>3. CASE UpdateProps
    <3>1. \/ my'.todo \subseteq {"title", "track"} /\ my'.chosen = {}
          \/ my' = my /\ pc' = "idle"
      BY <1>1, <1>3, <2>3 DEF UpdateProps, Return, Idle
    <3> QED
      BY <3>1 DEF PassedInv, Choice
  <2>4. CASE SetDescs
    <3>1. pc' \in {"setdescs", "setlist"}
      BY <2>4 DEF SetDescs, Goto
    <3>2. ASSUME NEW p, my' = [my EXCEPT !.todo = @ \ {p}, !.chosen = IF Updates(p) THEN @ \cup {p} ELSE @]
          PROVE  \A q \in my'.chosen : q \in my.chosen \/ Settable(q)
      BY <1>1, <3>2 DEF Updates, Idle
    <3>3. ASSUME NEW p, Done(p) PROVE my'.chosen = my.chosen
      BY <1>1, <3>3 DEF Done, Idle
    <3>4. \A q \in my'.chosen : q \in my.chosen \/ Settable(q)
      BY <2>4, <3>2, <3>3 DEF SetDescs
    <3> QED
      BY <3>1, <3>4 DEF PassedInv, Choice
  <2>5. CASE SetList \/ SetRefs
    <3>1. my' = my /\ pc' # "setone"
      BY <2>5 DEF SetList, SetRefs, Goto, Return
    <3> QED
      BY <3>1 DEF PassedInv, Choice
  <2> QED
    BY <2>1, <2>2, <2>3, <2>4, <2>5 DEF SetsProperties
<1>5. /\ Settable("title") \/ dev'[my.id].title = dev[my.id].title
      /\ Settable("track") \/ dev'[my.id].track = dev[my.id].track
  <2>1. ASSUME NEW p, p \in {"title", "track"}, Settable(p), dev' = SetProp(my.id, p)
        PROVE  /\ Settable("title") \/ dev'[my.id].title = dev[my.id].title
               /\ Settable("track") \/ dev'[my.id].track = dev[my.id].track
    BY <1>1, <2>1 DEF SetProp, ObjectFields
  <2>2. CASE SetOne
    <3>1. dev' = dev \/ \E p \in my.todo : Settable(p) /\ dev' = SetProp(my.id, p)
      BY <2>2 DEF SetOne
    <3>2. my.todo \subseteq {"title", "track"}
      BY <2>2 DEF SetOne, PassedInv
    <3> QED
      BY <2>1, <3>1, <3>2
  <2>3. CASE SetList
    <3> DEFINE new == [dev[my.id] EXCEPT !.title = IF "title" \in my.chosen THEN call.title ELSE @,
                                         !.track = IF "track" \in my.chosen THEN call.track ELSE @]
    <3>1. dev' = dev \/ dev' = [dev EXCEPT ![my.id] = new]
      BY <2>3 DEF SetList
    <3>2. "title" \notin my.chosen => new.title = dev[my.id].title
      BY <1>1 DEF ObjectFields
    <3>3. "track" \notin my.chosen => new.track = dev[my.id].track
      BY <1>1 DEF ObjectFields
    <3> HIDE DEF new
    <3> QED
      BY <1>1, <3>1, <3>2, <3>3 DEF PassedInv
  <2>4. CASE SetRefs
    <3>1. dev' = dev \/ dev' = [dev EXCEPT ![my.id].refs = call.refs]
      BY <2>4 DEF SetRefs
    <3> QED
      BY <1>1, <3>1 DEF ObjectFields
  <2>5. CASE OneProps \/ UpdateProps \/ SetDescs
    BY <2>5 DEF OneProps, UpdateProps, SetDescs, device
  <2> QED
    BY <2>2, <2>3, <2>4, <2>5 DEF SetsProperties
<1> QED
  BY <1>1, <1>2, <1>4, <1>5 DEF PassesOver, KeepsValues

\* What is created has no number, and a title only where titles can be set; but for a
\* folder.
LEMMA SendInfoPasses ==
  ASSUME FilesInv, AskInv, PassedInv, SendInfo
  PROVE  PassesOver
<1>1. /\ scene' = scene /\ my'.chosen = my.chosen /\ pc' # "setone" /\ pc # "idle"
      /\ \/ dev' = dev /\ used' = used
         \/ \E h \in Handle \ used : \E s : used' = used \cup {h} /\ dev' = With(dev, h, Created(s))
  <2>1. scene' = scene /\ my'.chosen = my.chosen /\ pc # "idle"
    BY DEF SendInfo, FilesInv, SizesInv, CInv, Shapes, Idle
  <2>2. pc' # "setone"
    BY DEF SendInfo, Unannounced, Goto, Return, AfterInfo
  <2>3. \/ dev' = dev /\ used' = used
        \/ \E h \in Handle \ used : \E s : used' = used \cup {h} /\ dev' = With(dev, h, Created(s))
    BY DEF SendInfo
  <2> QED
    BY <2>1, <2>2, <2>3
<1>2. call.op = "folder" => call.fmt = "folder"
  <2> PICK c \in scene.calls : call = [c EXCEPT !.h = call.h]
    BY <1>1 DEF AskInv, Asking
  <2>1. c \in Request /\ Sensible(c)
    BY CallAssumption DEF FilesInv, SizesInv, CInv, Shapes
  <2>2. call.op = c.op /\ call.fmt = c.fmt
    BY <2>1 DEF Request
  <2> QED
    BY <2>1, <2>2 DEF Sensible
<1>3. ASSUME NEW s
      PROVE  /\ Created(s).track = 0
             /\ Settable("title") \/ Created(s).fmt = "folder" \/ Created(s).title = "none"
  BY <1>2 DEF Created, Named, PassedInv
<1>4. Choice
  BY <1>1 DEF PassedInv, Choice
<1>5. ASSUME NEW h \in Handle \ used, NEW s, used' = used \cup {h}, dev' = With(dev, h, Created(s))
      PROVE  PassesOver
  <2> DEFINE new == Created(s)
  <2>1. h \notin DOMAIN dev
    BY <1>5 DEF FilesInv, SizesInv, CInv, Handles
  <2>2. new.track = 0 /\ (Settable("title") \/ new.fmt = "folder" \/ new.title = "none")
    BY <1>3
  <2> HIDE DEF new
  <2>3. dev' = With(dev, h, new)
    BY <1>5 DEF new
  <2>4. dev'[h] = new /\ DOMAIN dev' = DOMAIN dev \cup {h} /\ \A g \in DOMAIN dev : dev'[g] = dev[g]
    BY <2>1, <2>3 DEF With
  <2> QED
    BY <1>1, <1>4, <1>5, <2>2, <2>4 DEF PassesOver, KeepsValues, Fresh
<1> QED
  BY <1>1, <1>5, IdlyPasses

LEMMA GettingPasses ==
  ASSUME FilesInv, PassedInv, GetTitle \/ GetList \/ GetRefs \/ SetTitle
  PROVE  PassesOver
<1>1. /\ scene' = scene /\ used' = used /\ my'.chosen = my.chosen
  BY DEF GetTitle, GetList, GetRefs, SetTitle, device, FilesInv, SizesInv, CInv, Shapes, Idle
<1>2. pc' # "setone"
  BY DEF GetTitle, GetList, GetRefs, SetTitle, Goto, Return, Answer
<1>3. dev' = dev \/ (Settable("title") /\ dev' = SetProp(call.h, "title"))
  BY DEF GetTitle, GetList, GetRefs, SetTitle, device
<1>4. ASSUME Settable("title"), dev' = SetProp(call.h, "title")
      PROVE  PassesOver
  <2>1. /\ DOMAIN dev' = DOMAIN dev
        /\ \A g \in DOMAIN dev : dev'[g] = IF g = call.h THEN [dev[g] EXCEPT !.title = call.title] ELSE dev[g]
    BY <1>4 DEF SetProp
  <2>2. \A g \in DOMAIN dev : DOMAIN dev[g] = ObjectFields
    BY DEF FilesInv, SizesInv, Sizes
  <2>3. \A g \in DOMAIN dev : dev'[g].fmt = dev[g].fmt /\ dev'[g].track = dev[g].track
    BY <2>1, <2>2 DEF ObjectFields
  <2> QED
    BY <1>1, <1>2, <1>4, <2>1, <2>3 DEF PassesOver, Choice, KeepsValues, PassedInv
<1> QED
  BY <1>1, <1>2, <1>3, <1>4, IdlyPasses

LEMMA SendingPasses ==
  ASSUME FilesInv, PassedInv,
         Suggest \/ Fit \/ Place \/ PlaceList \/ Props \/ Descs \/ OpenFile \/ SendData \/ SendFromHandler
  PROVE  PassesOver
<1>1. scene' = scene /\ used' = used /\ DOMAIN my = DOMAIN Idle
  BY DEF Suggest, Fit, Place, PlaceList, Props, Descs, OpenFile, SendData, SendFromHandler, device, FilesInv, SizesInv,
     CInv, Shapes
<1>2. pc' # "setone"
  <2>1. CASE Suggest \/ Fit \/ Place \/ Props \/ Descs
    BY <2>1 DEF Suggest, Fit, Place, Props, Descs, WantProps, Goto
  <2>2. CASE PlaceList \/ OpenFile
    BY <2>2 DEF PlaceList, OpenFile, Stores, Goto, Return
  <2>3. CASE SendData \/ SendFromHandler
    BY <2>3 DEF SendData, SendFromHandler, Sent, Refused, Unsent, Goto, Return
  <2> QED
    BY <2>1, <2>2, <2>3
<1>3. \A p \in my'.chosen : Settable(p)
  <2>1. CASE Suggest \/ Fit \/ Place
    <3>1. my'.chosen = my.chosen
      BY <1>1, <2>1 DEF Suggest, Fit, Place, WantProps, Idle
    <3> QED
      BY <3>1 DEF PassedInv
  <2>2. CASE PlaceList \/ OpenFile \/ SendData \/ SendFromHandler
    BY <2>2 DEF PlaceList, OpenFile, SendData, SendFromHandler, PassedInv
  <2>3. CASE Props
    BY <1>1, <2>3 DEF Props, Idle
  <2>4. CASE Descs
    <3>1. ASSUME NEW p, my' = [my EXCEPT !.todo = @ \ {p},
                                         !.chosen = IF Settable(p) /\ New(p) THEN @ \cup {p} ELSE @]
          PROVE  \A q \in my'.chosen : q \in my.chosen \/ Settable(q)
      BY <1>1, <3>1 DEF Idle
    <3>2. ASSUME NEW p, my' = [my EXCEPT !.todo = @ \ {p}] PROVE my'.chosen = my.chosen
      BY <1>1, <3>2 DEF Idle
    <3>3. \A q \in my'.chosen : q \in my.chosen \/ Settable(q)
      BY <2>4, <3>1, <3>2 DEF Descs
    <3> QED
      BY <3>3 DEF PassedInv
  <2> QED
    BY <2>1, <2>2, <2>3, <2>4
<1>4. dev' = dev \/ dev' = Without(dev, my.id)
  BY DEF Suggest, Fit, Place, PlaceList, Props, Descs, OpenFile, SendData, SendFromHandler, Sent, Refused, Unsent, device
<1> QED
  BY <1>1, <1>2, <1>3, <1>4 DEF PassesOver, Choice, KeepsValues, Without

LEMMA EveryStepPasses ==
  ASSUME FilesInv, AskInv, PassedInv, [Everything]_EveryVar
  PROVE  PassedInv'
<1>1. CASE UNCHANGED EveryVar
  BY <1>1, PassedStays DEF EveryVar, AllVars, vars, device, PassedInv, PassesOver, Choice, KeepsValues
<1>2. CASE Call
  <2>1. UNCHANGED <<scene, dev, used>> /\ my'.chosen = {} /\ my'.todo = {}
    BY <1>2 DEF Call, device, Idle
  <2> QED
    BY <2>1, PassedStays DEF PassesOver, Choice, KeepsValues
<1>3. CASE Next /\ ~Call
  <2>1. CASE Updated \/ AddInfo \/ AddProps \/ Reread \/ RereadProps
    <3>1. UNCHANGED <<scene, dev, used>> /\ my'.chosen = my.chosen
      BY <2>1 DEF Updated, AddInfo, AddProps, Reread, RereadProps, WantProps, device, FilesInv, SizesInv, CInv, Shapes, Idle
    <3>2. pc' # "setone"
      BY <2>1 DEF Updated, AddInfo, AddProps, Reread, RereadProps, WantProps, Goto, Return, Added
    <3> QED
      BY <3>1, <3>2, IdlyPasses, PassedStays
  <2>2. CASE StorageIds \/ StorageInfo
    <3>1. UNCHANGED <<scene, dev, used>> /\ my'.chosen = my.chosen
      BY <2>2 DEF StorageIds, StorageInfo, device, FilesInv, SizesInv, CInv, Shapes, Idle
    <3>2. pc' # "setone"
      BY <2>2 DEF StorageIds, StorageInfo, Goto, Return
    <3> QED
      BY <3>1, <3>2, IdlyPasses, PassedStays
  <2> QED
    BY <1>3, <2>1, <2>2, SendingPasses, SendInfoPasses, SettingPasses, GettingPasses, PassedStays DEF Next, SetsProperties
<1>4. CASE Reads
  <2>1. UNCHANGED <<device, my>> /\ pc' # "setone"
    BY <1>4, ReadingKeeps DEF FilesInv, SizesInv, Looking
  <2> QED
    BY <2>1, IdlyPasses, PassedStays DEF device
<1>5. CASE Partial \/ GetFile \/ GetToHandler \/ Edit \/ EndEdit
  <2>1. UNCHANGED <<scene, used, my>> /\ DOMAIN dev' = DOMAIN dev /\ pc' # "setone"
    BY <1>5, FilesKeep DEF FilesInv, SizesInv
  <2>2. dev' = dev \/ \E h, size : dev' = [dev EXCEPT ![h].size = size]
    BY <1>5 DEF Partial, GetFile, GetToHandler, Edit, EndEdit, Changes, device
  <2>3. ASSUME NEW h, NEW size, dev' = [dev EXCEPT ![h].size = size], NEW g \in DOMAIN dev
        PROVE  dev'[g].fmt = dev[g].fmt /\ dev'[g].title = dev[g].title /\ dev'[g].track = dev[g].track
    <3>1. dev'[g] = IF g = h THEN [dev[g] EXCEPT !.size = size] ELSE dev[g]
      BY <2>3
    <3>2. DOMAIN dev[g] = ObjectFields
      BY DEF FilesInv, SizesInv, Sizes
    <3> QED
      BY <3>1, <3>2 DEF ObjectFields
  <2>4. \A g \in DOMAIN dev' : g \in DOMAIN dev /\ KeepsValues(g)
    BY <2>1, <2>2, <2>3 DEF KeepsValues
  <2> QED
    BY <2>1, <2>4, PassedStays DEF PassesOver, Choice, PassedInv
<1> QED
  BY <1>1, <1>2, <1>3, <1>4, <1>5 DEF Everything, Elsewhere, AnyCall

LEMMA BegunHoldsPassed == Begun => PassedInv
<1> SUFFICES ASSUME Begun PROVE PassedInv
  OBVIOUS
<1>1. dev = scene.objects /\ used = DOMAIN scene.objects /\ pc = "idle" /\ my.chosen = {}
  BY DEF Begun, Init, Idle
<1>2. \A h \in DOMAIN dev : AtFirst(h).title = dev[h].title /\ AtFirst(h).track = dev[h].track
  BY <1>1 DEF AtFirst, PropsOf
<1>3. LeftAlone
  BY <1>2 DEF LeftAlone, Untouched
<1> QED
  BY <1>1, <1>3 DEF PassedInv

\* AsAsked always holds: what a call that succeeded was asked for is on the device, the
\* value of each property that the device lists and lets be set but for those whose
\* failure is on the error stack; every other property is as it was, of which the call
\* says nothing (and nothing is said of object 0, see AsAsked); where names are to be
\* unique, no object the cache knew had the name when it was created; the place is where
\* the call says it is; what is read is what the device has; and a call that fails says
\* why.
THEOREM CallsDoAsAsked == Device => []AsAsked
<1>1. Device => [](FilesInv /\ AskInv /\ PassedInv)
  <2>1. Begun => FilesInv /\ AskInv /\ PassedInv
    BY BegunHoldsFiles, BegunHoldsAsk, BegunHoldsPassed
  <2>2. FilesInv /\ AskInv /\ PassedInv /\ [Everything]_EveryVar => (FilesInv /\ AskInv /\ PassedInv)'
    BY EveryStepKeepsFiles, EveryStepAsks, EveryStepPasses
  <2> QED
    BY <2>1, <2>2, PTL DEF Device
<1>2. FilesInv /\ AskInv /\ PassedInv => AsAsked
  BY DEF AskInv, PassedInv, AsAsked
<1> QED
  BY <1>1, <1>2, PTL

-----------------------------------------------------------------------------
\* Every set of numbers that has a member has a least one.
LEMMA Smallest ==
  ASSUME NEW T \in SUBSET Nat, T # {}
  PROVE  \E n \in T : \A m \in T : n <= m
<1> DEFINE less == {ss \in Nat \X Nat : ss[1] < ss[2]}
<1>1. IsWellFoundedOn(less, Nat)
  BY NatLessThanWellFounded DEF OpToRel
<1> HIDE DEF less
<1>2. PICK n \in T : \A m \in T : ~(<< m, n >> \in less)
  BY <1>1, WFMin
<1>3. ASSUME NEW m \in T PROVE n <= m
  <2>1. << m, n >> \in Nat \X Nat /\ ~(<< m, n >> \in less)
    BY <1>2
  <2>2. ~(m < n)
    BY <2>1 DEF less
  <2> QED
    BY <2>2
<1> QED
  BY <1>3

\* What holds of 0, and of n + 1 if it holds of n and n < m, holds up to m.
LEMMA UpTo ==
  ASSUME NEW m \in Nat, NEW T, 0 \in T, \A n \in 0 .. m - 1 : n \in T => n + 1 \in T
  PROVE  0 .. m \subseteq T
<1> SUFFICES ASSUME {n \in 0 .. m : n \notin T} # {} PROVE FALSE
  OBVIOUS
<1>1. PICK n \in {k \in 0 .. m : k \notin T} : \A k \in {k \in 0 .. m : k \notin T} : n <= k
  <2>1. {n \in 0 .. m : n \notin T} \in SUBSET Nat
    OBVIOUS
  <2> QED
    BY <2>1, Smallest
<1>2. n \in 1 .. m /\ n - 1 \in 0 .. m - 1
  BY <1>1
<1>3. n - 1 \in T
  BY <1>1, <1>2
<1> QED
  BY <1>1, <1>2, <1>3

-----------------------------------------------------------------------------
\* What the recursive functions of Storage are.
LEMMA AheadIs ==
  ASSUME NEW lst, NEW node
  PROVE  Ahead(lst, node) = [n \in 0 .. 9 |-> IF n = 0 THEN node ELSE LET s == Ahead(lst, node)[n - 1] IN IF s = Null THEN Null ELSE lst.nxt[s]]
<1> DEFINE On(s) == IF s = Null THEN Null ELSE lst.nxt[s]
           Is(W, m) == W = [n \in 0 .. m |-> IF n = 0 THEN node ELSE On(W[n - 1])]
           T == {m \in 0 .. 9 : \E W : Is(W, m)}
<1>1. 0 \in T
  <2>1. Is([n \in 0 .. 0 |-> node], 0)
    OBVIOUS
  <2> HIDE DEF Is
  <2> QED
    BY <2>1
<1>2. ASSUME NEW m \in 0 .. 9 - 1, m \in T PROVE m + 1 \in T
  <2>1. PICK W : Is(W, m)
    BY <1>2
  <2> DEFINE V == [n \in 0 .. m + 1 |-> IF n = 0 THEN node ELSE On(W[n - 1])]
  <2> HIDE DEF On
  <2>2. \A n \in 0 .. m : V[n] = W[n]
    BY <2>1
  <2>3. \A n \in 0 .. m + 1 :
          (IF n = 0 THEN node ELSE On(W[n - 1])) = IF n = 0 THEN node ELSE On(V[n - 1])
    <3> HIDE DEF V
    <3>1. \A n \in 0 .. m + 1 : n = 0 \/ n - 1 \in 0 .. m
      OBVIOUS
    <3> QED
      BY <2>2, <3>1
  <2>4. V = [n \in 0 .. m + 1 |-> IF n = 0 THEN node ELSE On(V[n - 1])]
    BY <2>3
  <2>5. Is(V, m + 1)
    BY <2>4
  <2>6. m + 1 \in 0 .. 9
    OBVIOUS
  <2> HIDE DEF V, Is
  <2> QED
    BY <2>5, <2>6
<1>3. 9 \in T
  <2> HIDE DEF T
  <2>1. 0 .. 9 \subseteq T
    BY <1>1, <1>2, UpTo
  <2> QED
    BY <2>1
<1>4. PICK W : Is(W, 9)
  BY <1>3
<1> QED
  BY <1>4 DEF Ahead

LEMMA BehindIs ==
  ASSUME NEW lst, NEW node
  PROVE  Behind(lst, node) = [n \in 0 .. 9 |-> IF n = 0 THEN node ELSE LET s == Behind(lst, node)[n - 1] IN IF lst.prv[s] = Null THEN s ELSE lst.prv[s]]
<1> DEFINE On(s) == IF lst.prv[s] = Null THEN s ELSE lst.prv[s]
           Is(W, m) == W = [n \in 0 .. m |-> IF n = 0 THEN node ELSE On(W[n - 1])]
           T == {m \in 0 .. 9 : \E W : Is(W, m)}
<1>1. 0 \in T
  <2>1. Is([n \in 0 .. 0 |-> node], 0)
    OBVIOUS
  <2> HIDE DEF Is
  <2> QED
    BY <2>1
<1>2. ASSUME NEW m \in 0 .. 9 - 1, m \in T PROVE m + 1 \in T
  <2>1. PICK W : Is(W, m)
    BY <1>2
  <2> DEFINE V == [n \in 0 .. m + 1 |-> IF n = 0 THEN node ELSE On(W[n - 1])]
  <2> HIDE DEF On
  <2>2. \A n \in 0 .. m : V[n] = W[n]
    BY <2>1
  <2>3. \A n \in 0 .. m + 1 :
          (IF n = 0 THEN node ELSE On(W[n - 1])) = IF n = 0 THEN node ELSE On(V[n - 1])
    <3> HIDE DEF V
    <3>1. \A n \in 0 .. m + 1 : n = 0 \/ n - 1 \in 0 .. m
      OBVIOUS
    <3> QED
      BY <2>2, <3>1
  <2>4. V = [n \in 0 .. m + 1 |-> IF n = 0 THEN node ELSE On(V[n - 1])]
    BY <2>3
  <2>5. Is(V, m + 1)
    BY <2>4
  <2>6. m + 1 \in 0 .. 9
    OBVIOUS
  <2> HIDE DEF V, Is
  <2> QED
    BY <2>5, <2>6
<1>3. 9 \in T
  <2> HIDE DEF T
  <2>1. 0 .. 9 \subseteq T
    BY <1>1, <1>2, UpTo
  <2> QED
    BY <2>1
<1>4. PICK W : Is(W, 9)
  BY <1>3
<1> QED
  BY <1>4 DEF Behind

LEMMA TurnsIs ==
  ASSUME NEW lst, NEW key
  PROVE  Turns(lst, key) = [n \in 0 .. 9 |-> IF n = 0 THEN [list |-> lst, oldhead |-> lst.head, newlist |-> Null] ELSE Taken(Turns(lst, key)[n - 1], key)]
<1> DEFINE On(s) == Taken(s, key)
           Is(W, m) == W = [n \in 0 .. m |-> IF n = 0 THEN [list |-> lst, oldhead |-> lst.head, newlist |-> Null] ELSE On(W[n - 1])]
           T == {m \in 0 .. 9 : \E W : Is(W, m)}
<1>1. 0 \in T
  <2>1. Is([n \in 0 .. 0 |-> [list |-> lst, oldhead |-> lst.head, newlist |-> Null]], 0)
    OBVIOUS
  <2> HIDE DEF Is
  <2> QED
    BY <2>1
<1>2. ASSUME NEW m \in 0 .. 9 - 1, m \in T PROVE m + 1 \in T
  <2>1. PICK W : Is(W, m)
    BY <1>2
  <2> DEFINE V == [n \in 0 .. m + 1 |-> IF n = 0 THEN [list |-> lst, oldhead |-> lst.head, newlist |-> Null] ELSE On(W[n - 1])]
  <2> HIDE DEF On
  <2>2. \A n \in 0 .. m : V[n] = W[n]
    BY <2>1
  <2>3. \A n \in 0 .. m + 1 :
          (IF n = 0 THEN [list |-> lst, oldhead |-> lst.head, newlist |-> Null] ELSE On(W[n - 1])) = IF n = 0 THEN [list |-> lst, oldhead |-> lst.head, newlist |-> Null] ELSE On(V[n - 1])
    <3> HIDE DEF V
    <3>1. \A n \in 0 .. m + 1 : n = 0 \/ n - 1 \in 0 .. m
      OBVIOUS
    <3> QED
      BY <2>2, <3>1
  <2>4. V = [n \in 0 .. m + 1 |-> IF n = 0 THEN [list |-> lst, oldhead |-> lst.head, newlist |-> Null] ELSE On(V[n - 1])]
    BY <2>3
  <2>5. Is(V, m + 1)
    BY <2>4
  <2>6. m + 1 \in 0 .. 9
    OBVIOUS
  <2> HIDE DEF V, Is
  <2> QED
    BY <2>5, <2>6
<1>3. 9 \in T
  <2> HIDE DEF T
  <2>1. 0 .. 9 \subseteq T
    BY <1>1, <1>2, UpTo
  <2> QED
    BY <2>1
<1>4. PICK W : Is(W, 9)
  BY <1>3
<1> QED
  BY <1>4 DEF Turns

LEMMA FilledIs ==
  ASSUME NEW order, Len(order) \in Nat
  PROVE  Filled(order) = [n \in 0 .. Len(order) |-> IF n = 0 THEN Emptied ELSE Append1(Filled(order)[n - 1], order[n])]
<1> DEFINE On(n, s) == Append1(s, order[n])
           Is(W, m) == W = [n \in 0 .. m |-> IF n = 0 THEN Emptied ELSE On(n, W[n - 1])]
           T == {m \in 0 .. Len(order) : \E W : Is(W, m)}
<1>1. 0 \in T
  <2>1. Is([n \in 0 .. 0 |-> Emptied], 0)
    OBVIOUS
  <2> HIDE DEF Is
  <2> QED
    BY <2>1
<1>2. ASSUME NEW m \in 0 .. Len(order) - 1, m \in T PROVE m + 1 \in T
  <2>1. PICK W : Is(W, m)
    BY <1>2
  <2> DEFINE V == [n \in 0 .. m + 1 |-> IF n = 0 THEN Emptied ELSE On(n, W[n - 1])]
  <2> HIDE DEF On
  <2>2. \A n \in 0 .. m : V[n] = W[n]
    BY <2>1
  <2>3. \A n \in 0 .. m + 1 :
          (IF n = 0 THEN Emptied ELSE On(n, W[n - 1])) = IF n = 0 THEN Emptied ELSE On(n, V[n - 1])
    <3> HIDE DEF V
    <3>1. \A n \in 0 .. m + 1 : n = 0 \/ n - 1 \in 0 .. m
      OBVIOUS
    <3> QED
      BY <2>2, <3>1
  <2>4. V = [n \in 0 .. m + 1 |-> IF n = 0 THEN Emptied ELSE On(n, V[n - 1])]
    BY <2>3
  <2>5. Is(V, m + 1)
    BY <2>4
  <2>6. m + 1 \in 0 .. Len(order)
    OBVIOUS
  <2> HIDE DEF V, Is
  <2> QED
    BY <2>5, <2>6
<1>3. Len(order) \in T
  <2> HIDE DEF T
  <2>1. 0 .. Len(order) \subseteq T
    BY <1>1, <1>2, UpTo
  <2> QED
    BY <2>1
<1>4. PICK W : Is(W, Len(order))
  BY <1>3
<1> QED
  BY <1>4 DEF Filled

-----------------------------------------------------------------------------
\* The storages in a list, one after the other: w.  The links back lead from each
\* to the one before, the links on to the one behind, and from the last to none.
Node == Store \cup {Null}
Lists1 == [head : Node, last : Node, nxt : [Store -> Node], prv : [Store -> Node]]
Once(w) == w \in Seq(Store) /\ \A i, j \in 1 .. Len(w) : w[i] = w[j] => i = j
Backward(lst, w) == \A i \in 1 .. Len(w) : lst.prv[w[i]] = IF i = 1 THEN Null ELSE w[i - 1]
Forward(lst, w) == \A i \in 1 .. Len(w) - 1 : lst.nxt[w[i]] = w[i + 1]
Closed(lst, w) == w # << >> => lst.nxt[w[Len(w)]] = Null
First1(w) == IF w = << >> THEN Null ELSE w[1]
Last1(w) == IF w = << >> THEN Null ELSE w[Len(w)]
Chained(lst, w) ==
  /\ lst \in Lists1 /\ Once(w) /\ Backward(lst, w) /\ Forward(lst, w) /\ Closed(lst, w)
  /\ lst.head = First1(w) /\ lst.last = Last1(w)

LEMMA NullIsNone == Null \notin Store
BY StoreAssumption DEF Null

\* There are no more than nine.
LEMMA Few ==
  ASSUME NEW w, Once(w)
  PROVE  Len(w) \in 0 .. 9
<1>1. Len(w) \in Nat /\ w \in [1 .. Len(w) -> Store]
  BY DEF Once
<1>2. w \in Injection(1 .. Len(w), 1 .. 9)
  BY <1>1, StoreAssumption DEF Injection, IsInjective, Once
<1>3. /\ IsFiniteSet(1 .. Len(w)) /\ Cardinality(1 .. Len(w)) = Len(w)
      /\ IsFiniteSet(1 .. 9) /\ Cardinality(1 .. 9) = 9
  <2>1. IsFiniteSet(1 .. Len(w)) /\ Cardinality(1 .. Len(w)) = IF 1 > Len(w) THEN 0 ELSE Len(w) - 1 + 1
    BY <1>1, FS_Interval
  <2>2. IsFiniteSet(1 .. 9) /\ Cardinality(1 .. 9) = IF 1 > 9 THEN 0 ELSE 9 - 1 + 1
    <3>1. 1 \in Int /\ 9 \in Int
      OBVIOUS
    <3> QED
      BY <3>1, FS_Interval
  <2> QED
    BY <1>1, <2>1, <2>2
<1>4. Cardinality(1 .. Len(w)) <= Cardinality(1 .. 9)
  BY <1>2, <1>3, FS_Injection
<1>5. Len(w) <= 9
  BY <1>3, <1>4
<1>6. PICK l : l = Len(w)
  OBVIOUS
<1>7. l \in Nat /\ l <= 9
  BY <1>1, <1>5, <1>6
<1>8. l \in 0 .. 9
  BY <1>7
<1> QED
  BY <1>6, <1>8

\* How many numbers are below one.
LEMMA CountFromZero ==
  ASSUME NEW k \in 0 .. 9
  PROVE  Cardinality(0 .. k - 1) = k
<1>1. 0 \in Int /\ k - 1 \in Int /\ k \in Int
  OBVIOUS
<1>2. Cardinality(0 .. k - 1) = IF 0 > k - 1 THEN 0 ELSE (k - 1) - 0 + 1
  BY <1>1, FS_Interval
<1>3. (IF 0 > k - 1 THEN 0 ELSE (k - 1) - 0 + 1) = k
  OBVIOUS
<1> QED
  BY <1>2, <1>3

\* From the first of them on, From finds them all.
LEMMA FromFinds ==
  ASSUME NEW lst, NEW w, Once(w), Forward(lst, w), Closed(lst, w)
  PROVE  From(lst, First1(w)) = w
<1> DEFINE node == First1(w)
           walk == Ahead(lst, node)
           T == {n \in 0 .. 9 : walk[n] = IF n < Len(w) THEN w[n + 1] ELSE Null}
<1>1. Len(w) \in 0 .. 9 /\ w \in [1 .. Len(w) -> Store]
  BY Few DEF Once
<1>2. walk = [n \in 0 .. 9 |-> IF n = 0 THEN node
                ELSE LET s == walk[n - 1] IN IF s = Null THEN Null ELSE lst.nxt[s]]
  BY AheadIs
<1>3. 0 \in T
  <2>1. walk[0] = node
    BY <1>2
  <2>2. w = << >> <=> Len(w) = 0
    BY DEF Once
  <2> QED
    BY <1>1, <2>1, <2>2 DEF First1
<1>4. ASSUME NEW n \in 0 .. 9 - 1, n \in T PROVE n + 1 \in T
  <2>1. walk[n + 1] = IF walk[n] = Null THEN Null ELSE lst.nxt[walk[n]]
    <3> HIDE DEF walk
    <3>1. n + 1 \in 0 .. 9 /\ n + 1 # 0 /\ (n + 1) - 1 = n
      OBVIOUS
    <3> QED
      BY <1>2, <3>1
  <2> HIDE DEF walk
  <2>2. CASE n >= Len(w)
    BY <1>1, <1>4, <2>1, <2>2
  <2>3. CASE n < Len(w)
    <3>1. n + 1 \in 1 .. Len(w) /\ walk[n] = w[n + 1] /\ w[n + 1] # Null
      BY <1>1, <1>4, <2>3, NullIsNone
    <3>2. CASE n + 1 = Len(w)
      <4>1. lst.nxt[w[n + 1]] = Null
        BY <1>1, <3>2, <2>3 DEF Closed
      <4> QED
        BY <1>1, <2>1, <3>1, <3>2, <4>1
    <3>3. CASE n + 1 < Len(w)
      <4>1. lst.nxt[w[n + 1]] = w[(n + 1) + 1]
        BY <1>1, <3>3 DEF Forward
      <4> QED
        BY <1>1, <2>1, <3>1, <3>3, <4>1
    <3>4. n + 1 = Len(w) \/ n + 1 < Len(w)
      <4>1. Len(w) \in Int /\ n \in Int
        BY <1>1
      <4> QED
        BY <2>3, <4>1
    <3> QED
      BY <3>2, <3>3, <3>4
  <2> QED
    BY <1>1, <2>2, <2>3
<1>5. \A n \in 0 .. 9 : walk[n] = IF n < Len(w) THEN w[n + 1] ELSE Null
  <2>1. 0 .. 9 \subseteq T
    <3> HIDE DEF T
    <3> QED
      BY <1>3, <1>4, UpTo
  <2> QED
    BY <2>1
<1> HIDE DEF walk
<1>6. {n \in 0 .. 9 : walk[n] # Null} = 0 .. Len(w) - 1
  <2>1. \A n \in 0 .. 9 : walk[n] # Null <=> n \in 0 .. Len(w) - 1
    <3>1. ASSUME NEW n \in 0 .. 9 PROVE walk[n] # Null <=> n < Len(w)
      <4>1. n < Len(w) => n + 1 \in 1 .. Len(w)
        BY <1>1
      <4>2. n < Len(w) => w[n + 1] \in Store
        BY <1>1, <4>1
      <4> QED
        BY <1>5, <4>2, NullIsNone
    <3> QED
      BY <1>1, <3>1
  <2>2. 0 .. Len(w) - 1 \subseteq 0 .. 9
    BY <1>1
  <2> QED
    BY <2>1, <2>2
<1>7. Cardinality(0 .. Len(w) - 1) = Len(w)
  BY <1>1, CountFromZero
<1>8. From(lst, node) = [i \in 1 .. Len(w) |-> walk[i - 1]]
  BY <1>6, <1>7 DEF From, walk
<1>9. \A i \in 1 .. Len(w) : walk[i - 1] = w[i]
  <2>1. \A i \in 1 .. Len(w) : i - 1 \in 0 .. 9 /\ i - 1 < Len(w) /\ (i - 1) + 1 = i
    BY <1>1
  <2> QED
    BY <1>5, <2>1
<1> QED
  BY <1>1, <1>8, <1>9

\* From the last of them back, Behind comes to the first.
LEMMA CountDown ==
  ASSUME NEW k \in 1 .. 9, NEW n \in 0 .. 8, n + 1 < k
  PROVE  /\ n < k /\ k - n \in 1 .. k /\ k - n # 1 /\ (k - n) - 1 = k - (n + 1)
         /\ k - (n + 1) \in 1 .. k /\ n + 1 \in 0 .. 9
OBVIOUS

LEMMA CountedDown ==
  ASSUME NEW k \in 1 .. 9, NEW n \in 0 .. 8, ~(n + 1 < k)
  PROVE  1 \in 1 .. k /\ n + 1 \in 0 .. 9 /\ (IF n < k THEN k - n ELSE 1) = 1
OBVIOUS

LEMMA BehindFinds ==
  ASSUME NEW lst, NEW w, Once(w), w # << >>, Backward(lst, w)
  PROVE  Behind(lst, w[Len(w)])[9] = w[1]
<1> DEFINE back == Behind(lst, w[Len(w)])
           T == {n \in 0 .. 9 : back[n] = w[IF n < Len(w) THEN Len(w) - n ELSE 1]}
<1>1. Len(w) \in 1 .. 9 /\ w \in [1 .. Len(w) -> Store]
  BY Few DEF Once
<1>2. back = [n \in 0 .. 9 |-> IF n = 0 THEN w[Len(w)]
                ELSE LET s == back[n - 1] IN IF lst.prv[s] = Null THEN s ELSE lst.prv[s]]
  BY BehindIs
<1>3. 0 \in T
  <2> HIDE DEF back
  <2>1. 0 \in 0 .. 9 /\ 0 < Len(w) /\ Len(w) - 0 = Len(w)
    BY <1>1
  <2>2. back[0] = w[Len(w)]
    BY <1>2, <2>1
  <2> QED
    BY <2>1, <2>2
<1>4. ASSUME NEW n \in 0 .. 9 - 1, n \in T PROVE n + 1 \in T
  <2>1. back[n + 1] = IF lst.prv[back[n]] = Null THEN back[n] ELSE lst.prv[back[n]]
    <3> HIDE DEF back
    <3>1. n + 1 \in 0 .. 9 /\ n + 1 # 0 /\ (n + 1) - 1 = n
      OBVIOUS
    <3> QED
      BY <1>2, <3>1
  <2> HIDE DEF back
  <2>2. \A i \in 1 .. Len(w) : lst.prv[w[i]] = IF i = 1 THEN Null ELSE w[i - 1]
    BY DEF Backward
  <2>3. \A i \in 1 .. Len(w) : w[i] # Null
    BY <1>1, NullIsNone
  <2>4. CASE n + 1 < Len(w)
    <3>1. /\ n < Len(w) /\ Len(w) - n \in 1 .. Len(w) /\ Len(w) - n # 1 /\ (Len(w) - n) - 1 = Len(w) - (n + 1)
          /\ Len(w) - (n + 1) \in 1 .. Len(w) /\ n + 1 \in 0 .. 9
      <4>1. n \in 0 .. 8
        OBVIOUS
      <4> QED
        BY <1>1, <2>4, <4>1, CountDown
    <3>2. back[n] = w[Len(w) - n]
      BY <1>4, <3>1
    <3>3. lst.prv[back[n]] = w[Len(w) - (n + 1)] /\ w[Len(w) - (n + 1)] # Null
      BY <2>2, <2>3, <3>1, <3>2
    <3>4. back[n + 1] = w[Len(w) - (n + 1)]
      BY <2>1, <3>3
    <3> QED
      BY <2>4, <3>1, <3>4
  <2>5. CASE ~(n + 1 < Len(w))
    <3>1. 1 \in 1 .. Len(w) /\ n + 1 \in 0 .. 9 /\ (IF n < Len(w) THEN Len(w) - n ELSE 1) = 1
      <4>1. n \in 0 .. 8
        OBVIOUS
      <4> QED
        BY <1>1, <2>5, <4>1, CountedDown
    <3>2. back[n] = w[1]
      BY <1>4, <3>1
    <3>3. lst.prv[back[n]] = Null
      BY <2>2, <3>1, <3>2
    <3>4. back[n + 1] = w[1]
      BY <2>1, <3>2, <3>3
    <3> QED
      BY <2>5, <3>1, <3>4
  <2> QED
    BY <2>4, <2>5
<1>5. 9 \in T
  <2>1. 0 .. 9 \subseteq T
    <3> HIDE DEF T
    <3> QED
      BY <1>3, <1>4, UpTo
  <2> QED
    BY <2>1
<1> QED
  <2> HIDE DEF back
  <2>1. (IF 9 < Len(w) THEN Len(w) - 9 ELSE 1) = 1
    BY <1>1
  <2>2. back[9] = w[IF 9 < Len(w) THEN Len(w) - 9 ELSE 1]
    BY <1>5
  <2>3. back[9] = w[1]
    BY <2>1, <2>2
  <2> QED
    BY <2>3 DEF back

-----------------------------------------------------------------------------
\* LIBMTP_Get_Storage puts one behind the other.
LEMMA AppendChains ==
  ASSUME NEW lst, NEW w, Chained(lst, w), NEW s \in Store, \A i \in 1 .. Len(w) : w[i] # s
  PROVE  Chained(Append1(lst, s), Append(w, s))
<1> DEFINE m == Append1(lst, s)
           v == Append(w, s)
<1>1. /\ Len(w) \in Nat /\ w \in [1 .. Len(w) -> Store] /\ w \in Seq(Store)
      /\ w = << >> <=> Len(w) = 0
  BY DEF Chained, Once
<1>2. /\ v \in Seq(Store) /\ Len(v) = Len(w) + 1 /\ v # << >>
      /\ \A i \in 1 .. Len(w) : v[i] = w[i]
      /\ v[Len(w) + 1] = s
  <2>1. w \in Seq(Store)
    BY <1>1
  <2>2. v \in Seq(Store) /\ Len(v) = Len(w) + 1
    BY <2>1
  <2>3. /\ \A i \in 1 .. Len(w) : v[i] = w[i]
        /\ v[Len(w) + 1] = s
    BY <2>1
  <2>4. v # << >>
    <3>1. Len(v) # 0
      BY <1>1, <2>2
    <3> QED
      BY <3>1
  <2> QED
    BY <2>2, <2>3, <2>4
<1>3. /\ lst \in Lists1 /\ lst.head = First1(w) /\ lst.last = Last1(w)
      /\ lst.nxt \in [Store -> Node] /\ lst.prv \in [Store -> Node] /\ lst.head \in Node /\ lst.last \in Node
  BY DEF Chained, Lists1
<1>4. /\ m.head = IF lst.head = Null THEN s ELSE lst.head
      /\ m.last = s
      /\ m.nxt = [t \in Store |-> IF t = lst.last THEN s ELSE IF t = s THEN Null ELSE lst.nxt[t]]
      /\ m.prv = [t \in Store |-> IF t = s THEN lst.last ELSE lst.prv[t]]
      /\ m \in Lists1
  <2>1. [lst.prv EXCEPT ![s] = lst.last] = [t \in Store |-> IF t = s THEN lst.last ELSE lst.prv[t]]
    BY <1>3
  <2> QED
    BY <1>3, <2>1 DEF Append1, Lists1, Node
<1> HIDE DEF m, v
<1>5. \A i \in 1 .. Len(v) : i \in 1 .. Len(w) \/ i = Len(w) + 1
  BY <1>1, <1>2
<1>6. \A i \in 1 .. Len(w) : w[i] \in Store /\ w[i] # s
  BY <1>1
<1>7. Once(v)
  <2>1. \A i, j \in 1 .. Len(w) : w[i] = w[j] => i = j
    BY DEF Chained, Once
  <2> QED
    BY <1>2, <1>5, <1>6, <2>1 DEF Once
<1>8. Backward(m, v)
  <2>1. \A i \in 1 .. Len(w) : m.prv[w[i]] = IF i = 1 THEN Null ELSE w[i - 1]
    BY <1>4, <1>6 DEF Chained, Backward
  <2>2. \A i \in 1 .. Len(w) : i = 1 \/ i - 1 \in 1 .. Len(w)
    BY <1>1
  <2>3. m.prv[s] = IF Len(w) + 1 = 1 THEN Null ELSE v[(Len(w) + 1) - 1]
    BY <1>1, <1>2, <1>3, <1>4 DEF Last1
  <2>4. \A i \in 1 .. Len(w) : m.prv[v[i]] = IF i = 1 THEN Null ELSE v[i - 1]
    BY <1>2, <2>1, <2>2
  <2> QED
    BY <1>2, <1>5, <2>3, <2>4 DEF Backward
<1>9. Forward(m, v)
  <2> SUFFICES ASSUME NEW i \in 1 .. Len(v) - 1 PROVE m.nxt[v[i]] = v[i + 1]
    BY DEF Forward
  <2>1. i \in 1 .. Len(w) /\ v[i] = w[i] /\ w[i] \in Store /\ w[i] # s
    BY <1>1, <1>2, <1>6
  <2>2. CASE i = Len(w)
    BY <1>1, <1>2, <1>3, <1>4, <2>1, <2>2 DEF Last1
  <2>3. CASE i # Len(w)
    <3>1. i \in 1 .. Len(w) - 1 /\ i + 1 \in 1 .. Len(w) /\ Len(w) \in 1 .. Len(w)
      BY <1>1, <2>1, <2>3
    <3>2. w[i] # w[Len(w)]
      BY <2>3, <3>1, <2>1 DEF Chained, Once
    <3>3. lst.last = w[Len(w)]
      BY <1>1, <1>3, <2>1 DEF Last1
    <3>4. m.nxt[w[i]] = lst.nxt[w[i]]
      BY <1>4, <2>1, <3>2, <3>3
    <3>5. lst.nxt[w[i]] = w[i + 1]
      BY <3>1 DEF Chained, Forward
    <3> QED
      BY <1>2, <2>1, <3>1, <3>4, <3>5
  <2> QED
    BY <2>2, <2>3
<1>10. Closed(m, v)
  <2>1. lst.last # s
    BY <1>1, <1>3, <1>6, NullIsNone DEF Last1
  <2> QED
    BY <1>2, <1>4, <2>1 DEF Closed
<1>11. m.head = First1(v) /\ m.last = Last1(v)
  <2>1. CASE Len(w) = 0
    BY <1>1, <1>2, <1>3, <1>4, <2>1 DEF First1, Last1
  <2>2. CASE Len(w) # 0
    <3>1. 1 \in 1 .. Len(w)
      BY <1>1, <2>2
    <3>2. lst.head = w[1] /\ w[1] # Null /\ v[1] = w[1]
      BY <1>1, <1>2, <1>3, <1>6, <2>2, <3>1, NullIsNone DEF First1
    <3> QED
      BY <1>2, <1>4, <3>2 DEF First1, Last1
  <2> QED
    BY <2>1, <2>2
<1> QED
  BY <1>4, <1>7, <1>8, <1>9, <1>10, <1>11 DEF Chained, m, v

\* The first so many of a sequence.
Firsts(w, n) == [i \in 1 .. n |-> w[i]]
LEMMA FirstsOnce ==
  ASSUME NEW w, Once(w), NEW n \in 0 .. Len(w)
  PROVE  /\ Once(Firsts(w, n)) /\ Len(Firsts(w, n)) = n
         /\ \A i \in 1 .. n : Firsts(w, n)[i] = w[i]
         /\ n < Len(w) => /\ Firsts(w, n + 1) = Append(Firsts(w, n), w[n + 1]) /\ w[n + 1] \in Store
                          /\ \A i \in 1 .. n : Firsts(w, n)[i] # w[n + 1]
<1> DEFINE v == Firsts(w, n)
<1>1. Len(w) \in Nat /\ w \in [1 .. Len(w) -> Store] /\ n \in Nat /\ 1 .. n \subseteq 1 .. Len(w)
  BY DEF Once
<1>2. v \in [1 .. n -> Store] /\ \A i \in 1 .. n : v[i] = w[i]
  BY <1>1 DEF Firsts
<1>3. v \in Seq(Store) /\ Len(v) = n
  BY <1>1, <1>2
<1> HIDE DEF v
<1>4. Once(v)
  BY <1>1, <1>2, <1>3 DEF Once
<1>5. ASSUME n < Len(w) PROVE /\ Firsts(w, n + 1) = Append(v, w[n + 1]) /\ w[n + 1] \in Store
                              /\ \A i \in 1 .. n : v[i] # w[n + 1]
  <2>1. n + 1 \in 1 .. Len(w) /\ \A i \in 1 .. n : i # n + 1
    BY <1>1, <1>5
  <2>2. /\ DOMAIN Append(v, w[n + 1]) = 1 .. n + 1 /\ Append(v, w[n + 1]) \in Seq(Store)
        /\ \A i \in 1 .. n : Append(v, w[n + 1])[i] = v[i]
        /\ Append(v, w[n + 1])[n + 1] = w[n + 1]
    BY <1>1, <1>3, <2>1
  <2>3. \A i \in 1 .. n + 1 : i \in 1 .. n \/ i = n + 1
    BY <1>1
  <2>4. \A i \in 1 .. n + 1 : Append(v, w[n + 1])[i] = w[i]
    BY <1>2, <2>2, <2>3
  <2>5. Append(v, w[n + 1]) = [i \in 1 .. n + 1 |-> Append(v, w[n + 1])[i]]
    BY <2>2
  <2>6. Append(v, w[n + 1]) = Firsts(w, n + 1)
    BY <2>4, <2>5 DEF Firsts
  <2>7. \A i \in 1 .. n : v[i] # w[n + 1]
    BY <1>1, <1>2, <2>1 DEF Once
  <2> QED
    BY <1>1, <2>1, <2>6, <2>7
<1> QED
  BY <1>2, <1>3, <1>4, <1>5 DEF v

LEMMA FilledChains ==
  ASSUME NEW order, Once(order)
  PROVE  /\ Chained(Emptied, Firsts(order, 0))
         /\ Chained(Listed(order), order)
<1> DEFINE F == Filled(order)
           T == {n \in 0 .. Len(order) : Chained(F[n], Firsts(order, n))}
<1>1. Len(order) \in Nat
  BY DEF Once
<1>2. F = [n \in 0 .. Len(order) |-> IF n = 0 THEN Emptied ELSE Append1(F[n - 1], order[n])]
  BY <1>1, FilledIs
<1> HIDE DEF F
<1>3. Chained(Emptied, Firsts(order, 0))
  <2>1. Once(Firsts(order, 0)) /\ Len(Firsts(order, 0)) = 0
    BY <1>1, FirstsOnce
  <2>2. Firsts(order, 0) = << >>
    BY <2>1 DEF Once
  <2>3. Emptied \in Lists1
    BY DEF Emptied, Lists1, Node
  <2> QED
    BY <2>1, <2>2, <2>3 DEF Chained, Emptied, Backward, Forward, Closed, First1, Last1
<1>4. 0 \in T
  BY <1>1, <1>2, <1>3
<1>5. ASSUME NEW n \in 0 .. Len(order) - 1, n \in T PROVE n + 1 \in T
  <2>1. n \in 0 .. Len(order) /\ n < Len(order) /\ n + 1 \in 0 .. Len(order) /\ n + 1 # 0 /\ (n + 1) - 1 = n
    BY <1>1
  <2>2. F[n + 1] = Append1(F[n], order[n + 1])
    BY <1>2, <2>1
  <2>3. Chained(F[n + 1], Firsts(order, n + 1))
    <3> DEFINE v == Firsts(order, n)
    <3>1. Chained(F[n], v)
      BY <1>5
    <3>2. /\ Firsts(order, n + 1) = Append(v, order[n + 1]) /\ order[n + 1] \in Store
          /\ Len(v) = n /\ \A i \in 1 .. n : v[i] # order[n + 1]
      BY <2>1, FirstsOnce
    <3> HIDE DEF v
    <3>3. Chained(Append1(F[n], order[n + 1]), Append(v, order[n + 1]))
      BY <3>1, <3>2, AppendChains
    <3> QED
      BY <2>2, <3>2, <3>3
  <2> QED
    BY <2>1, <2>3
<1>6. Chained(F[Len(order)], Firsts(order, Len(order)))
  <2>1. 0 .. Len(order) \subseteq T
    <3> HIDE DEF T
    <3> QED
      BY <1>1, <1>4, <1>5, UpTo
  <2> QED
    BY <1>1, <2>1
<1>7. Firsts(order, Len(order)) = order
  BY DEF Firsts, Once
<1> QED
  BY <1>3, <1>6, <1>7 DEF Listed, F

-----------------------------------------------------------------------------
\* sort_storage_by.  The first of the largest is there.
FirstLargest(w, key, i) == /\ \A j \in 1 .. Len(w) : key[w[j]] <= key[w[i]]
                           /\ \A j \in 1 .. i - 1 : key[w[j]] < key[w[i]]
LEMMA LargestFound ==
  ASSUME NEW w, Once(w), w # << >>, NEW key \in [Store -> Nat]
  PROVE  \E i \in 1 .. Len(w) : FirstLargest(w, key, i)
<1> DEFINE Upon(n, i) == /\ i \in 1 .. n
                         /\ \A j \in 1 .. n : key[w[j]] <= key[w[i]]
                         /\ \A j \in 1 .. i - 1 : key[w[j]] < key[w[i]]
           T == {n \in 0 .. Len(w) - 1 : \E i \in 1 .. Len(w) : Upon(n + 1, i)}
<1>1. Len(w) \in Nat /\ Len(w) # 0 /\ w \in [1 .. Len(w) -> Store]
  BY DEF Once
<1>2. \A j \in 1 .. Len(w) : key[w[j]] \in Nat
  BY <1>1
<1>3. 0 \in T
  <2>1. Upon(1, 1)
    BY <1>1, <1>2
  <2> HIDE DEF Upon
  <2> QED
    BY <1>1, <2>1
<1>4. ASSUME NEW n \in 0 .. Len(w) - 1 - 1, n \in T PROVE n + 1 \in T
  <2>1. PICK i \in 1 .. Len(w) : Upon(n + 1, i)
    BY <1>4
  <2>2. n + 1 \in 0 .. Len(w) - 1 /\ (n + 1) + 1 \in 1 .. Len(w) /\ n \in Nat
    BY <1>1
  <2>3. \A j \in 1 .. (n + 1) + 1 : j \in 1 .. Len(w) /\ (j \in 1 .. n + 1 \/ j = (n + 1) + 1)
    BY <2>2, <1>1
  <2> DEFINE l == (n + 1) + 1
  <2>4. CASE key[w[l]] > key[w[i]]
    <3>1. Upon(l, l)
      BY <1>2, <2>1, <2>2, <2>3, <2>4
    <3> HIDE DEF Upon, l
    <3> QED
      BY <2>2, <3>1 DEF l
  <2>5. CASE ~(key[w[l]] > key[w[i]])
    <3>1. Upon(l, i)
      BY <1>2, <2>1, <2>2, <2>3, <2>5
    <3> HIDE DEF Upon, l
    <3> QED
      BY <2>2, <3>1 DEF l
  <2> QED
    BY <2>4, <2>5
<1>5. Len(w) - 1 \in T
  <2>1. 0 .. Len(w) - 1 \subseteq T
    <3>1. Len(w) - 1 \in Nat
      BY <1>1
    <3> HIDE DEF T
    <3> QED
      BY <1>3, <1>4, <3>1, UpTo
  <2>2. Len(w) - 1 \in 0 .. Len(w) - 1
    BY <1>1
  <2> HIDE DEF T
  <2> QED
    BY <2>1, <2>2
<1>6. PICK i \in 1 .. Len(w) : Upon((Len(w) - 1) + 1, i)
  BY <1>5
<1>7. Upon(Len(w), i)
  <2>1. (Len(w) - 1) + 1 = Len(w)
    BY <1>1
  <2> HIDE DEF Upon
  <2> QED
    BY <1>6, <2>1
<1> QED
  BY <1>7 DEF FirstLargest

\* A sequence without its i-th member.
Omit(w, i) == [j \in 1 .. Len(w) - 1 |-> IF j < i THEN w[j] ELSE w[j + 1]]
LEMMA Omitted ==
  ASSUME NEW w, Once(w), NEW i \in 1 .. Len(w)
  PROVE  /\ Once(Omit(w, i)) /\ Len(Omit(w, i)) = Len(w) - 1
         /\ \A j \in 1 .. Len(w) - 1 : Omit(w, i)[j] = IF j < i THEN w[j] ELSE w[j + 1]
         /\ \A j \in 1 .. Len(w) : j # i => \E k \in 1 .. Len(w) - 1 : Omit(w, i)[k] = w[j]
         /\ \A k \in 1 .. Len(w) - 1 : Omit(w, i)[k] # w[i]
<1> DEFINE v == Omit(w, i)
<1>1. Len(w) \in Nat /\ w \in [1 .. Len(w) -> Store] /\ Len(w) - 1 \in Nat
  BY DEF Once
<1>2. ASSUME NEW j \in 1 .. Len(w) - 1
      PROVE  j \in 1 .. Len(w) /\ j + 1 \in 1 .. Len(w) /\ j \in Int /\ i \in Int
  BY <1>1
<1>3. v \in [1 .. Len(w) - 1 -> Store] /\ \A j \in 1 .. Len(w) - 1 : v[j] = IF j < i THEN w[j] ELSE w[j + 1]
  <2>1. \A j \in 1 .. Len(w) - 1 : (IF j < i THEN w[j] ELSE w[j + 1]) \in Store
    BY <1>1, <1>2
  <2> QED
    BY <2>1 DEF Omit
<1>4. v \in Seq(Store) /\ Len(v) = Len(w) - 1
  <2>1. PICK l : l = Len(w) - 1
    OBVIOUS
  <2>2. v \in [1 .. l -> Store] /\ l \in Nat
    BY <1>1, <1>3, <2>1
  <2> HIDE DEF v
  <2>3. v \in Seq(Store) /\ Len(v) = l
    BY <2>2
  <2> QED
    BY <2>1, <2>3
<1> HIDE DEF v
<1>5. Once(v)
  <2> SUFFICES ASSUME NEW j \in 1 .. Len(w) - 1, NEW k \in 1 .. Len(w) - 1, v[j] = v[k] PROVE j = k
    BY <1>4 DEF Once
  <2> DEFINE at(m) == IF m < i THEN m ELSE m + 1
  <2>1. \A m \in 1 .. Len(w) - 1 : at(m) \in 1 .. Len(w) /\ v[m] = w[at(m)]
    BY <1>2, <1>3
  <2>2. at(j) = at(k)
    <3> HIDE DEF at
    <3> QED
      BY <2>1 DEF Once
  <2> QED
    BY <1>2, <2>2
<1>6. ASSUME NEW j \in 1 .. Len(w), j # i PROVE \E k \in 1 .. Len(w) - 1 : v[k] = w[j]
  <2>1. CASE j < i
    <3>1. j \in 1 .. Len(w) - 1
      BY <1>1, <2>1
    <3> QED
      BY <1>3, <2>1, <3>1
  <2>2. CASE j > i
    <3>1. j - 1 \in 1 .. Len(w) - 1 /\ ~(j - 1 < i) /\ (j - 1) + 1 = j
      BY <1>1, <2>2
    <3> QED
      BY <1>3, <3>1
  <2> QED
    BY <1>1, <1>6, <2>1, <2>2
<1>7. \A k \in 1 .. Len(w) - 1 : v[k] # w[i]
  <2> SUFFICES ASSUME NEW k \in 1 .. Len(w) - 1 PROVE v[k] # w[i]
    OBVIOUS
  <2>1. CASE k < i
    <3>1. k # i /\ v[k] = w[k]
      BY <1>2, <1>3, <2>1
    <3> QED
      BY <1>2, <3>1 DEF Once
  <2>2. CASE ~(k < i)
    <3>1. k + 1 # i /\ v[k] = w[k + 1]
      BY <1>2, <1>3, <2>2
    <3> QED
      BY <1>2, <3>1 DEF Once
  <2> QED
    BY <2>1, <2>2
<1> QED
  BY <1>3, <1>4, <1>5, <1>6, <1>7 DEF v

\* What sort_storage_by is at: rest, which is what is left of the old list, in its
\* order, and new, which has what comes before all of that.
Members1(w) == {w[i] : i \in 1 .. Len(w)}
Goes(key, rank, s, t) == key[s] > key[t] \/ (key[s] = key[t] /\ rank[s] < rank[t])
Ranked(all, rank) == \A i \in 1 .. Len(all) : rank[all[i]] = i
Links(x, rest, new) ==
  /\ x.list \in Lists1 /\ Once(rest) /\ Once(new)
  /\ x.oldhead = First1(rest) /\ x.newlist = Last1(new)
  /\ Backward(x.list, rest) /\ Forward(x.list, rest) /\ Closed(x.list, rest)
  /\ Backward(x.list, new) /\ Forward(x.list, new)
  /\ Members1(rest) \cap Members1(new) = {}
Order(key, rank, all, rest, new) ==
  /\ Members1(rest) \cup Members1(new) = Members1(all) /\ Len(rest) + Len(new) = Len(all)
  /\ \A i, j \in 1 .. Len(rest) : i < j => rank[rest[i]] < rank[rest[j]]
  /\ \A i, j \in 1 .. Len(new) : i < j => Goes(key, rank, new[i], new[j])
  /\ \A s \in Members1(new), t \in Members1(rest) : Goes(key, rank, s, t)

LEMMA OnceFacts ==
  ASSUME NEW w, Once(w)
  PROVE  /\ Len(w) \in Nat /\ w \in Seq(Store) /\ w \in [1 .. Len(w) -> Store]
         /\ \A i, j \in 1 .. Len(w) : w[i] = w[j] => i = j
         /\ \A i \in 1 .. Len(w) : w[i] \in Store /\ w[i] # Null /\ w[i] \in Members1(w)
         /\ w = << >> <=> Len(w) = 0
BY NullIsNone DEF Once, Members1

\* The links a turn sets.
LEMMA TakenLinks ==
  ASSUME NEW lst \in Lists1, NEW s \in Store, NEW newlist \in Node, newlist # s
  PROVE  LET m == Attach(Unlink(lst, s), newlist, s)
         IN /\ m \in Lists1
            /\ \A t \in Store :
                 /\ m.prv[t] = IF t = s THEN newlist ELSE IF t = lst.nxt[s] THEN lst.prv[s] ELSE lst.prv[t]
                 /\ m.nxt[t] = IF t = newlist THEN s ELSE IF t = lst.prv[s] THEN lst.nxt[s] ELSE lst.nxt[t]
<1> DEFINE before == lst.prv[s]
           after == lst.nxt[s]
           u == Unlink(lst, s)
           m == Attach(u, newlist, s)
<1>1. /\ lst = [head |-> lst.head, last |-> lst.last, nxt |-> lst.nxt, prv |-> lst.prv]
      /\ lst.head \in Node /\ lst.last \in Node /\ lst.nxt \in [Store -> Node] /\ lst.prv \in [Store -> Node]
      /\ before \in Node /\ after \in Node
  BY DEF Lists1
<1>2. \A t \in Store : t # Null
  BY NullIsNone
<1>3. /\ u = [head |-> lst.head, last |-> lst.last, nxt |-> u.nxt, prv |-> u.prv]
      /\ u.nxt = [t \in Store |-> IF t = before THEN after ELSE lst.nxt[t]]
      /\ u.prv = [t \in Store |-> IF t = after THEN before ELSE lst.prv[t]]
  <2>1. /\ u = [head |-> lst.head, last |-> lst.last, nxt |-> u.nxt, prv |-> u.prv]
        /\ u.nxt = IF before # Null THEN [lst.nxt EXCEPT ![before] = after] ELSE lst.nxt
        /\ u.prv = IF after # Null THEN [lst.prv EXCEPT ![after] = before] ELSE lst.prv
    <3>1. PICK N : N = IF before # Null THEN [lst.nxt EXCEPT ![before] = after] ELSE lst.nxt
      OBVIOUS
    <3>2. PICK P : P = IF after # Null THEN [lst.prv EXCEPT ![after] = before] ELSE lst.prv
      OBVIOUS
    <3>3. u = [lst EXCEPT !.nxt = N, !.prv = P]
      BY <3>1, <3>2 DEF Unlink
    <3> HIDE DEF u
    <3>4. [lst EXCEPT !.nxt = N, !.prv = P] = [[lst EXCEPT !.nxt = N] EXCEPT !.prv = P]
      OBVIOUS
    <3>5. [lst EXCEPT !.nxt = N] = [head |-> lst.head, last |-> lst.last, nxt |-> N, prv |-> lst.prv]
      BY DEF Lists1
    <3>6. [[head |-> lst.head, last |-> lst.last, nxt |-> N, prv |-> lst.prv] EXCEPT !.prv = P]
            = [head |-> lst.head, last |-> lst.last, nxt |-> N, prv |-> P]
      OBVIOUS
    <3> QED
      BY <3>1, <3>2, <3>3, <3>4, <3>5, <3>6
  <2>2. u.nxt = [t \in Store |-> IF t = before THEN after ELSE lst.nxt[t]]
    BY <1>1, <1>2, <2>1
  <2>3. u.prv = [t \in Store |-> IF t = after THEN before ELSE lst.prv[t]]
    BY <1>1, <1>2, <2>1
  <2> QED
    BY <2>1, <2>2, <2>3
<1> HIDE DEF u, before, after
<1>4. u.nxt \in [Store -> Node] /\ u.prv \in [Store -> Node]
  BY <1>1, <1>3
<1>5. /\ m = [head |-> lst.head, last |-> lst.last, nxt |-> m.nxt, prv |-> m.prv]
      /\ m.nxt = [t \in Store |-> IF t = newlist THEN s ELSE u.nxt[t]]
      /\ m.prv = [t \in Store |-> IF t = s THEN newlist ELSE u.prv[t]]
  <2>1. newlist = Null => m = [u EXCEPT !.prv = [u.prv EXCEPT ![s] = newlist]]
    BY DEF Attach
  <2>2. newlist # Null => m = [u EXCEPT !.prv = [u.prv EXCEPT ![s] = newlist], !.nxt = [u.nxt EXCEPT ![newlist] = s]]
    BY DEF Attach
  <2> HIDE DEF m
  <2>3. [u.prv EXCEPT ![s] = newlist] = [t \in Store |-> IF t = s THEN newlist ELSE u.prv[t]]
    BY <1>4
  <2>4. [u.nxt EXCEPT ![newlist] = s] = [t \in Store |-> IF t = newlist THEN s ELSE u.nxt[t]]
    BY <1>4
  <2>5. newlist = Null => u.nxt = [t \in Store |-> IF t = newlist THEN s ELSE u.nxt[t]]
    BY <1>2, <1>4
  <2>11. u \in Lists1 /\ u.head = lst.head /\ u.last = lst.last
    <3>1. u.head = lst.head /\ u.last = lst.last
      BY <1>3
    <3> QED
      BY <1>1, <1>3, <1>4, <3>1 DEF Lists1
  <2>6. ASSUME NEW N, NEW P
        PROVE  [u EXCEPT !.prv = P, !.nxt = N] = [head |-> lst.head, last |-> lst.last, nxt |-> N, prv |-> P]
    <3>1. [u EXCEPT !.prv = P, !.nxt = N] = [[u EXCEPT !.prv = P] EXCEPT !.nxt = N]
      OBVIOUS
    <3>2. [u EXCEPT !.prv = P] = [head |-> lst.head, last |-> lst.last, nxt |-> u.nxt, prv |-> P]
      BY <2>11 DEF Lists1
    <3>3. [[head |-> lst.head, last |-> lst.last, nxt |-> u.nxt, prv |-> P] EXCEPT !.nxt = N]
            = [head |-> lst.head, last |-> lst.last, nxt |-> N, prv |-> P]
      OBVIOUS
    <3> QED
      BY <3>1, <3>2, <3>3
  <2>7. \A P : [u EXCEPT !.prv = P] = [head |-> lst.head, last |-> lst.last, nxt |-> u.nxt, prv |-> P]
    BY <2>11 DEF Lists1
  <2>8. PICK N : N = [t \in Store |-> IF t = newlist THEN s ELSE u.nxt[t]]
    OBVIOUS
  <2>9. PICK P : P = [t \in Store |-> IF t = s THEN newlist ELSE u.prv[t]]
    OBVIOUS
  <2>10. m = [head |-> lst.head, last |-> lst.last, nxt |-> N, prv |-> P]
    <3>1. CASE newlist = Null
      <4>1. m = [u EXCEPT !.prv = P] /\ u.nxt = N
        BY <2>1, <2>3, <2>5, <2>8, <2>9, <3>1
      <4> QED
        BY <2>7, <4>1
    <3>2. CASE newlist # Null
      <4>1. m = [u EXCEPT !.prv = P, !.nxt = N]
        BY <2>2, <2>3, <2>4, <2>8, <2>9, <3>2
      <4> QED
        BY <2>6, <4>1
    <3> QED
      BY <3>1, <3>2
  <2> QED
    BY <2>8, <2>9, <2>10
<1>6. m.nxt \in [Store -> Node] /\ m.prv \in [Store -> Node]
  BY <1>4, <1>5 DEF Node
<1> HIDE DEF m
<1>7. m \in Lists1
  BY <1>1, <1>5, <1>6 DEF Lists1
<1> QED
  BY <1>3, <1>5, <1>7 DEF m, u, before, after

LEMMA TurnLinks ==
  ASSUME NEW x, NEW rest, NEW new, Links(x, rest, new), NEW i \in 1 .. Len(rest),
         NEW s, s = rest[i], NEW y,
         y = [list |-> Attach(Unlink(x.list, s), x.newlist, s),
              oldhead |-> HeadAfter(x.list, x.oldhead, s), newlist |-> s]
  PROVE  Links(y, Omit(rest, i), Append(new, s))
<1> DEFINE v == Omit(rest, i)
           w == Append(new, s)
           lst == x.list
           m == y.list
           L == Len(rest)
           N == Len(new)
<1>1. /\ L \in Nat /\ \A j \in 1 .. L : rest[j] \in Store /\ rest[j] # Null /\ rest[j] \in Members1(rest)
      /\ \A j, k \in 1 .. L : rest[j] = rest[k] => j = k
      /\ rest = << >> <=> L = 0
  BY OnceFacts DEF Links
<1>2. /\ N \in Nat /\ \A j \in 1 .. N : new[j] \in Store /\ new[j] # Null /\ new[j] \in Members1(new)
      /\ \A j, k \in 1 .. N : new[j] = new[k] => j = k
      /\ new = << >> <=> N = 0
      /\ new \in Seq(Store)
  BY OnceFacts DEF Links
<1>3. /\ L \in Nat /\ i \in Nat /\ 1 <= i /\ i <= L
  BY <1>1
<1>4. /\ Once(v) /\ Len(v) = L - 1
      /\ \A j \in 1 .. L - 1 : v[j] = IF j < i THEN rest[j] ELSE rest[j + 1]
  BY Omitted DEF Links
<1>5. \A j \in 1 .. L, k \in 1 .. N : rest[j] # new[k]
  BY <1>1, <1>2 DEF Links
<1>6. /\ lst.prv[s] = IF i = 1 THEN Null ELSE rest[i - 1]
      /\ lst.nxt[s] = IF i = L THEN Null ELSE rest[i + 1]
  <2>1. lst.prv[s] = IF i = 1 THEN Null ELSE rest[i - 1]
    BY DEF Links, Backward
  <2>2. CASE i = L
    BY <1>1, <1>3, <2>1, <2>2 DEF Links, Closed
  <2>3. CASE i # L
    <3>1. i \in 1 .. L - 1
      BY <1>3, <2>3
    <3> QED
      BY <2>1, <2>3, <3>1 DEF Links, Forward
  <2> QED
    BY <2>2, <2>3
<1>7. x.newlist = IF N = 0 THEN Null ELSE new[N]
  BY <1>2 DEF Links, Last1
<1>8. s \in Store /\ x.newlist \in Node /\ x.newlist # s /\ lst \in Lists1
  <2>1. N # 0 => N \in 1 .. N
    BY <1>2
  <2> QED
    BY <1>1, <1>2, <1>5, <1>7, <2>1, NullIsNone DEF Links, Node
<1>9. /\ m \in Lists1 /\ y.oldhead = HeadAfter(lst, x.oldhead, s) /\ y.newlist = s
      /\ \A t \in Store :
           /\ m.prv[t] = IF t = s THEN x.newlist ELSE IF t = lst.nxt[s] THEN lst.prv[s] ELSE lst.prv[t]
           /\ m.nxt[t] = IF t = x.newlist THEN s ELSE IF t = lst.prv[s] THEN lst.nxt[s] ELSE lst.nxt[t]
  BY <1>8, TakenLinks
<1> HIDE DEF m, v
<1>10. Backward(m, v)
  <2> SUFFICES ASSUME NEW j \in 1 .. L - 1 PROVE m.prv[v[j]] = IF j = 1 THEN Null ELSE v[j - 1]
    BY <1>4 DEF Backward
  <2>1. /\ j \in 1 .. L /\ j + 1 \in 1 .. L /\ (j + 1) - 1 = j /\ j + 1 # 1 /\ j \in Nat
        /\ j # 1 => j - 1 \in 1 .. L - 1 /\ j - 1 \in 1 .. L /\ (j - 1) + 1 = j
    BY <1>3
  <2>2. \A k \in 1 .. L : lst.prv[rest[k]] = IF k = 1 THEN Null ELSE rest[k - 1]
    BY DEF Links, Backward
  <2>3. CASE j < i
    <3>1. v[j] = rest[j] /\ rest[j] # s /\ rest[j] # lst.nxt[s] /\ rest[j] \in Store
      <4>1. j # i /\ j # i + 1 /\ (i # L => i + 1 \in 1 .. L)
        BY <1>3, <2>1, <2>3
      <4> QED
        BY <1>1, <1>4, <1>6, <2>1, <2>3, <4>1
    <3>2. m.prv[v[j]] = lst.prv[rest[j]]
      BY <1>9, <3>1
    <3>3. j # 1 => v[j - 1] = rest[j - 1]
      <4>1. j # 1 => j - 1 < i
        BY <1>3, <2>1, <2>3
      <4> QED
        BY <1>4, <2>1, <4>1
    <3> QED
      BY <2>1, <2>2, <3>2, <3>3
  <2>4. CASE j = i
    <3>1. v[j] = rest[i + 1] /\ rest[i + 1] = lst.nxt[s] /\ rest[i + 1] # s /\ rest[i + 1] \in Store
      <4>1. i # L /\ i + 1 \in 1 .. L /\ i # i + 1 /\ ~(j < i)
        BY <1>3, <2>1, <2>4
      <4> QED
        BY <1>1, <1>4, <1>6, <2>4, <4>1
    <3>2. m.prv[v[j]] = lst.prv[s]
      BY <1>9, <3>1
    <3>3. j # 1 => v[j - 1] = rest[i - 1]
      <4>1. j # 1 => j - 1 < i
        BY <1>3, <2>1, <2>4
      <4> QED
        BY <1>4, <2>1, <2>4, <4>1
    <3> QED
      BY <1>6, <2>4, <3>2, <3>3
  <2>5. CASE j > i
    <3>1. v[j] = rest[j + 1] /\ rest[j + 1] # s /\ rest[j + 1] # lst.nxt[s] /\ rest[j + 1] \in Store
      <4>1. j + 1 # i /\ j + 1 # i + 1 /\ (i # L => i + 1 \in 1 .. L) /\ ~(j < i)
        BY <1>3, <2>1, <2>5
      <4> QED
        BY <1>1, <1>4, <1>6, <2>1, <4>1
    <3>2. m.prv[v[j]] = lst.prv[rest[j + 1]]
      BY <1>9, <3>1
    <3>3. lst.prv[rest[j + 1]] = rest[j]
      BY <2>1, <2>2
    <3>4. j # 1 /\ v[j - 1] = rest[j]
      <4>1. j # 1 /\ ~(j - 1 < i)
        BY <1>3, <2>1, <2>5
      <4> QED
        BY <1>4, <2>1, <4>1
    <3> QED
      BY <3>2, <3>3, <3>4
  <2> QED
    BY <1>3, <2>1, <2>3, <2>4, <2>5
<1>11. \A j \in 1 .. L : rest[j] # x.newlist
  <2>1. N # 0 => N \in 1 .. N
    BY <1>2
  <2> QED
    BY <1>1, <1>5, <1>7, <2>1
<1>12. Forward(m, v)
  <2> SUFFICES ASSUME NEW j \in 1 .. (L - 1) - 1 PROVE m.nxt[v[j]] = v[j + 1]
    BY <1>4 DEF Forward
  <2>1. /\ j \in 1 .. L /\ j + 1 \in 1 .. L /\ (j + 1) + 1 \in 1 .. L /\ j \in Nat
        /\ j \in 1 .. L - 1 /\ j + 1 \in 1 .. L - 1
    BY <1>3
  <2>2. \A k \in 1 .. L - 1 : lst.nxt[rest[k]] = rest[k + 1]
    BY DEF Links, Forward
  <2>3. CASE j + 1 < i
    <3>1. v[j] = rest[j] /\ rest[j] # lst.prv[s] /\ v[j + 1] = rest[j + 1]
      <4>1. j < i /\ j # i - 1 /\ (i # 1 => i - 1 \in 1 .. L)
        BY <1>3, <2>1, <2>3
      <4> QED
        BY <1>1, <1>4, <1>6, <2>1, <2>3, <4>1
    <3>2. m.nxt[v[j]] = lst.nxt[rest[j]]
      BY <1>1, <1>9, <1>11, <2>1, <3>1
    <3> QED
      BY <2>1, <2>2, <3>1, <3>2
  <2>4. CASE j + 1 = i
    <3>1. v[j] = rest[j] /\ rest[j] = lst.prv[s] /\ v[j + 1] = rest[i + 1] /\ i # L /\ lst.nxt[s] = rest[i + 1]
      <4>1. j < i /\ j = i - 1 /\ i # 1 /\ ~(j + 1 < i) /\ i # L
        BY <1>3, <2>1, <2>4
      <4> QED
        BY <1>1, <1>4, <1>6, <2>1, <2>4, <4>1
    <3> QED
      BY <1>1, <1>9, <1>11, <2>1, <3>1
  <2>5. CASE j + 1 > i
    <3>1. v[j] = rest[j + 1] /\ rest[j + 1] # lst.prv[s] /\ v[j + 1] = rest[(j + 1) + 1]
      <4>1. ~(j < i) /\ ~(j + 1 < i) /\ j + 1 # i - 1 /\ (i # 1 => i - 1 \in 1 .. L)
        BY <1>3, <2>1, <2>5
      <4> QED
        BY <1>1, <1>4, <1>6, <2>1, <4>1
    <3>2. m.nxt[v[j]] = lst.nxt[rest[j + 1]]
      BY <1>1, <1>9, <1>11, <2>1, <3>1
    <3> QED
      BY <2>1, <2>2, <3>1, <3>2
  <2> QED
    BY <1>3, <2>1, <2>3, <2>4, <2>5
<1>13. Closed(m, v)
  <2> SUFFICES ASSUME v # << >> PROVE m.nxt[v[L - 1]] = Null
    BY <1>4 DEF Closed
  <2>1. L - 1 \in 1 .. L - 1 /\ L - 1 \in 1 .. L /\ L \in 1 .. L /\ L # L - 1 /\ (L - 1) + 1 = L /\ L # 1
    <3>1. L - 1 # 0
      BY <1>4, OnceFacts
    <3> HIDE DEF L
    <3> QED
      BY <1>3, <3>1
  <2>2. CASE i = L
    <3>1. v[L - 1] = rest[L - 1] /\ rest[L - 1] = lst.prv[s] /\ lst.nxt[s] = Null
      <4>1. L - 1 < i /\ i # 1
        <5> HIDE DEF L
        <5> QED
          BY <1>3, <2>1, <2>2
      <4> QED
        BY <1>4, <1>6, <2>1, <2>2, <4>1
    <3>2. rest[L - 1] \in Store /\ rest[L - 1] # x.newlist
      BY <1>1, <1>11, <2>1
    <3> HIDE DEF L
    <3> QED
      BY <1>9, <3>1, <3>2
  <2>3. CASE i # L
    <3>1. v[L - 1] = rest[L] /\ rest[L] # lst.prv[s]
      <4>1. ~(L - 1 < i) /\ L # i - 1 /\ (i # 1 => i - 1 \in 1 .. L)
        <5> HIDE DEF L
        <5> QED
          BY <1>3, <2>1, <2>3
      <4> QED
        BY <1>1, <1>4, <1>6, <2>1, <4>1
    <3>2. lst.nxt[rest[L]] = Null
      BY <1>1, <1>3 DEF Links, Closed
    <3>3. rest[L] \in Store /\ rest[L] # x.newlist
      BY <1>1, <1>11, <2>1
    <3>4. m.nxt[rest[L]] = lst.nxt[rest[L]]
      BY <1>9, <3>1, <3>3
    <3> QED
      BY <3>1, <3>2, <3>4
  <2> QED
    BY <2>2, <2>3
<1>14. y.oldhead = First1(v)
  <2>1. v = << >> <=> L - 1 = 0
    BY <1>4, OnceFacts
  <2>2. CASE i = 1
    <3>1. L - 1 # 0 => 1 \in 1 .. L - 1 /\ ~(1 < i) /\ i # L
      <4> HIDE DEF L
      <4> QED
        BY <1>3, <2>2
    <3>2. L - 1 = 0 => i = L
      <4> HIDE DEF L
      <4> QED
        BY <1>3, <2>2
    <3>3. y.oldhead = lst.nxt[s]
      BY <1>6, <1>9, <2>2 DEF HeadAfter
    <3> QED
      BY <1>4, <1>6, <2>1, <2>2, <3>1, <3>2, <3>3 DEF First1
  <2>3. CASE i # 1
    <3>1. 1 \in 1 .. L - 1 /\ 1 < i /\ i - 1 \in 1 .. L /\ L - 1 # 0 /\ L # 0
      BY <1>3, <2>3
    <3>2. y.oldhead = x.oldhead
      BY <1>1, <1>6, <1>9, <2>3, <3>1 DEF HeadAfter
    <3>3. x.oldhead = rest[1]
      BY <1>1, <3>1 DEF Links, First1
    <3> QED
      BY <1>4, <2>1, <3>1, <3>2, <3>3 DEF First1
  <2> QED
    BY <2>2, <2>3
<1>15. /\ w \in Seq(Store) /\ Len(w) = N + 1 /\ w # << >>
       /\ \A j \in 1 .. N : w[j] = new[j]
       /\ w[N + 1] = s
  <2>1. new \in Seq(Store)
    BY <1>2
  <2>2. w \in Seq(Store) /\ Len(w) = N + 1
    BY <1>8, <2>1
  <2>3. /\ \A j \in 1 .. N : w[j] = new[j]
        /\ w[N + 1] = s
    BY <1>8, <2>1
  <2>4. w # << >>
    <3>1. Len(w) # 0
      BY <1>2, <2>2
    <3> QED
      BY <3>1
  <2> QED
    BY <2>2, <2>3, <2>4
<1> HIDE DEF w
<1>16. \A j \in 1 .. Len(w) : j \in 1 .. N \/ j = N + 1
  BY <1>2, <1>15
<1>17. \A j \in 1 .. N : new[j] # s
  BY <1>5
<1>18. Once(w)
  BY <1>2, <1>15, <1>16, <1>17 DEF Once
<1>19. \A j \in 1 .. N : new[j] # lst.nxt[s] /\ new[j] # lst.prv[s]
  <2>1. (i # L => i + 1 \in 1 .. L) /\ (i # 1 => i - 1 \in 1 .. L)
    BY <1>3
  <2> QED
    BY <1>2, <1>5, <1>6, <2>1
<1>20. Backward(m, w)
  <2>1. \A j \in 1 .. N : m.prv[new[j]] = IF j = 1 THEN Null ELSE new[j - 1]
    BY <1>2, <1>9, <1>17, <1>19 DEF Links, Backward
  <2>2. \A j \in 1 .. N : j = 1 \/ j - 1 \in 1 .. N
    BY <1>2
  <2>3. \A j \in 1 .. N : m.prv[w[j]] = IF j = 1 THEN Null ELSE w[j - 1]
    BY <1>15, <2>1, <2>2
  <2>4. m.prv[s] = IF N + 1 = 1 THEN Null ELSE w[(N + 1) - 1]
    <3>1. N + 1 = 1 <=> N = 0
      BY <1>2
    <3>2. N # 0 => N \in 1 .. N /\ (N + 1) - 1 = N
      BY <1>2
    <3> QED
      BY <1>7, <1>8, <1>9, <1>15, <3>1, <3>2
  <2> QED
    BY <1>15, <1>16, <2>3, <2>4 DEF Backward
<1>21. Forward(m, w)
  <2> SUFFICES ASSUME NEW j \in 1 .. N PROVE m.nxt[w[j]] = w[j + 1]
    <3>1. Len(w) - 1 = N
      BY <1>2, <1>15
    <3> QED
      BY <3>1 DEF Forward
  <2>1. CASE j = N
    <3>1. N # 0
      BY <1>2
    <3> QED
      BY <1>2, <1>7, <1>9, <1>15, <2>1, <3>1
  <2>2. CASE j # N
    <3>1. j \in 1 .. N - 1 /\ j + 1 \in 1 .. N /\ N \in 1 .. N /\ N # 0
      BY <1>2, <2>2
    <3>2. new[j] # x.newlist
      BY <1>2, <1>7, <2>2, <3>1
    <3>3. m.nxt[new[j]] = lst.nxt[new[j]]
      BY <1>2, <1>9, <1>19, <3>2
    <3>4. lst.nxt[new[j]] = new[j + 1]
      BY <3>1 DEF Links, Forward
    <3> QED
      BY <1>15, <3>1, <3>3, <3>4
  <2> QED
    BY <2>1, <2>2
<1>22. Members1(v) \cap Members1(w) = {}
  <2>1. \A k \in 1 .. L - 1 : v[k] # s
    BY Omitted DEF Links, v
  <2>2. \A k \in 1 .. L - 1, j \in 1 .. N : v[k] # new[j]
    <3>1. \A k \in 1 .. L - 1 : k \in 1 .. L /\ k + 1 \in 1 .. L
      BY <1>3
    <3> QED
      BY <1>4, <1>5, <3>1
  <2>3. \A k \in 1 .. L - 1, j \in 1 .. Len(w) : v[k] # w[j]
    BY <1>15, <1>16, <2>1, <2>2
  <2> QED
    BY <1>4, <2>3 DEF Members1
<1>23. y.newlist = Last1(w)
  BY <1>9, <1>15 DEF Last1
<1> QED
  BY <1>4, <1>9, <1>10, <1>12, <1>13, <1>14, <1>18, <1>20, <1>21, <1>22, <1>23 DEF Links, m, v, w

LEMMA TurnOrder ==
  ASSUME NEW all, NEW rest, NEW new, NEW key \in [Store -> Nat], NEW rank,
         Once(rest), Once(new), Order(key, rank, all, rest, new),
         NEW i \in 1 .. Len(rest), FirstLargest(rest, key, i)
  PROVE  Order(key, rank, all, Omit(rest, i), Append(new, rest[i]))
<1> DEFINE v == Omit(rest, i)
           s == rest[i]
           w == Append(new, s)
           L == Len(rest)
           N == Len(new)
<1>1. /\ L \in Nat /\ \A j \in 1 .. L : rest[j] \in Store /\ rest[j] \in Members1(rest)
      /\ \A j, k \in 1 .. L : rest[j] = rest[k] => j = k
  BY OnceFacts
<1>2. N \in Nat /\ new \in Seq(Store) /\ \A j \in 1 .. N : new[j] \in Store /\ new[j] \in Members1(new)
  BY OnceFacts
<1>3. /\ Len(v) = L - 1
      /\ \A j \in 1 .. L - 1 : v[j] = IF j < i THEN rest[j] ELSE rest[j + 1]
      /\ \A j \in 1 .. L : j # i => \E k \in 1 .. L - 1 : v[k] = rest[j]
      /\ \A k \in 1 .. L - 1 : v[k] # s
  BY Omitted
<1>4. /\ Len(w) = N + 1
      /\ \A j \in 1 .. N : w[j] = new[j]
      /\ w[N + 1] = s
  <2>1. new \in Seq(Store) /\ s \in Store
    BY <1>1, <1>2
  <2> HIDE DEF s
  <2> QED
    BY <2>1
<1> HIDE DEF v, w
<1>5. \A j \in 1 .. N + 1 : j \in 1 .. N \/ j = N + 1
  BY <1>2
<1>6. i \in Nat /\ 1 <= i /\ i <= L
  BY <1>1
<1>7. \A j \in 1 .. L - 1 : j \in 1 .. L /\ j + 1 \in 1 .. L
  <2> HIDE DEF L
  <2> QED
    BY <1>1
<1>8. Members1(v) = Members1(rest) \ {s}
  <2>1. \A j \in 1 .. L - 1 : \E k \in 1 .. L : v[j] = rest[k]
    BY <1>3, <1>7
  <2>2. Members1(v) = {v[j] : j \in 1 .. L - 1} /\ Members1(rest) = {rest[j] : j \in 1 .. L}
    BY <1>3 DEF Members1
  <2> HIDE DEF s, L
  <2>3. \A t \in {rest[j] : j \in 1 .. L} \ {s} : \E j \in 1 .. L : t = rest[j] /\ j # i
    BY DEF s
  <2>4. ASSUME NEW t \in Members1(v) PROVE t \in Members1(rest) \ {s}
    BY <1>3, <2>1, <2>2, <2>4
  <2>5. ASSUME NEW t \in Members1(rest) \ {s} PROVE t \in Members1(v)
    <3>1. PICK j \in 1 .. L : t = rest[j] /\ j # i
      BY <2>2, <2>3, <2>5
    <3>2. PICK k \in 1 .. L - 1 : v[k] = rest[j]
      BY <1>3, <3>1
    <3> QED
      BY <2>2, <3>1, <3>2
  <2> QED
    BY <2>4, <2>5
<1>9. Members1(w) = Members1(new) \cup {s}
  <2>1. N + 1 \in 1 .. N + 1 /\ \A j \in 1 .. N : j \in 1 .. N + 1
    BY <1>2
  <2>2. Members1(w) = {w[j] : j \in 1 .. N + 1} /\ Members1(new) = {new[j] : j \in 1 .. N}
    BY <1>4 DEF Members1
  <2> HIDE DEF s, N
  <2> QED
    BY <1>4, <1>5, <2>1, <2>2
<1>10. s \in Members1(rest)
  BY <1>1
<1>11. Members1(v) \cup Members1(w) = Members1(all) /\ Len(v) + Len(w) = Len(all)
  <2>1. Members1(v) \cup Members1(w) = Members1(all)
    BY <1>8, <1>9, <1>10 DEF Order
  <2>2. L + N = Len(all)
    BY DEF Order
  <2>3. PICK a, b : a = Len(v) /\ b = Len(w)
    OBVIOUS
  <2> HIDE DEF L, N
  <2>4. a = L - 1 /\ b = N + 1 /\ L \in Nat /\ N \in Nat
    BY <1>1, <1>2, <1>3, <1>4, <2>3
  <2>5. a + b = L + N
    BY <2>4
  <2> QED
    BY <2>1, <2>2, <2>3, <2>5
<1>12. ASSUME NEW j \in 1 .. L - 1, NEW k \in 1 .. L - 1, j < k
       PROVE  rank[v[j]] < rank[v[k]]
  <2> DEFINE at(m) == IF m < i THEN m ELSE m + 1
  <2>1. at(j) \in 1 .. L /\ at(k) \in 1 .. L /\ v[j] = rest[at(j)] /\ v[k] = rest[at(k)]
    BY <1>3, <1>7
  <2>2. at(j) < at(k)
    <3> HIDE DEF L
    <3> QED
      BY <1>1, <1>6, <1>12
  <2> HIDE DEF at
  <2> QED
    BY <2>1, <2>2 DEF Order
<1>13. ASSUME NEW j \in 1 .. N + 1, NEW k \in 1 .. N + 1, j < k
       PROVE  Goes(key, rank, w[j], w[k])
  <2>1. j \in 1 .. N
    BY <1>2, <1>13
  <2>2. CASE k \in 1 .. N
    BY <1>4, <1>13, <2>1, <2>2 DEF Order
  <2>3. CASE k = N + 1
    BY <1>2, <1>4, <1>10, <2>1, <2>3 DEF Order
  <2> QED
    BY <1>5, <2>2, <2>3
<1>14. ASSUME NEW a \in Members1(w), NEW t \in Members1(v)
       PROVE  Goes(key, rank, a, t)
  <2>1. t \in Members1(rest) /\ t # s
    BY <1>8
  <2>2. CASE a \in Members1(new)
    BY <2>1, <2>2 DEF Order
  <2>3. CASE a = s
    <3>1. PICK j \in 1 .. L : t = rest[j] /\ j # i
      BY <2>1 DEF Members1
    <3>2. key[t] \in Nat /\ key[s] \in Nat
      BY <1>1, <3>1
    <3>3. CASE j < i
      <4>1. j \in 1 .. i - 1
        BY <1>1, <1>6, <3>3
      <4> QED
        BY <2>3, <3>1, <3>2, <4>1 DEF FirstLargest, Goes
    <3>4. CASE j > i
      <4>1. rank[s] < rank[t]
        BY <3>1, <3>4 DEF Order
      <4>2. key[t] <= key[s]
        BY <3>1 DEF FirstLargest
      <4> QED
        BY <2>3, <3>2, <4>1, <4>2 DEF Goes
    <3> QED
      BY <1>1, <1>6, <3>1, <3>3, <3>4
  <2> QED
    BY <1>9, <2>2, <2>3
<1> QED
  BY <1>3, <1>4, <1>11, <1>12, <1>13, <1>14 DEF Order, v, w, s

\* A turn takes the largest.
LEMMA TurnTakes ==
  ASSUME NEW x, NEW all, NEW rest, NEW new, NEW key \in [Store -> Nat], NEW rank,
         Links(x, rest, new), Order(key, rank, all, rest, new), rest # << >>
  PROVE  \E i \in 1 .. Len(rest) : /\ Links(Taken(x, key), Omit(rest, i), Append(new, rest[i]))
                                   /\ Order(key, rank, all, Omit(rest, i), Append(new, rest[i]))
                                   /\ Len(Omit(rest, i)) = Len(rest) - 1
<1>1. Once(rest) /\ Once(new) /\ x.oldhead = First1(rest)
  BY DEF Links
<1>2. From(x.list, x.oldhead) = rest
  BY <1>1, FromFinds DEF Links
<1> DEFINE i == CHOOSE i \in 1 .. Len(rest) : FirstLargest(rest, key, i)
<1>3. i \in 1 .. Len(rest) /\ FirstLargest(rest, key, i)
  BY <1>1, LargestFound
<1>4. Largest(x.list, x.oldhead, key) = rest[i]
  BY <1>2 DEF Largest, FirstLargest
<1> HIDE DEF i
<1>5. x.oldhead # Null
  <2>1. 1 \in 1 .. Len(rest)
    BY <1>1, OnceFacts
  <2> QED
    BY <1>1, <2>1, OnceFacts DEF First1
<1> DEFINE s == rest[i]
           y == [list |-> Attach(Unlink(x.list, s), x.newlist, s),
                 oldhead |-> HeadAfter(x.list, x.oldhead, s), newlist |-> s]
<1>6. Taken(x, key) = y
  BY <1>4, <1>5 DEF Taken
<1> HIDE DEF y
<1>7. Links(y, Omit(rest, i), Append(new, s))
  BY <1>3, TurnLinks DEF y
<1>8. Order(key, rank, all, Omit(rest, i), Append(new, rest[i]))
  BY <1>1, <1>3, TurnOrder
<1>9. Len(Omit(rest, i)) = Len(rest) - 1
  BY <1>1, <1>3, Omitted
<1> QED
  BY <1>3, <1>6, <1>7, <1>8, <1>9

\* In the end the list is sorted.
LEMMA FinishedChains ==
  ASSUME NEW x, NEW new, Links(x, << >>, new), new # << >>
  PROVE  Chained(Finished(x.list, x.newlist), new)
<1> DEFINE lst == x.list
           last == x.newlist
           m == Finished(lst, last)
<1>1. /\ lst \in Lists1 /\ Once(new) /\ last = new[Len(new)]
      /\ Backward(lst, new) /\ Forward(lst, new)
  BY DEF Links, Last1
<1>2. /\ Len(new) \in Nat /\ Len(new) # 0 /\ 1 \in 1 .. Len(new) /\ Len(new) \in 1 .. Len(new)
      /\ \A i \in 1 .. Len(new) : new[i] \in Store
      /\ \A i, j \in 1 .. Len(new) : new[i] = new[j] => i = j
  <2>1. Len(new) \in Nat /\ Len(new) # 0
    BY <1>1, OnceFacts
  <2> QED
    BY <1>1, <2>1, OnceFacts
<1>3. Behind(lst, last)[9] = new[1]
  BY <1>1, BehindFinds
<1>4. /\ m.head = new[1] /\ m.last = last /\ m.prv = lst.prv
      /\ m.nxt = [lst.nxt EXCEPT ![last] = Null]
      /\ m = [head |-> m.head, last |-> m.last, nxt |-> m.nxt, prv |-> m.prv]
  <2>1. lst = [head |-> lst.head, last |-> lst.last, nxt |-> lst.nxt, prv |-> lst.prv]
    BY <1>1 DEF Lists1
  <2>2. m = [head |-> new[1], last |-> last, nxt |-> [lst.nxt EXCEPT ![last] = Null], prv |-> lst.prv]
    <3> HIDE DEF lst, last
    <3>1. m = [[[lst EXCEPT !.nxt = [lst.nxt EXCEPT ![last] = Null]] EXCEPT !.head = new[1]] EXCEPT !.last = last]
      BY <1>3, <2>1 DEF Finished
    <3>2. PICK h, n, p, l : lst = [head |-> h, last |-> l, nxt |-> n, prv |-> p]
      BY <2>1
    <3> HIDE DEF m
    <3> QED
      BY <3>1, <3>2
  <2> HIDE DEF m
  <2> QED
    BY <2>2
<1> HIDE DEF m, lst, last
<1>5. m \in Lists1
  <2>1. lst.nxt \in [Store -> Node] /\ lst.prv \in [Store -> Node]
    BY <1>1 DEF Lists1
  <2>2. m.nxt \in [Store -> Node] /\ m.head \in Node /\ m.last \in Node
    BY <1>1, <1>2, <1>4, <2>1 DEF Node
  <2> QED
    BY <1>4, <2>1, <2>2 DEF Lists1
<1>6. \A s \in Store : m.nxt[s] = IF s = last THEN Null ELSE lst.nxt[s]
  BY <1>1, <1>4 DEF Lists1
<1>7. Backward(m, new)
  BY <1>1, <1>4 DEF Backward
<1>8. Forward(m, new)
  <2> SUFFICES ASSUME NEW i \in 1 .. Len(new) - 1 PROVE m.nxt[new[i]] = new[i + 1]
    BY DEF Forward
  <2>1. i \in 1 .. Len(new) /\ i # Len(new)
    BY <1>2
  <2> QED
    BY <1>1, <1>2, <1>6, <2>1 DEF Forward
<1>9. Closed(m, new)
  BY <1>1, <1>2, <1>6 DEF Closed
<1> QED
  BY <1>1, <1>4, <1>5, <1>7, <1>8, <1>9 DEF Chained, First1, Last1, m, lst, last

LEMMA SortedByIs ==
  ASSUME NEW lst, NEW all, Chained(lst, all), NEW key \in [Store -> Nat], NEW rank, Ranked(all, rank)
  PROVE  \E new : /\ Chained(SortedBy(lst, key), new)
                  /\ Members1(new) = Members1(all) /\ Len(new) = Len(all)
                  /\ \A i, j \in 1 .. Len(new) : i < j => Goes(key, rank, new[i], new[j])
<1>1. Once(all) /\ lst.head = First1(all) /\ Len(all) \in 0 .. 9 /\ Len(all) \in Nat
  BY Few, OnceFacts DEF Chained
<1>2. CASE all = << >>
  <2>1. SortedBy(lst, key) = lst
    BY <1>1, <1>2 DEF SortedBy, First1
  <2>2. \A i, j \in 1 .. Len(all) : i < j => Goes(key, rank, all[i], all[j])
    BY <1>2
  <2> QED
    BY <2>1, <2>2
<1>3. CASE all # << >>
  <2> DEFINE turns == Turns(lst, key)
             Left(n) == IF n < Len(all) THEN Len(all) - n ELSE 0
             T == {n \in 0 .. 9 : \E rest, new : /\ Links(turns[n], rest, new)
                                                /\ Order(key, rank, all, rest, new) /\ Len(rest) = Left(n)}
  <2>1. turns[0] = [list |-> lst, oldhead |-> lst.head, newlist |-> Null]
    BY TurnsIs
  <2>2. \A n \in 0 .. 9 - 1 : turns[n + 1] = Taken(turns[n], key)
    <3> SUFFICES ASSUME NEW n \in 0 .. 9 - 1 PROVE turns[n + 1] = Taken(turns[n], key)
      OBVIOUS
    <3>1. n + 1 \in 0 .. 9 /\ n + 1 # 0 /\ (n + 1) - 1 = n
      OBVIOUS
    <3> QED
      BY <3>1, TurnsIs
  <2> HIDE DEF turns
  <2>3. 0 \in T
    <3>1. Once(<< >>) /\ Len(<< >>) = 0 /\ Members1(<< >>) = {} /\ Last1(<< >>) = Null
      BY DEF Once, Members1, Last1
    <3>2. Links(turns[0], all, << >>)
      BY <1>1, <2>1, <3>1 DEF Links, Chained, Backward, Forward
    <3>3. Order(key, rank, all, all, << >>)
      BY <1>1, <3>1 DEF Order, Ranked
    <3>4. Len(all) = Left(0)
      BY <1>1
    <3> QED
      BY <3>2, <3>3, <3>4
  <2>4. ASSUME NEW n \in 0 .. 9 - 1, n \in T PROVE n + 1 \in T
    <3>1. PICK rest, new : /\ Links(turns[n], rest, new)
                           /\ Order(key, rank, all, rest, new) /\ Len(rest) = Left(n)
      BY <2>4
    <3>2. n + 1 \in 0 .. 9 /\ turns[n + 1] = Taken(turns[n], key) /\ Once(rest) /\ turns[n].oldhead = First1(rest)
      BY <2>2, <3>1 DEF Links
    <3>3. CASE rest = << >>
      <4>1. turns[n + 1] = turns[n]
        BY <3>2, <3>3 DEF Taken, First1
      <4>2. Len(rest) = Left(n + 1)
        <5>1. Len(rest) = 0
          BY <3>3
        <5>2. PICK l \in Nat : l = Len(all)
          BY <1>1
        <5> QED
          BY <3>1, <5>1, <5>2
      <4> QED
        BY <3>1, <3>2, <4>1, <4>2
    <3>4. CASE rest # << >>
      <4>1. PICK i \in 1 .. Len(rest) : /\ Links(Taken(turns[n], key), Omit(rest, i), Append(new, rest[i]))
                                        /\ Order(key, rank, all, Omit(rest, i), Append(new, rest[i]))
                                        /\ Len(Omit(rest, i)) = Len(rest) - 1
        BY <3>1, <3>4, TurnTakes
      <4>2. Len(Omit(rest, i)) = Left(n + 1)
        <5>1. Len(rest) \in Nat /\ Len(rest) # 0
          BY <3>2, <3>4, OnceFacts
        <5>2. PICK l \in Nat : l = Len(all)
          BY <1>1
        <5>3. PICK r \in Nat : r = Len(rest)
          BY <5>1
        <5>4. r - 1 = IF n + 1 < l THEN l - (n + 1) ELSE 0
          BY <3>1, <5>1, <5>2, <5>3
        <5> QED
          BY <4>1, <5>2, <5>3, <5>4
      <4> QED
        BY <3>2, <4>1, <4>2
    <3> QED
      BY <3>3, <3>4
  <2>5. 9 \in T
    <3>1. 0 .. 9 \subseteq T
      <4> HIDE DEF T
      <4> QED
        BY <2>3, <2>4, UpTo
    <3> QED
      BY <3>1
  <2>6. PICK rest, new : /\ Links(turns[9], rest, new)
                         /\ Order(key, rank, all, rest, new) /\ Len(rest) = Left(9)
    BY <2>5
  <2>7. rest = << >>
    <3>1. Len(rest) = 0
      <4>1. PICK l \in 0 .. 9 : l = Len(all)
        BY <1>1
      <4>2. ~(9 < l)
        OBVIOUS
      <4> QED
        BY <2>6, <4>1, <4>2
    <3>2. Once(rest)
      BY <2>6 DEF Links
    <3> QED
      BY <3>1, <3>2, OnceFacts
  <2>8. /\ Members1(new) = Members1(all) /\ Len(new) = Len(all)
        /\ \A i, j \in 1 .. Len(new) : i < j => Goes(key, rank, new[i], new[j])
    <3>1. Members1(rest) = {} /\ Len(rest) = 0
      BY <2>7 DEF Members1
    <3>2. Once(new)
      BY <2>6 DEF Links
    <3>3. Len(new) = Len(all)
      <4>1. PICK a : a = Len(new)
        OBVIOUS
      <4>2. a \in Nat /\ 0 + a = Len(all)
        BY <2>6, <3>1, <3>2, <4>1, OnceFacts DEF Order
      <4> QED
        BY <4>1, <4>2
    <3> QED
      BY <2>6, <3>1, <3>3 DEF Order
  <2>9. new # << >>
    <3>1. Len(all) # 0
      BY <1>1, <1>3, OnceFacts
    <3> QED
      BY <2>8, <3>1
  <2>10. SortedBy(lst, key) = Finished(turns[9].list, turns[9].newlist)
    <3>1. lst.head # Null
      <4>1. 1 \in 1 .. Len(all)
        BY <1>1, <1>3, OnceFacts
      <4> QED
        BY <1>1, <1>3, <4>1, OnceFacts DEF First1
    <3> QED
      BY <3>1 DEF SortedBy, turns
  <2>11. Chained(SortedBy(lst, key), new)
    BY <2>6, <2>7, <2>9, <2>10, FinishedChains
  <2> QED
    BY <2>8, <2>11
<1> QED
  BY <1>2, <1>3

-----------------------------------------------------------------------------
\* A list that is chained in the order asked for.
Arranged(lst, order, key, plain) ==
  LET w == From(lst, lst.head)
      Place1(s) == CHOOSE i \in 1 .. Len(order) : order[i] = s
  IN /\ Len(w) = Len(order) /\ {w[i] : i \in 1 .. Len(w)} = {order[i] : i \in 1 .. Len(order)}
     /\ \A i \in 1 .. Len(w) : lst.prv[w[i]] = IF i = 1 THEN Null ELSE w[i - 1]
     /\ \A i \in 1 .. Len(w) - 1 :
          IF plain \/ key[w[i]] = key[w[i + 1]] THEN Place1(w[i]) < Place1(w[i + 1]) ELSE key[w[i]] > key[w[i + 1]]

\* Where a storage is in the order of the device.
Ranking(order) == [s \in Members1(order) |-> CHOOSE i \in 1 .. Len(order) : order[i] = s]
LEMMA RankingRanks ==
  ASSUME NEW order, Once(order)
  PROVE  Ranked(order, Ranking(order))
BY DEF Once, Ranked, Ranking, Members1

LEMMA ChainFound ==
  ASSUME NEW lst, NEW w, Chained(lst, w)
  PROVE  From(lst, lst.head) = w
BY FromFinds DEF Chained

\* As the device lists them, it is in the order of the device, ...
LEMMA PlainArranged ==
  ASSUME NEW lst, NEW order, Chained(lst, order), NEW key
  PROVE  Arranged(lst, order, key, TRUE)
<1>1. From(lst, lst.head) = order /\ Once(order) /\ Backward(lst, order)
  BY ChainFound DEF Chained
<1>2. Len(order) \in Nat /\ \A i, j \in 1 .. Len(order) : order[i] = order[j] => i = j
  BY <1>1, OnceFacts
<1>3. ASSUME NEW i \in 1 .. Len(order) PROVE (CHOOSE j \in 1 .. Len(order) : order[j] = order[i]) = i
  BY <1>2
<1>4. ASSUME NEW i \in 1 .. Len(order) - 1
      PROVE  (CHOOSE j \in 1 .. Len(order) : order[j] = order[i]) < CHOOSE j \in 1 .. Len(order) : order[j] = order[i + 1]
  <2>1. i \in 1 .. Len(order) /\ i + 1 \in 1 .. Len(order) /\ i < i + 1
    BY <1>2
  <2>2. (CHOOSE j \in 1 .. Len(order) : order[j] = order[i]) = i
    BY <1>3, <2>1
  <2>3. (CHOOSE j \in 1 .. Len(order) : order[j] = order[i + 1]) = i + 1
    BY <1>3, <2>1
  <2> QED
    BY <2>1, <2>2, <2>3
<1> QED
  BY <1>1, <1>4 DEF Arranged, Backward

\* ... and sorted, in the order of the key.
LEMMA SortedArranged ==
  ASSUME NEW lst, NEW order, Chained(lst, order), NEW key \in [Store -> Nat]
  PROVE  Arranged(SortedBy(lst, key), order, key, FALSE)
<1> DEFINE rank == Ranking(order)
           sorted == SortedBy(lst, key)
<1>1. PICK new : /\ Chained(sorted, new) /\ Members1(new) = Members1(order) /\ Len(new) = Len(order)
                 /\ \A i, j \in 1 .. Len(new) : i < j => Goes(key, rank, new[i], new[j])
  <2>1. Ranked(order, rank)
    BY RankingRanks DEF Chained
  <2> HIDE DEF rank
  <2> QED
    BY <2>1, SortedByIs
<1> HIDE DEF sorted
<1>2. From(sorted, sorted.head) = new /\ Once(new) /\ Backward(sorted, new)
  BY <1>1, ChainFound DEF Chained
<1>3. Len(new) \in Nat /\ \A i \in 1 .. Len(new) : new[i] \in Store /\ new[i] \in Members1(order)
  BY <1>1, <1>2, OnceFacts
<1>4. \A s \in Members1(order) : rank[s] = CHOOSE i \in 1 .. Len(order) : order[i] = s
  BY DEF Ranking
<1> HIDE DEF rank
<1>5. ASSUME NEW i \in 1 .. Len(new) - 1
      PROVE  IF key[new[i]] = key[new[i + 1]]
               THEN (CHOOSE j \in 1 .. Len(order) : order[j] = new[i]) < CHOOSE j \in 1 .. Len(order) : order[j] = new[i + 1]
               ELSE key[new[i]] > key[new[i + 1]]
  <2>1. i \in 1 .. Len(new) /\ i + 1 \in 1 .. Len(new) /\ i < i + 1
    BY <1>3
  <2>2. Goes(key, rank, new[i], new[i + 1])
    BY <1>1, <2>1
  <2>3. key[new[i]] \in Nat /\ key[new[i + 1]] \in Nat
    BY <1>3, <2>1
  <2>4. /\ rank[new[i]] = CHOOSE j \in 1 .. Len(order) : order[j] = new[i]
        /\ rank[new[i + 1]] = CHOOSE j \in 1 .. Len(order) : order[j] = new[i + 1]
    <3>1. new[i] \in Members1(order) /\ new[i + 1] \in Members1(order)
      BY <1>3, <2>1
    <3> QED
      BY <1>4, <3>1, Zenon
  <2> QED
    BY <2>2, <2>3, <2>4 DEF Goes
<1>6. {new[i] : i \in 1 .. Len(new)} = {order[i] : i \in 1 .. Len(order)}
  BY <1>1 DEF Members1
<1>7. \A i \in 1 .. Len(new) : sorted.prv[new[i]] = IF i = 1 THEN Null ELSE new[i - 1]
  BY <1>2 DEF Backward
<1>8. \A i \in 1 .. Len(new) - 1 :
        IF FALSE \/ key[new[i]] = key[new[i + 1]]
          THEN (CHOOSE j \in 1 .. Len(order) : order[j] = new[i]) < CHOOSE j \in 1 .. Len(order) : order[j] = new[i + 1]
          ELSE key[new[i]] > key[new[i + 1]]
  BY <1>5
<1>9. Arranged(sorted, order, key, FALSE)
  <2> DEFINE found == From(sorted, sorted.head)
  <2>1. found = new
    BY <1>2
  <2> HIDE DEF found
  <2>2. Len(found) = Len(order) /\ {found[i] : i \in 1 .. Len(found)} = {order[i] : i \in 1 .. Len(order)}
    BY <1>1, <1>6, <2>1
  <2>3. \A i \in 1 .. Len(found) : sorted.prv[found[i]] = IF i = 1 THEN Null ELSE found[i - 1]
    BY <1>7, <2>1
  <2>4. \A i \in 1 .. Len(found) - 1 :
          IF FALSE \/ key[found[i]] = key[found[i + 1]]
            THEN (CHOOSE j \in 1 .. Len(order) : order[j] = found[i]) < CHOOSE j \in 1 .. Len(order) : order[j] = found[i + 1]
            ELSE key[found[i]] > key[found[i + 1]]
    BY <1>8, <2>1, Zenon
  <2> QED
    BY <2>2, <2>3, <2>4, Zenon DEF Arranged, found
<1> QED
  BY <1>9 DEF sorted

-----------------------------------------------------------------------------
\* LIBMTP_Get_Storage fills the list in the order of the device: the first so many of it
\* are in, the others are left.
Filling ==
  /\ pc = "ids" => list = Emptied
  /\ pc = "info" =>
       /\ Supports("GetStorageInfo")
       /\ \E k \in 0 .. Len(scene.order) :
            /\ Chained(list, Firsts(scene.order, k)) /\ my.left \in Seq(Store)
            /\ Len(my.left) = Len(scene.order) - k
            /\ \A i \in 1 .. Len(my.left) : my.left[i] = scene.order[k + i]
\* What is known of a storage, and how much room there is.
Spaces == room \in [Store -> 0 .. Unknown - 1] /\ known \in [Store -> [kind : StoreKind, free : Nat]]
OnlyStorage == call.op = "storage" => pc \in {"idle", "ids", "info"}
\* The inductive invariant behind StorageSorted.
StoreInv == Spaces /\ OnlyStorage /\ Filling /\ StorageSorted

LEMMA InScene ==
  ASSUME scene \in Scenarios
  PROVE  /\ Once(scene.order) /\ scene.size \in [Store -> 0 .. Unknown - 1] /\ scene.kind \in [Store -> StoreKind]
         /\ DOMAIN scene.order = 1 .. Len(scene.order)
BY ScenarioAssumption DEF Once

LEMMA ToldIs ==
  ASSUME scene \in Scenarios, Spaces
  PROVE  \A s \in Store : Told(s) \in [kind : StoreKind, free : Nat]
<1>1. Unknown \in Nat /\ 0 .. Unknown - 1 \subseteq Nat
  BY DEF Unknown
<1> QED
  BY <1>1, InScene DEF Told, Spaces, StoreKind

\* What leaves the storages, and those who list them, alone.
LEMMA StoresStay ==
  ASSUME StoreInv, UNCHANGED <<scene, list, call>>, Spaces', call.op # "storage", pc' \notin {"ids", "info"},
         pc' = "idle" => result'.op = call.op
  PROVE  StoreInv'
BY DEF StoreInv, OnlyStorage, Filling, StorageSorted, Succeeded

\* LIBMTP_Get_Storage.
LEMMA StorageIdsSort ==
  ASSUME FilesInv, StoreInv, StorageIds
  PROVE  StoreInv'
<1>1. /\ scene \in Scenarios /\ DOMAIN my = DOMAIN Idle /\ call.op = "storage" /\ pc = "ids"
      /\ UNCHANGED <<scene, room, call>>
  BY DEF StorageIds, FilesInv, SizesInv, CInv, Shapes, Where, device
<1> DEFINE order == scene.order
<1>2. /\ Once(order) /\ list = Emptied /\ Len(order) \in Nat
      /\ Chained(Emptied, Firsts(order, 0)) /\ Chained(Listed(order), order)
  BY <1>1, InScene, FilledChains, OnceFacts DEF StoreInv, Filling
<1>3. CASE /\ order # << >> /\ Supports("GetStorageInfo")
           /\ my' = [my EXCEPT !.left = order] /\ Goto("info") /\ UNCHANGED storages
  <2>1. pc' = "info" /\ list' = Emptied /\ known' = known /\ my'.left = order
    BY <1>1, <1>2, <1>3, Answers DEF storages, Idle
  <2>2. /\ 0 \in 0 .. Len(order) /\ order \in Seq(Store) /\ Len(order) = Len(order) - 0
        /\ \A i \in 1 .. Len(order) : order[i] = order[0 + i]
    BY <1>2, OnceFacts
  <2>3. Filling'
    BY <1>1, <1>2, <1>3, <2>1, <2>2 DEF Filling, Supports
  <2> QED
    BY <1>1, <2>1, <2>3 DEF StoreInv, Spaces, OnlyStorage, StorageSorted, Succeeded
<1>4. CASE /\ ~Supports("GetStorageInfo") /\ list' = Listed(order) /\ known' = [s \in Store |-> Told(s)] /\ Return(TRUE, 1)
  <2>1. pc' = "idle"
    BY <1>4, Answers
  <2>2. Spaces'
    BY <1>1, <1>4, ToldIs DEF StoreInv, Spaces
  <2>3. StorageSorted'
    <3> DEFINE plain == call.sort = "none" \/ ~Supports("GetStorageInfo")
    <3>1. plain = TRUE
      BY <1>4
    <3> HIDE DEF plain
    <3>2. Arranged(list', order, Key', plain)
      BY <1>2, <1>4, <3>1, PlainArranged
    <3>3. plain = (call'.sort = "none" \/ ~Supports("GetStorageInfo")')
      BY <1>1 DEF plain, Supports
    <3>4. Arranged(list', scene'.order, Key', call'.sort = "none" \/ ~Supports("GetStorageInfo")')
      BY <1>1, <3>2, <3>3
    <3> QED
      BY <3>4 DEF StorageSorted, Arranged
  <2> QED
    BY <2>1, <2>2, <2>3 DEF StoreInv, OnlyStorage, Filling
<1>5. CASE Return(FALSE, 0) /\ UNCHANGED storages
  <2>1. pc' = "idle" /\ ~result'.ok /\ UNCHANGED <<list, known>>
    BY <1>5, Answers DEF storages
  <2> QED
    BY <1>1, <2>1 DEF StoreInv, Spaces, OnlyStorage, Filling, StorageSorted, Succeeded
<1> QED
  BY <1>3, <1>4, <1>5 DEF StorageIds

LEMMA StorageInfoSort ==
  ASSUME FilesInv, StoreInv, StorageInfo
  PROVE  StoreInv'
<1>1. /\ scene \in Scenarios /\ DOMAIN my = DOMAIN Idle /\ call.op = "storage" /\ pc = "info"
      /\ UNCHANGED <<scene, room, call>>
  BY DEF StorageInfo, FilesInv, SizesInv, CInv, Shapes, Where, device
<1> DEFINE order == scene.order
           left == my.left
<1>2. /\ Once(order) /\ Len(order) \in Nat /\ Supports("GetStorageInfo")
  BY <1>1, InScene, OnceFacts DEF StoreInv, Filling
<1>3. PICK k \in 0 .. Len(order) :
        /\ Chained(list, Firsts(order, k)) /\ left \in Seq(Store) /\ Len(left) = Len(order) - k
        /\ \A i \in 1 .. Len(left) : left[i] = order[k + i]
  BY <1>1 DEF StoreInv, Filling
<1>4. CASE /\ left # << >> /\ list' = Append1(list, Head(left)) /\ known' = [known EXCEPT ![Head(left)] = Told(Head(left))]
           /\ my' = [my EXCEPT !.left = Tail(@)] /\ Goto("info")
  <2>1. PICK l \in Nat, n \in Nat : l = Len(left) /\ n = Len(order)
    <3>1. Len(left) \in Nat
      BY <1>3
    <3> QED
      BY <1>2, <3>1
  <2>2. l # 0 /\ l = n - k /\ k \in Nat /\ k < n /\ k + 1 \in 0 .. n /\ k \in 0 .. n /\ l - 1 = n - (k + 1)
    <3>1. l # 0
      BY <1>3, <1>4, <2>1
    <3>2. l = n - k /\ k \in 0 .. n
      BY <1>3, <2>1
    <3> QED
      BY <3>1, <3>2
  <2>3. /\ Head(left) = order[k + 1] /\ Head(left) \in Store
        /\ Tail(left) \in Seq(Store) /\ Len(Tail(left)) = l - 1
        /\ \A i \in 1 .. l - 1 : Tail(left)[i] = left[i + 1]
    <3>1. 1 \in 1 .. Len(left)
      BY <2>1, <2>2
    <3>2. Head(left) = left[1] /\ left[1] \in Store
      BY <1>3, <3>1
    <3>3. left[1] = order[k + 1]
      BY <1>3, <3>1
    <3>4. Tail(left) \in Seq(Store) /\ Len(Tail(left)) = l - 1 /\ \A i \in 1 .. l - 1 : Tail(left)[i] = left[i + 1]
      BY <1>3, <1>4, <2>1
    <3> QED
      BY <3>2, <3>3, <3>4
  <2>4. Chained(list', Firsts(order, k + 1))
    <3>1. /\ Firsts(order, k + 1) = Append(Firsts(order, k), order[k + 1])
          /\ \A i \in 1 .. k : Firsts(order, k)[i] # order[k + 1] /\ Len(Firsts(order, k)) = k
      BY <1>2, <2>1, <2>2, FirstsOnce
    <3>2. Len(Firsts(order, k)) = k
      BY <1>2, <2>1, <2>2, FirstsOnce
    <3>3. \A i \in 1 .. Len(Firsts(order, k)) : Firsts(order, k)[i] # Head(left)
      BY <2>3, <3>1, <3>2
    <3>4. Chained(Append1(list, Head(left)), Append(Firsts(order, k), Head(left)))
      BY <1>3, <2>3, <3>3, AppendChains
    <3> QED
      BY <1>4, <2>3, <3>1, <3>4
  <2>5. pc' = "info" /\ my'.left = Tail(left)
    BY <1>1, <1>4, Answers DEF Idle
  <2>6. \A i \in 1 .. l - 1 : Tail(left)[i] = order[(k + 1) + i]
    <3> SUFFICES ASSUME NEW i \in 1 .. l - 1 PROVE Tail(left)[i] = order[(k + 1) + i]
      OBVIOUS
    <3>1. i + 1 \in 1 .. l /\ k + (i + 1) = (k + 1) + i
      BY <2>2
    <3>2. left[i + 1] = order[k + (i + 1)]
      BY <1>3, <2>1, <3>1
    <3> QED
      BY <2>3, <3>1, <3>2
  <2>7. Filling'
    <3>1. k + 1 \in 0 .. Len(order) /\ Len(Tail(left)) = Len(order) - (k + 1)
      BY <2>1, <2>2, <2>3
    <3>2. \A i \in 1 .. Len(Tail(left)) : Tail(left)[i] = order[(k + 1) + i]
      BY <2>3, <2>6
    <3>3. /\ k + 1 \in 0 .. Len(scene'.order) /\ Chained(list', Firsts(scene'.order, k + 1))
          /\ my'.left \in Seq(Store) /\ Len(my'.left) = Len(scene'.order) - (k + 1)
          /\ \A i \in 1 .. Len(my'.left) : my'.left[i] = scene'.order[(k + 1) + i]
      BY <1>1, <2>3, <2>4, <2>5, <3>1, <3>2
    <3>4. Supports("GetStorageInfo")'
      BY <1>1, <1>2 DEF Supports
    <3> QED
      BY <2>5, <3>3, <3>4, Zenon DEF Filling
  <2>8. Spaces'
    BY <1>1, <1>4, <2>3, ToldIs DEF StoreInv, Spaces
  <2> QED
    BY <1>1, <2>5, <2>7, <2>8 DEF StoreInv, OnlyStorage, StorageSorted, Succeeded
<1>5. CASE Return(FALSE, 0) /\ known' = known
  <2>1. pc' = "idle" /\ ~result'.ok
    BY <1>5, Answers
  <2> QED
    BY <1>1, <1>5, <2>1 DEF StoreInv, Spaces, OnlyStorage, Filling, StorageSorted, Succeeded
<1>6. CASE /\ left = << >> /\ list' = (IF call.sort = "none" THEN list ELSE SortedBy(list, Key))
           /\ Return(TRUE, 0) /\ known' = known
  <2>1. pc' = "idle" /\ Key' = Key
    BY <1>1, <1>6, Answers DEF Key
  <2>2. Chained(list, order)
    <3>1. PICK n \in Nat : n = Len(order)
      BY <1>2
    <3>2. 0 = n - k /\ k \in 0 .. n
      BY <1>3, <1>6, <3>1
    <3>3. k = Len(order)
      BY <3>1, <3>2
    <3>4. Firsts(order, Len(order)) = order
      BY <1>2 DEF Firsts, Once
    <3> QED
      BY <1>3, <3>3, <3>4
  <2>3. Key \in [Store -> Nat]
    <3>1. 0 .. Unknown - 1 \subseteq Nat
      OBVIOUS
    <3>2. \A s \in Store : scene.size[s] \in Nat /\ known[s].free \in Nat
      BY <1>1, <3>1, InScene DEF StoreInv, Spaces
    <3> QED
      BY <3>2 DEF Key
  <2>4. Arranged(list', order, Key, call.sort = "none")
    <3>1. CASE call.sort = "none"
      BY <1>6, <2>2, <3>1, PlainArranged
    <3>2. CASE call.sort # "none"
      <4>1. (call.sort = "none") = FALSE
        BY <3>2
      <4> QED
        BY <1>6, <2>2, <2>3, <4>1, SortedArranged
    <3> QED
      BY <3>1, <3>2
  <2>5. StorageSorted'
    <3> DEFINE plain == call.sort = "none" \/ ~Supports("GetStorageInfo")
    <3>1. plain' = (call.sort = "none")
      BY <1>1, <1>2 DEF Supports
    <3>2. Arranged(list', scene'.order, Key', plain')
      BY <1>1, <2>1, <2>4, <3>1
    <3> QED
      BY <3>2 DEF StorageSorted, Arranged
  <2> QED
    BY <1>1, <1>6, <2>1, <2>5 DEF StoreInv, Spaces, OnlyStorage, Filling
<1> QED
  BY <1>4, <1>5, <1>6 DEF StorageInfo

\* The other calls.
LEMMA CallStores ==
  ASSUME FilesInv, StoreInv, Call
  PROVE  StoreInv'
<1>1. PICK c \in scene.calls : /\ call'.op = c.op /\ c.op \in ApiCalls
                               /\ list' = IF c.op = "storage" THEN Emptied ELSE list
  <2>1. PICK c \in scene.calls : /\ \E h : call' = [c EXCEPT !.h = h]
                                 /\ list' = IF c.op = "storage" THEN Emptied ELSE list
    BY DEF Call
  <2>2. c \in Request
    BY CallAssumption DEF FilesInv, SizesInv, CInv, Shapes
  <2> QED
    BY <2>1, <2>2 DEF Request
<1>2. pc' = First /\ UNCHANGED <<scene, room, known>>
  BY DEF Call, device
<1>3. /\ pc' = "ids" <=> call'.op = "storage"
      /\ pc' \notin {"info", "idle"}
  BY <1>1, <1>2 DEF First, Stores, ApiCalls, OfObject
<1> QED
  BY <1>1, <1>2, <1>3 DEF StoreInv, Spaces, OnlyStorage, Filling, StorageSorted, Succeeded

\* A storage has less room by what is put on it, and never less than none.
LEMMA RoomStays ==
  ASSUME FilesInv, Spaces, Sent
  PROVE  room' \in [Store -> 0 .. Unknown - 1]
<1> DEFINE s == dev[my.id].store
<1>1. room \in [Store -> 0 .. Unknown - 1] /\ call.size \in Nat
  BY DEF Spaces, FilesInv, SizesInv, Sizes
<1>2. CASE call.fmt = "list"
  BY <1>1, <1>2 DEF Sent
<1>3. CASE call.fmt # "list"
  <2>1. room' = [room EXCEPT ![s] = @ - call.size] /\ call.size <= room[s]
    BY <1>3 DEF Sent, HasRoom
  <2>2. CASE s \in Store
    <3>1. room[s] - call.size \in 0 .. Unknown - 1
      <4>1. PICK r, c : r = room[s] /\ c = call.size
        OBVIOUS
      <4>2. r \in 0 .. Unknown - 1 /\ c \in Nat /\ c <= r
        BY <1>1, <2>1, <2>2, <4>1
      <4>3. r - c \in 0 .. Unknown - 1
        BY <4>2 DEF Unknown
      <4> QED
        BY <4>1, <4>3
    <3> QED
      BY <1>1, <2>1, <3>1
  <2>3. CASE s \notin Store
    BY <1>1, <2>1, <2>3
  <2> QED
    BY <2>2, <2>3
<1> QED
  BY <1>2, <1>3

LEMMA SendDataStores ==
  ASSUME FilesInv, StoreInv, SendData \/ SendFromHandler
  PROVE  StoreInv'
<1>1. pc = "senddata" /\ UNCHANGED <<scene, list, known, call>>
  BY DEF SendData, SendFromHandler, storages
<1>2. Sent \/ Unsent
  BY DEF SendData, SendFromHandler, Refused
<1>3. pc' \notin {"ids", "info"} /\ (pc' = "idle" => result'.op = call.op)
  BY <1>2, Answers DEF Sent, Unsent
<1>4. Spaces'
  BY <1>1, <1>2, RoomStays DEF StoreInv, Spaces, Unsent
<1> QED
  BY <1>1, <1>3, <1>4, StoresStay DEF StoreInv, OnlyStorage

\* get_writeable_storageid learns how much room a storage has.
LEMMA ChoosingStores ==
  ASSUME FilesInv, StoreInv, Suggest \/ Fit
  PROVE  StoreInv'
<1>1. /\ pc \in {"suggest", "fit"} /\ UNCHANGED <<scene, room, list, call>>
      /\ pc' \in {"place", "fit"}
  BY DEF Suggest, Fit, WantProps, Goto, device, storages
<1>2. Spaces'
  <2>1. \/ known' = known
        \/ \E s : known' = [known EXCEPT ![s] = [kind |-> scene.kind[s], free |-> room[s]]]
    BY DEF Suggest, Fit, FreeNow, storages
  <2>2. ASSUME NEW s \in Store PROVE [kind |-> scene.kind[s], free |-> room[s]] \in [kind : StoreKind, free : Nat]
    <3>1. 0 .. Unknown - 1 \subseteq Nat
      BY DEF Unknown
    <3> QED
      BY <3>1, InScene DEF StoreInv, Spaces, FilesInv, SizesInv, CInv, Shapes
  <2> QED
    BY <1>1, <2>1, <2>2 DEF StoreInv, Spaces
<1> QED
  BY <1>1, <1>2, StoresStay DEF StoreInv, OnlyStorage

LEMMA OtherStores ==
  ASSUME FilesInv, StoreInv,
         \/ Place \/ PlaceList \/ Props \/ Descs \/ SendInfo \/ OpenFile
         \/ SetOne \/ OneProps \/ UpdateProps \/ SetDescs \/ SetList \/ SetRefs
         \/ Updated \/ AddInfo \/ AddProps \/ Reread \/ RereadProps
         \/ GetTitle \/ GetList \/ GetRefs \/ SetTitle
  PROVE  StoreInv'
<1>1. pc \notin {"idle", "ids", "info"} /\ UNCHANGED <<scene, room, list, known, call>>
  BY DEF Place, PlaceList, Props, Descs, SendInfo, OpenFile, SetOne, OneProps, UpdateProps, SetDescs, SetList, SetRefs,
         Updated, AddInfo, AddProps, Reread, RereadProps, GetTitle, GetList, GetRefs, SetTitle, device, storages
<1>2. pc' \notin {"ids", "info"} /\ (pc' = "idle" => result'.op = call.op)
  <2>1. CASE Place \/ PlaceList \/ Props \/ Descs \/ SendInfo \/ OpenFile
    <3>1. CASE Place \/ PlaceList
      BY <3>1 DEF Place, PlaceList, Goto, Return, Stores
    <3>2. CASE Props \/ Descs
      BY <3>2 DEF Props, Descs, Goto, Return
    <3>3. CASE SendInfo \/ OpenFile
      BY <3>3 DEF SendInfo, OpenFile, Unannounced, Goto, Return, Stores, AfterInfo
    <3> QED
      BY <2>1, <3>1, <3>2, <3>3
  <2>2. CASE SetOne \/ OneProps \/ UpdateProps \/ SetDescs \/ SetList \/ SetRefs
    <3>1. CASE SetOne
      BY <3>1 DEF SetOne, Goto, Return, Failed
    <3>2. CASE OneProps \/ UpdateProps
      BY <3>2 DEF OneProps, UpdateProps, Goto, Return
    <3>3. CASE SetDescs \/ SetList \/ SetRefs
      <4>1. \/ Return(FALSE, 0)
            \/ Goto("setdescs") \/ Goto("setlist") \/ Goto("refs") \/ Goto("updated") \/ Goto("add")
        BY <3>3 DEF SetDescs, SetList, SetRefs
      <4> QED
        BY <4>1, Answers
    <3> QED
      BY <2>2, <3>1, <3>2, <3>3
  <2>3. CASE Updated \/ AddInfo \/ AddProps \/ Reread \/ RereadProps
    BY <2>3 DEF Updated, AddInfo, AddProps, Reread, RereadProps, WantProps, Goto, Return, Added
  <2>4. CASE GetTitle \/ GetList \/ GetRefs \/ SetTitle
    BY <2>4 DEF GetTitle, GetList, GetRefs, SetTitle, Goto, Return, Answer
  <2> QED
    BY <2>1, <2>2, <2>3, <2>4
<1>3. Spaces'
  BY <1>1 DEF StoreInv, Spaces
<1> QED
  BY <1>1, <1>2, <1>3, StoresStay DEF StoreInv, OnlyStorage

LEMMA ReadingStores ==
  ASSUME FilesInv, StoreInv, Reads
  PROVE  StoreInv'
<1>1. /\ UNCHANGED <<device, call, my>> /\ call.op \in Listers
      /\ pc' \in Looking \/ (pc' = "idle" /\ result'.op = call.op)
  BY ReadingKeeps DEF FilesInv, SizesInv
<1>2. UNCHANGED storages
  BY DEF Reads, Begin, BeginOne, BeginWithin, GetFolders, NextItem, WantInfo, Look, LookAlbum, WantList,
         Supported, Field, Name, Members, Unread
<1>3. Spaces'
  BY <1>1, <1>2 DEF StoreInv, Spaces, device, storages
<1>4. call.op # "storage"
  BY <1>1 DEF Listers, Walking, Inside, Single, Fetching
<1> QED
  BY <1>1, <1>2, <1>3, <1>4, StoresStay DEF device, storages, Looking

LEMMA FilesStores ==
  ASSUME FilesInv, StoreInv, Partial \/ GetFile \/ GetToHandler \/ Edit \/ EndEdit
  PROVE  StoreInv'
<1>1. UNCHANGED <<scene, call>> /\ (pc' \in {"fetch", "updated"} \/ (pc' = "idle" /\ result'.op = call.op))
  BY FilesKeep DEF FilesInv, SizesInv
<1>2. UNCHANGED <<room, storages>> /\ pc \notin {"idle", "ids", "info"}
  BY DEF Partial, GetFile, GetToHandler, Edit, EndEdit, device
<1>3. Spaces'
  BY <1>2 DEF StoreInv, Spaces, storages
<1> QED
  BY <1>1, <1>2, <1>3, StoresStay DEF storages, StoreInv, OnlyStorage

LEMMA EveryStepStores ==
  ASSUME FilesInv, StoreInv, [Everything]_EveryVar
  PROVE  StoreInv'
<1>1. CASE UNCHANGED EveryVar
  <2>1. UNCHANGED <<scene, room, list, known, pc, call, my, result>>
    BY <1>1 DEF EveryVar, AllVars, vars, device, storages
  <2>2. StorageSorted'
    <3>1. Key' = Key /\ Supports("GetStorageInfo")' = Supports("GetStorageInfo")
      BY <2>1 DEF Key, Supports
    <3>2. Succeeded({"storage"})' = Succeeded({"storage"})
      BY <2>1 DEF Succeeded
    <3>3. UNCHANGED <<scene.order, list, call.sort>>
      BY <2>1
    <3> DEFINE plain == call.sort = "none" \/ ~Supports("GetStorageInfo")
    <3>4. Succeeded({"storage"}) => Arranged(list, scene.order, Key, plain)
      BY DEF StoreInv, StorageSorted, Arranged
    <3>5. Succeeded({"storage"})' => Arranged(list', scene'.order, Key', plain')
      BY <3>1, <3>2, <3>3, <3>4
    <3> QED
      BY <3>5 DEF StorageSorted, Arranged
  <2> QED
    BY <2>1, <2>2 DEF StoreInv, Spaces, OnlyStorage, Filling, Supports
<1>2. CASE Next
  BY <1>2, CallStores, ChoosingStores, SendDataStores, OtherStores, StorageIdsSort, StorageInfoSort DEF Next
<1>3. CASE Reads
  BY <1>3, ReadingStores
<1>4. CASE Partial \/ GetFile \/ GetToHandler \/ Edit \/ EndEdit
  BY <1>4, FilesStores
<1> QED
  BY <1>1, <1>2, <1>3, <1>4 DEF Everything, Elsewhere, AnyCall

LEMMA BegunHoldsStores == Begun => StoreInv
<1> SUFFICES ASSUME Begun PROVE StoreInv
  OBVIOUS
<1>1. /\ scene \in Scenarios /\ room = scene.size /\ pc = "idle" /\ call = NoCall
      /\ result.op = "none" /\ known = [s \in Store |-> Told(s)]
  BY DEF Begun, Init
<1>2. Spaces
  <2>1. room \in [Store -> 0 .. Unknown - 1]
    BY <1>1, InScene
  <2>2. 0 .. Unknown - 1 \subseteq Nat /\ Unknown \in Nat
    BY DEF Unknown
  <2>3. \A s \in Store : Told(s) \in [kind : StoreKind, free : Nat]
    BY <1>1, <2>1, <2>2, InScene DEF Told, StoreKind
  <2> QED
    BY <1>1, <2>1, <2>3 DEF Spaces
<1> QED
  BY <1>1, <1>2 DEF StoreInv, OnlyStorage, Filling, StorageSorted, Succeeded, NoCall

\* StorageSorted always holds: after LIBMTP_Get_Storage the list has every storage the
\* device names, once, linked as well back as forward, and in the order asked for.
THEOREM StoragesAreSorted == Device => []StorageSorted
<1>1. Device => [](FilesInv /\ StoreInv)
  <2>1. Begun => FilesInv /\ StoreInv
    BY BegunHoldsFiles, BegunHoldsStores
  <2>2. FilesInv /\ StoreInv /\ [Everything]_EveryVar => (FilesInv /\ StoreInv)'
    BY EveryStepKeepsFiles, EveryStepStores
  <2> QED
    BY <2>1, <2>2, PTL DEF Device
<1>2. FilesInv /\ StoreInv => StorageSorted
  BY DEF StoreInv
<1> QED
  BY <1>1, <1>2, PTL

-----------------------------------------------------------------------------
\* A file is sent without naming a place, nothing failed and the list is as it was.
Undisturbed == Faultless /\ ~Does("storage") /\ Supports("GetStorageInfo")
Anywhere == call.op = "send" /\ call.parent = Root /\ call.store = Null
Lacks(s) == Writable(scene.kind[s]) => call.size > room[s]
NoRoom == \A s \in Present : Lacks(s)
Taking == my.store \in Present /\ Writable(scene.kind[my.store]) /\ call.size <= room[my.store]
Home == \/ folders.music = Top
        \/ /\ folders.music \in DOMAIN dev /\ dev[folders.music].fmt = "folder"
           /\ list.head # Null => dev[folders.music].store = list.head

\* The list is the one of the device, the default folder on its first storage.
Homes ==
  /\ ~Does("storage") => list = Listed(scene.order) /\ Home
  /\ Supports("GetStorageInfo") => \A s \in Store : known[s].kind = scene.kind[s]
  /\ pc = "name?" => call.op = "create"
\* get_writeable_storageid has found no room on the storages before the one it is at.
Tried(n) == /\ my.at = IF n <= Len(scene.order) THEN scene.order[n] ELSE Null
            /\ \A j \in 1 .. n - 1 : Lacks(scene.order[j])
Chosen == {"place", "props", "descs", "sendinfo", "senddata"}
Searching ==
  Undisturbed /\ Anywhere =>
    /\ pc \in {"open", "suggest", "fit", "place"} => my.parent = Root
    /\ pc = "fit" => \E n \in 1 .. Len(scene.order) + 1 : Tried(n)
    /\ pc \in Chosen => NoRoom \/ Taking
    /\ pc \in {"props", "descs", "sendinfo"} => NoRoom \/ Accepts(my.store, my.parent)
    /\ pc = "senddata" => NoRoom \/ dev[my.id].store = my.store
\* The inductive invariant behind SendsIfRoom.
RoomInv == Homes /\ Searching /\ SendsIfRoom

LEMMA Faulty ==
  ASSUME FilesInv
  PROVE  Fails => ~Faultless'
BY DEF Fails, Faultless, FilesInv, SizesInv, Sizes

\* What keeps the folders, the list and what is known of the storages, and who does not
\* look for a place.
FoldersStay == \A h \in DOMAIN dev : dev[h].fmt = "folder" =>
                 h \in DOMAIN dev' /\ dev'[h].fmt = "folder" /\ dev'[h].store = dev[h].store
KindsStay == \A s \in Store : known'[s].kind = known[s].kind
RoomFrame == UNCHANGED <<scene, list, folders, call>> /\ FoldersStay /\ KindsStay /\ (spent' = spent \/ Fails)

LEMMA HomesStay ==
  ASSUME Homes, RoomFrame, pc' # "name?"
  PROVE  Homes'
<1>1. Home => Home'
  BY DEF Home, RoomFrame, FoldersStay
<1>2. \A op : Does(op)' = Does(op) /\ Supports(op)' = Supports(op)
  BY DEF Does, Supports, RoomFrame
<1>3. ~Does("storage")' => list' = Listed(scene'.order) /\ Home'
  BY <1>1, <1>2 DEF Homes, RoomFrame
<1>4. Supports("GetStorageInfo")' => \A s \in Store : known'[s].kind = scene'.kind[s]
  BY <1>2 DEF Homes, RoomFrame, KindsStay
<1> QED
  BY <1>3, <1>4 DEF Homes

LEMMA Unsearching ==
  ASSUME FilesInv, RoomInv, RoomFrame, pc' \notin {"name?", "open", "suggest", "fit"} \cup Chosen,
         pc' = "idle" => \/ result'.op # "send" \/ result'.ok \/ Fails
                         \/ ~(Supports("SetObjPropList") \/ Supports("SetObjectPropValue"))
  PROVE  RoomInv'
<1>1. Homes'
  BY HomesStay DEF RoomInv
<1>2. Searching'
  BY DEF Searching, Chosen
<1>3. SendsIfRoom'
  BY Faulty DEF SendsIfRoom, Supports, RoomFrame
<1> QED
  BY <1>1, <1>2, <1>3 DEF RoomInv

\* Nothing failed before if nothing has failed now.
LEMMA StillUndisturbed ==
  ASSUME FilesInv, RoomFrame, (Undisturbed /\ Anywhere)'
  PROVE  Undisturbed /\ Anywhere /\ spent' = spent /\ ~Fails
<1>1. ~Fails /\ spent' = spent
  BY Faulty DEF RoomFrame, Undisturbed
<1> QED
  BY <1>1 DEF Undisturbed, Faultless, Does, Supports, Anywhere, RoomFrame

\* The list of a device that is not asked again.
LEMMA AtHand ==
  ASSUME FilesInv, Homes, Undisturbed
  PROVE  /\ Once(scene.order) /\ Len(scene.order) \in Nat /\ Chained(list, scene.order)
         /\ list = Listed(scene.order) /\ Home
         /\ \A s \in Store : known[s].kind = scene.kind[s]
         /\ Present = {scene.order[i] : i \in 1 .. Len(scene.order)} /\ Present \subseteq Store
<1>1. scene \in Scenarios
  BY DEF FilesInv, SizesInv, CInv, Shapes
<1>2. Once(scene.order) /\ DOMAIN scene.order = 1 .. Len(scene.order)
  BY <1>1, InScene
<1>3. Chained(Listed(scene.order), scene.order)
  BY <1>2, FilledChains
<1>4. Len(scene.order) \in Nat /\ \A i \in 1 .. Len(scene.order) : scene.order[i] \in Store
  BY <1>2, OnceFacts
<1> QED
  BY <1>2, <1>3, <1>4 DEF Homes, Undisturbed, Present

\* get_writeable_storageid goes from one storage of the list to the next.
LEMMA NextOne ==
  ASSUME FilesInv, Homes, Undisturbed, NEW n \in 1 .. Len(scene.order)
  PROVE  /\ scene.order[n] \in Store /\ scene.order[n] # Null /\ n + 1 \in 1 .. Len(scene.order) + 1
         /\ list.nxt[scene.order[n]] = IF n + 1 <= Len(scene.order) THEN scene.order[n + 1] ELSE Null
<1>1. /\ Once(scene.order) /\ Len(scene.order) \in Nat /\ Forward(list, scene.order) /\ Closed(list, scene.order)
  BY AtHand DEF Chained
<1>2. scene.order[n] \in Store /\ scene.order[n] # Null /\ n + 1 \in 1 .. Len(scene.order) + 1
  BY <1>1, OnceFacts
<1>3. CASE n = Len(scene.order)
  <2>1. scene.order # << >>
    BY <1>1, <1>3, OnceFacts
  <2>2. list.nxt[scene.order[n]] = Null
    BY <1>1, <1>3, <2>1 DEF Closed
  <2>3. ~(n + 1 <= Len(scene.order))
    BY <1>1, <1>3
  <2> QED
    BY <1>2, <2>2, <2>3
<1>4. CASE n # Len(scene.order)
  <2>1. n \in 1 .. Len(scene.order) - 1 /\ n + 1 <= Len(scene.order)
    BY <1>1, <1>4
  <2>2. list.nxt[scene.order[n]] = scene.order[n + 1]
    BY <1>1, <2>1 DEF Forward
  <2> QED
    BY <1>2, <2>1, <2>2
<1> QED
  BY <1>3, <1>4

LEMMA SuggestRoom ==
  ASSUME FilesInv, AskInv, StoreInv, RoomInv, Suggest
  PROVE  RoomInv'
<1>1. /\ UNCHANGED <<device, storages, folders, call>> /\ (spent' = spent \/ Fails)
      /\ pc = "suggest" /\ pc' \in {"fit", "place"}
  BY DEF Suggest, WantProps, Fault, Fine, Goto
<1>2. RoomFrame
  BY <1>1 DEF RoomFrame, FoldersStay, KindsStay, device, storages
<1>3. Homes'
  BY <1>1, <1>2, HomesStay DEF RoomInv
<1>4. SendsIfRoom'
  BY <1>1 DEF SendsIfRoom
<1>5. Searching'
  <2> SUFFICES ASSUME (Undisturbed /\ Anywhere)' PROVE Searching'
    BY DEF Searching
  <2>1. Undisturbed /\ Anywhere /\ my.parent = Root
    BY <1>1, <1>2, StillUndisturbed DEF RoomInv, Searching
  <2>2. pc' = "fit" /\ my' = [my EXCEPT !.at = list.head]
    BY <2>1 DEF Suggest, Goto
  <2>3. my'.at = list.head /\ my'.parent = Root
    BY <2>1, <2>2 DEF FilesInv, SizesInv, CInv, Shapes, Idle
  <2>4. Tried(1)'
    <3>1. Len(scene.order) \in Nat /\ list.head = First1(scene.order) /\ Once(scene.order)
      BY <2>1, AtHand DEF RoomInv, Chained
    <3>2. list.head = IF 1 <= Len(scene.order) THEN scene.order[1] ELSE Null
      <4>1. scene.order = << >> <=> Len(scene.order) = 0
        BY <3>1, OnceFacts
      <4>2. 1 <= Len(scene.order) <=> Len(scene.order) # 0
        BY <3>1
      <4> QED
        BY <3>1, <4>1, <4>2 DEF First1
    <3> QED
      BY <1>1, <2>3, <3>2 DEF Tried, device
  <2>5. 1 \in 1 .. Len(scene'.order) + 1
    BY <1>1, <2>1, AtHand DEF RoomInv, device
  <2> QED
    BY <2>2, <2>3, <2>4, <2>5 DEF Searching, Chosen
<1> QED
  BY <1>3, <1>4, <1>5 DEF RoomInv

LEMMA FitRoom ==
  ASSUME FilesInv, AskInv, StoreInv, RoomInv, Fit
  PROVE  RoomInv'
<1>1. /\ UNCHANGED <<device, list, folders, call>> /\ (spent' = spent \/ Fails)
      /\ pc = "fit" /\ pc' \in {"fit", "place"}
  BY DEF Fit, Fault, Fine, Goto
<1>2. RoomFrame /\ UNCHANGED <<scene, room>>
  <2>1. \/ known' = known
        \/ Supports("GetStorageInfo") /\ known' = [known EXCEPT ![my.at] = [kind |-> scene.kind[my.at], free |-> FreeNow(my.at)]]
    BY DEF Fit
  <2>2. KindsStay
    BY <2>1 DEF KindsStay, RoomInv, Homes, StoreInv, Spaces
  <2> QED
    BY <1>1, <2>2 DEF RoomFrame, FoldersStay, device
<1>3. Homes'
  BY <1>1, <1>2, HomesStay DEF RoomInv
<1>4. SendsIfRoom'
  BY <1>1 DEF SendsIfRoom
<1>5. Searching'
  <2> SUFFICES ASSUME (Undisturbed /\ Anywhere)' PROVE Searching'
    BY DEF Searching
  <2>1. Undisturbed /\ Anywhere /\ my.parent = Root /\ ~Fails
    BY <1>1, <1>2, StillUndisturbed DEF RoomInv, Searching
  <2>2. PICK n \in 1 .. Len(scene.order) + 1 : Tried(n)
    BY <1>1, <2>1 DEF RoomInv, Searching
  <2>3. /\ Len(scene.order) \in Nat /\ Once(scene.order) /\ list.head = First1(scene.order)
        /\ Present = {scene.order[i] : i \in 1 .. Len(scene.order)} /\ Present \subseteq Store
        /\ \A s \in Store : known[s].kind = scene.kind[s]
    BY <2>1, AtHand DEF RoomInv, Chained
  <2>4. n \in Nat /\ (n <= Len(scene.order) => n \in 1 .. Len(scene.order))
    BY <2>3
  <2>5. /\ Present' = Present /\ \A s : Lacks(s)' = Lacks(s)
        /\ NoRoom' = NoRoom
    BY <1>1, <1>2 DEF Present, Lacks, NoRoom
  <2>6. Supports("GetStorageInfo")
    BY <2>1 DEF Undisturbed
  <2>7. ASSUME pc' = "place", my'.parent = Root, NoRoom \/ Taking' PROVE Searching'
    BY <2>5, <2>7 DEF Searching, Chosen
  <2>8. CASE list.head = Null /\ Goto("place") /\ \E store : my' = [my EXCEPT !.store = store, !.by = "fit"]
    <3>1. Len(scene.order) = 0
      <4>1. 1 \in 1 .. Len(scene.order) => scene.order[1] # Null
        BY <2>3, OnceFacts
      <4>2. scene.order = << >> <=> Len(scene.order) = 0
        BY <2>3, OnceFacts
      <4>3. Len(scene.order) # 0 => 1 \in 1 .. Len(scene.order)
        BY <2>3
      <4> QED
        BY <2>3, <2>8, <4>1, <4>2, <4>3 DEF First1
    <3>2. NoRoom
      BY <2>3, <3>1 DEF NoRoom
    <3>3. my'.parent = Root
      BY <2>1, <2>8 DEF FilesInv, SizesInv, CInv, Shapes, Idle
    <3> QED
      BY <2>7, <2>8, <3>2, <3>3 DEF Goto
  <2>9. CASE my.at = Null /\ Goto("place") /\ \E store : my' = [my EXCEPT !.store = store, !.by = "fit"]
    <3>1. n \notin 1 .. Len(scene.order)
      <4>1. n \in 1 .. Len(scene.order) => scene.order[n] # Null
        BY <2>3, OnceFacts
      <4> QED
        BY <2>2, <2>3, <2>4, <2>9, <4>1 DEF Tried
    <3>2. \A j \in 1 .. Len(scene.order) : j \in 1 .. n - 1
      BY <2>3, <2>4, <3>1
    <3>3. NoRoom
      BY <2>2, <2>3, <3>2 DEF NoRoom, Tried
    <3>4. my'.parent = Root
      BY <2>1, <2>9 DEF FilesInv, SizesInv, CInv, Shapes, Idle
    <3> QED
      BY <2>7, <2>9, <3>3, <3>4 DEF Goto
  <2>10. ASSUME my.at # Null PROVE n \in 1 .. Len(scene.order) /\ my.at = scene.order[n] /\ my.at \in Present /\ my.at \in Store
    BY <2>2, <2>3, <2>4, <2>10 DEF Tried
  <2>11. ASSUME my.at # Null, Lacks(my.at), my' = [my EXCEPT !.at = list.nxt[my.at]], Goto("fit") PROVE Searching'
    <3>1. n \in 1 .. Len(scene.order) /\ my.at = scene.order[n]
      BY <2>10, <2>11
    <3>2. n + 1 \in 1 .. Len(scene.order) + 1 /\ list.nxt[my.at] = IF n + 1 <= Len(scene.order) THEN scene.order[n + 1] ELSE Null
      BY <2>1, <3>1, NextOne DEF RoomInv
    <3>3. \A j \in 1 .. (n + 1) - 1 : j \in 1 .. n - 1 \/ j = n
      BY <2>4
    <3>4. my'.at = list.nxt[my.at] /\ my'.parent = Root
      BY <2>1, <2>11 DEF FilesInv, SizesInv, CInv, Shapes, Idle
    <3>5. \A j \in 1 .. (n + 1) - 1 : Lacks(scene.order[j])
      BY <2>2, <2>11, <3>1, <3>3 DEF Tried
    <3>6. Tried(n + 1)'
      BY <1>2, <2>5, <3>2, <3>4, <3>5 DEF Tried
    <3>7. pc' = "fit"
      BY <2>11 DEF Goto
    <3> QED
      BY <1>2, <3>2, <3>4, <3>6, <3>7 DEF Searching, Chosen
  <2>12. CASE my.at # Null /\ ~Writable(known[my.at].kind) /\ my' = [my EXCEPT !.at = list.nxt[my.at]] /\ Goto("fit")
    <3>1. Lacks(my.at)
      BY <2>3, <2>10, <2>12 DEF Lacks
    <3> QED
      BY <2>11, <2>12, <3>1
  <2>13. CASE /\ my.at # Null /\ ~Fits(call.size, room[my.at])
              /\ my' = [my EXCEPT !.at = list.nxt[my.at]] /\ Goto("fit")
    <3>1. room[my.at] \in 0 .. Unknown - 1 /\ call.size \in Nat
      BY <2>10, <2>13 DEF StoreInv, Spaces, FilesInv, SizesInv, Sizes
    <3>2. room[my.at] # Unknown
      <4>1. \A r \in 0 .. Unknown - 1 : r # Unknown
        BY DEF Unknown
      <4> QED
        BY <3>1, <4>1
    <3>3. call.size > room[my.at]
      BY <2>13, <3>1, <3>2 DEF Fits
    <3>4. Lacks(my.at)
      BY <3>3 DEF Lacks
    <3> QED
      BY <2>11, <2>13, <3>4
  <2>14. CASE /\ my.at # Null /\ Writable(known[my.at].kind) /\ Fits(call.size, room[my.at])
              /\ my' = [my EXCEPT !.store = my.at, !.by = "fit"] /\ Goto("place")
    <3>1. my'.store = my.at /\ my'.parent = Root
      BY <2>1, <2>14 DEF FilesInv, SizesInv, CInv, Shapes, Idle
    <3>2. Taking'
      BY <1>1, <1>2, <2>3, <2>5, <2>10, <2>14, <3>1 DEF Taking, Fits
    <3> QED
      BY <2>7, <2>14, <3>1, <3>2 DEF Goto
  <2> QED
    BY <2>1, <2>6, <2>8, <2>9, <2>12, <2>13, <2>14 DEF Fit, FreeNow, Fault
<1> QED
  BY <1>3, <1>4, <1>5 DEF RoomInv

\* send_file_object_info: the default folder is on the first storage of the list.
LEMMA HasPlace ==
  ASSUME FilesInv, RoomInv, Undisturbed, Anywhere, my.parent = Root, Taking
  PROVE  Accepts(my.store, Destination)
<1>1. /\ my.store \in Present /\ Writable(scene.kind[my.store]) /\ my.store \in Store /\ my.store # Null /\ Home
  BY AtHand, NullIsNone DEF RoomInv, Taking
<1>2. CASE Destination = Top \/ Destination = Root
  BY <1>1, <1>2 DEF Accepts, At
<1>3. CASE Destination # Top /\ Destination # Root
  <2>1. Primary /\ Destination = folders.music
    BY <1>3 DEF Destination, Anywhere
  <2>2. /\ folders.music \in DOMAIN dev /\ dev[folders.music].fmt = "folder"
        /\ list.head # Null => dev[folders.music].store = list.head
    BY <1>1, <1>3, <2>1 DEF Home
  <2>3. list.head # Null
    <3>1. Len(scene.order) \in Nat /\ Once(scene.order) /\ list.head = First1(scene.order)
          /\ Present = {scene.order[i] : i \in 1 .. Len(scene.order)}
      BY AtHand DEF RoomInv, Chained
    <3>2. 1 \in 1 .. Len(scene.order) /\ scene.order # << >>
      <4>1. PICK i \in 1 .. Len(scene.order) : my.store = scene.order[i]
        BY <1>1, <3>1
      <4>2. Len(scene.order) # 0 /\ 1 \in 1 .. Len(scene.order)
        BY <3>1, <4>1
      <4> QED
        BY <3>1, <4>2, OnceFacts
    <3> QED
      BY <3>1, <3>2, OnceFacts DEF First1
  <2>4. my.store = list.head
    BY <2>1, <2>3 DEF Primary
  <2> QED
    BY <1>1, <2>1, <2>2, <2>3, <2>4 DEF Accepts, At
<1> QED
  BY <1>2, <1>3

LEMMA PlaceRoom ==
  ASSUME FilesInv, AskInv, StoreInv, RoomInv, Place
  PROVE  RoomInv'
<1>1. /\ UNCHANGED <<device, storages, folders, call, spent>> /\ my' = [my EXCEPT !.parent = Destination]
      /\ pc = "place" /\ pc' = IF call.op = "folder" \/ ~Supports("SendObjectPropList") THEN "sendinfo" ELSE "props"
  BY DEF Place, Fine, Goto
<1>2. RoomFrame
  BY <1>1 DEF RoomFrame, FoldersStay, KindsStay, device, storages
<1>3. Homes'
  BY <1>1, <1>2, HomesStay DEF RoomInv
<1>4. SendsIfRoom'
  BY <1>1 DEF SendsIfRoom
<1>5. my'.store = my.store /\ my'.parent = Destination
  BY <1>1 DEF FilesInv, SizesInv, CInv, Shapes, Idle
<1>6. Searching'
  <2> SUFFICES ASSUME (Undisturbed /\ Anywhere)' PROVE Searching'
    BY DEF Searching
  <2>1. Undisturbed /\ Anywhere /\ my.parent = Root /\ (NoRoom \/ Taking)
    BY <1>1, <1>2, StillUndisturbed DEF RoomInv, Searching, Chosen
  <2>2. Taking => Accepts(my.store, Destination)
    BY <2>1, HasPlace
  <2>3. (NoRoom => NoRoom') /\ (Taking => Taking')
    BY <1>1, <1>5 DEF NoRoom, Taking, Lacks, Present, device
  <2>4. Taking => Accepts(my.store, my.parent)'
    BY <1>1, <1>5, <2>2 DEF Accepts, Present, At, device
  <2> QED
    BY <1>1, <2>1, <2>3, <2>4 DEF Searching
<1> QED
  BY <1>3, <1>4, <1>6 DEF RoomInv

LEMMA SendingRoom ==
  ASSUME FilesInv, AskInv, StoreInv, RoomInv, PlaceList \/ Props \/ Descs \/ OpenFile
  PROVE  RoomInv'
<1>1. UNCHANGED <<device, storages, folders, call>> /\ (spent' = spent \/ Fails) /\ pc' # "name?"
  <2>1. CASE PlaceList
    BY <2>1 DEF PlaceList, Goto, Return, Fine, Stores
  <2>2. CASE Props \/ Descs
    BY <2>2 DEF Props, Descs, Goto, Fine, Fault
  <2>3. CASE OpenFile
    BY <2>3 DEF OpenFile, Goto, Return, Fine, Stores
  <2> QED
    BY <2>1, <2>2, <2>3
<1>2. RoomFrame
  BY <1>1 DEF RoomFrame, FoldersStay, KindsStay, device, storages
<1>3. Homes'
  BY <1>1, <1>2, HomesStay DEF RoomInv
<1>4. CASE PlaceList
  <2>1. call.op = "create"
    BY <1>4 DEF PlaceList, RoomInv, Homes
  <2>2. pc' = "idle" => result'.op = "create"
    BY <1>4, <2>1 DEF PlaceList, Goto, Return, Stores
  <2>3. Searching' /\ SendsIfRoom'
    BY <1>1, <2>1, <2>2 DEF Searching, SendsIfRoom, Anywhere
  <2> QED
    BY <1>3, <2>3 DEF RoomInv
<1>5. CASE Props \/ Descs
  <2>1. pc \in {"props", "descs"} /\ pc' \in {"descs", "sendinfo"} /\ my'.store = my.store /\ my'.parent = my.parent
    BY <1>5 DEF Props, Descs, Goto, FilesInv, SizesInv, CInv, Shapes, Idle
  <2>2. SendsIfRoom'
    BY <2>1 DEF SendsIfRoom
  <2>3. Searching'
    <3> SUFFICES ASSUME (Undisturbed /\ Anywhere)' PROVE Searching'
      BY DEF Searching
    <3>1. Undisturbed /\ Anywhere /\ (NoRoom \/ Taking) /\ (NoRoom \/ Accepts(my.store, my.parent))
      BY <1>2, <2>1, StillUndisturbed DEF RoomInv, Searching, Chosen
    <3>2. (NoRoom => NoRoom') /\ (Taking => Taking')
      BY <1>1, <2>1 DEF NoRoom, Taking, Lacks, Present, device
    <3>3. Accepts(my.store, my.parent) => Accepts(my.store, my.parent)'
      BY <1>1, <2>1 DEF Accepts, Present, At, device
    <3> QED
      BY <2>1, <3>1, <3>2, <3>3 DEF Searching
  <2> QED
    BY <1>3, <2>2, <2>3 DEF RoomInv
<1>6. CASE OpenFile
  <2>1. \/ pc = "open" /\ pc' = Stores(call) /\ my' = my
        \/ Fails /\ pc' = "idle"
    BY <1>6 DEF OpenFile, Goto, Return
  <2>2. SendsIfRoom'
    BY <2>1, Faulty DEF SendsIfRoom, Stores
  <2>3. Searching'
    <3> SUFFICES ASSUME (Undisturbed /\ Anywhere)' PROVE Searching'
      BY DEF Searching
    <3>1. Undisturbed /\ Anywhere /\ ~Fails
      BY <1>2, StillUndisturbed
    <3>2. pc' = "suggest" /\ my'.parent = Root
      BY <2>1, <3>1 DEF Stores, Anywhere, RoomInv, Searching
    <3> QED
      BY <3>2 DEF Searching, Chosen
  <2> QED
    BY <1>3, <2>2, <2>3 DEF RoomInv
<1> QED
  BY <1>4, <1>5, <1>6

\* SendObjectInfo: there is a place, so the device accepts it.
LEMMA SendInfoRoom ==
  ASSUME FilesInv, AskInv, StoreInv, RoomInv, SendInfo
  PROVE  RoomInv'
<1>1. UNCHANGED <<scene, room, storages, folders, call>> /\ (spent' = spent \/ Fails) /\ pc = "sendinfo"
  BY DEF SendInfo, Fine, Fault
<1>2. KindsStay
  BY <1>1 DEF KindsStay, storages
<1>3. ASSUME Undisturbed, Anywhere PROVE NoRoom \/ (Taking /\ Accepts(my.store, my.parent))
  BY <1>1, <1>3 DEF RoomInv, Searching, Chosen
<1>4. ASSUME NEW h \in Handle \ used, NEW s \in StoreFor(my.store, my.parent), dev' = With(dev, h, Created(s)),
             my' = [my EXCEPT !.id = h], Goto(AfterInfo), Fine
      PROVE  RoomInv'
  <2>1. h \notin DOMAIN dev
    BY DEF FilesInv, SizesInv, CInv, Handles
  <2>2. dev'[h].store = s /\ \A g \in DOMAIN dev : g \in DOMAIN dev' /\ dev'[g] = dev[g]
    BY <1>4, <2>1 DEF With, Created
  <2>3. RoomFrame
    BY <1>1, <1>2, <2>2 DEF RoomFrame, FoldersStay, storages
  <2>4. pc' = AfterInfo /\ pc' \in {"add", "oneprops", "senddata"}
    BY <1>4 DEF Goto, AfterInfo
  <2>5. Homes'
    BY <2>3, <2>4, HomesStay DEF RoomInv
  <2>6. Searching'
    <3> SUFFICES ASSUME (Undisturbed /\ Anywhere)' PROVE Searching'
      BY DEF Searching
    <3>1. Undisturbed /\ Anywhere
      BY <2>3, StillUndisturbed
    <3>2. my'.id = h /\ my'.store = my.store
      BY <1>4 DEF FilesInv, SizesInv, CInv, Shapes, Idle
    <3>3. (NoRoom => NoRoom') /\ (Taking => Taking')
      BY <1>1, <3>2 DEF NoRoom, Taking, Lacks, Present
    <3>4. Taking => s = my.store
      BY <3>1, AtHand DEF Taking, StoreFor, RoomInv
    <3> QED
      BY <1>3, <2>2, <2>4, <3>1, <3>2, <3>3, <3>4 DEF Searching
  <2> QED
    BY <2>4, <2>5, <2>6 DEF RoomInv, SendsIfRoom
<1>5. CASE /\ my.store = Nowhere \/ ~Accepts(my.store, my.parent)
           /\ UNCHANGED <<spent, dev>> /\ Return(FALSE, 0)
  <2>1. pc' = "idle" /\ result'.op = call.op
    BY <1>5, Answers
  <2>2. RoomFrame
    BY <1>1, <1>2, <1>5 DEF RoomFrame, FoldersStay, storages
  <2>3. Homes' /\ Searching'
    BY <2>1, <2>2, HomesStay DEF RoomInv, Searching, Chosen
  <2>4. SendsIfRoom'
    <3> SUFFICES ASSUME (Undisturbed /\ Anywhere)' PROVE SendsIfRoom'
      <4>1. result'.op = "send" => call'.op = "send"
        BY <1>1, <2>1
      <4> QED
        BY <4>1 DEF SendsIfRoom, Undisturbed, Anywhere
    <3>1. Undisturbed /\ Anywhere
      BY <2>2, StillUndisturbed
    <3>2. Taking => my.store # Nowhere
      <4>1. Nowhere \notin Store
        BY StoreAssumption DEF Nowhere
      <4> QED
        BY <3>1, <4>1, AtHand DEF Taking, RoomInv
    <3>3. NoRoom
      BY <1>3, <1>5, <3>1, <3>2
    <3> QED
      BY <1>1, <3>3 DEF SendsIfRoom, NoRoom, Lacks, Present
  <2> QED
    BY <2>3, <2>4 DEF RoomInv
<1>6. CASE Fails /\ Return(FALSE, 0) /\ dev' = dev
  <2>1. pc' = "idle"
    BY <1>6, Answers
  <2>2. RoomFrame
    BY <1>1, <1>2, <1>6 DEF RoomFrame, FoldersStay, storages
  <2> QED
    BY <1>6, <2>1, <2>2, Unsearching DEF Chosen
<1>7. CASE ~Announces /\ UNCHANGED <<spent, dev>> /\ pc' = "idle"
  <2>1. RoomFrame
    BY <1>1, <1>2, <1>7 DEF RoomFrame, FoldersStay, storages
  <2>2. Homes' /\ Searching'
    BY <1>7, <2>1, HomesStay DEF RoomInv, Searching, Chosen
  <2>3. SendsIfRoom'
    BY <1>1, <1>7 DEF SendsIfRoom, Announces, Supports
  <2> QED
    BY <2>2, <2>3 DEF RoomInv
<1>8. Unannounced => pc' = "idle"
  BY DEF Unannounced, Return
<1>9. Return(FALSE, 0) => pc' = "idle"
  BY DEF Return
<1> QED
  BY <1>4, <1>5, <1>6, <1>7, <1>8, <1>9 DEF SendInfo, Fault

LEMMA SendDataRoom ==
  ASSUME FilesInv, AskInv, StoreInv, RoomInv, SendData \/ SendFromHandler
  PROVE  RoomInv'
<1>1. pc = "senddata" /\ UNCHANGED <<scene, storages, folders, call, my>>
  BY DEF SendData, SendFromHandler
<1>2. my.id \in DOMAIN dev /\ dev[my.id].fmt # "folder"
  <2>1. call.op \in {"send", "create"} /\ my.id \in DOMAIN dev
    BY <1>1 DEF AskInv, Asking, FilesInv, SizesInv, CInv, OnDevice, Settled
  <2>2. dev[my.id].fmt = call.fmt
    BY <1>1, <2>1 DEF AskInv, Making, Placed, Makers, Made, Settled
  <2>3. call.fmt # "folder"
    BY <1>1, <2>1, Requested DEF AskInv
  <2> QED
    BY <2>1, <2>2, <2>3
<1>3. ASSUME dev' \in {dev, Without(dev, my.id)}, spent' = spent \/ Fails PROVE RoomFrame
  <2>1. FoldersStay
    BY <1>2, <1>3 DEF FoldersStay, Without
  <2> QED
    BY <1>1, <1>3, <2>1 DEF RoomFrame, KindsStay, storages
<1>4. CASE Sent
  <2>1. dev' = dev /\ spent' = spent /\ pc' \in {"refs", "add"}
    BY <1>4 DEF Sent, Fine, Goto
  <2> QED
    BY <1>3, <2>1, Unsearching DEF Chosen
<1>5. CASE Fails /\ Unsent
  <2>1. pc' = "idle" /\ dev' \in {dev, Without(dev, my.id)}
    BY <1>5, Answers DEF Unsent
  <2> QED
    BY <1>3, <1>5, <2>1, Unsearching DEF Chosen
<1>6. CASE ~HasRoom /\ spent' = spent /\ Unsent
  <2>1. pc' = "idle" /\ result'.op = call.op /\ dev' \in {dev, Without(dev, my.id)} /\ room' = room
    BY <1>6, Answers DEF Unsent
  <2>2. RoomFrame
    BY <1>3, <1>6, <2>1
  <2>3. Homes' /\ Searching'
    BY <2>1, <2>2, HomesStay DEF RoomInv, Searching, Chosen
  <2>4. SendsIfRoom'
    <3> SUFFICES ASSUME (Undisturbed /\ Anywhere)' PROVE SendsIfRoom'
      <4>1. result'.op = "send" => call'.op = "send"
        BY <1>1, <2>1
      <4> QED
        BY <4>1 DEF SendsIfRoom, Undisturbed, Anywhere
    <3>1. Undisturbed /\ Anywhere
      BY <2>2, StillUndisturbed
    <3>2. NoRoom
      BY <1>1, <1>6, <3>1 DEF RoomInv, Searching, Chosen, Taking, HasRoom
    <3> QED
      BY <1>1, <2>1, <3>2 DEF SendsIfRoom, NoRoom, Lacks, Present
  <2> QED
    BY <2>3, <2>4 DEF RoomInv
<1> QED
  BY <1>4, <1>5, <1>6 DEF SendData, SendFromHandler, Refused, Fault

\* What comes after that is not refused for want of a place.
LEMMA PropertiesRoom ==
  ASSUME FilesInv, AskInv, StoreInv, RoomInv, SetsProperties
  PROVE  RoomInv'
<1>1. /\ UNCHANGED <<scene, call>> /\ (spent' = spent \/ Fails)
      /\ pc' \in {"setone", "refs", "updated", "setdescs", "setlist", "add", "idle"}
  BY PropertiesSteps
<1>2. UNCHANGED <<storages, folders>>
  BY DEF SetsProperties, SetOne, OneProps, UpdateProps, SetDescs, SetList, SetRefs
<1>3. FoldersStay
  BY PropertiesObject DEF FoldersStay
<1>4. RoomFrame
  BY <1>1, <1>2, <1>3 DEF RoomFrame, KindsStay, storages
<1>5. pc' = "idle" => \/ result'.op # "send" \/ Fails
                      \/ ~(Supports("SetObjPropList") \/ Supports("SetObjectPropValue"))
  <2>1. CASE SetOne
    <3>1. Failed => pc' = "setone" \/ result'.op = "create"
      BY DEF Failed, Creating, Goto, Return
    <3>2. Failed \/ \E p : Goto(p) /\ p \in {"setone", "refs", "updated"}
      BY <2>1 DEF SetOne
    <3> QED
      BY <3>1, <3>2 DEF Goto
  <2>2. CASE OneProps \/ UpdateProps
    BY <2>2 DEF OneProps, UpdateProps, Goto, Return, Fault
  <2>3. CASE SetDescs
    BY <2>3 DEF SetDescs, Goto
  <2>4. CASE SetList \/ SetRefs
    <3>1. Fails \/ Goto("refs") \/ Goto("updated") \/ Goto("add")
      BY <2>4 DEF SetList, SetRefs, Fault
    <3> QED
      BY <3>1 DEF Goto
  <2> QED
    BY <2>1, <2>2, <2>3, <2>4 DEF SetsProperties
<1> QED
  BY <1>1, <1>4, <1>5, Unsearching DEF Chosen

LEMMA CachingRoom ==
  ASSUME FilesInv, AskInv, StoreInv, RoomInv, Updated \/ AddInfo \/ AddProps \/ Reread \/ RereadProps
  PROVE  RoomInv'
<1>1. UNCHANGED <<device, storages, folders, call>> /\ (spent' = spent \/ Fails)
  BY DEF Updated, AddInfo, AddProps, Reread, RereadProps, WantProps, Fine, Fault
<1>2. RoomFrame
  BY <1>1 DEF RoomFrame, FoldersStay, KindsStay, device, storages
<1>3. Added => pc' = "reread" \/ (pc' = "idle" /\ result'.ok)
  BY DEF Added, Goto, Return
<1>4. \/ pc' \in {"add", "addprops", "reread", "rereadprops", "update"}
      \/ pc' = "idle" /\ (result'.ok \/ Fails)
  BY <1>3 DEF Updated, AddInfo, AddProps, Reread, RereadProps, WantProps, Goto, Return, Fault
<1> QED
  BY <1>2, <1>4, Unsearching DEF Chosen

LEMMA GettingRoom ==
  ASSUME FilesInv, AskInv, StoreInv, RoomInv, GetTitle \/ GetList \/ GetRefs \/ SetTitle
  PROVE  RoomInv'
<1>1. /\ UNCHANGED <<scene, storages, folders, call>> /\ (spent' = spent \/ Fails)
      /\ pc' \in {"gettitle", "getrefs"} \/ (pc' = "idle" /\ result'.op = call.op)
  BY DEF GetTitle, GetList, GetRefs, SetTitle, device, Goto, Answer, Return, Fine, Fault
<1>2. call.op # "send"
  BY DEF GetTitle, GetList, GetRefs, SetTitle, FilesInv, SizesInv, CInv, Where
<1>3. FoldersStay
  <2>1. CASE dev' = dev
    BY <2>1 DEF FoldersStay
  <2>2. CASE dev' = SetProp(call.h, "title")
    <3>1. \A h \in DOMAIN dev : DOMAIN dev[h] = ObjectFields
      BY DEF FilesInv, SizesInv, Sizes
    <3>2. \A h \in DOMAIN dev : h \in DOMAIN dev' /\ dev'[h] = IF h = call.h THEN [dev[h] EXCEPT !.title = call.title] ELSE dev[h]
      BY <2>2 DEF SetProp
    <3> QED
      BY <3>1, <3>2 DEF FoldersStay, ObjectFields
  <2> QED
    BY <2>1, <2>2 DEF GetTitle, GetList, GetRefs, SetTitle, device
<1>4. RoomFrame
  BY <1>1, <1>3 DEF RoomFrame, KindsStay, storages
<1> QED
  BY <1>1, <1>2, <1>4, Unsearching DEF Chosen

LEMMA ReadingRoom ==
  ASSUME FilesInv, AskInv, StoreInv, RoomInv, Reads
  PROVE  RoomInv'
<1>1. /\ UNCHANGED <<device, call>> /\ call.op \in Listers
      /\ pc' \in Looking \/ (pc' = "idle" /\ result'.op = call.op)
  BY ReadingKeeps DEF FilesInv, SizesInv
<1>2. UNCHANGED <<storages, folders>> /\ (spent' = spent \/ Fails)
  BY DEF Reads, Begin, BeginOne, BeginWithin, GetFolders, NextItem, WantInfo, Look, LookAlbum, WantList,
         Supported, Field, Name, Members, WantProps, Says, Fault, Fine, Unread
<1>3. call.op # "send"
  BY <1>1 DEF Listers, Walking, Inside, Single, Fetching
<1>4. RoomFrame
  BY <1>1, <1>2 DEF RoomFrame, FoldersStay, KindsStay, device, storages
<1> QED
  BY <1>1, <1>3, <1>4, Unsearching DEF Chosen, Looking

LEMMA FilesRoom ==
  ASSUME FilesInv, AskInv, StoreInv, RoomInv, Partial \/ GetFile \/ GetToHandler \/ Edit \/ EndEdit
  PROVE  RoomInv'
<1>1. /\ UNCHANGED <<scene, call>> /\ DOMAIN dev' = DOMAIN dev
      /\ pc' \in {"fetch", "updated"} \/ (pc' = "idle" /\ result'.op = call.op)
  BY FilesKeep DEF FilesInv, SizesInv
<1>2. UNCHANGED <<storages, folders>> /\ (spent' = spent \/ Fails)
  BY DEF Partial, GetFile, GetToHandler, Edit, EndEdit, Fault, Fine
<1>3. call.op # "send"
  BY DEF Partial, GetFile, GetToHandler, Edit, EndEdit, FilesInv, SizesInv, CInv, Where
<1>4. FoldersStay
  <2>1. CASE dev' = dev
    BY <2>1 DEF FoldersStay
  <2>2. ASSUME NEW h, NEW size, dev' = [dev EXCEPT ![h].size = size] PROVE FoldersStay
    <3>1. \A g \in DOMAIN dev : g \in DOMAIN dev' /\ dev'[g] = IF g = h THEN [dev[g] EXCEPT !.size = size] ELSE dev[g]
      BY <2>2
    <3>2. \A g \in DOMAIN dev : DOMAIN dev[g] = ObjectFields
      BY DEF FilesInv, SizesInv, Sizes
    <3> QED
      BY <3>1, <3>2 DEF FoldersStay, ObjectFields
  <2>3. dev' = dev \/ \E h, size : dev' = [dev EXCEPT ![h].size = size]
    BY DEF Partial, GetFile, GetToHandler, Edit, EndEdit, Changes, device
  <2> QED
    BY <2>1, <2>2, <2>3
<1>5. RoomFrame
  BY <1>1, <1>2, <1>4 DEF RoomFrame, KindsStay, storages
<1> QED
  BY <1>1, <1>3, <1>5, Unsearching DEF Chosen

\* LIBMTP_Get_Storage is one of the calls then.
LEMMA StoragesRoom ==
  ASSUME FilesInv, AskInv, StoreInv, RoomInv, StorageIds \/ StorageInfo
  PROVE  RoomInv'
<1>1. UNCHANGED <<scene, call>> /\ pc # "idle" /\ call.op = "storage"
  BY DEF StorageIds, StorageInfo, device, FilesInv, SizesInv, CInv, Where
<1>2. Does("storage") /\ Does("storage")'
  <2>1. Does("storage")
    BY <1>1, Requested DEF AskInv
  <2> QED
    BY <1>1, <2>1 DEF Does
<1>3. pc' # "name?"
  BY DEF StorageIds, StorageInfo, Goto, Return
<1>4. Supports("GetStorageInfo") => \A s \in Store : known'[s].kind = scene.kind[s]
  <2> SUFFICES ASSUME Supports("GetStorageInfo") PROVE \A s \in Store : known'[s].kind = scene.kind[s]
    OBVIOUS
  <2>1. \A s \in Store : known[s].kind = scene.kind[s] /\ Told(s).kind = scene.kind[s]
    BY DEF RoomInv, Homes, Told
  <2>2. \/ known' = known
        \/ known' = [s \in Store |-> Told(s)]
        \/ known' = [known EXCEPT ![Head(my.left)] = Told(Head(my.left))]
    BY DEF StorageIds, StorageInfo, storages
  <2> QED
    BY <2>1, <2>2 DEF StoreInv, Spaces
<1>5. Homes'
  BY <1>1, <1>2, <1>3, <1>4 DEF Homes, Supports
<1> QED
  BY <1>1, <1>2, <1>5 DEF RoomInv, Searching, SendsIfRoom, Undisturbed

LEMMA CallRoom ==
  ASSUME FilesInv, AskInv, StoreInv, RoomInv, Call
  PROVE  RoomInv'
<1>1. PICK c \in scene.calls : /\ call'.op = c.op /\ call'.parent = c.parent /\ call'.store = c.store /\ c.op \in ApiCalls
                               /\ c.op # "create" => my'.parent = c.parent
                               /\ list' = IF c.op = "storage" THEN Emptied ELSE list
  <2>1. PICK c \in scene.calls : /\ \E h : call' = [c EXCEPT !.h = h]
                                 /\ \E name : my' = [Idle EXCEPT !.store = c.store, !.id = call'.h,
                                                      !.parent = IF c.op = "create" THEN ListFolder ELSE c.parent,
                                                      !.name = name]
                                 /\ list' = IF c.op = "storage" THEN Emptied ELSE list
    BY DEF Call
  <2>2. c \in Request
    BY CallAssumption DEF FilesInv, SizesInv, CInv, Shapes
  <2>3. c.op # "create" => my'.parent = c.parent
    BY <2>1 DEF Idle
  <2> QED
    BY <2>1, <2>2, <2>3 DEF Request
<1>2. pc' = First /\ UNCHANGED <<device, known, folders>>
  BY DEF Call
<1>3. /\ pc' = "name?" => call'.op = "create"
      /\ call'.op = "send" /\ call'.store = Null => pc' \in {"open", "suggest"}
      /\ pc' # "idle"
  BY <1>1, <1>2 DEF First, Stores, ApiCalls, OfObject
<1>4. Homes'
  <2>1. ~Does("storage")' => ~Does("storage") /\ list' = list
    BY <1>1, <1>2 DEF Does, device
  <2>2. Home /\ list' = list => Home'
    BY <1>2 DEF Home, device
  <2> QED
    BY <1>2, <1>3, <2>1, <2>2 DEF RoomInv, Homes, Supports, device
<1>5. Searching'
  BY <1>1, <1>3 DEF Searching, Anywhere, Chosen
<1> QED
  BY <1>3, <1>4, <1>5 DEF RoomInv, SendsIfRoom

LEMMA EveryStepRoom ==
  ASSUME FilesInv, AskInv, StoreInv, RoomInv, [Everything]_EveryVar
  PROVE  RoomInv'
<1>1. CASE UNCHANGED EveryVar
  <2>1. UNCHANGED <<scene, dev, room, list, known, folders, pc, call, my, result, spent>>
    BY <1>1 DEF EveryVar, AllVars, vars, device, storages
  <2>2. \A op : Does(op)' = Does(op) /\ Supports(op)' = Supports(op)
    BY <2>1 DEF Does, Supports
  <2>3. Homes'
    BY <2>1, <2>2 DEF RoomInv, Homes, Home
  <2>4. Searching'
    <3>1. /\ (Undisturbed /\ Anywhere)' => Undisturbed /\ Anywhere
          /\ NoRoom => NoRoom'
          /\ Taking => Taking'
          /\ Accepts(my.store, my.parent) => Accepts(my.store, my.parent)'
      BY <2>1, <2>2 DEF Undisturbed, Faultless, Anywhere, NoRoom, Taking, Lacks, Accepts, Present, At
    <3>2. \A n : Tried(n) => Tried(n)'
      BY <2>1 DEF Tried, Lacks
    <3> QED
      BY <2>1, <3>1, <3>2 DEF RoomInv, Searching
  <2>5. SendsIfRoom'
    BY <2>1, <2>2 DEF RoomInv, SendsIfRoom, Faultless, Present, Announces
  <2> QED
    BY <2>3, <2>4, <2>5 DEF RoomInv
<1>2. CASE Next
  BY <1>2, CallRoom, SuggestRoom, FitRoom, PlaceRoom, SendingRoom, SendInfoRoom, SendDataRoom, PropertiesRoom,
     CachingRoom, GettingRoom, StoragesRoom DEF Next, SetsProperties
<1>3. CASE Reads
  BY <1>3, ReadingRoom
<1>4. CASE Partial \/ GetFile \/ GetToHandler \/ Edit \/ EndEdit
  BY <1>4, FilesRoom
<1> QED
  BY <1>1, <1>2, <1>3, <1>4 DEF Everything, Elsewhere, AnyCall

\* A finite set of numbers that has a member has a greatest one.
LEMMA Greatest ==
  ASSUME NEW S \in SUBSET Nat, IsFiniteSet(S), S # {}
  PROVE  \E h \in S : \A g \in S : g <= h
<1>1. PICK n \in Nat : ExistsBijection(1 .. n, S)
  BY FS_NatBijection
<1>2. PICK f \in [1 .. n -> S] : \A s \in S : \E i \in 1 .. n : f[i] = s
  BY <1>1 DEF ExistsBijection, Bijection, Surjection
<1> DEFINE T == {m \in 0 .. n : m = 0 \/ \E i \in 1 .. m : \A j \in 1 .. m : f[j] <= f[i]}
<1>3. 0 \in T
  OBVIOUS
<1>4. ASSUME NEW m \in 0 .. n - 1, m \in T PROVE m + 1 \in T
  <2>1. m + 1 \in 0 .. n /\ m + 1 \in 1 .. n /\ \A j \in 1 .. m + 1 : j \in 1 .. m \/ j = m + 1
    OBVIOUS
  <2>2. \A j \in 1 .. n : f[j] \in Nat
    OBVIOUS
  <2>3. \A j \in 1 .. m : j \in 1 .. n
    OBVIOUS
  <2>4. CASE m = 0 \/ \E i \in 1 .. m : f[i] <= f[m + 1] /\ \A j \in 1 .. m : f[j] <= f[i]
    <3>1. \A j \in 1 .. m + 1 : f[j] <= f[m + 1]
      BY <2>1, <2>2, <2>3, <2>4
    <3> QED
      BY <2>1, <3>1
  <2>5. CASE \E i \in 1 .. m : ~(f[i] <= f[m + 1]) /\ \A j \in 1 .. m : f[j] <= f[i]
    <3>1. PICK i \in 1 .. m : ~(f[i] <= f[m + 1]) /\ \A j \in 1 .. m : f[j] <= f[i]
      BY <2>5
    <3>2. \A j \in 1 .. m + 1 : f[j] <= f[i]
      BY <2>1, <2>2, <2>3, <3>1
    <3> QED
      BY <2>1, <3>1, <3>2
  <2> QED
    BY <1>4, <2>4, <2>5
<1>5. n \in T
  <2> HIDE DEF T
  <2>1. 0 .. n \subseteq T
    BY <1>3, <1>4, UpTo
  <2> QED
    BY <2>1
<1>6. n # 0
  <2>1. PICK s \in S : TRUE
    OBVIOUS
  <2>2. PICK i \in 1 .. n : f[i] = s
    BY <1>2, <2>1
  <2> QED
    BY <2>2
<1>7. PICK i \in 1 .. n : \A j \in 1 .. n : f[j] <= f[i]
  BY <1>5, <1>6
<1> QED
  BY <1>2, <1>7

LEMMA BegunHoldsRoom == Begun => RoomInv
<1> SUFFICES ASSUME Begun PROVE RoomInv
  OBVIOUS
<1>1. /\ scene \in Scenarios /\ dev = scene.objects /\ pc = "idle" /\ call = NoCall
      /\ list = Listed(scene.order) /\ known = [s \in Store |-> Told(s)]
      /\ cache = IF scene.cached THEN Flushed ELSE [h \in {} |-> 0]
      /\ folders.music = DefaultFolder("a") /\ result.op = "none"
  BY DEF Begun, Init
<1>2. Home
  <2> DEFINE found == {h \in DOMAIN cache : LET i == cache[h].info
                                             IN /\ i.fmt = "folder" /\ i.parent = Top /\ i.name = "a"
                                                /\ list.head # Null => i.store = list.head}
  <2>1. folders.music = IF found = {} THEN Top ELSE CHOOSE h \in found : \A g \in found : g <= h
    BY <1>1 DEF DefaultFolder
  <2>2. \A h \in found : h \in DOMAIN dev /\ dev[h].fmt = "folder" /\ (list.head # Null => dev[h].store = list.head)
    BY <1>1 DEF Flushed, InfoOf
  <2>3. DOMAIN dev \subseteq Handle
    BY <1>1, ScenarioAssumption
  <2>4. found # {} => \E h \in found : \A g \in found : g <= h
    <3>1. found \subseteq Handle
      BY <2>2, <2>3
    <3> HIDE DEF found
    <3>2. IsFiniteSet(found) /\ found \in SUBSET Nat
      BY <3>1, HandleAssumption, FS_Subset
    <3> QED
      BY <3>2, Greatest
  <2> HIDE DEF found
  <2> QED
    BY <2>1, <2>2, <2>4 DEF Home
<1>3. Homes
  <2>1. Supports("GetStorageInfo") => \A s \in Store : known[s].kind = scene.kind[s]
    BY <1>1 DEF Told
  <2> QED
    BY <1>1, <1>2, <2>1 DEF Homes
<1> QED
  BY <1>1, <1>3 DEF RoomInv, Searching, SendsIfRoom, Anywhere, NoCall

\* SendsIfRoom always holds: a file that is sent without naming a place is refused, when
\* no transaction failed, only if it is larger than what is free on every storage that
\* can be written to, whatever was put there since the library looked last.
THEOREM RoomIsFound == Device => []SendsIfRoom
<1>1. Device => [](FilesInv /\ AskInv /\ StoreInv /\ RoomInv)
  <2>1. Begun => FilesInv /\ AskInv /\ StoreInv /\ RoomInv
    BY BegunHoldsFiles, BegunHoldsAsk, BegunHoldsStores, BegunHoldsRoom
  <2>2. FilesInv /\ AskInv /\ StoreInv /\ RoomInv /\ [Everything]_EveryVar => (FilesInv /\ AskInv /\ StoreInv /\ RoomInv)'
    BY EveryStepKeepsFiles, EveryStepAsks, EveryStepStores, EveryStepRoom
  <2> QED
    BY <2>1, <2>2, PTL DEF Device
<1>2. FilesInv /\ AskInv /\ StoreInv /\ RoomInv => SendsIfRoom
  BY DEF RoomInv
<1> QED
  BY <1>1, <1>2, PTL
=============================================================================
