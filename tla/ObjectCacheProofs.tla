------------------------- MODULE ObjectCacheProofs --------------------------
(***************************************************************************)
(* What ObjectCache promises for any device, any program and any user of   *)
(* the device.                                                             *)
(*                                                                         *)
(* NoStale.  What makes it inductive: an entry that is wrong, and not in   *)
(* doubt, is about an object that went together with its folder, whose     *)
(* handle is a used one that no device ever gives to anything else.        *)
(*                                                                         *)
(* WalkFinds and FullListing, what flush_handles and the listings find.    *)
(* The proof follows the walk: at any moment an object that is still to be *)
(* found is in some frame's list of handles, in a folder a frame is about  *)
(* to list, or in a folder that is itself still to be found; when no frame *)
(* is left the last of these would be a set of objects without a way to    *)
(* the root.                                                               *)
(***************************************************************************)
EXTENDS ObjectCache, SequenceTheorems, TLAPS

Places == {"fast", "walk", "fixup", "want", "props", "send", "meta", "listing", "list",
           "folder", "idle"}
Frame == [dir : Handle \cup {Root}, listed : BOOLEAN, handles : SUBSET Handle]

DeviceTypes == /\ DOMAIN dev \subseteq used /\ used \subseteq Handle
               /\ dev \in [DOMAIN dev -> Info]
CacheTypes == /\ DOMAIN objects \subseteq used
              /\ objects \in [DOMAIN objects -> Entry]
PlaceTypes == /\ {music, target, dest} \subseteq Handle \cup {Root}
              /\ pc \in Places /\ (pc = "props" => InCache(target))
              /\ stack \in Seq(Frame)
SetTypes == UNION {todo, answer, since, doubt, unlisted} \subseteq Handle
BoundTypes == scene \in Scenarios /\ spent \in [Bounded -> Nat]

\* The handle a device has given to an object that is on its way to it.
Fresh == pc = "send" => target \in used \ (DOMAIN dev \cup DOMAIN objects)

Types == DeviceTypes /\ CacheTypes /\ PlaceTypes /\ SetTypes /\ BoundTypes /\ Fresh

-----------------------------------------------------------------------------
\* A map with one more entry, ...
LEMMA WithMap ==
  ASSUME NEW f, NEW h, NEW x
  PROVE  /\ DOMAIN With(f, h, x) = DOMAIN f \cup {h} /\ With(f, h, x)[h] = x
         /\ \A g \in DOMAIN f : g # h => With(f, h, x)[g] = f[g]
         /\ f \in [DOMAIN f -> Info] /\ x \in Info => With(f, h, x) \in [DOMAIN f \cup {h} -> Info]
         /\ f \in [DOMAIN f -> Entry] /\ x \in Entry => With(f, h, x) \in [DOMAIN f \cup {h} -> Entry]
BY DEF With

\* ... and with some fewer.
LEMMA WithoutMap ==
  ASSUME NEW f, NEW S
  PROVE  /\ DOMAIN Without(f, S) = DOMAIN f \ S
         /\ \A g \in DOMAIN f \ S : Without(f, S)[g] = f[g]
         /\ f \in [DOMAIN f -> Info] => Without(f, S) \in [DOMAIN f \ S -> Info]
         /\ f \in [DOMAIN f -> Entry] => Without(f, S) \in [DOMAIN f \ S -> Entry]
BY DEF Without

\* Moving and renaming keep an object info one, and whether it is a folder.
LEMMA InfoChanges ==
  ASSUME NEW i \in Info
  PROVE  /\ i.parent \in Handle \cup {Root} /\ i.folder \in BOOLEAN
         /\ \A p \in Handle \cup {Root} :
              /\ [i EXCEPT !.parent = p] \in Info
              /\ [i EXCEPT !.parent = p].parent = p /\ [i EXCEPT !.parent = p].folder = i.folder
         /\ \A n \in Names :
              /\ [i EXCEPT !.name = n] \in Info
              /\ [i EXCEPT !.name = n].parent = i.parent /\ [i EXCEPT !.name = n].folder = i.folder
BY DEF Info

\* An entry of the cache, with and without properties.
LEMMA EntryFacts ==
  /\ \A e \in Entry : /\ e.info \in Info /\ e.props \in BOOLEAN
                      /\ [e EXCEPT !.props = TRUE] \in Entry
                      /\ [e EXCEPT !.props = TRUE].info = e.info
  /\ \A i \in Info, b \in BOOLEAN : /\ [info |-> i, props |-> b] \in Entry
                                    /\ [info |-> i, props |-> b].info = i
BY DEF Entry

\* Below(p) with p is closed both ways: under children, as the set it is the least of,
\* and under parents, since without an object whose parent is not in it, it would
\* be smaller.
LEMMA BelowFacts ==
  ASSUME NEW p
  PROVE  /\ Below(p) \subseteq DOMAIN dev
         /\ \A h \in DOMAIN dev : dev[h].parent \in Gone(p) => h \in Below(p)
         /\ \A h \in Below(p) : dev[h].parent \in Gone(p)
<1>1. Below(p) \subseteq DOMAIN dev
  BY DEF Below
<1>2. ASSUME NEW h \in DOMAIN dev, dev[h].parent \in Gone(p)
      PROVE  h \in Below(p)
  <2> SUFFICES ASSUME NEW S \in SUBSET DOMAIN dev, Closed(S, p)
               PROVE  h \in S
    BY DEF Below
  <2>1. dev[h].parent \in S \cup {p}
    BY <1>2 DEF Gone, Below
  <2> QED
    BY <2>1 DEF Closed
<1>3. ASSUME NEW h \in Below(p), dev[h].parent \notin Gone(p)
      PROVE  FALSE
  <2> DEFINE S == Below(p) \ {h}
  <2>1. S \in SUBSET DOMAIN dev
    BY <1>1
  <2>2. Closed(S, p)
    <3> SUFFICES ASSUME NEW g \in DOMAIN dev, dev[g].parent \in S \cup {p}
                 PROVE  g \in S
      BY DEF Closed
    <3>1. g # h
      BY <1>3 DEF Gone
    <3>2. g \in Below(p)
      BY <1>2 DEF Gone
    <3> QED
      BY <3>1, <3>2
  <2>3. h \in S
    BY <2>1, <2>2 DEF Below
  <2> QED
    BY <2>3
<1> QED
  BY <1>1, <1>2, <1>3

-----------------------------------------------------------------------------
\* What a call, a change or a failure spends is counted, ...
LEMMA SpendKeeps ==
  ASSUME BoundTypes, NEW what \in Bounded, Spend(what)
  PROVE  spent' \in [Bounded -> Nat] /\ spent'[what] = spent[what] + 1
BY DEF BoundTypes, Spend

\* ... and a call whose answer is lost is both a call and a failure.
LEMMA LostKeeps ==
  ASSUME BoundTypes, NEW name, NEW S, LostCall(name, S)
  PROVE  /\ spent' \in [Bounded -> Nat]
         /\ spent'["faults"] = spent["faults"] + 1 /\ spent'["changes"] = spent["changes"]
<1> DEFINE once == [spent EXCEPT !["calls"] = spent["calls"] + 1]
<1>1. spent["calls"] \in Nat /\ spent["faults"] \in Nat
  BY DEF BoundTypes, Bounded
<1>2. once \in [Bounded -> Nat] /\ once["changes"] = spent["changes"]
  BY <1>1 DEF BoundTypes, Bounded
<1>3. spent' = [once EXCEPT !["faults"] = spent["faults"] + 1]
  BY Zenon DEF LostCall
<1> HIDE DEF once
<1> QED
  BY <1>1, <1>2, <1>3 DEF Bounded

\* The device a scenario is about.
LEMMA SceneFacts ==
  ASSUME BoundTypes
  PROVE  scene.handles \subseteq Handle /\ mode \in Device
BY ScenarioAssumption DEF BoundTypes, mode

\* A new object has an unused handle.
LEMMA NewObjectKeeps ==
  ASSUME DeviceTypes, BoundTypes, NEW h, NEW info \in Info, NewObject(h, info)
  PROVE  DeviceTypes' /\ h \in Handle /\ h \notin used /\ used \subseteq used'
<1>1. h \in Handle /\ h \notin used /\ used' = used \cup {h} /\ dev' = With(dev, h, info)
  BY SceneFacts DEF NewObject
<1>2. DOMAIN dev' = DOMAIN dev \cup {h} /\ dev' \in [DOMAIN dev \cup {h} -> Info]
  BY <1>1, WithMap DEF DeviceTypes
<1> QED
  BY <1>1, <1>2 DEF DeviceTypes

\* DeleteObject leaves a device.
LEMMA WithoutKeeps ==
  ASSUME DeviceTypes, NEW S, dev' = Without(dev, S), used' = used
  PROVE  DeviceTypes'
<1>1. DOMAIN dev' = DOMAIN dev \ S /\ dev' \in [DOMAIN dev \ S -> Info]
  BY WithoutMap DEF DeviceTypes
<1> QED
  BY <1>1 DEF DeviceTypes

\* MoveObject and a new name change one object.
LEMMA ChangeKeeps ==
  ASSUME DeviceTypes, NEW h \in DOMAIN dev, used' = used,
         \/ \E p \in Handle \cup {Root} : dev' = [dev EXCEPT ![h].parent = p]
         \/ \E n \in Names : dev' = [dev EXCEPT ![h].name = n]
  PROVE  /\ DeviceTypes' /\ DOMAIN dev' = DOMAIN dev
         /\ \A g \in DOMAIN dev : g # h => dev'[g] = dev[g]
<1>1. dev[h] \in Info
  BY DEF DeviceTypes
<1>2. \E i \in Info : dev' = [dev EXCEPT ![h] = i]
  BY <1>1, InfoChanges
<1> QED
  BY <1>2 DEF DeviceTypes

\* ptp_remove_object_from_cache drops one entry.
LEMMA CleanseKeeps ==
  ASSUME CacheTypes, NEW h, Cleanse(h), used \subseteq used'
  PROVE  /\ CacheTypes' /\ DOMAIN objects' = DOMAIN objects \ {h}
         /\ \A g \in DOMAIN objects' : objects'[g] = objects[g]
<1>1. /\ DOMAIN objects' = DOMAIN objects \ {h} /\ objects' \in [DOMAIN objects \ {h} -> Entry]
      /\ \A g \in DOMAIN objects \ {h} : objects'[g] = objects[g]
  BY WithoutMap DEF CacheTypes, Cleanse
<1> QED
  BY <1>1 DEF CacheTypes

\* ptp_object_want adds at most the entry it is asked for, with what the device says.
LEMMA FetchKeeps ==
  ASSUME DeviceTypes, CacheTypes, NEW h, Known(h), Fetch(h), used' = used
  PROVE  /\ CacheTypes' /\ h \in Handle /\ DOMAIN objects' = DOMAIN objects \cup {h}
         /\ \A g \in DOMAIN objects : objects'[g] = objects[g]
         /\ ~InCache(h) => h \in DOMAIN dev /\ objects'[h].info = dev[h]
<1>1. CASE InCache(h)
  BY <1>1 DEF Fetch, InCache, CacheTypes, DeviceTypes
<1>2. CASE ~InCache(h)
  <2>1. h \in DOMAIN dev /\ h \in used /\ h \in Handle
    BY <1>2 DEF Known, DeviceTypes
  <2>2. /\ [info |-> dev[h], props |-> FALSE] \in Entry
        /\ [info |-> dev[h], props |-> FALSE].info = dev[h]
    BY <2>1, EntryFacts DEF DeviceTypes
  <2>3. PICK e \in Entry : e.info = dev[h] /\ objects' = With(objects, h, e)
    BY <1>2, <2>2 DEF Fetch
  <2>4. /\ objects' \in [DOMAIN objects \cup {h} -> Entry] /\ DOMAIN objects' = DOMAIN objects \cup {h}
        /\ objects'[h] = e
        /\ \A g \in DOMAIN objects : g # h => objects'[g] = objects[g]
    <3>1. DOMAIN objects' = DOMAIN objects \cup {h} 
      BY <2>3, WithMap
    <3>2. objects'[h] = e
      BY <2>3 DEF With
    <3>3. \A g \in DOMAIN objects : g # h => objects'[g] = objects[g]
      BY <2>3 DEF With
    <3>4. objects' \in [DOMAIN objects \cup {h} -> Entry]
      BY <2>3, WithMap DEF CacheTypes
    <3> QED
      BY <3>1, <3>2, <3>3, <3>4
  <2> QED
    BY <1>2, <2>1, <2>3, <2>4 DEF CacheTypes, InCache
<1> QED
  BY <1>1, <1>2

\* The walk begins at the root.
LEMMA FirstFrame == << OpenFrame(Root) >> \in Seq(Frame)
BY DEF OpenFrame, Frame

\* The frame on top of the stack and those below it.
LEMMA FrameFacts ==
  ASSUME stack \in Seq(Frame), stack # << >>
  PROVE  /\ Top \in Frame /\ Tail(stack) \in Seq(Frame) /\ Len(Tail(stack)) = Len(stack) - 1
         /\ Len(stack) \in Nat \ {0} /\ Top = stack[1]
         /\ \A i \in 1 .. Len(Tail(stack)) : Tail(stack)[i] = stack[i + 1]
BY HeadTailProperties DEF Top

\* A frame pushed on a stack.
LEMMA PushFrame ==
  ASSUME NEW f \in Frame, NEW s \in Seq(Frame)
  PROVE  /\ << f >> \o s \in Seq(Frame) /\ Len(<< f >> \o s) = Len(s) + 1
         /\ (<< f >> \o s)[1] = f
         /\ \A i \in 1 .. Len(s) : (<< f >> \o s)[i + 1] = s[i]
BY ConcatProperties

-----------------------------------------------------------------------------
\* A step spends nothing, a call, a change or a failure, or is a lost call.
LEMMA SpentStep ==
  ASSUME Next
  PROVE  \/ UNCHANGED spent
         \/ \E what \in Bounded : Spend(what)
         \/ \E name, S : LostCall(name, S)
<1>1. "calls" \in Bounded /\ "changes" \in Bounded /\ "faults" \in Bounded
  BY DEF Bounded
<1>2. CASE Library
  BY <1>1, <1>2 DEF Library, Fast, WalkList, WalkTake, WalkReturn, FixUp, WantInfo, WantProps,
     SendData, Refill, List, FolderNext, BadHandle, Fault
<1>3. CASE Program
  BY <1>1, <1>3 DEF Program, Delete, Move, Copy, Rename, CreateFolder, SendInfo,
     Metadata, Listing, Folder, Call
<1>4. CASE UserAdds \/ UserRenames \/ UserDeletes
  BY <1>1, <1>4 DEF UserAdds, UserRenames, UserDeletes, User
<1> QED
  BY <1>2, <1>3, <1>4 DEF Next

\* The scenario stays what it is.
LEMMA BoundStep == Types /\ Next => BoundTypes'
<1> SUFFICES ASSUME Types, Next PROVE BoundTypes'
  OBVIOUS
<1>1. BoundTypes
  BY DEF Types
<1>2. scene' = scene
  BY DEF Next, Library, Program, Fast, WalkList, WalkTake, WalkReturn, FixUp, WantInfo, WantProps,
     SendData, Refill, List, FolderNext, Delete, Move, Copy, Rename, CreateFolder, SendInfo,
     Metadata, Listing, Folder, UserAdds, UserRenames, UserDeletes, User, device
<1>3. spent' \in [Bounded -> Nat]
  BY <1>1, SpentStep, SpendKeeps, LostKeeps DEF BoundTypes
<1> QED
  BY <1>1, <1>2, <1>3 DEF BoundTypes

\* The steps that change nothing on the device.
Asking == \/ Fast \/ WalkList \/ WalkTake \/ WalkReturn \/ FixUp \/ WantInfo \/ WantProps
          \/ Refill \/ List \/ FolderNext \/ Metadata \/ Listing \/ Folder

\* They do not.
LEMMA AskingKeeps == Asking => UNCHANGED <<dev, used>>
BY DEF Asking, Fast, WalkList, WalkTake, WalkReturn, FixUp, WantInfo, WantProps,
       Refill, List, FolderNext, Metadata, Listing, Folder, device

\* All steps.
LEMMA Steps ==
  Next <=> \/ Asking \/ Delete \/ Move \/ Copy \/ Rename \/ CreateFolder \/ SendInfo \/ SendData
           \/ UserAdds \/ UserRenames \/ UserDeletes
BY DEF Next, Library, Program, Asking

\* The device keeps its types, and the handles it has used.
LEMMA DeviceStep == Types /\ Next => DeviceTypes' /\ used \subseteq used'
<1> SUFFICES ASSUME Types, Next PROVE DeviceTypes' /\ used \subseteq used'
  OBVIOUS
<1> USE DEF Types
<1>1. CASE Asking
  BY <1>1, AskingKeeps DEF DeviceTypes
<1>2. CASE Delete
  BY <1>2, WithoutKeeps DEF Delete
<1>3. CASE Move
  <2>1. Folders \subseteq Handle
    BY DEF Folders, DeviceTypes
  <2> QED
    BY <1>3, <2>1, ChangeKeeps DEF Move
<1>4. CASE Copy
  <2>1. PICK h \in DOMAIN dev, p \in Folders \cup {Root}, new \in Handle :
          NewObject(new, [dev[h] EXCEPT !.parent = p])
    BY <1>4 DEF Copy
  <2>2. p \in Handle \cup {Root} /\ dev[h] \in Info
    BY DEF Folders, DeviceTypes
  <2> QED
    BY <2>1, <2>2, InfoChanges, NewObjectKeeps
<1>5. CASE Rename
  BY <1>5, ChangeKeeps DEF Rename
<1>6. CASE CreateFolder
  <2>1. PICK h \in Handle, p \in Folders \cup {Root}, n \in Names :
          NewObject(h, [parent |-> p, folder |-> TRUE, name |-> n])
    BY <1>6 DEF CreateFolder
  <2>2. [parent |-> p, folder |-> TRUE, name |-> n] \in Info
    BY DEF Info, Folders, DeviceTypes
  <2> QED
    BY <2>1, <2>2, NewObjectKeeps
<1>7. CASE SendInfo
  BY <1>7, SceneFacts DEF SendInfo, DeviceTypes
<1>8. CASE SendData
  <2> DEFINE file == [parent |-> dest, folder |-> FALSE, name |-> "other"]
  <2>1. dev' \in {dev, With(dev, target, file)} /\ used' = used
    BY <1>8 DEF SendData
  <2>2. file \in Info
    BY DEF Info, PlaceTypes, Names
  <2>3. target \in used
    BY <1>8 DEF SendData, Fresh
  <2> HIDE DEF file
  <2>4. CASE dev' = With(dev, target, file)
    <3>1. DOMAIN dev' = DOMAIN dev \cup {target} /\ dev' \in [DOMAIN dev \cup {target} -> Info]
      BY <2>2, <2>4, WithMap DEF DeviceTypes
    <3> QED
      BY <2>1, <2>3, <3>1 DEF DeviceTypes
  <2> QED
    BY <2>1, <2>4 DEF DeviceTypes
<1>9. CASE UserAdds
  <2>1. PICK h \in Handle, p \in Folders \cup {Root}, f \in BOOLEAN :
          NewObject(h, [parent |-> p, folder |-> f, name |-> "other"])
    BY <1>9 DEF UserAdds
  <2>2. [parent |-> p, folder |-> f, name |-> "other"] \in Info
    BY DEF Info, Folders, DeviceTypes, Names
  <2> QED
    BY <2>1, <2>2, NewObjectKeeps
<1>10. CASE UserRenames
  BY <1>10, ChangeKeeps DEF UserRenames
<1>11. CASE UserDeletes
  BY <1>11, WithoutKeeps DEF UserDeletes
<1> QED
  BY <1>1, <1>2, <1>3, <1>4, <1>5, <1>6, <1>7, <1>8, <1>9, <1>10, <1>11, Steps

\* The steps that change the cache, and how.
LEMMA CacheStep == Types /\ Next => CacheTypes'
<1> SUFFICES ASSUME Types, Next PROVE CacheTypes'
  OBVIOUS
<1> USE DEF Types
<1>1. DeviceTypes' /\ used \subseteq used'
  BY DeviceStep
<1>2. CASE UNCHANGED objects
  BY <1>1, <1>2 DEF CacheTypes
<1>3. ASSUME objects' = Nothing
      PROVE  CacheTypes'
  BY <1>3 DEF CacheTypes, Nothing
<1>4. CASE Fast
  <2>1. dev' = dev /\ used' = used
    BY <1>4 DEF Fast, device
  <2>2. ASSUME NEW props \in BOOLEAN,
               objects' = [h \in DOMAIN dev |-> [info |-> dev[h], props |-> props]]
        PROVE  CacheTypes'
    BY <2>1, <2>2, EntryFacts DEF CacheTypes, DeviceTypes
  <2> QED
    BY <1>2, <1>4, <2>2 DEF Fast
<1>5. CASE WalkTake \/ WantInfo
  <2>1. used' = used
    BY <1>5 DEF WalkTake, WantInfo, device
  <2>2. \/ UNCHANGED objects
        \/ \E h : Known(h) /\ Fetch(h)
    BY <1>5 DEF WalkTake, WantInfo, BadHandle
  <2> QED
    BY <1>2, <2>1, <2>2, FetchKeeps
<1>6. CASE WantProps
  <2>1. target \in DOMAIN objects
    BY <1>6 DEF WantProps, PlaceTypes, InCache
  <2>2. [objects[target] EXCEPT !.props = TRUE] \in Entry
    BY <2>1, EntryFacts DEF CacheTypes
  <2>3. \/ UNCHANGED objects
        \/ objects' = [objects EXCEPT ![target] = [objects[target] EXCEPT !.props = TRUE]]
    BY <1>6 DEF WantProps
  <2> QED
    BY <1>1, <2>1, <2>2, <2>3 DEF CacheTypes
<1>7. CASE Refill
  BY <1>2, <1>3, <1>7 DEF Refill, BeginFlush
<1>8. CASE Delete \/ Move \/ Rename
  <2>1. \/ UNCHANGED objects
        \/ \E h : Cleanse(h)
    BY <1>8 DEF Delete, Move, Rename, Update, LostCall
  <2> QED
    BY <1>1, <1>2, <2>1, CleanseKeeps
<1>9. CASE \/ WalkList \/ WalkReturn \/ FixUp \/ List \/ FolderNext \/ Metadata \/ Listing
           \/ Folder \/ Copy \/ CreateFolder \/ SendInfo \/ SendData
  BY <1>2, <1>9 DEF WalkList, WalkReturn, FixUp, List, FolderNext, Metadata, Listing, Folder, Copy,
     CreateFolder, SendInfo, SendData, LostCall
<1>10. CASE UserAdds \/ UserRenames \/ UserDeletes
  BY <1>2, <1>10 DEF UserAdds, UserRenames, UserDeletes, User
<1> QED
  BY <1>4, <1>5, <1>6, <1>7, <1>8, <1>9, <1>10, Steps DEF Asking

\* The handle of a file that is being sent is nobody else's.
LEMMA FreshStep == Types /\ Next => Fresh'
<1> SUFFICES ASSUME Types, Next, pc' = "send"
             PROVE  target' \in used' \ (DOMAIN dev' \cup DOMAIN objects')
  BY DEF Fresh
<1> USE DEF Types
<1>1. CASE SendInfo
  BY <1>1 DEF SendInfo, Call, device, DeviceTypes, CacheTypes
<1>2. CASE UserAdds \/ UserRenames \/ UserDeletes
  <2>1. UNCHANGED <<objects, pc, target>>
    BY <1>2 DEF UserAdds, UserRenames, UserDeletes, User
  <2>2. target \in used \ (DOMAIN dev \cup DOMAIN objects)
    BY <2>1 DEF Fresh
  <2>3. CASE UserAdds
    <3>1. PICK h, info : NewObject(h, info)
      BY <2>3 DEF UserAdds
    <3>2. DOMAIN dev' = DOMAIN dev \cup {h}
      BY <3>1, WithMap DEF NewObject
    <3> QED
      BY <2>1, <2>2, <3>1, <3>2 DEF NewObject
  <2>4. CASE UserRenames
    BY <2>1, <2>2, <2>4, ChangeKeeps DEF UserRenames
  <2>5. CASE UserDeletes
    <3>1. PICK S : dev' = Without(dev, S) /\ used' = used
      BY <2>5 DEF UserDeletes
    <3>2. DOMAIN dev' = DOMAIN dev \ S
      BY <3>1, WithoutMap
    <3> QED
      BY <2>1, <2>2, <3>1, <3>2
  <2> QED
    BY <1>2, <2>3, <2>4, <2>5
<1>3. CASE Library
  BY <1>3 DEF Library, Fast, WalkList, WalkTake, WalkReturn, FixUp, WantInfo, WantProps, Wanted,
     SendData, Add, Refill, BeginFlush, FirstPc, List, FolderNext
<1>4. CASE \/ Delete \/ Move \/ Copy \/ Rename \/ CreateFolder
           \/ Metadata \/ Listing \/ Folder
  BY <1>4 DEF Delete, Move, Copy, Rename, CreateFolder, Metadata, Listing, Folder,
     Call, LostCall, Update, Add
<1> QED
  BY <1>1, <1>2, <1>3, <1>4 DEF Next, Program

\* The sets of handles are sets of handles.
LEMMA SetStep == Types /\ Next => SetTypes'
<1> SUFFICES ASSUME Types, Next PROVE SetTypes'
  OBVIOUS
<1> USE DEF Types
<1>1. /\ todo \subseteq Handle /\ answer \subseteq Handle /\ since \subseteq Handle
      /\ doubt \subseteq Handle /\ unlisted \subseteq Handle
  BY DEF SetTypes
<1>2. /\ DOMAIN dev \subseteq Handle /\ DOMAIN objects \subseteq Handle
      /\ \A p : Below(p) \subseteq Handle /\ Children(p) \subseteq Handle
  BY BelowFacts DEF DeviceTypes, CacheTypes, Children
<1> SUFFICES /\ todo' \subseteq Handle /\ answer' \subseteq Handle /\ since' \subseteq Handle
             /\ doubt' \subseteq Handle /\ unlisted' \subseteq Handle
  BY DEF SetTypes
<1>3. CASE Fast
  BY <1>1, <1>3 DEF Fast, loop
<1>4. CASE WalkList \/ WalkReturn \/ FixUp \/ Metadata \/ Listing
  BY <1>1, <1>4 DEF WalkList, WalkReturn, FixUp, Metadata, Listing, loop, history
<1>5. CASE WalkTake
  <2>1. \A h : Fetch(h) => doubt' \subseteq doubt /\ unlisted' \subseteq unlisted
    BY DEF Fetch
  <2> QED
    BY <1>1, <1>5, <2>1 DEF WalkTake, BadHandle, loop
<1>6. CASE WantInfo
  <2>1. \A h : Fetch(h) => doubt' \subseteq doubt /\ unlisted' \subseteq unlisted
    BY DEF Fetch
  <2>2. \A h : Known(h) => h \in Handle
    BY <1>2 DEF Known, InCache
  <2> QED
    BY <1>1, <1>6, <2>1, <2>2 DEF WantInfo, Wanted, BadHandle, loop
<1>7. CASE WantProps
  BY <1>1, <1>2, <1>7 DEF WantProps, Wanted, history
<1>8. CASE Refill
  BY <1>1, <1>2, <1>8 DEF Refill, BeginFlush, Reached, loop, history
<1>9. CASE List \/ Folder \/ FolderNext
  BY <1>1, <1>2, <1>9 DEF List, Folder, FolderNext, history
<1>10. CASE Delete \/ Move \/ Rename
  BY <1>1, <1>2, <1>10 DEF Delete, Move, Rename, LostCall, loop
<1>11. CASE Copy \/ CreateFolder \/ SendInfo \/ SendData
  BY <1>1, <1>11 DEF Copy, CreateFolder, SendInfo, SendData, LostCall, loop, history
<1>12. CASE UserAdds \/ UserRenames \/ UserDeletes
  BY <1>1, <1>2, <1>12 DEF UserAdds, UserRenames, UserDeletes, User, loop, Gone
<1> QED
  BY <1>3, <1>4, <1>5, <1>6, <1>7, <1>8, <1>9, <1>10, <1>11, <1>12, Steps DEF Asking

\* The library is somewhere.
LEMMA PlaceStep == Types /\ Next => PlaceTypes'
<1> SUFFICES ASSUME Types, Next PROVE PlaceTypes'
  OBVIOUS
<1> USE DEF Types
<1>1. /\ music \in Handle \cup {Root} /\ target \in Handle \cup {Root} /\ dest \in Handle \cup {Root}
      /\ pc \in Places /\ (pc = "props" => target \in DOMAIN objects) /\ stack \in Seq(Frame)
  BY DEF PlaceTypes, InCache
<1>2. /\ DOMAIN dev \subseteq Handle /\ DOMAIN objects \subseteq Handle /\ todo \subseteq Handle
      /\ scene.handles \subseteq Handle /\ used \subseteq Handle
  BY SceneFacts DEF DeviceTypes, CacheTypes, SetTypes
<1> SUFFICES /\ music' \in Handle \cup {Root} /\ target' \in Handle \cup {Root}
             /\ dest' \in Handle \cup {Root} /\ stack' \in Seq(Frame)
             /\ pc' \in Places /\ (pc' = "props" => target' \in DOMAIN objects')
  BY DEF PlaceTypes, InCache
<1> USE DEF Places
<1>3. CASE Fast \/ FixUp \/ Listing \/ List
  BY <1>1, <1>2, <1>3 DEF Fast, FixUp, Listing, List, MusicFolders, Call, loop
<1>4. CASE WalkList
  <2>1. /\ Top \in Frame /\ Tail(stack) \in Seq(Frame)
    BY <1>1, <1>4, FrameFacts DEF WalkList
  <2>2. Children(Top.dir) \in SUBSET Handle
    BY <1>2 DEF Children
  <2>3. [Top EXCEPT !.listed = TRUE, !.handles = Children(Top.dir)] \in Frame
    BY <2>1, <2>2 DEF Frame
  <2>4. << [Top EXCEPT !.listed = TRUE, !.handles = Children(Top.dir)] >> \o Tail(stack) \in Seq(Frame)
    BY <2>1, <2>3, PushFrame
  <2> QED
    BY <1>1, <1>4, <2>1, <2>4 DEF WalkList, Pop
<1>5. CASE WalkTake
  <2>1. Top \in Frame /\ Tail(stack) \in Seq(Frame)
    BY <1>1, <1>5, FrameFacts DEF WalkTake
  <2>2. PICK h \in Top.handles :
          \/ stack' = Tail(stack)
          \/ stack' = << [Top EXCEPT !.handles = @ \ {h}] >> \o Tail(stack)
          \/ stack' = Descend(h, << [Top EXCEPT !.handles = @ \ {h}] >> \o Tail(stack))
    BY <1>5 DEF WalkTake, AfterBad
  <2>3. [Top EXCEPT !.handles = @ \ {h}] \in Frame /\ OpenFrame(h) \in Frame
    BY <2>1, <2>2 DEF Frame, OpenFrame
  <2>4. << [Top EXCEPT !.handles = @ \ {h}] >> \o Tail(stack) \in Seq(Frame)
    BY <2>1, <2>3, PushFrame
  <2>5. Descend(h, << [Top EXCEPT !.handles = @ \ {h}] >> \o Tail(stack)) \in Seq(Frame)
    BY <2>3, <2>4, PushFrame DEF Descend
  <2> QED
    BY <1>1, <1>5, <2>1, <2>2, <2>4, <2>5 DEF WalkTake
<1>6. CASE WalkReturn
  BY <1>1, <1>6, FrameFacts DEF WalkReturn, Pop
<1>7. CASE WantInfo
  <2>1. Known(target) /\ Fetch(target) => target \in DOMAIN objects'
    BY <1>7, FetchKeeps DEF WantInfo, device
  <2> QED
    BY <1>1, <1>7, <2>1 DEF WantInfo, Wanted
<1>8. CASE WantProps
  BY <1>1, <1>8 DEF WantProps, Wanted
<1>9. CASE Refill
  <2>1. BeginFlush => pc' \in Places /\ pc' # "props" /\ stack' \in Seq(Frame)
    BY FirstFrame DEF BeginFlush, FirstPc
  <2> QED
    BY <1>1, <1>9, <2>1 DEF Refill
<1>10. CASE FolderNext \/ Folder \/ Metadata
  BY <1>1, <1>2, <1>10 DEF FolderNext, Folder, Metadata, Add, Call
<1>11. CASE Delete \/ Move \/ Copy \/ Rename \/ CreateFolder
  BY <1>1, <1>2, <1>11 DEF Delete, Move, Copy, Rename, CreateFolder, Call, LostCall, Update, Add
<1>12. CASE SendInfo
  BY <1>1, <1>2, <1>12 DEF SendInfo, Call, Folders
<1>13. CASE SendData
  BY <1>1, <1>13 DEF SendData, Add
<1>14. CASE UserAdds \/ UserRenames \/ UserDeletes
  BY <1>1, <1>14 DEF UserAdds, UserRenames, UserDeletes, User
<1> QED
  BY <1>3, <1>4, <1>5, <1>6, <1>7, <1>8, <1>9, <1>10, <1>11, <1>12, <1>13, <1>14, Steps DEF Asking

\* The device is opened.
LEMMA TypesInit == Init => Types
<1> SUFFICES ASSUME Init PROVE Types
  OBVIOUS
<1> USE DEF Init
<1>1. DeviceTypes
  BY ContentsAssumption DEF DeviceTypes
<1>2. CacheTypes
  BY DEF CacheTypes, Nothing
<1>3. PlaceTypes
  BY FirstFrame DEF PlaceTypes, FirstPc, Places, Root
<1>4. SetTypes
  BY <1>1, BelowFacts DEF SetTypes, Reached, DeviceTypes
<1>5. BoundTypes
  BY DEF BoundTypes, Bounded
<1>6. Fresh
  BY DEF Fresh, FirstPc
<1> QED
  BY <1>1, <1>2, <1>3, <1>4, <1>5, <1>6 DEF Types

\* The types, the handle of a file that is being sent among them, are invariant.
THEOREM TypesAlways == Spec => []Types
<1>1. Types /\ [Next]_vars => Types'
  <2> SUFFICES ASSUME Types, [Next]_vars PROVE Types'
    OBVIOUS
  <2>1. CASE Next
    BY <2>1, DeviceStep, CacheStep, PlaceStep, SetStep, BoundStep, FreshStep DEF Types
  <2>2. CASE UNCHANGED vars
    BY <2>2 DEF vars, device, history, loop, Types, DeviceTypes, CacheTypes, PlaceTypes, InCache,
       SetTypes, BoundTypes, Fresh
  <2> QED
    BY <2>1, <2>2
<1> QED
  BY TypesInit, <1>1, PTL DEF Spec

\* TypeOK says no more.
LEMMA TypesOK == Types => TypeOK
BY DEF Types, DeviceTypes, CacheTypes, PlaceTypes, SetTypes, TypeOK

\* Type correctness, for any device and any bounds.
THEOREM TypeCorrect == Spec => []TypeOK
BY TypesAlways, TypesOK, PTL

-----------------------------------------------------------------------------
\* The handles of objects that are or were on the device.
Past == used \ (IF pc = "send" THEN {target} ELSE {})

Right(h) == h \in DOMAIN dev /\ objects[h].info = dev[h]
Orphan(h) == h \notin DOMAIN dev /\ objects[h].info.parent \in Past \ DOMAIN dev
Entries == \A h \in DOMAIN objects : Right(h) \/ h \in doubt \/ Orphan(h)

\* Every object on the device or in the cache has such a handle.
LEMMA PastFacts == Types => DOMAIN dev \subseteq Past /\ DOMAIN objects \subseteq Past /\ Root \notin Past
BY HandleAssumption DEF Types, DeviceTypes, CacheTypes, Fresh, Past

\* What a step puts on the device is new to it.
LEMMA Arrivals ==
  Types /\ Next => Past \subseteq Past' /\ DOMAIN dev' \cap Past \subseteq DOMAIN dev
<1> SUFFICES ASSUME Types, Next
             PROVE  Past \subseteq Past' /\ DOMAIN dev' \cap Past \subseteq DOMAIN dev
  OBVIOUS
<1>1. CASE Asking
  <2>1. pc' = "send" => pc = "send" /\ target' = target
    BY <1>1 DEF Asking, Fast, WalkList, WalkTake, WalkReturn, FixUp, WantInfo, WantProps, Wanted,
       Refill, BeginFlush, FirstPc, List, FolderNext, Add, Metadata, Listing, Folder, Call
  <2> QED
    BY <1>1, <2>1, AskingKeeps DEF Past
<1>2. CASE Delete \/ Move \/ Rename
  <2>1. used' = used /\ pc = "idle" /\ pc' # "send"
    BY <1>2 DEF Delete, Move, Rename, Call, LostCall, Update, Add
  <2>2. CASE Delete
    <3>1. PICK S : dev' = Without(dev, S)
      BY <2>2 DEF Delete
    <3>2. DOMAIN dev' = DOMAIN dev \ S
      BY <3>1, WithoutMap
    <3> QED
      BY <2>1, <3>2 DEF Past
  <2>3. CASE Move \/ Rename
    <3>1. DOMAIN dev' = DOMAIN dev
      BY <2>3 DEF Move, Rename
    <3> QED
      BY <2>1, <3>1 DEF Past
  <2> QED
    BY <1>2, <2>2, <2>3
<1>3. CASE Copy \/ CreateFolder \/ UserAdds
  <2>1. PICK h, info : NewObject(h, info)
    BY <1>3 DEF Copy, CreateFolder, UserAdds
  <2>2. DOMAIN dev' = DOMAIN dev \cup {h} /\ h \notin used /\ used' = used \cup {h}
    BY <2>1, WithMap DEF NewObject
  <2>3. pc' = "send" => pc = "send" /\ target' = target
    BY <1>3 DEF Copy, CreateFolder, UserAdds, User, Call, LostCall, Add
  <2> QED
    BY <2>2, <2>3 DEF Past
<1>4. CASE SendInfo
  BY <1>4 DEF SendInfo, Call, device, Past
<1>5. CASE SendData
  <2>1. PICK file : dev' = dev \/ dev' = With(dev, target, file)
    BY <1>5 DEF SendData
  <2>2. dev' = With(dev, target, file) => DOMAIN dev' = DOMAIN dev \cup {target}
    BY WithMap
  <2> QED
    BY <1>5, <2>1, <2>2 DEF SendData, Add, Past
<1>6. CASE UserRenames \/ UserDeletes
  <2>1. used' = used /\ pc' = pc /\ target' = target
    BY <1>6 DEF UserRenames, UserDeletes, User
  <2>2. CASE UserRenames
    <3>1. DOMAIN dev' = DOMAIN dev
      BY <2>2 DEF UserRenames
    <3> QED
      BY <2>1, <3>1 DEF Past
  <2>3. CASE UserDeletes
    <3>1. PICK S : dev' = Without(dev, S)
      BY <2>3 DEF UserDeletes
    <3>2. DOMAIN dev' = DOMAIN dev \ S
      BY <3>1, WithoutMap
    <3> QED
      BY <2>1, <3>2 DEF Past
  <2> QED
    BY <1>6, <2>2, <2>3
<1> QED
  BY <1>1, <1>2, <1>3, <1>4, <1>5, <1>6, Steps

\* An entry h that a step leaves in the cache, and what it says of its object.
Stays(h) ==
  /\ h \in DOMAIN objects /\ objects'[h].info = objects[h].info
  /\ h \in doubt => h \in doubt'
  /\ h \in DOMAIN dev =>
       \/ h \in DOMAIN dev' /\ dev'[h] = dev[h]
       \/ h \in doubt'
       \/ h \notin DOMAIN dev' /\ dev[h].parent \in DOMAIN dev \ DOMAIN dev'

\* Entries that stay what they were about objects that stay what they were, and
\* entries just fetched, are as they should be.
LEMMA EntriesKeep ==
  ASSUME Types, Entries, Next, \A h \in DOMAIN objects' : Stays(h) \/ Right(h)'
  PROVE  Entries'
<1> SUFFICES ASSUME NEW h \in DOMAIN objects'
             PROVE  Right(h)' \/ h \in doubt' \/ Orphan(h)'
  BY DEF Entries
<1>1. CASE Stays(h)
  <2>1. h \in DOMAIN objects /\ h \in Past /\ objects'[h].info = objects[h].info
    BY <1>1, PastFacts DEF Stays
  <2>2. CASE Right(h)
    BY <1>1, <2>1, <2>2, PastFacts, Arrivals DEF Stays, Right, Orphan
  <2>3. CASE h \in doubt
    BY <1>1, <2>3 DEF Stays
  <2>4. CASE Orphan(h)
    BY <2>1, <2>4, Arrivals DEF Orphan
  <2> QED
    BY <2>1, <2>2, <2>3, <2>4 DEF Entries
<1> QED
  BY <1>1

\* An object that goes with another one leaves together with its folder.
LEMMA DeleteStays ==
  ASSUME Types, NEW g, dev' = Without(dev, Gone(g)), NEW h \in DOMAIN dev, h # g
  PROVE  \/ h \in DOMAIN dev' /\ dev'[h] = dev[h]
         \/ h \notin DOMAIN dev' /\ h \in Below(g) /\ dev[h].parent \in Gone(g) \ DOMAIN dev'
<1>1. DOMAIN dev' = DOMAIN dev \ Gone(g) /\ \A x \in DOMAIN dev \ Gone(g) : dev'[x] = dev[x]
  BY WithoutMap
<1>2. h \in Gone(g) => h \in Below(g)
  BY DEF Gone
<1> QED
  BY <1>1, <1>2, BelowFacts

\* Fetching an object leaves the other entries alone.
LEMMA FetchStays ==
  ASSUME Types, UNCHANGED <<dev, used>>, NEW g, (Known(g) /\ Fetch(g)) \/ UNCHANGED <<objects, doubt>>,
         NEW h \in DOMAIN objects'
  PROVE  Stays(h) \/ Right(h)'
<1>1. CASE UNCHANGED <<objects, doubt>>
  BY <1>1 DEF Stays
<1>2. CASE Known(g) /\ Fetch(g)
  <2>1. /\ DOMAIN objects' = DOMAIN objects \cup {g}
        /\ \A x \in DOMAIN objects : objects'[x] = objects[x]
        /\ ~InCache(g) => g \in DOMAIN dev /\ objects'[g].info = dev[g]
    BY <1>2, FetchKeeps DEF Types
  <2>2. CASE h \in DOMAIN objects
    <3>1. h \in doubt => h \in doubt'
      BY <1>2, <2>2 DEF Fetch, InCache
    <3> QED
      BY <2>1, <2>2, <3>1 DEF Stays
  <2>3. CASE h \notin DOMAIN objects
    BY <2>1, <2>3 DEF Right, InCache
  <2> QED
    BY <2>2, <2>3
<1> QED
  BY <1>1, <1>2

\* Every step leaves no stale entry but those in doubt and those of lost folders.
LEMMA EntriesStep == Types /\ Entries /\ Next => Entries'
<1> SUFFICES ASSUME Types, Entries, Next, NEW h \in DOMAIN objects'
             PROVE  Stays(h) \/ Right(h)'
  BY EntriesKeep
<1>1. CASE Fast
  <2>1. dev' = dev
    BY <1>1 DEF Fast, device
  <2>2. CASE \E props \in BOOLEAN : objects' = [g \in DOMAIN dev |-> [info |-> dev[g], props |-> props]]
    BY <2>1, <2>2 DEF Right
  <2>3. CASE UNCHANGED <<objects, doubt>>
    BY <2>1, <2>3 DEF Stays
  <2> QED
    BY <1>1, <2>2, <2>3 DEF Fast
<1>2. CASE WalkTake \/ WantInfo
  <2>1. \E g : (Known(g) /\ Fetch(g)) \/ UNCHANGED <<objects, doubt>>
    BY <1>2 DEF WalkTake, WantInfo, BadHandle
  <2>2. UNCHANGED <<dev, used>>
    BY <1>2 DEF WalkTake, WantInfo, device
  <2> QED
    BY <2>1, <2>2, FetchStays
<1>3. CASE WantProps
  <2>1. target \in DOMAIN objects /\ objects \in [DOMAIN objects -> Entry]
    BY <1>3 DEF WantProps, Types, PlaceTypes, CacheTypes, InCache
  <2>2. [objects[target] EXCEPT !.props = TRUE].info = objects[target].info
    BY <2>1, EntryFacts
  <2>3. \/ UNCHANGED objects
        \/ objects' = [objects EXCEPT ![target] = [objects[target] EXCEPT !.props = TRUE]]
    BY <1>3 DEF WantProps
  <2>4. h \in DOMAIN objects /\ objects'[h].info = objects[h].info
    BY <2>1, <2>2, <2>3
  <2>5. UNCHANGED <<dev, doubt>>
    BY <1>3 DEF WantProps, device, history
  <2> QED
    BY <2>4, <2>5 DEF Stays
<1>4. CASE Refill
  <2>1. UNCHANGED <<dev, doubt, objects>> \/ objects' = Nothing
    BY <1>4 DEF Refill, BeginFlush, device, history
  <2> QED
    BY <2>1 DEF Stays, Nothing
<1>5. CASE \/ WalkList \/ WalkReturn \/ FixUp \/ List \/ FolderNext \/ Metadata \/ Listing
           \/ Folder \/ SendInfo
  BY <1>5 DEF WalkList, WalkReturn, FixUp, List, FolderNext, Metadata, Listing, Folder, SendInfo,
     device, history, Stays
<1>6. CASE Delete
  <2>1. PICK g \in DOMAIN dev :
          /\ dev' = Without(dev, Gone(g))
          /\ \/ Cleanse(g) /\ doubt' = doubt
             \/ UNCHANGED objects /\ doubt' = doubt \cup {g}
    BY <1>6 DEF Delete, LostCall
  <2>2. /\ h \in DOMAIN objects /\ objects'[h] = objects[h] /\ (h = g => h \in doubt')
        /\ h \in doubt => h \in doubt'
    BY <2>1, CleanseKeeps, DeviceStep DEF Types
  <2>3. Gone(g) \subseteq DOMAIN dev
    BY BelowFacts DEF Gone
  <2> QED
    BY <2>1, <2>2, <2>3, DeleteStays DEF Stays
<1>7. CASE Move \/ Rename
  <2>1. PICK g \in DOMAIN dev :
          /\ used' = used
          /\ \/ \E p \in Handle \cup {Root} : dev' = [dev EXCEPT ![g].parent = p]
             \/ \E n \in Names : dev' = [dev EXCEPT ![g].name = n]
          /\ \/ Cleanse(g) /\ doubt' = doubt
             \/ UNCHANGED objects /\ doubt' = doubt \cup {g}
    BY <1>7 DEF Move, Rename, LostCall, Update, Folders, Types, DeviceTypes
  <2>2. /\ h \in DOMAIN objects /\ objects'[h] = objects[h] /\ (h = g => h \in doubt')
        /\ h \in doubt => h \in doubt'
    BY <2>1, CleanseKeeps, DeviceStep DEF Types
  <2>3. DOMAIN dev' = DOMAIN dev /\ \A x \in DOMAIN dev : x # g => dev'[x] = dev[x]
    BY <2>1, ChangeKeeps DEF Types
  <2> QED
    BY <2>2, <2>3 DEF Stays
<1>8. CASE Copy \/ CreateFolder \/ UserAdds
  <2>1. PICK g, info : NewObject(g, info)
    BY <1>8 DEF Copy, CreateFolder, UserAdds
  <2>2. /\ objects' = objects
        /\ h \in doubt => h \in doubt'
    BY <1>8 DEF Copy, CreateFolder, UserAdds, User, LostCall
  <2>3. g \notin DOMAIN dev /\ DOMAIN dev' = DOMAIN dev \cup {g} /\ \A x \in DOMAIN dev : x # g => dev'[x] = dev[x]
    BY <2>1 DEF With, NewObject, Types, DeviceTypes
  <2> QED
    BY <2>2, <2>3 DEF Stays
<1>9. CASE SendData
  <2>1. PICK file : dev' = dev \/ dev' = With(dev, target, file)
    BY <1>9 DEF SendData
  <2>2. dev' = With(dev, target, file) =>
          DOMAIN dev' = DOMAIN dev \cup {target} /\ \A x \in DOMAIN dev : x # target => dev'[x] = dev[x]
    BY DEF With
  <2>3. target \notin DOMAIN dev
    BY <1>9 DEF SendData, Types, Fresh
  <2>4. UNCHANGED <<objects, doubt>>
    BY <1>9 DEF SendData, history
  <2> QED
    BY <2>1, <2>2, <2>3, <2>4 DEF Stays
<1>10. CASE UserRenames
  <2>1. PICK g \in DOMAIN dev, n \in Names : /\ dev' = [dev EXCEPT ![g].name = n]
                                            /\ doubt' = doubt \cup {g}
    BY <1>10 DEF UserRenames
  <2>2. used' = used /\ objects' = objects
    BY <1>10 DEF UserRenames, User
  <2>3. DOMAIN dev' = DOMAIN dev /\ \A x \in DOMAIN dev : x # g => dev'[x] = dev[x]
    BY <2>1, <2>2, ChangeKeeps DEF Types
  <2> QED
    BY <2>1, <2>2, <2>3 DEF Stays
<1>11. CASE UserDeletes
  <2>1. PICK g \in DOMAIN dev : dev' = Without(dev, Gone(g)) /\ doubt' = doubt \cup Gone(g)
    BY <1>11 DEF UserDeletes
  <2>2. objects' = objects
    BY <1>11 DEF UserDeletes, User
  <2>3. DOMAIN dev' = DOMAIN dev \ Gone(g) /\ \A x \in DOMAIN dev \ Gone(g) : dev'[x] = dev[x]
    BY <2>1, WithoutMap
  <2> QED
    BY <2>1, <2>2, <2>3 DEF Stays
<1> QED
  BY <1>1, <1>2, <1>3, <1>4, <1>5, <1>6, <1>7, <1>8, <1>9, <1>10, <1>11, Steps DEF Asking

\* Every entry of the cache is right, in doubt, or about an object that went with its
\* folder.
THEOREM EntriesAlways == Spec => []Entries
<1>1. Init => Entries
  BY DEF Init, Entries, Nothing
<1>2. Types /\ Entries /\ [Next]_vars => Entries'
  <2> SUFFICES ASSUME Types, Entries, [Next]_vars PROVE Entries'
    OBVIOUS
  <2>1. CASE UNCHANGED vars
    BY <2>1 DEF vars, device, history, Entries, Right, Orphan, Past
  <2> QED
    BY <2>1, EntriesStep
<1> QED
  BY TypesAlways, <1>1, <1>2, PTL DEF Spec

\* ptp_deleteobject, ptp_moveobject, set_object_filename and the rest keep the cache
\* free of stale entries, but for what the library cannot know and for objects deleted
\* with their folder: for any contents and any order of calls, losses and changes.
THEOREM NoStaleAlways == Spec => []NoStale
<1>1. Types /\ Entries => NoStale
  BY PastFacts DEF Entries, Right, Orphan, NoStale
<1> QED
  BY TypesAlways, EntriesAlways, <1>1, PTL

-----------------------------------------------------------------------------

\* A parent that is Root, or is or was a folder.
InFolder(p) == p \in Past \cup {Root} /\ (p \in DOMAIN dev => dev[p].folder)
Parents == /\ \A h \in DOMAIN dev : InFolder(dev[h].parent)
           /\ pc = "send" => InFolder(dest)

Flushing == pc \in {"fast", "walk", "fixup"}
Jobs ==
  /\ Flushing => job \in {"open", "list", "meta"}
  /\ pc \in {"listing", "list"} => job = "list"
  /\ pc = "meta" => job = "meta"
  /\ pc = "folder" => job = "folder"
  /\ pc = "send" => job = "send"
  /\ pc \in {"want", "props"} => job \in {"meta", "send", "folder", "rename", "create"}

\* An object the walk has found, has in its list of handles, is about to list,
\* or will come to once it has found the folder it is in.
Ahead(h) ==
  \/ h \in DOMAIN objects
  \/ \E i \in 1 .. Len(stack) : stack[i].listed /\ h \in stack[i].handles
  \/ \E i \in 1 .. Len(stack) : ~stack[i].listed /\ dev[h].parent = stack[i].dir
  \/ dev[h].parent \in since \ DOMAIN objects
Walking ==
  /\ pc = "fast" => stack = << OpenFrame(Root) >> /\ objects = Nothing
  /\ pc \in {"fast", "walk"} => since \subseteq Reached
  /\ spent.faults = 0 /\ pc = "walk" => \A h \in since : Ahead(h)
  /\ spent.faults = 0 /\ pc = "fixup" => since \subseteq DOMAIN objects

-----------------------------------------------------------------------------
\* While nothing has failed no step of the past was a failure, nor the user's.
LEMMA Faultless ==
  ASSUME Types, Next
  PROVE  /\ spent'.faults = 0 => spent.faults = 0 /\ ~Fault /\ \A name, S : ~LostCall(name, S)
         /\ spent'.changes = 0 => spent.changes = 0 /\ ~Spend("changes")
<1>1. spent["faults"] \in Nat /\ spent["changes"] \in Nat
  BY DEF Types, BoundTypes, Bounded
<1>2. ASSUME NEW what \in Bounded, Spend(what)
      PROVE  /\ spent'[what] = spent[what] + 1
             /\ \A other \in Bounded : other # what => spent'[other] = spent[other]
  BY <1>2 DEF Spend, Types, BoundTypes
<1>3. ASSUME NEW name, NEW S, LostCall(name, S)
      PROVE  spent'["faults"] = spent["faults"] + 1 /\ spent'["changes"] = spent["changes"]
  BY <1>3, LostKeeps DEF Types
<1>4. \/ UNCHANGED spent
      \/ \E what \in Bounded : Spend(what)
      \/ \E name, S : LostCall(name, S)
  BY SpentStep
<1>5. "faults" \in Bounded /\ "changes" \in Bounded
  BY DEF Bounded
<1> QED
  BY <1>1, <1>2, <1>3, <1>4, <1>5 DEF Fault

\* What a step puts on the device lies in a folder, and folders stay folders.
Placed(h) == /\ h \in DOMAIN dev => dev'[h].folder = dev[h].folder
             /\ InFolder(dev'[h].parent)

\* A new object in a folder is placed.
LEMMA NewPlaced ==
  ASSUME Types, Parents, NEW g, NEW info \in Info, InFolder(info.parent),
         dev' = With(dev, g, info), g \notin DOMAIN dev,
         NEW h \in DOMAIN dev'
  PROVE  Placed(h)
<1>1. DOMAIN dev' = DOMAIN dev \cup {g}
  BY WithMap
<1>2. CASE h = g
  <2>1. dev'[h] = info
    BY <1>2 DEF With
  <2> QED
    BY <1>2, <2>1 DEF Placed
<1>3. CASE h # g
  <2>1. h \in DOMAIN dev /\ dev'[h] = dev[h]
    BY <1>1, <1>3 DEF With
  <2> QED
    BY <2>1 DEF Placed, Parents
<1> QED
  BY <1>2, <1>3

\* The parents that calls are given.
LEMMA FoldersPlaced ==
  ASSUME Types, NEW p \in Folders \cup {Root}
  PROVE  InFolder(p) /\ p \in Handle \cup {Root}
BY PastFacts DEF InFolder, Folders, Types, DeviceTypes

\* Every object a step leaves on the device is placed: DeleteObject takes what is
\* in a folder along, MoveObject moves to a folder.
LEMMA ParentsKeep == ASSUME Types, Parents, Next, NEW h \in DOMAIN dev' PROVE Placed(h)
<1>1. CASE UNCHANGED dev
  BY <1>1 DEF Placed, Parents
<1>2. CASE Asking \/ SendInfo
  BY <1>1, <1>2, AskingKeeps DEF SendInfo
<1>3. CASE Delete \/ UserDeletes
  <2>1. PICK S : dev' = Without(dev, S)
    BY <1>3 DEF Delete, UserDeletes
  <2>2. h \in DOMAIN dev /\ dev'[h] = dev[h]
    BY <2>1 DEF Without
  <2> QED
    BY <2>2 DEF Placed, Parents
<1>4. CASE Move
  <2>1. PICK g \in DOMAIN dev, p \in Folders \cup {Root} : dev' = [dev EXCEPT ![g].parent = p]
    BY <1>4 DEF Move
  <2>2. h \in DOMAIN dev /\ dev[h] \in Info
    BY <2>1 DEF Types, DeviceTypes
  <2>3. p \in Handle \cup {Root} /\ InFolder(p)
    BY FoldersPlaced
  <2>4. CASE h = g
    <3>1. dev'[h] = [dev[h] EXCEPT !.parent = p]
      BY <2>1, <2>2, <2>4
    <3>2. dev'[h].parent = p /\ dev'[h].folder = dev[h].folder
      BY <2>2, <2>3, <3>1, InfoChanges
    <3> QED
      BY <2>3, <3>2 DEF Placed
  <2>5. CASE h # g
    BY <2>1, <2>2, <2>5 DEF Placed, Parents
  <2> QED
    BY <2>4, <2>5
<1>5. CASE Rename \/ UserRenames
  <2>1. PICK g \in DOMAIN dev, n \in Names : dev' = [dev EXCEPT ![g].name = n]
    BY <1>5 DEF Rename, UserRenames
  <2>2. h \in DOMAIN dev /\ dev[h] \in Info
    BY <2>1 DEF Types, DeviceTypes
  <2>3. dev'[h].parent = dev[h].parent /\ dev'[h].folder = dev[h].folder
    BY <2>1, <2>2, InfoChanges
  <2> QED
    BY <2>2, <2>3 DEF Placed, Parents
<1>6. CASE Copy
  <2>1. PICK g \in DOMAIN dev, p \in Folders \cup {Root}, new \in Handle :
          NewObject(new, [dev[g] EXCEPT !.parent = p])
    BY <1>6 DEF Copy
  <2>2. [dev[g] EXCEPT !.parent = p] \in Info /\ [dev[g] EXCEPT !.parent = p].parent = p
    BY FoldersPlaced, InfoChanges DEF Types, DeviceTypes
  <2>3. PICK info \in Info : NewObject(new, info) /\ info.parent = p
    BY <2>1, <2>2
  <2> QED
    BY <2>3, FoldersPlaced, NewPlaced DEF NewObject, Types, DeviceTypes
<1>7. CASE CreateFolder
  <2>1. PICK g \in Handle, p \in Folders \cup {Root}, n \in Names :
          NewObject(g, [parent |-> p, folder |-> TRUE, name |-> n])
    BY <1>7 DEF CreateFolder
  <2>2. /\ [parent |-> p, folder |-> TRUE, name |-> n] \in Info
        /\ [parent |-> p, folder |-> TRUE, name |-> n].parent = p
    BY FoldersPlaced DEF Info
  <2>3. PICK info \in Info : NewObject(g, info) /\ info.parent = p
    BY <2>1, <2>2
  <2> QED
    BY <2>3, FoldersPlaced, NewPlaced DEF NewObject, Types, DeviceTypes
<1>8. CASE UserAdds
  <2>1. PICK g \in Handle, p \in Folders \cup {Root}, f \in BOOLEAN :
          NewObject(g, [parent |-> p, folder |-> f, name |-> "other"])
    BY <1>8 DEF UserAdds
  <2>2. /\ [parent |-> p, folder |-> f, name |-> "other"] \in Info
        /\ [parent |-> p, folder |-> f, name |-> "other"].parent = p
    BY FoldersPlaced DEF Info, Names
  <2>3. PICK info \in Info : NewObject(g, info) /\ info.parent = p
    BY <2>1, <2>2
  <2> QED
    BY <2>3, FoldersPlaced, NewPlaced DEF NewObject, Types, DeviceTypes
<1>9. CASE SendData
  <2>1. PICK file \in Info : /\ dev' = dev \/ dev' = With(dev, target, file)
                             /\ file.parent = dest
    <3>1. /\ [parent |-> dest, folder |-> FALSE, name |-> "other"] \in Info
          /\ [parent |-> dest, folder |-> FALSE, name |-> "other"].parent = dest
      BY DEF Info, Names, Types, PlaceTypes
    <3> QED
      BY <1>9, <3>1 DEF SendData
  <2>2. InFolder(dest) /\ target \notin DOMAIN dev
    BY <1>9 DEF SendData, Parents, Types, Fresh
  <2> QED
    BY <1>1, <2>1, <2>2, NewPlaced
<1> QED
  BY <1>2, <1>3, <1>4, <1>5, <1>6, <1>7, <1>8, <1>9, Steps

\* Parents is kept.
LEMMA ParentsStep == Types /\ Parents /\ Next => Parents'
<1> SUFFICES ASSUME Types, Parents, Next PROVE Parents'
  OBVIOUS
<1>1. ASSUME NEW p, InFolder(p)
      PROVE  p \in Past' \cup {Root} /\ (p \in DOMAIN dev' => dev'[p].folder)
  <2>1. Root \notin DOMAIN dev'
    BY DeviceStep, HandleAssumption DEF DeviceTypes
  <2>2. p \in DOMAIN dev' => p \in DOMAIN dev
    BY <1>1, <2>1, Arrivals DEF InFolder
  <2> QED
    BY <1>1, <2>2, Arrivals, ParentsKeep DEF InFolder, Placed
<1>2. ASSUME NEW h \in DOMAIN dev'
      PROVE  InFolder(dev'[h].parent)
  BY ParentsKeep DEF Placed
<1>3. ASSUME pc' = "send"
      PROVE  InFolder(dest')
  <2>1. CASE SendInfo
    <3>1. dest' \in Folders \cup {Root}
      BY <1>3, <2>1 DEF SendInfo, Call
    <3> QED
      BY <3>1, FoldersPlaced
  <2>2. CASE UserAdds \/ UserRenames \/ UserDeletes
    BY <1>3, <2>2 DEF UserAdds, UserRenames, UserDeletes, User, Parents
  <2>3. CASE Library
    BY <1>3, <2>3 DEF Library, Fast, WalkList, WalkTake, WalkReturn, FixUp, WantInfo, WantProps, Wanted,
       SendData, Add, Refill, BeginFlush, FirstPc, List, FolderNext
  <2>4. CASE \/ Delete \/ Move \/ Copy \/ Rename \/ CreateFolder
             \/ Metadata \/ Listing \/ Folder
    BY <1>3, <2>4 DEF Delete, Move, Copy, Rename, CreateFolder, Metadata, Listing, Folder,
       Call, LostCall, Update, Add
  <2> QED
    BY <2>1, <2>2, <2>3, <2>4 DEF Next, Program
<1> QED
  BY <1>1, <1>2, <1>3 DEF Parents, InFolder

\* The call that is under way fits the place the library is at.
LEMMA JobsStep == Types /\ Jobs /\ Next => Jobs'
<1> SUFFICES ASSUME Types, Jobs, Next PROVE Jobs'
  OBVIOUS
<1> USE DEF Jobs, Flushing
<1>1. CASE \/ Fast \/ WalkList \/ WalkTake \/ WalkReturn \/ FixUp
  BY <1>1 DEF Fast, WalkList, WalkTake, WalkReturn, FixUp
<1>2. CASE WantInfo \/ WantProps
  BY <1>2 DEF WantInfo, WantProps, Wanted
<1>3. CASE SendData \/ Refill \/ List \/ FolderNext
  BY <1>3 DEF SendData, Add, Refill, BeginFlush, FirstPc, List, FolderNext
<1>4. CASE Program
  BY <1>4 DEF Program, Delete, Move, Copy, Rename, CreateFolder, SendInfo, Metadata, Listing, Folder,
       Call, LostCall, Update, Add
<1>5. CASE UserAdds \/ UserRenames \/ UserDeletes
  BY <1>5 DEF UserAdds, UserRenames, UserDeletes, User
<1> QED
  BY <1>1, <1>2, <1>3, <1>4, <1>5 DEF Next, Library

-----------------------------------------------------------------------------
\* The objects below the root, once more.
LEMMA ReachedFacts ==
  /\ Reached \subseteq DOMAIN dev
  /\ \A h \in DOMAIN dev : dev[h].parent \in Reached \cup {Root} => h \in Reached
  /\ \A h \in Reached : dev[h].parent \in Reached \cup {Root}
BY BelowFacts DEF Reached, Gone

\* A set of objects below the root, each in another of them, is empty.
LEMMA Bottomless ==
  ASSUME Types, NEW T \in SUBSET Reached, \A h \in T : dev[h].parent \in T
  PROVE  T = {}
<1>1. T \subseteq Handle
  BY ReachedFacts DEF Types, DeviceTypes
<1>2. Closed(Reached \ T, Root)
  BY <1>1, ReachedFacts, HandleAssumption DEF Closed
<1>3. Reached \ T \in SUBSET DOMAIN dev
  BY ReachedFacts
<1>4. Reached \subseteq Reached \ T
  BY <1>2, <1>3 DEF Reached, Below
<1> QED
  BY <1>4

\* Adding and renaming objects takes none from the root, ...
LEMMA ReachedGrows ==
  ASSUME DOMAIN dev \subseteq DOMAIN dev', \A h \in DOMAIN dev : dev'[h].parent = dev[h].parent
  PROVE  Reached \subseteq Reached'
<1> SUFFICES ASSUME NEW h \in Reached, NEW S \in SUBSET DOMAIN dev', Closed(S, Root)'
             PROVE  h \in S
  BY ReachedFacts DEF Reached, Below
<1>1. Closed(S \cap DOMAIN dev, Root)
  BY DEF Closed
<1>2. S \cap DOMAIN dev \in SUBSET DOMAIN dev
  OBVIOUS
<1> QED
  BY <1>1, <1>2 DEF Reached, Below

\* ... and deleting one takes those below it.
LEMMA ReachedShrinks ==
  ASSUME NEW g, dev' = Without(dev, Gone(g))
  PROVE  Reached \ Gone(g) \subseteq Reached'
<1>1. DOMAIN dev' = DOMAIN dev \ Gone(g) /\ \A h \in DOMAIN dev' : dev'[h] = dev[h]
  BY DEF Without
<1> SUFFICES ASSUME NEW h \in Reached \ Gone(g), NEW S \in SUBSET DOMAIN dev', Closed(S, Root)'
             PROVE  h \in S
  BY <1>1, ReachedFacts DEF Reached, Below
<1> DEFINE U == S \cup (Gone(g) \cap DOMAIN dev)
<1>2. Closed(U, Root)
  <2> SUFFICES ASSUME NEW x \in DOMAIN dev, dev[x].parent \in U \cup {Root}, x \notin Gone(g)
               PROVE  x \in S
    BY DEF Closed
  <2>1. dev[x].parent \notin Gone(g)
    BY BelowFacts DEF Gone
  <2>2. x \in DOMAIN dev' /\ dev'[x].parent \in S \cup {Root}
    BY <1>1, <2>1
  <2> QED
    BY <2>2 DEF Closed
<1>3. U \in SUBSET DOMAIN dev
  BY <1>1
<1>4. h \in U
  BY <1>2, <1>3 DEF Reached, Below
<1> QED
  BY <1>4

-----------------------------------------------------------------------------
\* Whatever the user of the device does during a walk, what is still to be found
\* can be found.
LEMMA UserWalking ==
  ASSUME Types, Walking, UserAdds \/ UserRenames \/ UserDeletes, Next
  PROVE  Walking'
<1>1. UNCHANGED <<objects, pc, stack>>
  BY DEF UserAdds, UserRenames, UserDeletes, User
<1>2. spent'.faults = 0 => spent.faults = 0
  BY Faultless
<1>3. since' \subseteq since
  BY DEF UserAdds, UserRenames, UserDeletes
<1>4. ASSUME pc \in {"fast", "walk"}
      PROVE  since' \subseteq Reached' /\ \A h \in since' : Ahead(h) => Ahead(h)'
  <2>1. since \subseteq Reached /\ since \subseteq DOMAIN dev
    BY <1>4, ReachedFacts DEF Walking
  <2>2. CASE UserAdds \/ UserRenames
    <3>1. since' = since
      BY <2>2 DEF UserAdds, UserRenames
    <3>2. DOMAIN dev \subseteq DOMAIN dev' /\ \A h \in DOMAIN dev : dev'[h].parent = dev[h].parent
      <4>1. CASE UserAdds
        <5>1. PICK g, info : NewObject(g, info)
          BY <4>1 DEF UserAdds
        <5> QED
          BY <5>1 DEF NewObject, With, Types, DeviceTypes
      <4>2. CASE UserRenames
        <5>1. PICK g \in DOMAIN dev, n \in Names : dev' = [dev EXCEPT ![g].name = n]
          BY <4>2 DEF UserRenames
        <5> QED
          BY <5>1, InfoChanges DEF Types, DeviceTypes
      <4> QED
        BY <2>2, <4>1, <4>2
    <3> QED
      BY <1>1, <2>1, <3>1, <3>2, ReachedGrows DEF Ahead
  <2>3. CASE UserDeletes
    <3>1. PICK g \in DOMAIN dev : dev' = Without(dev, Gone(g)) /\ since' = since \ Gone(g)
      BY <2>3 DEF UserDeletes
    <3>2. since' \subseteq Reached'
      BY <2>1, <3>1, ReachedShrinks
    <3>3. ASSUME NEW h \in since', Ahead(h)
          PROVE  Ahead(h)'
      <4>1. h \in DOMAIN dev /\ h \notin Gone(g) /\ dev'[h] = dev[h]
        BY <2>1, <3>1, <3>3 DEF Without
      <4>2. dev[h].parent \notin Gone(g)
        BY <4>1, BelowFacts DEF Gone
      <4> QED
        BY <1>1, <3>1, <3>3, <4>1, <4>2 DEF Ahead
    <3> QED
      BY <3>2, <3>3
  <2> QED
    BY <2>2, <2>3
<1> QED
  BY <1>1, <1>2, <1>3, <1>4 DEF Walking

\* GetObjectHandles: what was in a folder to be listed is in the list.
LEMMA ListWalking ==
  ASSUME Types, Walking, WalkList, spent'.faults = 0, Next
  PROVE  \A h \in since' : Ahead(h)'
<1>1. /\ pc = "walk" /\ stack # << >> /\ ~Top.listed /\ spent.faults = 0
      /\ UNCHANGED <<dev, objects, since>>
      /\ stack' = << [Top EXCEPT !.listed = TRUE, !.handles = Children(Top.dir)] >> \o Tail(stack)
  BY Faultless DEF WalkList, device, history
<1> DEFINE f == [Top EXCEPT !.listed = TRUE, !.handles = Children(Top.dir)]
<1>2. Top \in Frame /\ Children(Top.dir) \in SUBSET Handle
  BY <1>1, FrameFacts DEF Types, PlaceTypes, DeviceTypes, Children
<1>3. f \in Frame /\ f.listed /\ f.handles = Children(Top.dir)
  BY <1>2 DEF Frame
<1> HIDE DEF f
<1>4. /\ Len(stack') = Len(stack) /\ Len(stack) \in Nat \ {0} /\ stack'[1] = f
      /\ \A i \in 2 .. Len(stack) : stack'[i] = stack[i]
      /\ Top = stack[1]
  <2>1. stack' = << f >> \o Tail(stack)
    BY <1>1 DEF f
  <2> QED
    BY <1>1, <1>3, <2>1, FrameFacts, PushFrame DEF Types, PlaceTypes
<1>5. ASSUME NEW h \in since
      PROVE  Ahead(h)'
  <2>1. Ahead(h) /\ h \in DOMAIN dev
    BY <1>1, ReachedFacts DEF Walking
  <2>2. ASSUME NEW i \in 1 .. Len(stack), stack[i].listed, h \in stack[i].handles
        PROVE  Ahead(h)'
    <3>1. i \in 2 .. Len(stack)
      BY <1>1, <1>4, <2>2
    <3> QED
      BY <1>4, <2>2, <3>1 DEF Ahead
  <2>3. ASSUME NEW i \in 1 .. Len(stack), ~stack[i].listed, dev[h].parent = stack[i].dir
        PROVE  Ahead(h)'
    <3>1. CASE i = 1
      <4>1. h \in f.handles
        BY <1>3, <1>4, <2>1, <2>3, <3>1 DEF Children
      <4> QED
        BY <1>3, <1>4, <4>1 DEF Ahead
    <3>2. CASE i # 1
      <4>1. i \in 2 .. Len(stack)
        BY <1>4, <3>2
      <4> QED
        BY <1>1, <1>4, <2>3, <4>1 DEF Ahead
    <3> QED
      BY <3>1, <3>2
  <2> QED
    BY <1>1, <2>1, <2>2, <2>3 DEF Ahead
<1> QED
  BY <1>1, <1>5

\* One object found: if it is a folder its frame comes next; a handle that is gone
\* ends the folder, and what was left in it counts no more.
LEMMA TakeWalking ==
  ASSUME Types, Parents, Walking, WalkTake, spent'.faults = 0, Next
  PROVE  since' \subseteq since /\ \A h \in since' : Ahead(h)'
<1>1. /\ pc = "walk" /\ stack # << >> /\ Top.listed /\ spent.faults = 0 /\ ~Fault
      /\ UNCHANGED <<dev, used>>
  BY Faultless DEF WalkTake, device
<1>2. /\ Top \in Frame /\ Tail(stack) \in Seq(Frame) /\ Len(Tail(stack)) = Len(stack) - 1
      /\ Len(stack) \in Nat \ {0} /\ Top = stack[1]
      /\ \A i \in 1 .. Len(Tail(stack)) : Tail(stack)[i] = stack[i + 1]
  BY <1>1, FrameFacts DEF Types, PlaceTypes
<1>3. \A h \in since : Ahead(h) /\ h \in DOMAIN dev
  BY <1>1, ReachedFacts DEF Walking
<1>4. PICK g \in Top.handles :
        \/ /\ Known(g) /\ Fetch(g) /\ since' = since
           /\ LET rest == << [Top EXCEPT !.handles = @ \ {g}] >> \o Tail(stack)
              IN stack' = IF InfoOf(g).folder THEN Descend(g, rest) ELSE rest
        \/ /\ BadHandle(g) /\ stack' = Tail(stack)
           /\ since' = since \ UNION {Gone(x) : x \in Top.handles}
  BY DEF WalkTake, AfterBad
<1>5. CASE BadHandle(g) /\ stack' = Tail(stack) /\ since' = since \ UNION {Gone(x) : x \in Top.handles}
  <2>1. objects' = objects
    BY <1>5 DEF BadHandle
  <2>2. ASSUME NEW h \in since'
        PROVE  Ahead(h)'
    <3>1. h \in since /\ h \in DOMAIN dev /\ Ahead(h) /\ \A x \in Top.handles : h \notin Gone(x)
      BY <1>3, <1>5, <2>2
    <3>2. h \notin Top.handles /\ \A x \in Top.handles : dev[h].parent \notin Gone(x)
      BY <3>1, BelowFacts DEF Gone
    <3>3. ASSUME NEW i \in 1 .. Len(stack), i # 1
          PROVE  i - 1 \in 1 .. Len(stack') /\ stack'[i - 1] = stack[i]
      BY <1>2, <1>5, <3>3
    <3>4. CASE \E i \in 1 .. Len(stack) : stack[i].listed /\ h \in stack[i].handles
      BY <1>2, <3>2, <3>3, <3>4 DEF Ahead
    <3>5. CASE \E i \in 1 .. Len(stack) : ~stack[i].listed /\ dev[h].parent = stack[i].dir
      BY <1>1, <1>2, <3>3, <3>5 DEF Ahead
    <3>6. CASE dev[h].parent \in since \ DOMAIN objects
      <4>1. dev[h].parent \in since'
        BY <1>5, <3>2, <3>6
      <4> QED
        BY <1>1, <2>1, <3>6, <4>1 DEF Ahead
    <3> QED
      BY <2>1, <3>1, <3>4, <3>5, <3>6 DEF Ahead
  <2> QED
    BY <1>5, <2>2
<1>6. CASE /\ Known(g) /\ Fetch(g) /\ since' = since
           /\ LET rest == << [Top EXCEPT !.handles = @ \ {g}] >> \o Tail(stack)
              IN stack' = IF InfoOf(g).folder THEN Descend(g, rest) ELSE rest
  <2> DEFINE f == [Top EXCEPT !.handles = @ \ {g}]
             rest == << f >> \o Tail(stack)
  <2>1. f \in Frame /\ f.listed /\ f.handles = Top.handles \ {g} /\ OpenFrame(g) \in Frame
    BY <1>1, <1>2 DEF Frame, OpenFrame
  <2>2. stack' = rest \/ stack' = << OpenFrame(g) >> \o rest
    BY <1>6 DEF Descend
  <2>3. InfoOf(g).folder => stack' = << OpenFrame(g) >> \o rest
    BY <1>6 DEF Descend
  <2> HIDE DEF f
  <2>4. /\ rest \in Seq(Frame) /\ Len(rest) = Len(stack) /\ rest[1] = f
        /\ \A i \in 2 .. Len(stack) : rest[i] = stack[i]
    <3>1. /\ << f >> \o Tail(stack) \in Seq(Frame) /\ Len(<< f >> \o Tail(stack)) = Len(Tail(stack)) + 1
          /\ (<< f >> \o Tail(stack))[1] = f
          /\ \A i \in 1 .. Len(Tail(stack)) : (<< f >> \o Tail(stack))[i + 1] = Tail(stack)[i]
      BY <1>2, <2>1, PushFrame
    <3> QED
      BY <1>2, <3>1
  <2> HIDE DEF rest
  <2>5. /\ Len(<< OpenFrame(g) >> \o rest) = Len(rest) + 1
        /\ (<< OpenFrame(g) >> \o rest)[1] = OpenFrame(g)
        /\ \A i \in 1 .. Len(rest) : (<< OpenFrame(g) >> \o rest)[i + 1] = rest[i]
    BY <2>1, <2>4, PushFrame
  <2>6. ASSUME NEW i \in 1 .. Len(rest)
        PROVE  \E j \in 1 .. Len(stack') : stack'[j] = rest[i]
    <3>1. Len(rest) \in Nat
      BY <1>2, <2>4
    <3>2. CASE stack' = rest
      BY <3>2
    <3>3. CASE stack' = << OpenFrame(g) >> \o rest
      <4>1. i + 1 \in 1 .. Len(stack') /\ stack'[i + 1] = rest[i]
        BY <2>5, <3>1, <3>3
      <4> QED
        BY <4>1
    <3> QED
      BY <2>2, <3>2, <3>3
  <2>7. /\ DOMAIN objects' = DOMAIN objects \cup {g}
        /\ g \notin DOMAIN objects => g \in DOMAIN dev
    BY <1>1, <1>6, FetchKeeps DEF Types, InCache
  <2>8. ASSUME NEW h \in since
        PROVE  Ahead(h)'
    <3>1. h \in DOMAIN dev /\ Ahead(h)
      BY <1>3
    <3>2. ASSUME NEW i \in 1 .. Len(stack), stack[i].listed, h \in stack[i].handles, h # g
          PROVE  \E j \in 1 .. Len(stack') : stack'[j].listed /\ h \in stack'[j].handles
      <4>1. i \in 1 .. Len(rest) /\ rest[i].listed /\ h \in rest[i].handles
        BY <1>2, <2>1, <2>4, <3>2
      <4> QED
        BY <2>6, <4>1
    <3>3. ASSUME NEW i \in 1 .. Len(stack), ~stack[i].listed, dev[h].parent = stack[i].dir
          PROVE  \E j \in 1 .. Len(stack') : ~stack'[j].listed /\ dev[h].parent = stack'[j].dir
      <4>1. i \in 1 .. Len(rest) /\ rest[i] = stack[i]
        BY <1>1, <1>2, <2>4, <3>3
      <4> QED
        BY <2>6, <3>3, <4>1
    <3>4. CASE dev[h].parent = g /\ g \notin DOMAIN objects
      <4>1. dev[g].folder
        BY <2>7, <3>1, <3>4 DEF Parents, InFolder
      <4>2. stack' = << OpenFrame(g) >> \o rest
        BY <2>3, <3>4, <4>1 DEF InfoOf, InCache
      <4>3. 1 \in 1 .. Len(stack') /\ ~stack'[1].listed /\ dev'[h].parent = stack'[1].dir
        BY <1>1, <1>2, <2>4, <2>5, <3>4, <4>2 DEF OpenFrame
      <4> QED
        BY <4>3 DEF Ahead
    <3>5. CASE dev[h].parent \in since \ DOMAIN objects /\ dev[h].parent # g
      BY <1>1, <1>6, <2>7, <3>5 DEF Ahead
    <3> QED
      BY <1>1, <2>7, <3>1, <3>2, <3>3, <3>4, <3>5 DEF Ahead
  <2> QED
    BY <1>6, <2>8
<1> QED
  BY <1>4, <1>5, <1>6

\* The end of a folder, and of the walk.
LEMMA ReturnWalking ==
  ASSUME Types, Walking, WalkReturn, spent'.faults = 0, Next
  PROVE  /\ pc' = "walk" => \A h \in since' : Ahead(h)'
         /\ pc' = "fixup" => since' \subseteq DOMAIN objects'
<1>1. /\ pc = "walk" /\ spent.faults = 0 /\ UNCHANGED <<dev, objects, since>>
      /\ since \subseteq Reached /\ \A h \in since : Ahead(h)
  BY Faultless DEF WalkReturn, Walking, device, history
<1>2. CASE stack = << >> /\ pc' = "fixup"
  <2> DEFINE T == since \ DOMAIN objects
  <2>1. \A h \in T : dev[h].parent \in T
    BY <1>1, <1>2 DEF Ahead
  <2>2. T = {}
    BY <1>1, <2>1, Bottomless
  <2> QED
    BY <1>1, <1>2, <2>2
<1>3. CASE stack # << >> /\ Top.listed /\ Top.handles = {} /\ stack' = Tail(stack) /\ pc' = "walk"
  <2>1. /\ Len(Tail(stack)) = Len(stack) - 1 /\ Len(stack) \in Nat \ {0} /\ Top = stack[1]
        /\ \A i \in 1 .. Len(Tail(stack)) : Tail(stack)[i] = stack[i + 1]
    BY <1>3, FrameFacts DEF Types, PlaceTypes
  <2>2. ASSUME NEW i \in 1 .. Len(stack), i # 1
        PROVE  i - 1 \in 1 .. Len(stack') /\ stack'[i - 1] = stack[i]
    BY <1>3, <2>1, <2>2
  <2>3. ASSUME NEW h \in since
        PROVE  Ahead(h)'
    <3>1. CASE \E i \in 1 .. Len(stack) : stack[i].listed /\ h \in stack[i].handles
      <4>1. PICK i \in 1 .. Len(stack) : stack[i].listed /\ h \in stack[i].handles
        BY <3>1
      <4>2. i # 1
        BY <1>3, <2>1, <4>1
      <4> QED
        BY <2>2, <4>1, <4>2 DEF Ahead
    <3>2. CASE \E i \in 1 .. Len(stack) : ~stack[i].listed /\ dev[h].parent = stack[i].dir
      <4>1. PICK i \in 1 .. Len(stack) : ~stack[i].listed /\ dev[h].parent = stack[i].dir
        BY <3>2
      <4>2. i # 1
        BY <1>3, <2>1, <4>1
      <4> QED
        BY <1>1, <2>2, <4>1, <4>2 DEF Ahead
    <3> QED
      BY <1>1, <3>1, <3>2 DEF Ahead
  <2> QED
    BY <1>1, <1>3, <2>3
<1> QED
  BY <1>1, <1>2, <1>3 DEF WalkReturn, Pop

\* flush_handles begins with everything to be found.
LEMMA BeginWalking ==
  ASSUME BeginFlush, UNCHANGED dev
  PROVE  Walking'
<1>1. /\ stack' = << OpenFrame(Root) >> /\ objects' = Nothing /\ since' = Reached
      /\ pc' \in {"fast", "walk"} /\ dev' = dev
  BY DEF BeginFlush, FirstPc
<1>2. stack'[1] = OpenFrame(Root) /\ Len(stack') = 1 /\ DOMAIN objects' = {}
  BY <1>1 DEF Nothing
<1>3. ASSUME NEW h \in since'
      PROVE  Ahead(h)'
  <2>1. dev'[h].parent \in since' \cup {Root}
    BY <1>1, ReachedFacts
  <2> QED
    BY <1>2, <2>1 DEF Ahead, OpenFrame
<1>4. Reached' = Reached
  BY <1>1 DEF Reached, Below, Closed
<1> QED
  BY <1>1, <1>3, <1>4 DEF Walking

\* So does LIBMTP_Open_Raw_Device.
LEMMA WalkingInit == Init => Walking
<1> SUFFICES ASSUME Init PROVE Walking
  OBVIOUS
<1>1. /\ stack = << OpenFrame(Root) >> /\ objects = Nothing /\ since = Reached /\ pc # "fixup"
  BY DEF Init, FirstPc
<1>2. stack[1] = OpenFrame(Root) /\ Len(stack) = 1 /\ DOMAIN objects = {}
  BY <1>1 DEF Nothing
<1>3. ASSUME NEW h \in since
      PROVE  Ahead(h)
  BY <1>1, <1>2, ReachedFacts DEF Ahead, OpenFrame
<1> QED
  BY <1>1, <1>3 DEF Walking

\* Walking is kept.
LEMMA WalkingStep == Types /\ Parents /\ Walking /\ Next => Walking'
<1> SUFFICES ASSUME Types, Parents, Walking, Next PROVE Walking'
  OBVIOUS
<1>1. spent'.faults = 0 => spent.faults = 0 /\ ~Fault
  BY Faultless
<1>2. UNCHANGED dev => Reached' = Reached
  BY DEF Reached, Below, Closed
<1>3. CASE UserAdds \/ UserRenames \/ UserDeletes
  BY <1>3, UserWalking
<1>4. CASE Fast
  <2>1. /\ pc = "fast" /\ since' = since /\ dev' = dev /\ since \subseteq Reached /\ since \subseteq DOMAIN dev
    BY <1>4, ReachedFacts DEF Fast, Walking, device
  <2>2. CASE Fault /\ pc' = "walk"
    BY <1>1, <1>2, <2>1, <2>2 DEF Walking
  <2>3. CASE /\ \E props \in BOOLEAN : objects' = [h \in DOMAIN dev |-> [info |-> dev[h], props |-> props]]
             /\ pc' = IF dev = Nothing THEN "walk" ELSE "fixup"
    <3>1. DOMAIN objects' = DOMAIN dev
      BY <2>3
    <3> QED
      BY <1>2, <2>1, <2>3, <3>1 DEF Walking, Ahead
  <2> QED
    BY <1>4, <2>2, <2>3 DEF Fast
<1>5. CASE WalkList
  <2>1. pc = "walk" /\ pc' = "walk" /\ since' = since /\ dev' = dev
    BY <1>5 DEF WalkList, device, history
  <2> QED
    BY <1>2, <1>5, <2>1, ListWalking DEF Walking
<1>6. CASE WalkTake
  <2>1. pc = "walk" /\ pc' = "walk" /\ since' \subseteq since /\ dev' = dev
    BY <1>6 DEF WalkTake, device
  <2> QED
    BY <1>2, <1>6, <2>1, TakeWalking DEF Walking
<1>7. CASE WalkReturn
  <2>1. pc = "walk" /\ pc' \in {"walk", "fixup"} /\ since' = since /\ dev' = dev
    BY <1>7 DEF WalkReturn, device, history
  <2> QED
    BY <1>2, <1>7, <2>1, ReturnWalking DEF Walking
<1>8. CASE Refill
  <2>1. pc' \in {"want", "list"} \/ (BeginFlush /\ UNCHANGED dev)
    BY <1>8 DEF Refill, device
  <2> QED
    BY <2>1, BeginWalking DEF Walking
<1>9. CASE FixUp \/ WantInfo \/ WantProps \/ SendData \/ List \/ FolderNext
  <2>1. pc' \notin {"fast", "walk", "fixup"}
    BY <1>9 DEF FixUp, WantInfo, WantProps, Wanted, SendData, Add, List, FolderNext
  <2> QED
    BY <2>1 DEF Walking
<1>10. CASE Program
  <2>1. pc' \notin {"fast", "walk", "fixup"}
    BY <1>10 DEF Program, Delete, Move, Copy, Rename, CreateFolder, SendInfo, Metadata, Listing, Folder,
       Call, LostCall, Update, Add
  <2> QED
    BY <2>1 DEF Walking
<1> QED
  BY <1>3, <1>4, <1>5, <1>6, <1>7, <1>8, <1>9, <1>10 DEF Next, Library

-----------------------------------------------------------------------------
\* A folder listing has, is getting or will get what was in the folder and is there.
Wanting == IF pc \in {"want", "props"} THEN {target} ELSE {}
Left == IF pc = "idle" THEN {} ELSE todo
Filling ==
  job = "folder" => /\ pc # "idle" => since \subseteq DOMAIN dev
                    /\ spent.faults = 0 => since \subseteq answer \cup Wanting \cup Left

\* LIBMTP_Get_Files_And_Folders goes on to the next handle when one cannot be had.
LEMMA FillingStep == Types /\ Jobs /\ Filling /\ Next => Filling'
<1> SUFFICES ASSUME Types, Jobs, Filling, Next, job' = "folder"
             PROVE  /\ pc' # "idle" => since' \subseteq DOMAIN dev'
                    /\ spent'.faults = 0 => since' \subseteq answer' \cup Wanting' \cup Left'
  BY DEF Filling
<1>1. spent'.faults = 0 => spent.faults = 0 /\ ~Fault
  BY Faultless
<1>2. CASE Folder
  <2>1. PICK p : todo' = Children(p) /\ since' = Children(p)
    BY <1>2 DEF Folder
  <2>2. pc' = "folder" /\ dev' = dev
    BY <1>2 DEF Folder, device
  <2> QED
    BY <2>1, <2>2 DEF Children, Left
<1>3. CASE FolderNext
  <2>1. pc = "folder" /\ job = "folder" /\ UNCHANGED <<dev, since, answer, spent>>
    BY <1>3 DEF FolderNext, device, history
  <2>2. \/ \E h \in todo : todo' = todo \ {h} /\ pc' = "want" /\ target' = h
        \/ todo = {} /\ pc' = "idle"
    BY <1>3 DEF FolderNext, Add
  <2> QED
    BY <2>1, <2>2 DEF Filling, Wanting, Left
<1>4. CASE WantInfo
  <2>1. /\ pc = "want" /\ job = "folder" /\ UNCHANGED <<dev, since, target, todo>>
        /\ \/ pc' = "props" /\ answer' = answer
           \/ pc' = "folder" /\ answer' = answer \cup {target}
           \/ pc' = "folder" /\ answer' = answer /\ BadHandle(target)
    BY <1>4 DEF WantInfo, Wanted, device, loop
  <2>2. BadHandle(target) => target \notin DOMAIN dev \/ Fault
    BY DEF BadHandle
  <2> QED
    BY <1>1, <2>1, <2>2 DEF Filling, Wanting, Left
<1>5. CASE WantProps
  <2>1. /\ pc = "props" /\ job = "folder" /\ UNCHANGED <<dev, since, target, todo>> /\ pc' = "folder"
        /\ \/ answer' = answer \cup {target}
           \/ answer' = answer /\ (target \notin DOMAIN dev \/ Fault)
    BY <1>5 DEF WantProps, Wanted, device, history
  <2> QED
    BY <1>1, <2>1 DEF Filling, Wanting, Left
<1>6. CASE UserAdds \/ UserRenames \/ UserDeletes
  <2>1. UNCHANGED <<pc, job, target, todo, answer>>
    BY <1>6 DEF UserAdds, UserRenames, UserDeletes, User, loop
  <2>2. CASE UserAdds
    <3>1. PICK h, info : NewObject(h, info)
      BY <2>2 DEF UserAdds
    <3>2. DOMAIN dev \subseteq DOMAIN dev' /\ since' = since
      BY <2>2, <3>1 DEF UserAdds, NewObject, With
    <3> QED
      BY <1>1, <2>1, <3>2 DEF Filling, Wanting, Left
  <2>3. CASE UserRenames
    <3>1. DOMAIN dev' = DOMAIN dev /\ since' = since
      BY <2>3 DEF UserRenames
    <3> QED
      BY <1>1, <2>1, <3>1 DEF Filling, Wanting, Left
  <2>4. CASE UserDeletes
    <3>1. PICK S : dev' = Without(dev, S) /\ since' = since \ S
      BY <2>4 DEF UserDeletes
    <3>2. DOMAIN dev' = DOMAIN dev \ S
      BY <3>1, WithoutMap
    <3> QED
      BY <1>1, <2>1, <3>1, <3>2 DEF Filling, Wanting, Left
  <2> QED
    BY <1>6, <2>2, <2>3, <2>4
<1>7. CASE Fast \/ WalkList \/ WalkTake \/ WalkReturn \/ FixUp \/ SendData \/ Refill \/ List
  BY <1>7 DEF Fast, WalkList, WalkTake, WalkReturn, FixUp, SendData, Refill, List, Jobs, Flushing
<1>8. CASE Delete \/ Move \/ Copy \/ Rename \/ CreateFolder \/ SendInfo \/ Metadata \/ Listing
  BY <1>8 DEF Delete, Move, Copy, Rename, CreateFolder, SendInfo, Metadata, Listing, Call, LostCall
<1> QED
  BY <1>2, <1>3, <1>4, <1>5, <1>6, <1>7, <1>8 DEF Next, Library, Program

Finding == Parents /\ Jobs /\ Walking /\ Filling

\* The device is opened.
LEMMA FindingInit == Init => Finding
<1> SUFFICES ASSUME Init PROVE Finding
  OBVIOUS
<1>1. Parents
  <2>1. PICK S \in SUBSET Handle :
          /\ Contents \in [S -> Info]
          /\ \A U \in SUBSET S : U # {} => \E h \in U : Contents[h].parent \in {Root} \cup (S \ U)
          /\ \A h \in S : Contents[h].parent \in S => Contents[Contents[h].parent].folder
    BY ContentsAssumption
  <2>2. dev = Contents /\ used = S /\ DOMAIN dev = S /\ pc # "send"
    BY <2>1 DEF Init, FirstPc
  <2>3. ASSUME NEW h \in S
        PROVE  Contents[h].parent \in {Root} \cup S
    <3>1. {h} \in SUBSET S /\ {h} # {}
      OBVIOUS
    <3>2. \E g \in {h} : Contents[g].parent \in {Root} \cup (S \ {h})
      BY <2>1, <3>1
    <3> QED
      BY <3>2
  <2> QED
    BY <2>1, <2>2, <2>3 DEF Parents, InFolder, Past
<1>2. Jobs /\ Filling
  BY DEF Init, FirstPc, Jobs, Flushing, Filling
<1> QED
  BY <1>1, <1>2, WalkingInit DEF Finding

\* What the walks of flush_handles and the loop of LIBMTP_Get_Files_And_Folders rely
\* on, whatever the user does meanwhile, holds always.
THEOREM FindingAlways == Spec => []Finding
<1>1. Types /\ Finding /\ [Next]_vars => Finding'
  <2> SUFFICES ASSUME Types, Finding, [Next]_vars PROVE Finding'
    OBVIOUS
  <2>1. CASE Next
    BY <2>1, ParentsStep, JobsStep, WalkingStep, FillingStep DEF Finding
  <2>2. CASE UNCHANGED vars
    <3>1. UNCHANGED <<dev, used, objects, pc, job, target, stack, todo, answer, since, dest, spent>>
      BY <2>2 DEF vars, device, history, loop
    <3>2. Parents' /\ Jobs'
      BY <3>1 DEF Finding, Parents, InFolder, Past, Jobs, Flushing
    <3>3. Walking'
      BY <3>1 DEF Finding, Walking, Ahead, Reached, Below, Closed
    <3>4. Filling'
      BY <3>1 DEF Finding, Filling, Wanting, Left
    <3> QED
      BY <3>2, <3>3, <3>4 DEF Finding
  <2> QED
    BY <2>1, <2>2
<1> QED
  BY TypesAlways, FindingInit, <1>1, PTL DEF Spec

\* flush_handles and LIBMTP_Get_Files_And_Folders find every object that stays where
\* it is while they run, for any contents and any changes by the user.
THEOREM WalkFindsAlways == Spec => []WalkFinds
<1>1. Finding => WalkFinds
  BY DEF Finding, Walking, Filling, Wanting, Left, WalkFinds
<1> QED
  BY FindingAlways, <1>1, PTL

-----------------------------------------------------------------------------
\* Every set of objects has one outside whose folder it is.
Tree == \A U \in SUBSET DOMAIN dev : U # {} => \E h \in U : dev[h].parent \in {Root} \cup (DOMAIN dev \ U)

\* On a device that only its program uses, nothing having failed: the walk is to
\* find all objects; the cache has all but those moved and copied, and the one
\* that is being added; and a listing has the files of the cache.
WalkWhole == /\ Flushing => since = DOMAIN dev
             /\ pc = "walk" => \A i \in 1 .. Len(stack) : stack[i].handles \subseteq DOMAIN dev
Adding == IF pc = "want" THEN {target} ELSE {}
Complete == mode.cached /\ pc \notin {"fast", "walk"} => DOMAIN dev \ (unlisted \cup Adding) \subseteq DOMAIN objects
Answered == job = "list" /\ pc = "idle" => answer = {h \in DOMAIN objects : ~objects[h].info.folder}
Whole ==
  Undisturbed => /\ doubt = {} /\ Tree /\ WalkWhole /\ Complete /\ Answered
                 /\ pc = "send" => dest \in DOMAIN dev \cup {Root}

\* In a tree everything is below the root.
LEMMA TreeReached == Types /\ Tree => Reached = DOMAIN dev
<1> SUFFICES ASSUME Types, Tree, DOMAIN dev \ Reached # {} PROVE FALSE
  BY ReachedFacts
<1>1. PICK h \in DOMAIN dev \ Reached : dev[h].parent \in {Root} \cup (DOMAIN dev \ (DOMAIN dev \ Reached))
  BY DEF Tree
<1> QED
  BY <1>1, ReachedFacts

\* A tree stays one when an object is added, ...
LEMMA TreeAdds ==
  ASSUME Types, Tree, NEW g, NEW info, info.parent \in DOMAIN dev \cup {Root},
         g \notin DOMAIN dev, g # Root, dev' = With(dev, g, info)
  PROVE  Tree'
<1>1. /\ DOMAIN dev' = DOMAIN dev \cup {g} /\ dev'[g] = info
      /\ \A h \in DOMAIN dev : dev'[h] = dev[h]
  BY DEF With
<1> SUFFICES ASSUME NEW U \in SUBSET DOMAIN dev', U # {}
             PROVE  \E h \in U : dev'[h].parent \in {Root} \cup (DOMAIN dev' \ U)
  BY DEF Tree
<1>2. CASE U = {g}
  BY <1>1, <1>2
<1>3. CASE U # {g}
  <2>1. U \ {g} \in SUBSET DOMAIN dev /\ U \ {g} # {}
    BY <1>1, <1>3
  <2>2. PICK h \in U \ {g} : dev[h].parent \in {Root} \cup (DOMAIN dev \ (U \ {g}))
    BY <2>1 DEF Tree
  <2> QED
    BY <1>1, <2>1, <2>2
<1> QED
  BY <1>2, <1>3

\* ... when one is deleted with all below it, ...
LEMMA TreeLoses ==
  ASSUME Types, Tree, NEW g, dev' = Without(dev, Gone(g))
  PROVE  Tree'
<1>1. DOMAIN dev' = DOMAIN dev \ Gone(g) /\ \A h \in DOMAIN dev' : dev'[h] = dev[h]
  BY DEF Without
<1> SUFFICES ASSUME NEW U \in SUBSET DOMAIN dev', U # {}
             PROVE  \E h \in U : dev'[h].parent \in {Root} \cup (DOMAIN dev' \ U)
  BY DEF Tree
<1>2. PICK h \in U : dev[h].parent \in {Root} \cup (DOMAIN dev \ U)
  BY <1>1 DEF Tree
<1>3. dev[h].parent \notin Gone(g)
  BY <1>1, BelowFacts DEF Gone
<1> QED
  BY <1>1, <1>2, <1>3

\* ... and when one is moved, but not into itself.
LEMMA TreeMoves ==
  ASSUME Types, Tree, NEW g \in DOMAIN dev, NEW p \in (DOMAIN dev \cup {Root}) \ Gone(g),
         dev' = [dev EXCEPT ![g].parent = p]
  PROVE  Tree'
<1>1. /\ DOMAIN dev' = DOMAIN dev /\ dev'[g].parent = p
      /\ \A h \in DOMAIN dev : h # g => dev'[h] = dev[h]
  BY DEF Types, DeviceTypes, Info
<1> SUFFICES ASSUME NEW U \in SUBSET DOMAIN dev, U # {}
             PROVE  \E h \in U : dev'[h].parent \in {Root} \cup (DOMAIN dev \ U)
  BY <1>1 DEF Tree
<1>2. CASE g \in U /\ U \ Gone(g) = {}
  BY <1>1, <1>2
<1>3. CASE g \in U /\ U \ Gone(g) # {}
  <2>1. PICK h \in U \ Gone(g) : dev[h].parent \in {Root} \cup (DOMAIN dev \ (U \ Gone(g)))
    BY <1>3 DEF Tree
  <2>2. dev[h].parent \notin Gone(g) /\ h # g
    BY <2>1, BelowFacts DEF Gone
  <2> QED
    BY <1>1, <2>1, <2>2
<1>4. CASE g \notin U
  BY <1>1, <1>4 DEF Tree
<1> QED
  BY <1>2, <1>3, <1>4

\* A complete cache gives a full listing.
LEMMA WholeListed == Types /\ Entries /\ Finding /\ Whole => FullListing
<1> SUFFICES ASSUME Types, Entries, Finding, Whole, JustListed
             PROVE  /\ Files \ unlisted \subseteq answer
                    /\ \A h \in answer \ Files : objects[h].info.parent \notin DOMAIN dev \cup {Root}
  BY DEF FullListing
<1>1. /\ doubt = {} /\ Tree /\ DOMAIN dev \ unlisted \subseteq DOMAIN objects
      /\ answer = {h \in DOMAIN objects : ~objects[h].info.folder}
  BY DEF JustListed, Whole, Adding, Complete, Answered
<1>2. Files = {h \in DOMAIN dev : ~dev[h].folder}
  BY <1>1, TreeReached DEF Files
<1>3. \A h \in DOMAIN objects : Right(h) \/ Orphan(h)
  BY <1>1 DEF Entries
<1> QED
  BY <1>1, <1>2, <1>3, PastFacts DEF Right, Orphan

\* The steps of the library and of a program nobody disturbs.
Calm == /\ ~Fault /\ ~UserAdds /\ ~UserRenames /\ ~UserDeletes
        /\ \A name, S : ~LostCall(name, S)

\* The calls of the program keep the device's folders a tree.
LEMMA CalmTree ==
  ASSUME Types, Finding, Next, Calm, Tree, pc = "send" => dest \in DOMAIN dev \cup {Root}
  PROVE  Tree'
<1>1. CASE UNCHANGED dev
  BY <1>1 DEF Tree
<1>2. CASE Asking \/ SendInfo
  BY <1>1, <1>2, AskingKeeps DEF SendInfo
<1>3. CASE Delete
  BY <1>3, TreeLoses DEF Delete
<1>4. CASE Move
  BY <1>4, TreeMoves DEF Move, Folders
<1>5. CASE Rename
  <2>1. PICK g \in DOMAIN dev, n \in Names : dev' = [dev EXCEPT ![g].name = n]
    BY <1>5 DEF Rename
  <2>2. DOMAIN dev' = DOMAIN dev /\ \A h \in DOMAIN dev : dev'[h].parent = dev[h].parent
    BY <2>1, InfoChanges DEF Types, DeviceTypes
  <2> QED
    BY <2>2 DEF Tree
<1>6. CASE Copy
  <2>1. PICK g \in DOMAIN dev, p \in Folders \cup {Root}, new \in Handle :
          NewObject(new, [dev[g] EXCEPT !.parent = p])
    BY <1>6 DEF Copy
  <2>2. [dev[g] EXCEPT !.parent = p].parent = p
    BY FoldersPlaced, InfoChanges DEF Types, DeviceTypes
  <2>3. PICK info : NewObject(new, info) /\ info.parent = p
    BY <2>1, <2>2
  <2> QED
    BY <2>3, TreeAdds, HandleAssumption DEF NewObject, Types, DeviceTypes, Folders
<1>7. CASE CreateFolder
  <2>1. PICK g \in Handle, p \in Folders \cup {Root}, n \in Names :
          NewObject(g, [parent |-> p, folder |-> TRUE, name |-> n])
    BY <1>7 DEF CreateFolder
  <2>2. [parent |-> p, folder |-> TRUE, name |-> n].parent = p
    OBVIOUS
  <2>3. PICK info : NewObject(g, info) /\ info.parent = p
    BY <2>1, <2>2
  <2> QED
    BY <2>3, TreeAdds, HandleAssumption DEF NewObject, Types, DeviceTypes, Folders
<1>8. CASE SendData
  <2>1. PICK file : /\ dev' = dev \/ dev' = With(dev, target, file)
                    /\ file.parent = dest
    <3>1. [parent |-> dest, folder |-> FALSE, name |-> "other"].parent = dest
      OBVIOUS
    <3> QED
      BY <1>8, <3>1 DEF SendData
  <2>2. /\ dest \in DOMAIN dev \cup {Root} /\ target \notin DOMAIN dev /\ target # Root
    BY <1>8, HandleAssumption DEF SendData, Types, Fresh, DeviceTypes
  <2> QED
    BY <1>1, <2>1, <2>2, TreeAdds
<1> QED
  BY <1>2, <1>3, <1>4, <1>5, <1>6, <1>7, <1>8, Steps DEF Calm

\* Without failures, and without others, the library always knows.
LEMMA CalmDoubt ==
  ASSUME Next, Calm, doubt = {}
  PROVE  doubt' = {}
<1>1. \A h : Fetch(h) => doubt' = {}
  BY DEF Fetch
<1>2. CASE Library
  BY <1>1, <1>2 DEF Library, Fast, WalkList, WalkTake, WalkReturn, FixUp, WantInfo, WantProps, BadHandle,
     SendData, Refill, BeginFlush, List, FolderNext, history
<1>3. CASE Program
  BY <1>3 DEF Calm, Program, Delete, Move, Copy, Rename, CreateFolder, SendInfo, Metadata, Listing,
     Folder, history
<1> QED
  BY <1>2, <1>3 DEF Next, Calm

\* The folder a file is sent to is there.
LEMMA CalmSend ==
  ASSUME Next, Calm, pc' = "send"
  PROVE  dest' \in DOMAIN dev' \cup {Root}
<1>1. CASE SendInfo
  BY <1>1 DEF SendInfo, Call, Folders
<1>2. CASE Library
  BY <1>2 DEF Library, Fast, WalkList, WalkTake, WalkReturn, FixUp, WantInfo, WantProps, Wanted,
     SendData, Add, Refill, BeginFlush, FirstPc, List, FolderNext
<1>3. CASE \/ Delete \/ Move \/ Copy \/ Rename \/ CreateFolder \/ Metadata \/ Listing \/ Folder
  BY <1>3 DEF Calm, Delete, Move, Copy, Rename, CreateFolder, Metadata, Listing, Folder,
     Call, Update, Add
<1> QED
  BY <1>1, <1>2, <1>3 DEF Next, Program, Calm

\* All objects are to be found, and no handle is bad.
LEMMA CalmWalk ==
  ASSUME Types, Finding, Next, Calm, Tree, WalkWhole
  PROVE  WalkWhole'
<1>1. CASE Fast
  <2>1. pc = "fast" /\ UNCHANGED <<dev, since, stack>> /\ stack = << OpenFrame(Root) >>
    BY <1>1 DEF Fast, device, Finding, Walking
  <2>2. stack[1].handles = {} /\ Len(stack) = 1
    BY <2>1 DEF OpenFrame
  <2> QED
    BY <2>1, <2>2 DEF WalkWhole, Flushing
<1>2. CASE WalkList
  <2>1. /\ pc = "walk" /\ stack # << >> /\ UNCHANGED <<dev, since>>
        /\ stack' = << [Top EXCEPT !.listed = TRUE, !.handles = Children(Top.dir)] >> \o Tail(stack)
    BY <1>2 DEF Calm, WalkList, device, history
  <2>2. PICK f \in Frame : stack' = << f >> \o Tail(stack) /\ f.handles \subseteq DOMAIN dev
    <3>1. Top \in Frame /\ Children(Top.dir) \in SUBSET Handle /\ Children(Top.dir) \subseteq DOMAIN dev
      BY <2>1, FrameFacts DEF Types, PlaceTypes, DeviceTypes, Children
    <3>2. /\ [Top EXCEPT !.listed = TRUE, !.handles = Children(Top.dir)] \in Frame
          /\ [Top EXCEPT !.listed = TRUE, !.handles = Children(Top.dir)].handles = Children(Top.dir)
      BY <3>1 DEF Frame
    <3> QED
      BY <2>1, <3>1, <3>2
  <2>3. /\ Len(stack') = Len(stack) /\ stack'[1] = f
        /\ \A i \in 2 .. Len(stack) : stack'[i] = stack[i]
        /\ Len(stack) \in Nat
    BY <2>1, <2>2, FrameFacts, PushFrame DEF Types, PlaceTypes
  <2>4. ASSUME NEW i \in 1 .. Len(stack')
        PROVE  stack'[i].handles \subseteq DOMAIN dev
    <3>1. i = 1 \/ i \in 2 .. Len(stack)
      BY <2>3
    <3> QED
      BY <2>1, <2>2, <2>3, <3>1 DEF WalkWhole
  <2> QED
    BY <2>1, <2>4 DEF WalkWhole, Flushing
<1>3. CASE WalkTake
  <2>1. /\ pc = "walk" /\ pc' = "walk" /\ stack # << >> /\ UNCHANGED dev
        /\ since = DOMAIN dev /\ \A i \in 1 .. Len(stack) : stack[i].handles \subseteq DOMAIN dev
    BY <1>3 DEF WalkTake, device, WalkWhole, Flushing
  <2>2. /\ Top \in Frame /\ Tail(stack) \in Seq(Frame) /\ Len(Tail(stack)) = Len(stack) - 1
        /\ Len(stack) \in Nat \ {0} /\ Top = stack[1]
        /\ \A i \in 1 .. Len(Tail(stack)) : Tail(stack)[i] = stack[i + 1]
    BY <2>1, FrameFacts DEF Types, PlaceTypes
  <2>3. Top.handles \subseteq DOMAIN dev
    BY <2>1, <2>2
  <2>4. PICK g \in Top.handles :
          /\ since' = since
          /\ \/ stack' = << [Top EXCEPT !.handles = @ \ {g}] >> \o Tail(stack)
             \/ stack' = << OpenFrame(g) >> \o (<< [Top EXCEPT !.handles = @ \ {g}] >> \o Tail(stack))
    BY <1>3, <2>3 DEF Calm, WalkTake, BadHandle, Descend
  <2>5. PICK f \in Frame :
          /\ stack' = << f >> \o Tail(stack) \/ stack' = << OpenFrame(g) >> \o (<< f >> \o Tail(stack))
          /\ f.handles \subseteq DOMAIN dev
    <3>1. /\ [Top EXCEPT !.handles = @ \ {g}] \in Frame
          /\ [Top EXCEPT !.handles = @ \ {g}].handles \subseteq DOMAIN dev
      BY <2>2, <2>3 DEF Frame
    <3> QED
      BY <2>4, <3>1
  <2>6. OpenFrame(g) \in Frame /\ OpenFrame(g).handles = {}
    BY <2>2 DEF Frame, OpenFrame
  <2>7. /\ << f >> \o Tail(stack) \in Seq(Frame) /\ Len(<< f >> \o Tail(stack)) = Len(stack)
        /\ \A i \in 1 .. Len(stack) : (<< f >> \o Tail(stack))[i].handles \subseteq DOMAIN dev
    <3>1. /\ << f >> \o Tail(stack) \in Seq(Frame) /\ Len(<< f >> \o Tail(stack)) = Len(stack)
          /\ (<< f >> \o Tail(stack))[1] = f
          /\ \A i \in 1 .. Len(Tail(stack)) : (<< f >> \o Tail(stack))[i + 1] = stack[i + 1]
      BY <2>2, PushFrame
    <3>2. ASSUME NEW i \in 1 .. Len(stack)
          PROVE  (<< f >> \o Tail(stack))[i].handles \subseteq DOMAIN dev
      <4>1. CASE i = 1
        BY <2>5, <3>1, <4>1
      <4>2. CASE i # 1
        <5>1. i - 1 \in 1 .. Len(Tail(stack)) /\ (i - 1) + 1 = i
          BY <2>2, <4>2
        <5>2. (<< f >> \o Tail(stack))[i] = stack[i]
          BY <3>1, <5>1
        <5> QED
          BY <2>1, <5>2
      <4> QED
        BY <4>1, <4>2
    <3> QED
      BY <3>1, <3>2
  <2> DEFINE rest == << f >> \o Tail(stack)
  <2> HIDE DEF rest
  <2>8. /\ rest \in Seq(Frame) /\ Len(rest) = Len(stack)
        /\ \A i \in 1 .. Len(rest) : rest[i].handles \subseteq DOMAIN dev
        /\ stack' = rest \/ stack' = << OpenFrame(g) >> \o rest
    BY <2>5, <2>7 DEF rest
  <2>9. ASSUME NEW i \in 1 .. Len(stack')
        PROVE  stack'[i].handles \subseteq DOMAIN dev
    <3>1. CASE stack' = rest
      BY <2>8, <3>1
    <3>2. CASE stack' = << OpenFrame(g) >> \o rest
      <4>1. /\ Len(stack') = Len(rest) + 1 /\ stack'[1] = OpenFrame(g) /\ Len(rest) \in Nat
            /\ \A j \in 1 .. Len(rest) : stack'[j + 1] = rest[j]
        BY <2>2, <2>6, <2>8, <3>2, PushFrame
      <4>2. i = 1 \/ (i - 1 \in 1 .. Len(rest) /\ (i - 1) + 1 = i)
        BY <4>1
      <4> QED
        BY <2>6, <2>8, <4>1, <4>2
    <3> QED
      BY <2>8, <3>1, <3>2
  <2> QED
    BY <2>1, <2>4, <2>9 DEF WalkWhole
<1>4. CASE WalkReturn
  <2>1. pc = "walk" /\ UNCHANGED <<dev, since>>
    BY <1>4 DEF WalkReturn, device, history
  <2>2. CASE pc' = "fixup"
    BY <2>1, <2>2 DEF WalkWhole, Flushing
  <2>3. CASE stack # << >> /\ stack' = Tail(stack)
    <3>1. /\ Len(Tail(stack)) = Len(stack) - 1 /\ Len(stack) \in Nat
          /\ \A i \in 1 .. Len(Tail(stack)) : Tail(stack)[i] = stack[i + 1]
      BY <2>3, FrameFacts DEF Types, PlaceTypes
    <3>2. ASSUME NEW i \in 1 .. Len(stack')
          PROVE  stack'[i].handles \subseteq DOMAIN dev
      <4>1. i + 1 \in 1 .. Len(stack) /\ stack'[i] = stack[i + 1]
        BY <2>3, <3>1
      <4> QED
        BY <2>1, <4>1 DEF WalkWhole
    <3> QED
      BY <2>1, <3>2 DEF WalkWhole, Flushing
  <2> QED
    BY <1>4, <2>2, <2>3 DEF WalkReturn, Pop
<1>5. CASE Refill
  <2>1. CASE BeginFlush
    <3>1. /\ since' = DOMAIN dev /\ UNCHANGED dev /\ stack' = << OpenFrame(Root) >>
      BY <1>5, <2>1, TreeReached DEF BeginFlush, Refill, device
    <3>2. stack'[1].handles = {} /\ Len(stack') = 1
      BY <3>1 DEF OpenFrame
    <3> QED
      BY <3>1, <3>2 DEF WalkWhole
  <2>2. CASE pc' \in {"want", "list"}
    BY <2>2 DEF WalkWhole, Flushing
  <2> QED
    BY <1>5, <2>1, <2>2 DEF Refill
<1>6. CASE FixUp \/ WantInfo \/ WantProps \/ SendData \/ List \/ FolderNext
  BY <1>6 DEF FixUp, WantInfo, WantProps, Wanted, SendData, Add, List, FolderNext, WalkWhole, Flushing
<1>7. CASE Program
  BY <1>7 DEF Calm, Program, Delete, Move, Copy, Rename, CreateFolder, SendInfo, Metadata, Listing, Folder,
     Call, Update, Add, WalkWhole, Flushing
<1> QED
  BY <1>1, <1>2, <1>3, <1>4, <1>5, <1>6, <1>7 DEF Next, Library, Calm

\* Every call keeps the cache complete, but for moves and copies: delete and rename
\* cleanse one entry, rename, create and send add one.
LEMMA CalmComplete ==
  ASSUME Types, Finding, Next, Calm, Complete, pc' # "fixup",
         pc = "send" => dest \in DOMAIN dev \cup {Root}
  PROVE  Complete'
<1> SUFFICES ASSUME mode'.cached, pc' \notin {"fast", "walk"}
             PROVE  DOMAIN dev' \ (unlisted' \cup Adding') \subseteq DOMAIN objects'
  BY DEF Complete
<1>1. mode' = mode
  BY DEF Next, Library, Program, Fast, WalkList, WalkTake, WalkReturn, FixUp, WantInfo, WantProps,
     SendData, Refill, List, FolderNext, Delete, Move, Copy, Rename, CreateFolder, SendInfo,
     Metadata, Listing, Folder, UserAdds, UserRenames, UserDeletes, User, device, mode
<1>2. pc \notin {"fast", "walk"} => DOMAIN dev \ (unlisted \cup Adding) \subseteq DOMAIN objects
  BY <1>1 DEF Complete
<1>3. CASE Fast \/ WalkList \/ WalkTake \/ WalkReturn
  BY <1>3 DEF Calm, Fast, WalkList, WalkTake, WalkReturn
<1>4. CASE FixUp \/ List \/ FolderNext
  <2>1. /\ UNCHANGED <<dev, objects, unlisted>> /\ pc \in {"fixup", "list", "folder"}
    BY <1>4 DEF FixUp, List, FolderNext, device, history
  <2> QED
    BY <1>2, <2>1 DEF Adding
<1>5. CASE WantInfo
  <2>1. pc = "want" /\ UNCHANGED <<dev, used>>
    BY <1>5 DEF WantInfo, device
  <2>2. CASE Known(target) /\ Fetch(target)
    <3>1. DOMAIN objects' = DOMAIN objects \cup {target} /\ unlisted' = unlisted \ {target}
      BY <2>1, <2>2, FetchKeeps DEF Types, Fetch
    <3> QED
      BY <1>2, <2>1, <3>1 DEF Adding
  <2>3. CASE BadHandle(target)
    <3>1. UNCHANGED <<objects, unlisted>> /\ target \notin DOMAIN dev
      BY <2>3 DEF BadHandle, Calm
    <3> QED
      BY <1>2, <2>1, <3>1 DEF Adding
  <2> QED
    BY <1>5, <2>2, <2>3 DEF WantInfo
<1>6. CASE WantProps
  <2>1. pc = "props" /\ UNCHANGED <<dev, unlisted>> /\ DOMAIN objects' = DOMAIN objects
    BY <1>6 DEF WantProps, device, history
  <2> QED
    BY <1>2, <2>1 DEF Adding
<1>7. CASE SendData
  <2>1. pc = "send" /\ dest \in Folders \cup {Root}
    BY <1>7 DEF SendData, Finding, Parents, InFolder, Folders
  <2>2. PICK file : /\ dev' = With(dev, target, file) /\ Add(target)
                    /\ UNCHANGED <<objects, unlisted>>
    BY <1>7, <2>1 DEF Calm, SendData, history
  <2>3. DOMAIN dev' = DOMAIN dev \cup {target}
    BY <2>2 DEF With
  <2> QED
    BY <1>2, <2>1, <2>2, <2>3 DEF Add, Adding
<1>8. CASE Refill
  <2>1. pc \in {"meta", "listing"} /\ UNCHANGED <<dev, objects, unlisted>>
    BY <1>8 DEF Refill, BeginFlush, FirstPc, device, history
  <2> QED
    BY <1>2, <2>1 DEF Adding
<1>9. CASE Delete
  <2>1. pc = "idle" /\ pc' = "idle" /\ unlisted' = unlisted
    BY <1>9 DEF Calm, Delete, Call
  <2>2. PICK g \in DOMAIN dev : dev' = Without(dev, Gone(g)) /\ Cleanse(g)
    BY <1>9 DEF Calm, Delete
  <2>3. DOMAIN dev' = DOMAIN dev \ Gone(g) /\ DOMAIN objects' = DOMAIN objects \ {g} /\ g \in Gone(g)
    BY <2>2 DEF Without, Cleanse, Gone
  <2> QED
    BY <1>2, <2>1, <2>3 DEF Adding
<1>10. CASE Move
  <2>1. pc = "idle" /\ pc' = "idle" /\ DOMAIN dev' = DOMAIN dev
    BY <1>10 DEF Calm, Move, Call
  <2>2. PICK g : Cleanse(g) /\ unlisted' = unlisted \cup {g}
    BY <1>10 DEF Calm, Move
  <2>3. DOMAIN objects' = DOMAIN objects \ {g}
    BY <2>2 DEF Without, Cleanse
  <2> QED
    BY <1>2, <2>1, <2>2, <2>3 DEF Adding
<1>11. CASE Rename
  <2>1. pc = "idle" /\ DOMAIN dev' = DOMAIN dev /\ unlisted' = unlisted
    BY <1>11 DEF Calm, Rename, Call
  <2>2. PICK g : Cleanse(g) /\ pc' = "want" /\ target' = g
    BY <1>11 DEF Calm, Rename, Update, Add
  <2>3. DOMAIN objects' = DOMAIN objects \ {g}
    BY <2>2 DEF Without, Cleanse
  <2> QED
    BY <1>2, <2>1, <2>2, <2>3 DEF Adding
<1>12. CASE Copy
  <2>1. pc = "idle" /\ pc' = "idle" /\ objects' = objects
    BY <1>12 DEF Copy, Call
  <2>2. PICK g, info : NewObject(g, info) /\ unlisted' = unlisted \cup {g}
    BY <1>12 DEF Copy
  <2>3. DOMAIN dev' = DOMAIN dev \cup {g}
    BY <2>2 DEF NewObject, With
  <2> QED
    BY <1>2, <2>1, <2>2, <2>3 DEF Adding
<1>13. CASE CreateFolder
  <2>1. pc = "idle" /\ UNCHANGED <<objects, unlisted>>
    BY <1>13 DEF Calm, CreateFolder, Call
  <2>2. PICK g, info : NewObject(g, info) /\ pc' = "want" /\ target' = g
    BY <1>13 DEF Calm, CreateFolder, Add
  <2>3. DOMAIN dev' = DOMAIN dev \cup {g}
    BY <2>2 DEF NewObject, With
  <2> QED
    BY <1>2, <2>1, <2>2, <2>3 DEF Adding
<1>14. CASE SendInfo \/ Metadata \/ Listing \/ Folder
  <2>1. pc = "idle" /\ UNCHANGED <<dev, objects, unlisted>>
    BY <1>14 DEF SendInfo, Metadata, Listing, Folder, Call, device, history
  <2> QED
    BY <1>2, <2>1 DEF Adding
<1> QED
  BY <1>3, <1>4, <1>5, <1>6, <1>7, <1>8, <1>9, <1>10, <1>11, <1>12, <1>13, <1>14
     DEF Next, Library, Program, Calm

\* A listing answers what is in the cache.
LEMMA CalmAnswered ==
  ASSUME Types, Jobs, Next, Calm
  PROVE  Answered'
<1> SUFFICES ASSUME job' = "list", pc' = "idle"
             PROVE  answer' = {h \in DOMAIN objects' : ~objects'[h].info.folder}
  BY DEF Answered
<1>1. CASE List
  BY <1>1 DEF List
<1>2. CASE Fast \/ WalkList \/ WalkTake \/ WalkReturn \/ FixUp \/ Refill
  BY <1>2 DEF Fast, WalkList, WalkTake, WalkReturn, FixUp, Refill, BeginFlush, FirstPc
<1>3. CASE WantInfo \/ WantProps \/ SendData \/ FolderNext
  BY <1>3 DEF WantInfo, WantProps, Wanted, SendData, FolderNext, Add, Jobs
<1>4. CASE Program
  BY <1>4 DEF Calm, Program, Delete, Move, Copy, Rename, CreateFolder, SendInfo, Metadata, Listing, Folder, Call
<1> QED
  BY <1>1, <1>2, <1>3, <1>4 DEF Next, Library, Calm

\* Whole is kept; the walk's end, because it has found all.
LEMMA WholeStep == Types /\ Finding /\ Whole /\ Next => Whole'
<1> SUFFICES ASSUME Types, Finding, Whole, Next, Undisturbed'
             PROVE  Whole'
  BY DEF Whole
<1>1. spent'.changes = 0 /\ spent'.faults = 0
  BY DEF Undisturbed
<1>2. /\ spent.changes = 0 /\ spent.faults = 0 /\ ~Fault /\ ~Spend("changes")
      /\ \A name, S : ~LostCall(name, S)
  BY <1>1, Faultless
<1>3. Undisturbed /\ Calm
  BY <1>2 DEF Undisturbed, Calm, UserAdds, UserRenames, UserDeletes, User
<1>4. /\ doubt = {} /\ Tree /\ WalkWhole /\ Complete /\ Answered
      /\ pc = "send" => dest \in DOMAIN dev \cup {Root}
  BY <1>3 DEF Whole
<1>5. doubt' = {} /\ Tree' /\ WalkWhole' /\ Answered'
  BY <1>3, <1>4, CalmDoubt, CalmTree, CalmWalk, CalmAnswered DEF Finding
<1>6. pc' = "send" => dest' \in DOMAIN dev' \cup {Root}
  BY <1>3, CalmSend
<1>7. Complete'
  <2>1. CASE pc' = "fixup"
    <3>1. Walking'
      BY WalkingStep DEF Finding
    <3> QED
      BY <1>1, <1>5, <2>1, <3>1 DEF Walking, WalkWhole, Flushing, Complete
  <2> QED
    BY <1>3, <1>4, <2>1, CalmComplete
<1> QED
  BY <1>5, <1>6, <1>7 DEF Whole

\* A device that is opened is whole.
LEMMA WholeInit == Init => Whole
<1> SUFFICES ASSUME Init PROVE Whole
  OBVIOUS
<1>1. doubt = {} /\ pc # "send"
  BY DEF Init, FirstPc
<1>2. Tree
  <2>1. PICK S \in SUBSET Handle :
          /\ Contents \in [S -> Info]
          /\ \A U \in SUBSET S : U # {} => \E h \in U : Contents[h].parent \in {Root} \cup (S \ U)
    BY ContentsAssumption
  <2>2. dev = Contents /\ DOMAIN dev = S
    BY <2>1 DEF Init
  <2> QED
    BY <2>1, <2>2 DEF Tree
<1>3. WalkWhole
  <2>1. since = DOMAIN dev
    BY <1>2, TypesInit, TreeReached DEF Init
  <2>2. stack[1].handles = {} /\ Len(stack) = 1
    BY DEF Init, OpenFrame
  <2> QED
    BY <2>1, <2>2 DEF WalkWhole
<1>4. Complete /\ Answered
  BY DEF Init, FirstPc, Complete, Answered
<1> QED
  BY <1>1, <1>2, <1>3, <1>4 DEF Whole

\* As long as nothing fails and nobody else changes the device, the cache of a cached
\* device is complete but for what was moved or copied.
THEOREM WholeAlways == Spec => []Whole
<1>1. Types /\ Finding /\ Whole /\ [Next]_vars => Whole'
  <2> SUFFICES ASSUME Types, Finding, Whole, UNCHANGED vars PROVE Whole'
    BY WholeStep
  <2>1. UNCHANGED <<scene, dev, objects, pc, job, target, stack, answer, since, doubt, unlisted, dest, spent>>
    BY DEF vars, device, history, loop
  <2> QED
    BY <2>1 DEF Whole, Undisturbed, Tree, WalkWhole, Flushing, Complete, Adding, Answered, mode
<1> QED
  BY TypesAlways, FindingAlways, WholeInit, <1>1, PTL DEF Spec

\* LIBMTP_Get_Filelisting on a cached device that only the program uses names every
\* file that was not moved or copied, and nothing that is gone but what was in a
\* deleted folder, for any contents and any number of calls.
THEOREM FullListingAlways == Spec => []FullListing
BY TypesAlways, EntriesAlways, FindingAlways, WholeAlways, WholeListed, PTL
=============================================================================
