---------------------------- MODULE ObjectCache ----------------------------
(***************************************************************************)
(* The object cache of a device (params->objects, here the partial map of  *)
(* ObjectMap) beside the objects the device has: how libmtp.c fills it     *)
(* (flush_handles, get_all_metadata_fast, get_handles_recursively), how    *)
(* the calls that change objects keep it up to date, and what listings     *)
(* find in it, while the device's own user adds, deletes and renames       *)
(* objects between any two transactions.                                   *)
(***************************************************************************)
EXTENDS Naturals, Sequences, FiniteSets

CONSTANTS Handle,      \* object handles; a device does not use one twice
          Contents,    \* what is on the device at first
          Scenarios    \* kinds of device, and what happens to them, see Scenario

Names == {"Music", "other"}
Root == 0          \* the parent of top-level objects, no handle

\* LIBMTP_Open_Raw_Device or ..._Uncached; GetObjPropList for all objects at
\* once, for single ones, or not.
Device == [cached : BOOLEAN, proplist : {"all", "single", "none"}]

\* The device, the calls the program makes, the changes the device's user makes,
\* the handles the device hands out, and how often these things happen.
CallNames == {"delete", "move", "copy", "rename", "create", "send", "meta", "list", "folder"}
ChangeNames == {"add", "rename", "delete"}
Bounded == {"calls", "changes", "faults"}

ASSUME ScenarioAssumption ==
  Scenarios \subseteq [device : Device, calls : SUBSET CallNames, changes : SUBSET ChangeNames,
                      handles : SUBSET Handle, max : [Bounded -> Nat]]
ASSUME HandleAssumption == Handle \subseteq Nat \ {Root} /\ IsFiniteSet(Handle)

VARIABLES
  scene,                 \* which of Scenarios it is
  dev, used,             \* the device: its objects, and the handles it has used
  objects, music,        \* params->objects and default_music_folder
  pc, job, target,       \* where the library is, in which call, for which object
  stack,                 \* frames of get_handles_recursively, innermost first
  todo, answer,          \* the loop of LIBMTP_Get_Files_And_Folders
  since, doubt, unlisted, \* history, see the properties
  dest,                  \* the parent of the file being sent
  spent                  \* how much of each bound is used

device == <<scene, dev, used>>
history == <<since, doubt, unlisted>>
loop == <<todo, answer>>
vars == <<device, objects, music, pc, job, target, stack, loop, history, dest, spent>>

Info == [parent : Handle \cup {Root}, folder : BOOLEAN, name : Names]
Entry == [info : Info, props : BOOLEAN]
Nothing == [h \in {} |-> 0]

\* The folders of a device are a tree: of the objects in any set, some are outside
\* it, at the top or in a folder of another.
ASSUME ContentsAssumption ==
  \E S \in SUBSET Handle :
    /\ Contents \in [S -> Info]
    /\ \A U \in SUBSET S : U # {} => \E h \in U : Contents[h].parent \in {Root} \cup (S \ U)
    /\ \A h \in S : Contents[h].parent \in S => Contents[Contents[h].parent].folder

mode == scene.device

Spend(what) == /\ spent[what] < scene.max[what]
               /\ spent' = [spent EXCEPT ![what] = @ + 1]
Fault == Spend("faults")
Undisturbed == spent.changes = 0 /\ spent.faults = 0

-----------------------------------------------------------------------------
\* The objects of a device, and what changes them.
Without(f, S) == [h \in DOMAIN f \ S |-> f[h]]
With(f, h, x) == [g \in DOMAIN f \cup {h} |-> IF g = h THEN x ELSE f[g]]

Children(p) == {h \in DOMAIN dev : dev[h].parent = p}
Folders == {h \in DOMAIN dev : dev[h].folder}

\* The objects below p: those in every set that holds p's children and those of
\* its members.
Closed(S, p) == \A h \in DOMAIN dev : dev[h].parent \in S \cup {p} => h \in S
Below(p) == {h \in DOMAIN dev : \A S \in SUBSET DOMAIN dev : Closed(S, p) => h \in S}
Reached == Below(Root)

NewObject(h, info) == /\ h \in scene.handles \ used /\ used' = used \cup {h}
                      /\ dev' = With(dev, h, info)

\* DeleteObject of a folder deletes what is in it.
Gone(h) == {h} \cup Below(h)

-----------------------------------------------------------------------------
\* flush_handles: the cache is emptied, ...
FirstPc == IF mode.proplist = "all" THEN "fast" ELSE "walk"
OpenFrame(h) == [dir |-> h, listed |-> FALSE, handles |-> {}]

BeginFlush ==
  /\ objects' = Nothing /\ doubt' = {} /\ unlisted' = {}
  /\ pc' = FirstPc
  /\ stack' = << OpenFrame(Root) >>
  /\ since' = Reached

Init ==
  /\ scene \in Scenarios
  /\ dev = Contents /\ used = DOMAIN Contents
  /\ objects = Nothing /\ music = Root
  /\ job = "open" /\ target = 0
  /\ pc = IF mode.cached THEN FirstPc ELSE "idle"
  /\ stack = << OpenFrame(Root) >>
  /\ todo = {} /\ answer = {}
  /\ since = Reached /\ doubt = {} /\ unlisted = {} /\ dest = Root
  /\ spent = [calls |-> 0, changes |-> 0, faults |-> 0]

\* ... the fast method lists everything in one transaction, ...
Fast ==
  /\ pc = "fast"
  /\ \/ /\ \E props \in BOOLEAN : objects' = [h \in DOMAIN dev |-> [info |-> dev[h], props |-> props]]
        /\ doubt' = {} /\ unlisted' = {}
        /\ pc' = IF dev = Nothing THEN "walk" ELSE "fixup"
        /\ UNCHANGED spent
     \/ /\ Fault /\ pc' = "walk"
        /\ UNCHANGED <<objects, doubt, unlisted>>
  /\ UNCHANGED <<device, music, job, target, stack, loop, since, dest>>

\* ... or get_handles_recursively asks for the handles in each folder and
\* for every object, one transaction each.
Top == Head(stack)
Pop == stack' = Tail(stack)

WalkList ==
  /\ pc = "walk" /\ stack # << >> /\ ~Top.listed
  /\ \/ /\ stack' = << [Top EXCEPT !.listed = TRUE, !.handles = Children(Top.dir)] >> \o Tail(stack)
        /\ UNCHANGED spent
     \/ Fault /\ Pop
  /\ UNCHANGED <<device, objects, music, pc, job, target, loop, history, dest>>

\* ptp_object_want(OBJECTINFO_LOADED): only a handle that is not in the cache
\* costs a transaction, and one that the device does not know leaves it.
InCache(h) == h \in DOMAIN objects
Known(h) == InCache(h) \/ h \in DOMAIN dev
InfoOf(h) == IF InCache(h) THEN objects[h].info ELSE dev[h]
Fetch(h) == /\ objects' = IF InCache(h) THEN objects
                          ELSE With(objects, h, [info |-> dev[h], props |-> FALSE])
            /\ doubt' = IF InCache(h) THEN doubt ELSE doubt \ {h}
            /\ unlisted' = unlisted \ {h}
BadHandle(h) == /\ ~InCache(h)
                /\ \/ h \notin DOMAIN dev /\ UNCHANGED spent
                   \/ Fault
                /\ UNCHANGED <<objects, doubt, unlisted>>

\* Mutant: a bad handle is asked for again.
AfterBad_Retry == stack

\* A folder is walked before its next sibling; at a bad handle the rest of
\* the folder is given up.
Descend(h, rest) == << OpenFrame(h) >> \o rest
AfterBad == Tail(stack)

WalkTake ==
  /\ pc = "walk" /\ stack # << >> /\ Top.listed
  /\ \E h \in Top.handles :
       \/ /\ Known(h) /\ Fetch(h)
          /\ LET rest == << [Top EXCEPT !.handles = @ \ {h}] >> \o Tail(stack)
             IN stack' = IF InfoOf(h).folder THEN Descend(h, rest) ELSE rest
          /\ UNCHANGED <<since, spent>>
       \/ /\ BadHandle(h)
          /\ stack' = AfterBad
          /\ since' = since \ UNION {Gone(g) : g \in Top.handles}
  /\ UNCHANGED <<device, music, pc, job, target, loop, dest>>

WalkReturn ==
  /\ pc = "walk"
  /\ IF stack = << >> THEN pc' = "fixup" /\ UNCHANGED stack
     ELSE Top.listed /\ Top.handles = {} /\ Pop /\ UNCHANGED pc
  /\ UNCHANGED <<device, objects, music, job, target, loop, history, dest, spent>>

\* The loop that looks for the default folders; the last one counts, and when
\* there is none the folder stays what it was.
MusicFolders == {h \in DOMAIN objects : /\ objects[h].info.folder
                                        /\ objects[h].info.parent = Root
                                        /\ objects[h].info.name = "Music"}

FixUp ==
  /\ pc = "fixup"
  /\ \/ MusicFolders = {} /\ UNCHANGED music
     \/ /\ music' \in MusicFolders
        /\ \A h \in MusicFolders : h <= music'
  /\ pc' = CASE job = "list" -> "list" [] job = "meta" -> "want" [] OTHER -> "idle"
  /\ UNCHANGED <<device, objects, job, target, stack, loop, history, dest, spent>>

-----------------------------------------------------------------------------
\* Mutant: a folder listing ends at the first object it cannot get.
Wanted_Breaks(ok) ==
  /\ answer' = IF ok /\ job = "folder" THEN answer \cup {target} ELSE answer
  /\ pc' = CASE job = "folder" -> "folder" [] job = "send" -> "meta" [] OTHER -> "idle"
  /\ job' = IF job = "send" THEN "meta" ELSE job
  /\ todo' = IF ok THEN todo ELSE {}

\* ptp_object_want(OBJECTINFO_LOADED | MTPPROPLIST_LOADED), two transactions,
\* and where its caller goes on: a folder listing with the next handle, a dest
\* file with Get_Filemetadata.
Wanted(ok) ==
  /\ answer' = IF ok /\ job = "folder" THEN answer \cup {target} ELSE answer
  /\ pc' = CASE job = "folder" -> "folder" [] job = "send" -> "meta" [] OTHER -> "idle"
  /\ job' = IF job = "send" THEN "meta" ELSE job
  /\ UNCHANGED todo

LacksProps(h) == mode.proplist # "none" /\ ~(InCache(h) /\ objects[h].props)

WantInfo ==
  /\ pc = "want"
  /\ \/ /\ Known(target) /\ Fetch(target)
        /\ \/ LacksProps(target) /\ pc' = "props" /\ UNCHANGED <<job, loop>>
           \/ ~LacksProps(target) /\ Wanted(TRUE)
        /\ UNCHANGED spent
     \/ BadHandle(target) /\ Wanted(FALSE)
  /\ UNCHANGED <<device, music, target, stack, since, dest>>

WantProps ==
  /\ pc = "props"
  /\ \/ /\ target \in DOMAIN dev
        /\ objects' = [objects EXCEPT ![target].props = TRUE]
        /\ Wanted(TRUE) /\ UNCHANGED spent
     \/ /\ Wanted(FALSE)
        /\ (target \notin DOMAIN dev /\ UNCHANGED spent) \/ Fault
        /\ UNCHANGED objects
  /\ UNCHANGED <<device, music, target, stack, history, dest>>

-----------------------------------------------------------------------------
\* The calls of the program.  A refused one changes nothing; one whose answer
\* is lost has changed the device, the library takes it for failed.
Call(name) == pc = "idle" /\ name \in scene.calls /\ Spend("calls") /\ job' = name
LostCall(name, S) ==
  /\ pc = "idle" /\ name \in scene.calls /\ job' = name
  /\ \A what \in {"calls", "faults"} : spent[what] < scene.max[what]
  /\ spent' = [spent EXCEPT !.calls = @ + 1, !.faults = @ + 1]
  /\ doubt' = doubt \cup S
  /\ UNCHANGED <<objects, pc, target>>

\* Mutants: a removal forgotten, an addition forgotten, the entry not dropped
\* before it is asked for.
Cleanse_Not(h) == UNCHANGED objects
Add_Not(h) == UNCHANGED <<pc, target>>
Update_Adds(h) == UNCHANGED objects /\ pc' = "want" /\ target' = h

\* ptp_remove_object_from_cache, at the end of a change to an object, ...
Cleanse(h) == objects' = Without(objects, {h})

\* ... add_object_to_cache, and update_metadata_cache, which does both.
Add(h) == pc' = "want" /\ target' = h
Update(h) == Cleanse(h) /\ Add(h)

\* LIBMTP_Delete_Object and LIBMTP_Move_Object
Delete ==
  /\ \E h \in DOMAIN dev :
       /\ dev' = Without(dev, Gone(h))
       /\ \/ Call("delete") /\ Cleanse(h) /\ UNCHANGED <<doubt, pc, target>>
          \/ LostCall("delete", {h})
  /\ UNCHANGED <<scene, used, music, stack, loop, since, unlisted, dest>>

Move ==
  /\ \E h \in DOMAIN dev : \E p \in (Folders \cup {Root}) \ Gone(h) :
       /\ dev' = [dev EXCEPT ![h].parent = p]
       /\ \/ /\ Call("move") /\ Cleanse(h) /\ unlisted' = unlisted \cup {h}
             /\ UNCHANGED <<doubt, pc, target>>
          \/ LostCall("move", {h}) /\ UNCHANGED unlisted
  /\ UNCHANGED <<scene, used, music, stack, loop, since, dest>>

\* LIBMTP_Copy_Object, of a file
Copy ==
  /\ \E h \in DOMAIN dev \ Folders, p \in Folders \cup {Root}, new \in Handle :
       /\ NewObject(new, [dev[h] EXCEPT !.parent = p])
       /\ unlisted' = unlisted \cup {new}
  /\ Call("copy") /\ UNCHANGED <<objects, doubt, pc, target>>
  /\ UNCHANGED <<scene, music, stack, loop, since, dest>>

\* set_object_filename
Rename ==
  /\ \E h \in DOMAIN dev, n \in Names :
       /\ dev' = [dev EXCEPT ![h].name = n]
       /\ \/ Call("rename") /\ Update(h) /\ UNCHANGED doubt
          \/ LostCall("rename", {h})
  /\ UNCHANGED <<scene, used, music, stack, loop, since, unlisted, dest>>

\* LIBMTP_Create_Folder
CreateFolder ==
  /\ \E h \in Handle, p \in Folders \cup {Root}, n \in Names :
       /\ NewObject(h, [parent |-> p, folder |-> TRUE, name |-> n])
       /\ \/ Call("create") /\ Add(h) /\ UNCHANGED <<objects, doubt>>
          \/ LostCall("create", {})
  /\ UNCHANGED <<scene, music, stack, loop, since, unlisted, dest>>

\* LIBMTP_Send_File_From_File_Descriptor of an audio file to the primary
\* storage: send_file_object_info has the device choose a handle in the folder
\* asked for, or in the default one; the device refuses a parent it has not.
SendInfo ==
  /\ \E h \in scene.handles \ used, p \in Folders \cup {Root} :
       /\ dest' = IF p = Root THEN music ELSE p
       /\ \/ /\ dest' \in Folders \cup {Root}
             /\ used' = used \cup {h}
             /\ pc' = "send" /\ target' = h
          \/ /\ dest' \notin Folders \cup {Root}
             /\ UNCHANGED <<used, pc, target>>
  /\ Call("send")
  /\ UNCHANGED <<scene, dev, objects, music, stack, loop, history>>

\* The data arrives and the file is there; or the transfer fails, whatever
\* the device then keeps.
SendData ==
  /\ pc = "send"
  /\ LET file == [parent |-> dest, folder |-> FALSE, name |-> "other"]
     IN \/ /\ dest \in Folders \cup {Root}
           /\ dev' = With(dev, target, file) /\ Add(target)
           /\ UNCHANGED spent
        \/ /\ (dest \notin Folders \cup {Root} /\ UNCHANGED spent) \/ Fault
           /\ dev' \in {dev, With(dev, target, file)}
           /\ pc' = "idle" /\ UNCHANGED target
  /\ UNCHANGED <<scene, used, objects, music, job, stack, loop, history, dest>>

\* LIBMTP_Get_Filemetadata and LIBMTP_Get_Filelisting fill an empty cache.
Metadata ==
  /\ Call("meta")
  /\ \E h \in scene.handles : target' = h
  /\ pc' = "meta"
  /\ UNCHANGED <<device, objects, music, stack, loop, history, dest>>

Listing ==
  /\ Call("list") /\ pc' = "listing"
  /\ UNCHANGED <<device, objects, music, target, stack, loop, history, dest>>

Refill ==
  /\ pc \in {"meta", "listing"}
  /\ \/ mode.cached /\ objects = Nothing /\ BeginFlush
     \/ /\ ~mode.cached \/ objects # Nothing
        /\ pc' = IF pc = "meta" THEN "want" ELSE "list"
        /\ UNCHANGED <<objects, stack, history>>
  /\ UNCHANGED <<device, music, job, target, loop, dest, spent>>

List ==
  /\ pc = "list" /\ pc' = "idle"
  /\ answer' = {h \in DOMAIN objects : ~objects[h].info.folder}
  /\ UNCHANGED <<device, objects, music, job, target, stack, todo, history, dest, spent>>

\* LIBMTP_Get_Files_And_Folders, not on a cached device: the handles of the
\* folder, and Get_Filemetadata for each.
Folder ==
  /\ Call("folder") /\ ~mode.cached
  /\ \E p \in Folders \cup {Root} : todo' = Children(p) /\ since' = Children(p)
  /\ answer' = {} /\ pc' = "folder"
  /\ UNCHANGED <<device, objects, music, target, stack, doubt, unlisted, dest>>

FolderNext ==
  /\ pc = "folder"
  /\ \/ \E h \in todo : todo' = todo \ {h} /\ Add(h)
     \/ todo = {} /\ pc' = "idle" /\ UNCHANGED <<todo, target>>
  /\ UNCHANGED <<device, objects, music, job, stack, answer, history, dest, spent>>

-----------------------------------------------------------------------------
\* The device's own user, between any two transactions.
User(kind) == kind \in scene.changes /\ Spend("changes")
          /\ UNCHANGED <<scene, objects, music, pc, job, target, stack, loop, unlisted, dest>>

UserAdds ==
  /\ User("add")
  /\ \E h \in Handle, p \in Folders \cup {Root}, f \in BOOLEAN :
       NewObject(h, [parent |-> p, folder |-> f, name |-> "other"])
  /\ UNCHANGED <<since, doubt>>

UserRenames ==
  /\ User("rename")
  /\ \E h \in DOMAIN dev, n \in Names :
       dev' = [dev EXCEPT ![h].name = n] /\ doubt' = doubt \cup {h}
  /\ UNCHANGED <<used, since>>

UserDeletes ==
  /\ User("delete")
  /\ \E h \in DOMAIN dev :
       /\ dev' = Without(dev, Gone(h))
       /\ doubt' = doubt \cup Gone(h) /\ since' = since \ Gone(h)
  /\ UNCHANGED used

Library == \/ Fast \/ WalkList \/ WalkTake \/ WalkReturn \/ FixUp \/ WantInfo \/ WantProps
           \/ SendData \/ Refill \/ List \/ FolderNext
Program == \/ Delete \/ Move \/ Copy \/ Rename \/ CreateFolder \/ SendInfo
           \/ Metadata \/ Listing \/ Folder
Next == Library \/ Program \/ UserAdds \/ UserRenames \/ UserDeletes

\* The library goes on with a call that has begun.
Spec == Init /\ [][Next]_vars /\ WF_vars(Library)

-----------------------------------------------------------------------------
\* Type invariant.
TypeOK ==
  /\ \E S \in SUBSET Handle : dev \in [S -> Info]
  /\ \E S \in SUBSET Handle : objects \in [S -> Entry]
  /\ DOMAIN dev \subseteq used /\ used \subseteq Handle
  /\ {music, target, dest} \subseteq Handle \cup {Root}
  /\ pc = "props" => InCache(target)
  /\ UNION {todo, answer, since, doubt, unlisted} \subseteq Handle

\* No entry of the cache is out of date but for a change the library was not
\* told of (doubt: by the user, or by a call whose answer was lost), or because
\* its whole folder was deleted (ptp_deleteobject cleanses one handle only).
NoStale ==
  \A h \in DOMAIN objects :
    \/ h \in DOMAIN dev /\ objects[h].info = dev[h]
    \/ h \in doubt
    \/ h \notin DOMAIN dev /\ objects[h].info.parent \notin DOMAIN dev \cup {Root}

\* What LIBMTP_Get_Filelisting answers on a cached device when nothing failed
\* and nobody else changed the device: all files, but for those moved or copied
\* since the cache was filled (unlisted), and no others, but for those deleted
\* with their folder.
JustListed == mode.cached /\ job = "list" /\ pc = "idle" /\ Undisturbed
Files == {h \in Reached : ~dev[h].folder}

FullListing ==
  JustListed => /\ Files \ unlisted \subseteq answer
                /\ \A h \in answer \ Files : objects[h].info.parent \notin DOMAIN dev \cup {Root}

\* "This returns a long list of all files available on the current MTP device"
\* (libmtp.c line 4485).
AllFiles == JustListed => answer = Files

\* flush_handles finds every object that was there when it began and still is,
\* with the fast method or the walk, whatever the user did meanwhile; but for the
\* rest of a folder that turned out to have a bad handle.  And
\* LIBMTP_Get_Files_And_Folders misses no object that was in the folder when it
\* was listed and still is, even when others go away while it runs.
WalkFinds ==
  spent.faults = 0 =>
    /\ pc = "fixup" => since \subseteq DOMAIN objects
    /\ job = "folder" /\ pc = "idle" => since \subseteq answer

\* Every call comes to its end.
CallReturns == pc # "idle" ~> pc = "idle"
=============================================================================
