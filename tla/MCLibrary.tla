----------------------------- MODULE MCLibrary -----------------------------
\* A device with two storages: on the first a music folder, a list in the root
\* folder and a track; the second is empty.
EXTENDS Files, TLC

Thing(parent, fmt, name) == [parent |-> parent, store |-> 1, fmt |-> fmt, name |-> name,
                             title |-> "old", track |-> 1, size |-> 5, refs |-> << >>]
Things == 1 :> Thing(Top, "folder", "a") @@ 2 :> Thing(Top, "list", "b") @@ 3 :> Thing(1, "track", "a")

Bound(c, f) == [calls |-> c, faults |-> f]
Every == Operations
Send(title, track, size) == [NoCall EXCEPT !.op = "send", !.name = "a", !.title = title,
                                           !.track = track, !.size = size]
Sends == {Send("new", 2, 1), Send("none", 0, 2), [Send("new", 2, 1) EXCEPT !.parent = 1],
          [Send("new", 0, 1) EXCEPT !.store = 2]}
List(op, title, refs) == [NoCall EXCEPT !.op = op, !.fmt = "list", !.name = "b", !.title = title,
                                        !.refs = refs]
ListCalls == {List("create", "new", << 3 >>), List("create", "new", << >>),
          List("update", "new", << 3 >>), List("update", "new", << >>)}
Track(op, title, track) == [NoCall EXCEPT !.op = op, !.title = title, !.track = track]
Gets == {List("getlist", "none", << >>), Track("gettitle", "none", 0)}
Folder == [NoCall EXCEPT !.op = "folder", !.fmt = "folder", !.name = "b", !.title = "new"]
FolderCalls == {Folder, [Folder EXCEPT !.parent = 1], [Folder EXCEPT !.store = 2]}
Sorts == {[NoCall EXCEPT !.op = "storage", !.sort = o] : o \in {"none", "free", "max"}}

Scene(ops, calls, cached, unique, size, max) ==
  [order |-> << 1, 2 >>, kind |-> [s \in Store |-> IF s = 3 THEN "rom" ELSE "rw"], size |-> size,
   ops |-> ops, formats |-> Formats, listed |-> Properties, fixed |-> {}, objects |-> Things, unique |-> unique, hangs |-> FALSE, cached |-> cached, calls |-> calls, max |-> max]

OpsSets == {Every, Every \ {"SetObjPropList"}, Every \ {"SendObjectPropList", "SetObjPropList"},
            {"SendObjectInfo", "SetObjectPropValue", "GetObjPropList"},
            {"SendObjectInfo"}, {"SendObjectPropList", "SetObjPropList", "GetStorageInfo"}}
Two == [s \in Store |-> IF s = 3 THEN 0 ELSE 2]
One == [s \in Store |-> IF s = 2 THEN 2 ELSE 1]
\* Tracks are sent: two calls of any kind and one failure, or three to any place.
Sending == {Scene(o, Sends, u, u, One, Bound(2, 1)) : o \in OpsSets, u \in BOOLEAN}
           \cup {Scene(o, {Send("new", 2, 1)}, TRUE, u, r, Bound(3, 0)) :
                   o \in OpsSets, u \in BOOLEAN, r \in {One, Two}}
\* Tracks come from a file that is opened, or from a handler; a device without lists.
Sources == {Scene(o, {[Send("new", 2, 1) EXCEPT !.source = s], [Send("new", 2, 2) EXCEPT !.source = s, !.parent = 1]},
                  TRUE, FALSE, One, Bound(2, 1)) : o \in OpsSets, s \in {"file", "handler"}}
           \cup {[Scene(o, ListCalls \cup {List("create", "none", << 3 >>)}, TRUE, FALSE, Two, Bound(2, 1))
                  EXCEPT !.formats = Formats \ {"list"}] : o \in OpsSets}
\* Lists and folders are created, updated and read, tracks updated: two calls and
\* one failure, the changes followed by reading.
Changing == {Scene(o, ListCalls \cup FolderCalls \cup Gets \cup {Track("update", "new", 2), Track("update", "none", 0)},
                   TRUE, FALSE, Two, Bound(2, 1)) : o \in OpsSets}
            \cup {Scene(o, {Track("settitle", "new", 0), Track("update", "old", 2)} \cup Gets,
                        TRUE, FALSE, Two, Bound(2, 1)) : o \in OpsSets}
\* Properties that the device does not list, or that can only be read; no objects at
\* first; no operation to announce one.
Fixed == {[listed |-> Properties, fixed |-> {"title"}], [listed |-> Properties \ {"track"}, fixed |-> {"name"}],
          [listed |-> {"name", "track"}, fixed |-> {"track"}]}
Passing == {[Scene(o, ListCalls \cup FolderCalls \cup {Send("new", 2, 1), List("update", "none", << 3 >>),
                          Track("update", "new", 2), Track("settitle", "new", 0)}, TRUE, FALSE, Two, Bound(2, 0))
               EXCEPT !.listed = x.listed, !.fixed = x.fixed] : o \in OpsSets, x \in Fixed}
           \cup {[Scene(o, ListCalls \cup FolderCalls \cup {Send("new", 2, 1)}, c, FALSE, Two, Bound(2, 2))
                   EXCEPT !.objects = [h \in {} |-> 0]] :
                   o \in {Every, {"SetObjectPropValue", "GetStorageInfo"}}, c \in BOOLEAN}
\* Storages of all kinds and in any order, sorted.
Storing == {[Scene(o, Sorts \cup {Send("new", 2, 1)}, TRUE, FALSE, [s \in Store |-> r[s]], Bound(2, 1))
               EXCEPT !.order = << 1, 2, 3 >>, !.kind = k] :
              o \in {Every, Every \ {"GetStorageInfo"}}, r \in [Store -> 1 .. 3],
              k \in {[s \in Store |-> IF s = 3 THEN x ELSE "rw"] : x \in StoreKind}}
\* Listings of every kind, after a change or after another one; one failure.
Ask(op, fmt) == [NoCall EXCEPT !.op = op, !.fmt = fmt]
Asks == {Ask("files", "track"), Ask("tracks", "track"), [Ask("tracks", "track") EXCEPT !.store = 2],
         Ask("playlists", "list"), Ask("albums", "list"), [Ask("within", "track") EXCEPT !.parent = Top],
         [Ask("children", "track") EXCEPT !.parent = 1], Ask("folders", "folder"),
         Ask("file", "track"), Ask("track", "track"), Ask("album", "list")}
Reading == {Scene(o, Asks \cup {Send("new", 2, 5), List("create", "new", << 3 >>), Track("update", "new", 2)},
                  c, FALSE, [Two EXCEPT ![1] = 5], Bound(2, 1)) : o \in OpsSets, c \in BOOLEAN}
\* Four folders, each in any other or in one of the two roots.
Trees == {[Scene(Every, {Ask("folders", "folder"), [Ask("folders", "folder") EXCEPT !.store = 1]},
                 TRUE, FALSE, Two, Bound(1, 0))
             EXCEPT !.objects = [h \in 1 .. 4 |-> [Thing(p[h], "folder", "b") EXCEPT !.store = IF h = 4 THEN 2 ELSE 1]]] :
            p \in [1 .. 4 -> {0, Top, 1, 2, 3, 4}]}
\* A file is read in parts and changed; a packet fits three times into 2^32.
File(op, size) == [NoCall EXCEPT !.op = op, !.size = size]
Parts == {File("partial", 2), File("partial", 5)}
Edits == {File("begin", 0), File("write", 7), File("truncate", 3), File("end", 0)}
Editing == {[Scene(o, Parts \cup Edits, c, FALSE, Two, Bound(6, 1)) EXCEPT !.hangs = x] :
              o \in {Every, Every \ {"GetObjPropList"}, Every \ {"GetPartialObject64", "GetObjPropList"}},
              c, x \in BOOLEAN}
           \cup {[Scene(o, {[File(op, 0) EXCEPT !.fmt = f] : op \in {"getfile", "gethandler"}, f \in {"track", "folder"}}, c, FALSE, Two, Bound(2, 1))
                  EXCEPT !.hangs = x] : o \in {Every, Every \ {"GetObjPropList"}}, c, x \in BOOLEAN}
MCScenarios == Sending \cup Sources \cup Changing \cup Passing \cup Storing \cup Reading \cup Trees \cup Editing
=============================================================================
