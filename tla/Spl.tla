--------------------------------- MODULE Spl ---------------------------------
(***************************************************************************)
(* The playlists of Samsung players (src/src/playlist-spl.c): a playlist   *)
(* is a text file, in UTF-16, of the paths of its tracks.  Creating one    *)
(* looks up the path of each track, getting one looks up the track of each *)
(* path, and updating one deletes the file and creates another.  Text is   *)
(* modelled by the bytes of its characters, because the reader looks for   *)
(* the end of a line byte by byte.                                         *)
(***************************************************************************)
EXTENDS Integers, Sequences, SequencesExt

CONSTANTS Handle,      \* object handles, not used twice
          Scenarios    \* see Scenario

NUL == 0
CR == 13
LF == 10
Slash == 92
Mark == 65279          \* the byte order mark
Root == 0

\* objects: what is on the device; tracks, names: of the playlists the program makes;
\* version: of the .spl format; max: bounds.
ASSUME ScenarioAssumption ==
  \A sc \in Scenarios : /\ DOMAIN sc.objects \subseteq Handle /\ sc.version \in {1, 2}
                        /\ sc.max \in [{"calls", "faults"} -> Nat]
ASSUME HandleAssumption == Handle \subseteq Nat \ {Root}

VARIABLES
  scene, dev,          \* which of Scenarios it is; its objects
  asked,               \* of the playlists that were sent: the tracks they are of
  pc, call, my,        \* where the library is, the call and its local variables
  result,              \* what the last call returned
  spent                \* how much of each bound is used

vars == <<scene, dev, asked, pc, call, my, result, spent>>

With(f, h, x) == [g \in DOMAIN f \cup {h} |-> IF g = h THEN x ELSE f[g]]
Without(f, h) == [g \in DOMAIN f \ {h} |-> f[g]]
Least(S) == CHOOSE x \in S : \A y \in S : x <= y

Folders == {h \in DOMAIN dev : dev[h].fmt = "folder"}
Files == DOMAIN dev \ Folders
\* is_spl_playlist; the suffix .spl of the name is left out.
Playlists == {h \in DOMAIN dev : dev[h].fmt = "spl"}

-----------------------------------------------------------------------------
\* Text: lines of 16-bit characters, and the bytes that write_from_spl_text_t makes of them.
Bytes(s) == [i \in 1 .. 2 * Len(s) |-> IF i % 2 = 1 THEN s[(i + 1) \div 2] % 256 ELSE s[i \div 2] \div 256]
Encode(lines) == Bytes(<< Mark >> \o FlattenSeq([i \in DOMAIN lines |-> lines[i] \o << CR, LF >>]))

\* read_into_spl_text_t: a byte that is CR or LF becomes 0, two zero bytes end a
\* line if they are a character, and empty lines are dropped.  Lines are shorter
\* than its buffer.  Mutant: two zero bytes end a line wherever they are.
Aligned_Any(n) == TRUE
Aligned(n) == n % 2 = 0
Units(w) == [i \in 1 .. Len(w) \div 2 |-> w[2 * i - 1] + 256 * w[2 * i]]
ToNul(s) == SubSeq(s, 1, Least({i \in 1 .. Len(s) : s[i] = NUL} \cup {Len(s) + 1}) - 1)
Decode(bytes) ==
  LET it == [i \in DOMAIN bytes |-> IF bytes[i] \in {CR, LF} THEN NUL ELSE bytes[i]]
      ends(w) == {i \in w + 2 .. Len(it) : it[i] = NUL /\ it[i - 1] = NUL /\ Aligned(i - w)}
      line(w, end) == ToNul(Units(SubSeq(it, w + 1, end)))
      from[w \in 0 .. Len(it)] ==
        IF ends(w) = {} THEN << >>
        ELSE LET end == Least(ends(w))
             IN (IF line(w, end) = << >> THEN << >> ELSE << line(w, end) >>) \o from[end]
  IN from[0]

-----------------------------------------------------------------------------
\* discover_filepath_from_id: the path of a file, or nothing if it or a folder is not there.
Dirs[h \in Handle \cup {Root}, n \in Nat] ==
  IF h = Root \/ n = 0 THEN << >> ELSE Dirs[dev[h].parent, n - 1] \o << Slash >> \o dev[h].name
PathOf(t) == IF t \in Files THEN << Dirs[t, Cardinality(DOMAIN dev)] >> ELSE << >>

\* find_folder_id; the first match counts.
FolderId(parent, name) ==
  LET found == {h \in Folders : dev[h].parent = parent /\ dev[h].name = name}
  IN IF found = {} THEN 0 ELSE Least(found)
\* The parts of a path, after the leading slash.
Parts(path) == FoldLeft(LAMBDA parts, c : IF c = Slash THEN Append(parts, << >>)
                                          ELSE [parts EXCEPT ![Len(parts)] = Append(@, c)],
                        << << >> >>, Tail(path))
\* discover_id_from_filepath: a file that is not there leaves the id of its folder.
IdOf(path) ==
  LET parts == Parts(path)
      dir == FoldLeft(FolderId, Root, Front(parts))
      found == {h \in Files : dev[h].parent = dir /\ dev[h].name = Last(parts)}
  IN IF found = {} THEN dir ELSE Least(found)

\* spl_text_t_from_tracks; the other lines by their first letters.
Text(tracks) ==
  Encode(<< << 83 >>, << 86 >>, << >> >> \o FlattenSeq([i \in DOMAIN tracks |-> PathOf(tracks[i])])
         \o << << >>, << 69 >> >>
         \o IF scene.version = 2 THEN << << >>, << 77 >>, << >>, << >>, << 69, 77 >> >> ELSE << >>)
\* trackno_spl_text_t, tracks_from_spl_text_t
IsTrack(line) == line[1] = Slash
TracksOf(bytes) == LET lines == SelectSeq(Decode(bytes), IsTrack)
                   IN [i \in DOMAIN lines |-> IdOf(lines[i])]

-----------------------------------------------------------------------------
NoCall == [op |-> "none", h |-> 0, name |-> << >>, tracks |-> << >>]
Idle == [old |-> << >>, had |-> {}]
Fault == spent.faults < scene.max.faults /\ spent' = [spent EXCEPT !.faults = @ + 1]
Fine == UNCHANGED spent
Return(ok, h, tracks) ==
  /\ pc' = "idle" /\ my' = Idle
  /\ result' = [op |-> call.op, ok |-> ok, h |-> h, tracks |-> tracks, had |-> my.had]
Fail == Return(FALSE, 0, << >>) /\ UNCHANGED <<scene, dev, asked, call>>
Goto(p) == pc' = p /\ UNCHANGED <<scene, dev, asked, call, my, result>>

Init ==
  /\ scene \in Scenarios /\ dev = scene.objects /\ asked = [h \in {} |-> << >>]
  /\ pc = "idle" /\ call = NoCall /\ my = Idle
  /\ result = [op |-> "none", ok |-> FALSE, h |-> 0, tracks |-> << >>, had |-> {}]
  /\ spent = [calls |-> 0, faults |-> 0]

\* LIBMTP_Create_New_Playlist, LIBMTP_Get_Playlist and LIBMTP_Update_Playlist.
Call ==
  /\ pc = "idle" /\ spent.calls < scene.max.calls /\ spent' = [spent EXCEPT !.calls = @ + 1]
  /\ \E op \in {"create", "get", "update"}, h \in Playlists \cup {0},
        name \in scene.names, tracks \in scene.tracks :
       /\ (h = 0) <=> (op = "create")
       /\ op = "get" => name = << >> /\ tracks = << >>
       /\ op # "get" => name # << >>
       /\ call' = [op |-> op, h |-> h, name |-> name, tracks |-> tracks]
       /\ pc' = IF op = "create" THEN "create" ELSE "fetch"
  /\ my' = [Idle EXCEPT !.had = Playlists]
  /\ UNCHANGED <<scene, dev, asked, result>>

\* playlist_t_to_spl: the text is sent as a file; an interrupted one may stay empty.
Unused == Handle \ (DOMAIN scene.objects \cup DOMAIN asked)
Playlist(data) == [parent |-> scene.parent, fmt |-> "spl", name |-> call.name, data |-> data]
Create ==
  /\ pc = "create" /\ Unused # {}
  /\ LET h == Least(Unused)
         puts(data, tracks) == dev' = With(dev, h, Playlist(data)) /\ asked' = With(asked, h, tracks)
     IN \/ Fine /\ puts(Text(call.tracks), SelectSeq(call.tracks, LAMBDA t : t \in Files))
           /\ Return(TRUE, h, << >>)
        \/ Fault /\ UNCHANGED <<dev, asked>> /\ Return(FALSE, 0, << >>)
        \/ Fault /\ puts(<< >>, << >>) /\ Return(FALSE, 0, << >>)
  /\ UNCHANGED <<scene, call>>

\* spl_to_playlist_t: the file is fetched and read.  One that cannot be fetched is
\* closed and read all the same, for ever: pc is then "stuck".
Fetch ==
  /\ pc = "fetch"
  /\ \/ call.h \notin DOMAIN dev /\ Fine /\ Fail
     \/ /\ call.h \in DOMAIN dev /\ Fine
        /\ LET tracks == TracksOf(dev[call.h].data)
           IN \/ call.op = "get" /\ Return(TRUE, call.h, tracks)
              \/ call.op = "update" /\ pc' = "compare" /\ my' = [my EXCEPT !.old = tracks]
                 /\ UNCHANGED result
        /\ UNCHANGED <<scene, dev, asked, call>>
     \/ call.h \in DOMAIN dev /\ Fault /\ Goto("stuck")

\* update_spl_playlist.  Mutant: the tracks are counted and not compared.
Differ_Counted(old, new) == Len(old) # Len(new)
Differ(old, new) == old # new
Compare ==
  /\ pc = "compare" /\ Fine
  /\ \/ Differ(my.old, call.tracks) /\ Goto("delete")
     \/ ~Differ(my.old, call.tracks) /\ dev[call.h].name # call.name /\ Goto("rename")
     \/ /\ ~Differ(my.old, call.tracks) /\ dev[call.h].name = call.name
        /\ Return(TRUE, call.h, << >>) /\ UNCHANGED <<scene, dev, asked, call>>

Delete ==
  /\ pc = "delete"
  /\ \/ /\ Fine /\ dev' = Without(dev, call.h) /\ pc' = "create"
        /\ UNCHANGED <<scene, asked, call, my, result>>
     \/ Fault /\ Fail

\* LIBMTP_Set_Playlist_Name
Rename ==
  /\ pc = "rename"
  /\ \/ /\ Fine /\ dev' = [dev EXCEPT ![call.h].name = call.name]
        /\ Return(TRUE, call.h, << >>) /\ UNCHANGED <<scene, asked, call>>
     \/ Fault /\ Fail

\* The program, or the user of the player, deletes a track.
DeleteTrack ==
  /\ pc = "idle" /\ spent.calls < scene.max.calls /\ spent' = [spent EXCEPT !.calls = @ + 1]
  /\ \E h \in Files \ Playlists : dev' = Without(dev, h)
  /\ call' = NoCall /\ result' = [result EXCEPT !.op = "none"]
  /\ UNCHANGED <<scene, asked, pc, my>>

Next == Call \/ Create \/ Fetch \/ Compare \/ Delete \/ Rename \/ DeleteTrack
Spec == Init /\ [][Next]_vars

-----------------------------------------------------------------------------
\* What is read of a playlist is what it was made of: as many tracks, in that
\* order, and each that is still on the device is the one it was.
ReadsBack ==
  result.op = "get" /\ result.ok /\ result.h \in DOMAIN asked =>
    LET tracks == asked[result.h]
    IN /\ Len(result.tracks) = Len(tracks)
       /\ \A i \in DOMAIN tracks : tracks[i] \in Files => result.tracks[i] = tracks[i]

\* A playlist that was created or updated with success has the name and the
\* tracks asked for, an update replaces the playlist it is of, and whatever
\* fails the other playlists are left alone.
AsAsked ==
  pc = "idle" =>
    /\ result.op \in {"create", "update"} /\ result.ok =>
         /\ result.h \in Playlists /\ dev[result.h].name = call.name
         /\ SelectSeq(TracksOf(dev[result.h].data), LAMBDA t : t \in Files)
              = SelectSeq(call.tracks, LAMBDA t : t \in Files)
         /\ Playlists \ {result.h} = result.had \ {call.h}
    /\ result.op # "none" => result.had \ {call.h} \subseteq Playlists
=============================================================================
