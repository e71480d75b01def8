---------------------------- MODULE ObjectArray ----------------------------
(***************************************************************************)
(* params->objects, the object cache of libmtp (src/src/ptp.c): a growing  *)
(* array kept sorted by object handle, searched and extended in place.     *)
(*                                                                         *)
(* ptp_find_or_insert_object_in_cache is modelled one probe of its binary  *)
(* search at a time, because what matters is the index arithmetic: where   *)
(* the loop stops and where the new entry goes.  The pointer it returns is *)
(* the variable ob, which ptp_object_want writes through and, on failure,  *)
(* deletes behind.  Array positions count from 1 here, from 0 in C.        *)
(***************************************************************************)
EXTENDS Naturals, Sequences, FiniteSets

CONSTANTS Handle,   \* object handles, never 0 (0 is refused at line 9511)
          Info,     \* what can be known of an object (flags and ObjectInfo)
          NoInfo    \* the entry as memset leaves it

ASSUME HandleAssumption == Handle \subseteq Nat \ {0} /\ IsFiniteSet(Handle)
ASSUME InfoAssumption == NoInfo \in Info

VARIABLES objects,    \* the array: a sequence of [oid, info]
          handle,     \* the handle the last call was for
          begin, end, \* the bracket of the binary search
          ob,         \* position the caller was given, 0 for NULL
          pc

vars == <<objects, handle, begin, end, ob, pc>>
search == <<handle, begin, end>>

Entry == [oid : Handle, info : Info]
Fresh(h) == [oid |-> h, info |-> NoInfo]

Init == /\ objects = << >>
        /\ handle = 0 /\ begin = 0 /\ end = 0 /\ ob = 0
        /\ pc = "idle"

-----------------------------------------------------------------------------
\* The memmoves, wrong: one element too far.
MakeRoom_Late(s, k, e) == [i \in 1 .. Len(s) + 1 |->
                             IF i <= k /\ i <= Len(s) THEN s[i]
                             ELSE IF i = k \/ i = k + 1 THEN e ELSE s[i - 1]]
CloseGap_Next(s, k) == [i \in 1 .. Len(s) - 1 |-> IF i <= k THEN s[i] ELSE s[i + 1]]

\* memmove in ptp_find_or_insert_object_in_cache and in array_remove.
MakeRoom(s, k, e) == [i \in 1 .. Len(s) + 1 |->
                        IF i < k THEN s[i] ELSE IF i = k THEN e ELSE s[i - 1]]
CloseGap(s, k) == [i \in 1 .. Len(s) - 1 |-> IF i < k THEN s[i] ELSE s[i + 1]]

\* What ptp_objects_sort leaves behind when the handles are distinct.
SortedByOid(s) == \A i, j \in 1 .. Len(s) : i < j => s[i].oid < s[j].oid

-----------------------------------------------------------------------------
\* ptp_object_want enters ptp_find_or_insert_object_in_cache.
Want(h) ==
  /\ pc = "idle"
  /\ handle' = h
  /\ IF objects = << >>
       THEN /\ objects' = << Fresh(h) >>
            /\ ob' = 1 /\ pc' = "have"
            /\ UNCHANGED <<begin, end>>
       ELSE /\ begin' = 1 /\ end' = Len(objects)
            /\ ob' = 0 /\ pc' = "search"
            /\ UNCHANGED objects

\* The search, wrong: a middle that is the end, and a step beyond the middle.
cursor_End == end
Probe_Beyond ==
  /\ pc = "search"
  /\ LET c == (end - begin) \div 2 + begin IN
       IF objects[c].oid = handle
         THEN ob' = c /\ pc' = "have" /\ UNCHANGED <<begin, end>>
         ELSE /\ IF objects[c].oid < handle
                   THEN begin' = c + 1 /\ UNCHANGED end
                   ELSE end' = c /\ UNCHANGED begin
              /\ pc' = IF end' <= begin' + 1 THEN "place" ELSE "search"
              /\ UNCHANGED ob
  /\ UNCHANGED <<objects, handle>>
insertat_NoFront == IF end = Len(objects) /\ handle > objects[end].oid THEN end + 1
                    ELSE begin + 1

\* One turn of the while loop.
cursor == (end - begin) \div 2 + begin

Probe ==
  /\ pc = "search"
  /\ IF objects[cursor].oid = handle
       THEN /\ ob' = cursor /\ pc' = "have"
            /\ UNCHANGED <<begin, end>>
       ELSE /\ IF objects[cursor].oid < handle
                 THEN begin' = cursor /\ UNCHANGED end
                 ELSE end' = cursor /\ UNCHANGED begin
            /\ pc' = IF end' - begin' <= 1 THEN "place" ELSE "search"
            /\ UNCHANGED ob
  /\ UNCHANGED <<objects, handle>>

insertat == IF begin = 1 /\ handle < objects[1].oid THEN begin
            ELSE IF end = Len(objects) /\ handle > objects[end].oid THEN end + 1
            ELSE begin + 1

\* The two entries of the last bracket, and the insertion.
Place ==
  /\ pc = "place"
  /\ IF objects[begin].oid = handle
       THEN ob' = begin /\ UNCHANGED objects
       ELSE IF objects[end].oid = handle
              THEN ob' = end /\ UNCHANGED objects
              ELSE /\ objects' = MakeRoom(objects, insertat, Fresh(handle))
                   /\ ob' = insertat
  /\ pc' = "have"
  /\ UNCHANGED search

\* ptp_object_want has the object: it fills the entry in through ob, ...
Fill(info) == /\ pc = "have"
              /\ objects' = [objects EXCEPT ![ob].info = info]
              /\ pc' = "idle" /\ ob' = 0
              /\ UNCHANGED search

\* ... has all of it already, or cannot get it and keeps what it has, ...
Keep == /\ pc = "have"
        /\ pc' = "idle" /\ ob' = 0
        /\ UNCHANGED <<objects, search>>

\* ptp_remove_object_from_cache: bsearch over the sorted array.
Delete(h) == \E k \in 1 .. Len(objects) :
                /\ objects[k].oid = h
                /\ objects' = CloseGap(objects, k)

\* ... or gets an error from GetObjectInfo and removes the handle again.
Kill == /\ pc = "have"
        /\ Delete(handle)
        /\ pc' = "idle" /\ ob' = 0
        /\ UNCHANGED search

\* The removals after DeleteObject and MoveObject, and before a refresh.
Remove(h) == /\ pc = "idle"
             /\ Delete(h)
             /\ handle' = h
             /\ UNCHANGED <<begin, end, ob, pc>>

\* flush_handles drops the cache, ...
Flush == /\ pc = "idle"
         /\ objects' = << >>
         /\ UNCHANGED <<search, ob, pc>>

\* ... and get_all_metadata_fast builds it from what the responder lists.
Increasing(n) == {f \in [1 .. n -> Handle] : \A i, j \in 1 .. n : i < j => f[i] < f[j]}

Listings == UNION {{[i \in 1 .. n |-> [oid |-> f[i], info |-> g[i]]] :
                       f \in Increasing(n), g \in [1 .. n -> Info]} :
                   n \in 0 .. Cardinality(Handle)}

Load == /\ pc = "idle" /\ objects = << >>
        /\ objects' \in Listings
        /\ UNCHANGED <<search, ob, pc>>

Next == \/ \E h \in Handle : Want(h) \/ Remove(h)
        \/ Probe \/ Place
        \/ \E info \in Info : Fill(info)
        \/ Keep \/ Kill \/ Flush \/ Load

\* The C function runs to its end once called.
Spec == Init /\ [][Next]_vars /\ WF_vars(Probe \/ Place)

-----------------------------------------------------------------------------
TypeOK == /\ objects \in Seq(Entry)
          /\ handle \in Handle \cup {0}
          /\ begin \in Nat /\ end \in Nat /\ ob \in Nat
          /\ pc \in {"idle", "search", "place", "have"}

(* The array is strictly sorted by handle whatever is inserted and removed: *)
(* bsearch (ptp_find_object_in_cache) and the next insertion rely on it,    *)
(* and no handle has two entries.                                           *)
Sorted == SortedByOid(objects)

(* The pointer handed back by ptp_find_or_insert_object_in_cache is the     *)
(* entry of the handle that was asked for, old or new.                      *)
RightObject == pc = "have" => ob \in 1 .. Len(objects) /\ objects[ob].oid = handle

(* The bracket of the search: everything before begin is smaller than the   *)
(* handle, everything after end is larger.                                  *)
Bracketed ==
  pc \in {"search", "place"} =>
     /\ handle \in Handle
     /\ 1 <= begin /\ begin <= end /\ end <= Len(objects)
     /\ begin = 1 \/ objects[begin].oid < handle
     /\ end = Len(objects) \/ handle < objects[end].oid
     /\ pc = "place" => end <= begin + 1

(* The loop needs no more than a few probes: it always ends.                *)
SearchEnds == pc = "search" ~> pc = "have"

-----------------------------------------------------------------------------
\* The array as a map.
Oids(s) == {s[i].oid : i \in 1 .. Len(s)}
Position(s, h) == CHOOSE i \in 1 .. Len(s) : s[i].oid = h
AsMap(s) == [h \in Oids(s) |-> s[Position(s, h)].info]

Map == INSTANCE ObjectMap WITH cached <- AsMap(objects), asking <- pc # "idle"

(* The array implements the map: a call to ptp_object_want or a removal     *)
(* changes the entry of the handle it names and moves the others in the     *)
(* array without touching what they say.                                    *)
MapSpec == Map!Spec
=============================================================================
