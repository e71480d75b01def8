------------------------- MODULE ObjectArrayProofs -------------------------
(***************************************************************************)
(* Proofs about ObjectArray: whatever the handles and however many, the    *)
(* binary search keeps its bracket, the array stays strictly sorted, the   *)
(* pointer returned is the right one, and the array implements ObjectMap.  *)
(***************************************************************************)
EXTENDS ObjectArray, FiniteSetTheorems, TLAPS

(* What memmove does when an entry is inserted: one element more; an entry   *)
(* put between the smaller and the larger handles leaves the array sorted.   *)
LEMMA MakeRoomSorted ==
  ASSUME NEW s \in Seq(Entry), NEW k \in 1 .. Len(s) + 1, NEW e \in Entry,
         SortedByOid(s),
         \A i \in 1 .. Len(s) : i < k => s[i].oid < e.oid,
         \A i \in 1 .. Len(s) : k <= i => e.oid < s[i].oid
  PROVE  /\ MakeRoom(s, k, e) \in Seq(Entry)
         /\ Len(MakeRoom(s, k, e)) = Len(s) + 1
         /\ \A i \in 1 .. Len(s) + 1 :
               MakeRoom(s, k, e)[i] = IF i < k THEN s[i]
                                      ELSE IF i = k THEN e ELSE s[i - 1]
         /\ SortedByOid(MakeRoom(s, k, e))
<1> DEFINE t == MakeRoom(s, k, e)
<1>1. t \in [1 .. Len(s) + 1 -> Entry]
  BY DEF MakeRoom
<1>2. t \in Seq(Entry) /\ Len(t) = Len(s) + 1
  BY <1>1
<1>3. \A i \in 1 .. Len(s) + 1 :
         t[i] = IF i < k THEN s[i] ELSE IF i = k THEN e ELSE s[i - 1]
  BY DEF MakeRoom
<1> HIDE DEF t
<1>4. SUFFICES ASSUME NEW i \in 1 .. Len(t), NEW j \in 1 .. Len(t), i < j
               PROVE  t[i].oid < t[j].oid
  BY <1>2, <1>3 DEF SortedByOid, t
<1>5. CASE j < k
  BY <1>2, <1>3, <1>4, <1>5 DEF SortedByOid
<1>6. CASE j = k
  BY <1>2, <1>3, <1>4, <1>6
<1>7. CASE j > k /\ i < k
  <2>1. t[j] = s[j - 1] /\ t[i] = s[i] /\ j - 1 \in 1 .. Len(s) /\ i \in 1 .. Len(s)
    BY <1>2, <1>3, <1>4, <1>7
  <2>2. s[i].oid < s[j - 1].oid
    BY <2>1, <1>4, <1>7 DEF SortedByOid
  <2> QED
    BY <2>1, <2>2
<1>8. CASE j > k /\ i = k
  <2>1. t[j] = s[j - 1] /\ t[i] = e /\ j - 1 \in 1 .. Len(s) /\ k <= j - 1
    BY <1>2, <1>3, <1>4, <1>8
  <2> QED
    BY <2>1
<1>9. CASE j > k /\ i > k
  <2>1. t[j] = s[j - 1] /\ t[i] = s[i - 1]
        /\ j - 1 \in 1 .. Len(s) /\ i - 1 \in 1 .. Len(s) /\ i - 1 < j - 1
    BY <1>2, <1>3, <1>4, <1>9
  <2> QED
    BY <2>1 DEF SortedByOid
<1> QED
  BY <1>2, <1>3, <1>4, <1>5, <1>6, <1>7, <1>8, <1>9

(* What array_remove does: one element less, the rest in order.             *)
LEMMA CloseGapSorted ==
  ASSUME NEW s \in Seq(Entry), NEW k \in 1 .. Len(s), SortedByOid(s)
  PROVE  /\ CloseGap(s, k) \in Seq(Entry)
         /\ Len(CloseGap(s, k)) = Len(s) - 1
         /\ \A i \in 1 .. Len(s) - 1 :
               CloseGap(s, k)[i] = IF i < k THEN s[i] ELSE s[i + 1]
         /\ SortedByOid(CloseGap(s, k))
<1> DEFINE t == CloseGap(s, k)
<1>1. t \in [1 .. Len(s) - 1 -> Entry]
  BY DEF CloseGap
<1>2. Len(s) - 1 \in Nat
  OBVIOUS
<1>3. t \in Seq(Entry) /\ Len(t) = Len(s) - 1
  BY <1>1, <1>2
<1>4. \A i \in 1 .. Len(s) - 1 : t[i] = IF i < k THEN s[i] ELSE s[i + 1]
  BY DEF CloseGap
<1> HIDE DEF t
<1>5. ASSUME NEW i \in 1 .. Len(t), NEW j \in 1 .. Len(t), i < j
      PROVE  t[i].oid < t[j].oid
  BY <1>3, <1>4, <1>5 DEF SortedByOid
<1> QED
  BY <1>3, <1>4, <1>5 DEF SortedByOid, t

(* Every listing the responder can deliver is an array of entries, sorted.  *)
LEMMA ListingsSorted ==
  ASSUME NEW s \in Listings
  PROVE  s \in Seq(Entry) /\ SortedByOid(s)
<1>1. PICK n \in 0 .. Cardinality(Handle) :
        \E f \in Increasing(n), g \in [1 .. n -> Info] :
           s = [i \in 1 .. n |-> [oid |-> f[i], info |-> g[i]]]
  BY DEF Listings
<1>2. n \in Nat
  BY HandleAssumption, FS_CardinalityType
<1>3. PICK f \in Increasing(n), g \in [1 .. n -> Info] :
           s = [i \in 1 .. n |-> [oid |-> f[i], info |-> g[i]]]
  BY <1>1
<1>4. f \in [1 .. n -> Handle] /\ \A i, j \in 1 .. n : i < j => f[i] < f[j]
  BY DEF Increasing
<1>5. s \in [1 .. n -> Entry]
  BY <1>3, <1>4 DEF Entry
<1>6. s \in Seq(Entry) /\ Len(s) = n
  BY <1>2, <1>5
<1> QED
  BY <1>3, <1>4, <1>6 DEF SortedByOid

-----------------------------------------------------------------------------
(* The inductive invariant.  Sorted alone is not inductive: an insertion  *)
(* keeps the order only where Bracketed says what surrounds the gap.       *)
IInv == TypeOK /\ Sorted /\ RightObject /\ Bracketed

(* Where the insertion goes: everything before it is smaller, everything    *)
(* from it on is larger.                                                    *)
LEMMA InsertionPoint ==
  ASSUME IInv, pc = "place",
         objects[begin].oid # handle, objects[end].oid # handle
  PROVE  /\ insertat \in 1 .. Len(objects) + 1
         /\ \A i \in 1 .. Len(objects) : i < insertat => objects[i].oid < handle
         /\ \A i \in 1 .. Len(objects) : insertat <= i => handle < objects[i].oid
<1>1. /\ objects \in Seq(Entry)
      /\ handle \in Nat
      /\ begin \in Nat /\ end \in Nat /\ Len(objects) \in Nat
      /\ 1 <= begin /\ begin <= end /\ end <= Len(objects) /\ end <= begin + 1
      /\ begin = 1 \/ objects[begin].oid < handle
      /\ end = Len(objects) \/ handle < objects[end].oid
  BY HandleAssumption DEF IInv, TypeOK, Bracketed
<1>2. \A i \in 1 .. Len(objects) : objects[i].oid \in Nat
  <2>1. \A i \in 1 .. Len(objects) : objects[i] \in Entry
    BY <1>1
  <2> QED
    BY <2>1, HandleAssumption DEF Entry
<1>3. \A i, j \in 1 .. Len(objects) : i < j => objects[i].oid < objects[j].oid
  BY DEF IInv, Sorted, SortedByOid
<1>4. CASE begin = 1 /\ handle < objects[1].oid
  <2>1. insertat = 1
    BY <1>4 DEF insertat
  <2> QED
    BY <2>1, <1>1, <1>2, <1>3, <1>4
<1>5. CASE ~(begin = 1 /\ handle < objects[1].oid)
           /\ end = Len(objects) /\ handle > objects[end].oid
  <2>1. insertat = Len(objects) + 1
    BY <1>5 DEF insertat
  <2> QED
    BY <2>1, <1>1, <1>2, <1>3, <1>5
<1>6. CASE ~(begin = 1 /\ handle < objects[1].oid)
           /\ ~(end = Len(objects) /\ handle > objects[end].oid)
  <2>1. insertat = begin + 1
    BY <1>6 DEF insertat
  <2>2. objects[begin].oid < handle
    BY <1>1, <1>2, <1>6
  <2>3. handle < objects[end].oid
    BY <1>1, <1>2, <1>6
  <2>4. end = begin + 1
    BY <2>2, <2>3, <1>1, <1>2
  <2> QED
    BY <2>1, <2>2, <2>3, <2>4, <1>1, <1>2, <1>3
<1> QED
  BY <1>4, <1>5, <1>6

(* After a place for a new handle was found, the caller holds a valid entry. *)
LEMMA PlaceKeeps ==
  ASSUME IInv, Place
  PROVE  IInv'
<1>1. /\ objects \in Seq(Entry) /\ SortedByOid(objects)
      /\ handle \in Handle /\ begin \in Nat /\ end \in Nat
      /\ begin \in 1 .. Len(objects) /\ end \in 1 .. Len(objects)
  BY DEF Place, IInv, TypeOK, Sorted, Bracketed
<1>2. pc = "place" /\ pc' = "have" /\ UNCHANGED <<handle, begin, end>>
  BY DEF Place, search
<1>3. CASE objects[begin].oid = handle
  <2>1. ob' = begin /\ objects' = objects
    BY <1>3 DEF Place
  <2> QED
    BY <2>1, <1>1, <1>2, <1>3 DEF IInv, TypeOK, Sorted, RightObject, Bracketed
<1>4. CASE objects[begin].oid # handle /\ objects[end].oid = handle
  <2>1. ob' = end /\ objects' = objects
    BY <1>4 DEF Place
  <2> QED
    BY <2>1, <1>1, <1>2, <1>4 DEF IInv, TypeOK, Sorted, RightObject, Bracketed
<1>5. CASE objects[begin].oid # handle /\ objects[end].oid # handle
  <2> DEFINE e == Fresh(handle)
             k == insertat
  <2>1. ob' = k /\ objects' = MakeRoom(objects, k, e)
    BY <1>5 DEF Place
  <2>2. e \in Entry /\ e.oid = handle
    BY <1>1, InfoAssumption DEF Fresh, Entry
  <2>3. /\ k \in 1 .. Len(objects) + 1
        /\ \A i \in 1 .. Len(objects) : i < k => objects[i].oid < e.oid
        /\ \A i \in 1 .. Len(objects) : k <= i => e.oid < objects[i].oid
    BY <1>2, <1>5, <2>2, InsertionPoint
  <2> HIDE DEF e, k
  <2>4. /\ MakeRoom(objects, k, e) \in Seq(Entry)
        /\ Len(MakeRoom(objects, k, e)) = Len(objects) + 1
        /\ \A i \in 1 .. Len(objects) + 1 :
              MakeRoom(objects, k, e)[i] =
                IF i < k THEN objects[i] ELSE IF i = k THEN e ELSE objects[i - 1]
        /\ SortedByOid(MakeRoom(objects, k, e))
    BY <1>1, <2>2, <2>3, MakeRoomSorted
  <2>5. /\ objects' \in Seq(Entry) /\ Len(objects') = Len(objects) + 1
        /\ objects'[k] = e
        /\ SortedByOid(objects')
    BY <2>4, <2>1, <2>3
  <2>6. k \in Nat /\ k \in 1 .. Len(objects')
    BY <1>1, <2>3, <2>5
  <2> QED
    BY <1>1, <1>2, <2>1, <2>2, <2>5, <2>6
       DEF IInv, TypeOK, Sorted, RightObject, Bracketed
<1> QED
  BY <1>3, <1>4, <1>5

(* One turn of the search narrows the bracket around the handle.            *)
LEMMA ProbeKeeps ==
  ASSUME IInv, Probe
  PROVE  IInv'
<1>1. /\ objects \in Seq(Entry) /\ SortedByOid(objects) /\ Len(objects) \in Nat
      /\ handle \in Handle /\ handle \in Nat /\ begin \in Nat /\ end \in Nat
      /\ 1 <= begin /\ begin <= end /\ end <= Len(objects)
      /\ begin = 1 \/ objects[begin].oid < handle
      /\ end = Len(objects) \/ handle < objects[end].oid
  BY HandleAssumption DEF Probe, IInv, TypeOK, Sorted, Bracketed
<1>2. pc = "search" /\ objects' = objects /\ handle' = handle
  BY DEF Probe
<1>3. cursor \in Nat /\ begin <= cursor /\ cursor <= end
  BY <1>1 DEF cursor
<1>4. objects[cursor].oid \in Nat
  <2>1. objects[cursor] \in Entry
    BY <1>1, <1>3
  <2> QED
    BY <2>1, HandleAssumption DEF Entry
<1>5. CASE objects[cursor].oid = handle
  <2>1. ob' = cursor /\ pc' = "have" /\ begin' = begin /\ end' = end
    BY <1>5 DEF Probe
  <2> QED
    BY <2>1, <1>1, <1>2, <1>3, <1>5 DEF IInv, TypeOK, Sorted, RightObject, Bracketed
<1>6. CASE objects[cursor].oid # handle
  <2>1. ob' = ob /\ pc' = (IF end' - begin' <= 1 THEN "place" ELSE "search")
    BY <1>6 DEF Probe
  <2>2. CASE objects[cursor].oid < handle
    <3>1. begin' = cursor /\ end' = end
      BY <1>6, <2>2 DEF Probe
    <3> QED
      BY <3>1, <2>1, <2>2, <1>1, <1>2, <1>3
         DEF IInv, TypeOK, Sorted, RightObject, Bracketed
  <2>3. CASE ~(objects[cursor].oid < handle)
    <3>1. end' = cursor /\ begin' = begin
      BY <1>6, <2>3 DEF Probe
    <3>2. handle < objects[cursor].oid
      BY <1>1, <1>4, <1>6, <2>3
    <3> QED
      BY <3>1, <3>2, <2>1, <1>1, <1>2, <1>3
         DEF IInv, TypeOK, Sorted, RightObject, Bracketed
  <2> QED
    BY <2>2, <2>3
<1> QED
  BY <1>5, <1>6

(* The inductive invariant: types, order, the bracket of the search and the *)
(* pointer it returned.                                                     *)
LEMMA Inductive ==
  IInv /\ [Next]_vars => IInv'
<1> SUFFICES ASSUME IInv, [Next]_vars PROVE IInv'
  OBVIOUS
<1>1. objects \in Seq(Entry) /\ SortedByOid(objects)
  BY DEF IInv, TypeOK, Sorted
<1>2. ASSUME NEW h \in Handle, Want(h) PROVE IInv'
  <2>1. CASE objects = << >>
    <3>1. /\ objects' = << Fresh(h) >> /\ handle' = h /\ ob' = 1 /\ pc' = "have"
          /\ begin' = begin /\ end' = end
      BY <1>2, <2>1 DEF Want
    <3>2. Fresh(h) \in Entry /\ Fresh(h).oid = h
      BY InfoAssumption DEF Fresh, Entry
    <3>3. objects' \in Seq(Entry) /\ Len(objects') = 1 /\ objects'[1] = Fresh(h)
      BY <3>1, <3>2
    <3> QED
      BY <3>1, <3>2, <3>3
         DEF IInv, TypeOK, Sorted, SortedByOid, RightObject, Bracketed
  <2>2. CASE objects # << >>
    <3>1. /\ objects' = objects /\ handle' = h /\ ob' = 0 /\ pc' = "search"
          /\ begin' = 1 /\ end' = Len(objects)
      BY <1>2, <2>2 DEF Want
    <3>2. Len(objects) \in Nat /\ Len(objects) # 0
      BY <1>1, <2>2
    <3> QED
      BY <3>1, <3>2, <1>1 DEF IInv, TypeOK, Sorted, RightObject, Bracketed
  <2> QED
    BY <2>1, <2>2
<1>3. ASSUME NEW h \in Handle, Delete(h),
             pc' = "idle", UNCHANGED <<begin, end>>,
             handle' \in Handle \cup {0}, ob' \in Nat
      PROVE  IInv'
  <2>1. PICK k \in 1 .. Len(objects) : objects' = CloseGap(objects, k)
    BY <1>3 DEF Delete
  <2>2. objects' \in Seq(Entry) /\ SortedByOid(objects')
    BY <1>1, <2>1, CloseGapSorted
  <2> QED
    BY <1>3, <2>2 DEF IInv, TypeOK, Sorted, RightObject, Bracketed
<1>4. ASSUME NEW h \in Handle, Remove(h) PROVE IInv'
  BY <1>3, <1>4 DEF Remove, IInv, TypeOK
<1>5. CASE Probe
  BY <1>5, ProbeKeeps
<1>6. CASE Place
  BY <1>6, PlaceKeeps
<1>7. ASSUME NEW info \in Info, Fill(info) PROVE IInv'
  <2>1. /\ ob \in 1 .. Len(objects) /\ objects' = [objects EXCEPT ![ob].info = info]
        /\ pc' = "idle" /\ ob' = 0 /\ UNCHANGED <<handle, begin, end>>
    BY <1>7 DEF Fill, search, IInv, RightObject
  <2>2. \A i \in 1 .. Len(objects) : objects[i] \in Entry
    BY <1>1
  <2>3. [objects[ob] EXCEPT !.info = info] \in Entry
    BY <2>1, <2>2 DEF Entry
  <2>4. objects' \in Seq(Entry) /\ Len(objects') = Len(objects)
    BY <1>1, <2>1, <2>3
  <2>5. \A i \in 1 .. Len(objects) : objects'[i].oid = objects[i].oid
    BY <1>1, <2>1, <2>2 DEF Entry
  <2> QED
    BY <1>1, <2>1, <2>4, <2>5
       DEF IInv, TypeOK, Sorted, SortedByOid, RightObject, Bracketed
<1>8. CASE Keep
  BY <1>8 DEF Keep, search, IInv, TypeOK, Sorted, RightObject, Bracketed
<1>9. CASE Kill
  <2>1. ob \in 1 .. Len(objects) /\ objects[ob].oid = handle
    BY <1>9 DEF Kill, IInv, RightObject
  <2>2. objects[ob] \in Entry
    BY <1>1, <2>1
  <2>3. handle \in Handle
    BY <2>1, <2>2 DEF Entry
  <2> QED
    BY <1>3, <1>9, <2>3 DEF Kill, search
<1>10. CASE Load
  BY <1>10, ListingsSorted DEF Load, search, IInv, TypeOK, Sorted, RightObject, Bracketed
<1>11. CASE Flush
  BY <1>11 DEF Flush, search, IInv, TypeOK, Sorted, SortedByOid, RightObject, Bracketed
<1>12. CASE UNCHANGED vars
  BY <1>12 DEF vars, IInv, TypeOK, Sorted, SortedByOid, RightObject, Bracketed
<1> QED
  BY <1>2, <1>4, <1>5, <1>6, <1>7, <1>8, <1>9, <1>10, <1>11, <1>12 DEF Next

(* Every state of ObjectArray satisfies the inductive invariant.            *)
THEOREM Invariance == Spec => []IInv
<1>1. Init => IInv
  BY DEF Init, IInv, TypeOK, Sorted, SortedByOid, RightObject, Bracketed
<1> QED
  BY <1>1, Inductive, PTL DEF Spec

(* Type correctness of the object cache.                                    *)
THEOREM TypeCorrect == Spec => []TypeOK
  BY Invariance, PTL DEF IInv

(* ptp_find_or_insert_object_in_cache, ptp_remove_object_from_cache and     *)
(* ptp_objects_sort keep params->objects strictly sorted by handle.         *)
THEOREM AlwaysSorted == Spec => []Sorted
  BY Invariance, PTL DEF IInv

(* The bracket of the binary search never loses the place of the handle     *)
(* ptp_find_or_insert_object_in_cache is looking for.                       *)
THEOREM AlwaysBracketed == Spec => []Bracketed
  BY Invariance, PTL DEF IInv

(* The pointer of ptp_find_or_insert_object_in_cache is the right entry.    *)
THEOREM AlwaysRightObject == Spec => []RightObject
  BY Invariance, PTL DEF IInv

-----------------------------------------------------------------------------
(* In a sorted array the map gives each entry its own information.          *)
LEMMA MapEntry ==
  ASSUME NEW s \in Seq(Entry), SortedByOid(s), NEW i \in 1 .. Len(s)
  PROVE  s[i].oid \in DOMAIN AsMap(s) /\ AsMap(s)[s[i].oid] = s[i].info
<1>1. s[i].oid \in Oids(s)
  BY DEF Oids
<1> DEFINE p == Position(s, s[i].oid)
<1>2. p \in 1 .. Len(s) /\ s[p].oid = s[i].oid
  BY DEF Position
<1>3. \A j \in 1 .. Len(s) : s[j].oid \in Nat
  <2>1. \A j \in 1 .. Len(s) : s[j] \in Entry
    OBVIOUS
  <2> QED
    BY <2>1, HandleAssumption DEF Entry
<1>4. p = i
  BY <1>2, <1>3 DEF SortedByOid
<1> QED
  BY <1>1, <1>4 DEF AsMap

(* A function that agrees with a sorted array on every entry is its map.    *)
LEMMA MapUnique ==
  ASSUME NEW s \in Seq(Entry), SortedByOid(s),
         NEW m, m = [h \in Oids(s) |-> m[h]],
         \A i \in 1 .. Len(s) : m[s[i].oid] = s[i].info
  PROVE  AsMap(s) = m
<1>1. ASSUME NEW h \in Oids(s) PROVE AsMap(s)[h] = m[h]
  <2>1. PICK i \in 1 .. Len(s) : s[i].oid = h
    BY DEF Oids
  <2> QED
    BY <2>1, MapEntry
<1>2. AsMap(s) = [h \in Oids(s) |-> AsMap(s)[h]]
  BY DEF AsMap
<1> QED
  BY <1>1, <1>2

\* The results of the steps of ObjectMap, named so that lemmas can be cited.
WithFresh(m, h) == [g \in DOMAIN m \cup {h} |-> IF g = h THEN NoInfo ELSE m[g]]
WithInfo(m, h, info) == [m EXCEPT ![h] = info]

(* Inserting a fresh entry for a handle the array lacks adds it to the map.  *)
LEMMA RefinesAdd ==
  ASSUME NEW s \in Seq(Entry), SortedByOid(s),
         NEW k \in 1 .. Len(s) + 1, NEW h \in Handle,
         NEW t \in Seq(Entry), SortedByOid(t), Len(t) = Len(s) + 1,
         \A i \in 1 .. Len(s) + 1 :
            t[i] = IF i < k THEN s[i] ELSE IF i = k THEN Fresh(h) ELSE s[i - 1]
  PROVE  h \notin DOMAIN AsMap(s) /\ AsMap(t) = WithFresh(AsMap(s), h)
<1> DEFINE m == [g \in DOMAIN AsMap(s) \cup {h} |->
                    IF g = h THEN NoInfo ELSE AsMap(s)[g]]
<1>1. DOMAIN AsMap(s) = Oids(s)
  BY DEF AsMap
<1>2. t[k] = Fresh(h) /\ t[k].oid = h /\ t[k].info = NoInfo /\ k \in 1 .. Len(t)
  BY DEF Fresh
<1>3. \A i \in 1 .. Len(t) : t[i].oid \in Nat
  <2>1. \A i \in 1 .. Len(t) : t[i] \in Entry
    OBVIOUS
  <2> QED
    BY <2>1, HandleAssumption DEF Entry
<1>4. \A i \in 1 .. Len(s) :
         \E j \in 1 .. Len(t) : j # k /\ t[j] = s[i]
  <2> SUFFICES ASSUME NEW i \in 1 .. Len(s)
               PROVE  \E j \in 1 .. Len(t) : j # k /\ t[j] = s[i]
    OBVIOUS
  <2>1. CASE i < k
    BY <2>1
  <2>2. CASE i >= k
    <3>1. i + 1 \in 1 .. Len(t) /\ i + 1 # k /\ t[i + 1] = s[i]
      BY <2>2
    <3> QED
      BY <3>1
  <2> QED
    BY <2>1, <2>2
<1>5. \A j \in 1 .. Len(t) : j # k => \E i \in 1 .. Len(s) : t[j] = s[i]
  <2> SUFFICES ASSUME NEW j \in 1 .. Len(t), j # k
               PROVE  \E i \in 1 .. Len(s) : t[j] = s[i]
    OBVIOUS
  <2>1. CASE j < k
    BY <2>1
  <2>2. CASE j > k
    <3>1. j - 1 \in 1 .. Len(s) /\ t[j] = s[j - 1]
      BY <2>2
    <3> QED
      BY <3>1
  <2> QED
    BY <2>1, <2>2
<1>6. \A i \in 1 .. Len(s) : s[i].oid # h
  <2>1. \A j \in 1 .. Len(t) : j # k => t[j].oid # h
    BY <1>2, <1>3 DEF SortedByOid
  <2> QED
    BY <2>1, <1>4
<1>7. h \notin Oids(s)
  BY <1>6 DEF Oids
<1>8. Oids(t) = Oids(s) \cup {h}
  <2>1. ASSUME NEW g \in Oids(t) PROVE g \in Oids(s) \cup {h}
    BY <2>1, <1>2, <1>5 DEF Oids
  <2>2. ASSUME NEW g \in Oids(s) PROVE g \in Oids(t)
    BY <2>2, <1>4 DEF Oids
  <2>3. h \in Oids(t)
    BY <1>2 DEF Oids
  <2> QED
    BY <2>1, <2>2, <2>3
<1>9. m = [g \in Oids(t) |-> m[g]]
  BY <1>1, <1>8
<1>10. \A j \in 1 .. Len(t) : m[t[j].oid] = t[j].info
  <2> SUFFICES ASSUME NEW j \in 1 .. Len(t) PROVE m[t[j].oid] = t[j].info
    OBVIOUS
  <2>1. CASE j = k
    BY <2>1, <1>2
  <2>2. CASE j # k
    <3>1. PICK i \in 1 .. Len(s) : t[j] = s[i]
      BY <2>2, <1>5
    <3>2. s[i].oid \in DOMAIN AsMap(s) /\ AsMap(s)[s[i].oid] = s[i].info
      BY MapEntry
    <3> QED
      BY <3>1, <3>2, <1>6
  <2> QED
    BY <2>1, <2>2
<1> HIDE DEF m
<1>11. AsMap(t) = m
  BY <1>9, <1>10, MapUnique
<1> QED
  BY <1>1, <1>7, <1>11 DEF m, WithFresh

(* Closing the gap behind an entry takes its handle out of the map.         *)
LEMMA RefinesForget ==
  ASSUME NEW s \in Seq(Entry), SortedByOid(s), NEW k \in 1 .. Len(s)
  PROVE  /\ s[k].oid \in DOMAIN AsMap(s)
         /\ AsMap(CloseGap(s, k)) =
              [g \in DOMAIN AsMap(s) \ {s[k].oid} |-> AsMap(s)[g]]
<1> DEFINE h == s[k].oid
           t == CloseGap(s, k)
           m == [g \in DOMAIN AsMap(s) \ {h} |-> AsMap(s)[g]]
<1>1. DOMAIN AsMap(s) = Oids(s)
  BY DEF AsMap
<1>2. /\ t \in Seq(Entry) /\ Len(t) = Len(s) - 1 /\ SortedByOid(t)
      /\ \A i \in 1 .. Len(s) - 1 : t[i] = IF i < k THEN s[i] ELSE s[i + 1]
  BY CloseGapSorted
<1> HIDE DEF t
<1>3. \A i \in 1 .. Len(s) : s[i].oid \in Nat
  <2>1. \A i \in 1 .. Len(s) : s[i] \in Entry
    OBVIOUS
  <2> QED
    BY <2>1, HandleAssumption DEF Entry
<1>4. \A j \in 1 .. Len(t) : \E i \in 1 .. Len(s) : i # k /\ t[j] = s[i]
  <2> SUFFICES ASSUME NEW j \in 1 .. Len(t)
               PROVE  \E i \in 1 .. Len(s) : i # k /\ t[j] = s[i]
    OBVIOUS
  <2>1. CASE j < k
    BY <2>1, <1>2
  <2>2. CASE j >= k
    <3>1. j + 1 \in 1 .. Len(s) /\ j + 1 # k /\ t[j] = s[j + 1]
      BY <2>2, <1>2
    <3> QED
      BY <3>1
  <2> QED
    BY <2>1, <2>2
<1>5. \A i \in 1 .. Len(s) : i # k => \E j \in 1 .. Len(t) : t[j] = s[i]
  <2> SUFFICES ASSUME NEW i \in 1 .. Len(s), i # k
               PROVE  \E j \in 1 .. Len(t) : t[j] = s[i]
    OBVIOUS
  <2>1. CASE i < k
    BY <2>1, <1>2
  <2>2. CASE i > k
    <3>1. i - 1 \in 1 .. Len(t) /\ t[i - 1] = s[i]
      BY <2>2, <1>2
    <3> QED
      BY <3>1
  <2> QED
    BY <2>1, <2>2
<1>6. \A i \in 1 .. Len(s) : i # k => s[i].oid # h
  BY <1>3 DEF SortedByOid
<1>7. Oids(t) = Oids(s) \ {h}
  <2>1. ASSUME NEW g \in Oids(t) PROVE g \in Oids(s) \ {h}
    BY <2>1, <1>4, <1>6 DEF Oids
  <2>2. ASSUME NEW g \in Oids(s) \ {h} PROVE g \in Oids(t)
    BY <2>2, <1>5 DEF Oids
  <2> QED
    BY <2>1, <2>2
<1>8. m = [g \in Oids(t) |-> m[g]]
  BY <1>1, <1>7
<1>9. \A j \in 1 .. Len(t) : m[t[j].oid] = t[j].info
  <2> SUFFICES ASSUME NEW j \in 1 .. Len(t) PROVE m[t[j].oid] = t[j].info
    OBVIOUS
  <2>1. PICK i \in 1 .. Len(s) : i # k /\ t[j] = s[i]
    BY <1>4
  <2>2. s[i].oid \in DOMAIN AsMap(s) /\ AsMap(s)[s[i].oid] = s[i].info
    BY MapEntry
  <2> QED
    BY <2>1, <2>2, <1>6
<1> HIDE DEF m
<1>10. AsMap(t) = m
  BY <1>2, <1>8, <1>9, MapUnique
<1> QED
  BY <1>10, MapEntry DEF m, t

(* Writing through the pointer changes what is known of one handle.         *)
LEMMA RefinesLearn ==
  ASSUME NEW s \in Seq(Entry), SortedByOid(s), NEW k \in 1 .. Len(s),
         NEW info \in Info,
         NEW t \in Seq(Entry), SortedByOid(t),
         Len(t) = Len(s),
         \A i \in 1 .. Len(s) : t[i].oid = s[i].oid,
         \A i \in 1 .. Len(s) : i # k => t[i].info = s[i].info,
         t[k].info = info
  PROVE  AsMap(t) = WithInfo(AsMap(s), s[k].oid, info)
<1> DEFINE m == [AsMap(s) EXCEPT ![s[k].oid] = info]
<1>1. DOMAIN AsMap(s) = Oids(s)
  BY DEF AsMap
<1>2. \A i \in 1 .. Len(s) : s[i] \in Entry
  OBVIOUS
<1>4. Oids(t) = Oids(s)
  BY DEF Oids
<1>5. m = [g \in Oids(t) |-> m[g]]
  BY <1>1, <1>4
<1>6. \A i \in 1 .. Len(s) : i # k => s[i].oid # s[k].oid
  <2>1. \A i \in 1 .. Len(s) : s[i].oid \in Nat
    BY <1>2, HandleAssumption DEF Entry
  <2> QED
    BY <2>1 DEF SortedByOid
<1>7. \A j \in 1 .. Len(t) : m[t[j].oid] = t[j].info
  BY <1>6, MapEntry
<1> HIDE DEF m
<1>8. AsMap(t) = m
  BY <1>5, <1>7, MapUnique
<1> QED
  BY <1>8 DEF m, WithInfo

(* A whole new listing is a whole new map.                                  *)
LEMMA RefinesLoad ==
  ASSUME NEW s \in Seq(Entry), SortedByOid(s)
  PROVE  Oids(s) \in SUBSET Handle /\ AsMap(s) \in [Oids(s) -> Info]
<1>1. \A i \in 1 .. Len(s) : s[i] \in Entry
  OBVIOUS
<1>2. Oids(s) \in SUBSET Handle
  BY <1>1 DEF Oids, Entry
<1>3. ASSUME NEW h \in Oids(s) PROVE AsMap(s)[h] \in Info
  <2>1. PICK i \in 1 .. Len(s) : s[i].oid = h
    BY DEF Oids
  <2> QED
    BY <2>1, <1>1, MapEntry DEF Entry
<1> QED
  BY <1>2, <1>3 DEF AsMap

(* The empty array is the empty map.                                         *)
LEMMA EmptyArray ==
  ASSUME NEW s, s = << >>
  PROVE  AsMap(s) = [h \in {} |-> NoInfo]
<1>1. Oids(s) = {}
  BY DEF Oids
<1> QED
  BY <1>1 DEF AsMap

(* Every removal from the array is a removal from the map.                  *)
LEMMA DeleteForgets ==
  ASSUME IInv, NEW h \in Handle, Delete(h)
  PROVE  Map!Forget(h)
<1>1. objects \in Seq(Entry) /\ SortedByOid(objects)
  BY DEF IInv, TypeOK, Sorted
<1>2. PICK k \in 1 .. Len(objects) :
        objects[k].oid = h /\ objects' = CloseGap(objects, k)
  BY DEF Delete
<1>3. AsMap(objects)' = AsMap(CloseGap(objects, k))
  BY <1>2 DEF AsMap, Oids, Position
<1> QED
  BY <1>1, <1>2, <1>3, RefinesForget DEF Map!Forget

(* Every step of the array is a step of the map, or leaves it alone.        *)
LEMMA StepRefines ==
  ASSUME IInv, IInv', [Next]_vars
  PROVE  [Map!Next]_<<AsMap(objects), handle, pc # "idle">>
<1> DEFINE Step == [Map!Next]_<<AsMap(objects), handle, pc # "idle">>
<1>1. /\ objects \in Seq(Entry) /\ SortedByOid(objects)
      /\ objects' \in Seq(Entry) /\ SortedByOid(objects')
  BY DEF IInv, TypeOK, Sorted, SortedByOid
<1>2. ASSUME UNCHANGED objects PROVE UNCHANGED AsMap(objects)
  BY <1>2 DEF AsMap, Oids, Position
<1>3. AsMap(objects)' = AsMap(objects')
  BY DEF AsMap, Oids, Position
<1>4. ASSUME NEW h \in Handle, NEW k \in 1 .. Len(objects) + 1,
             Len(objects') = Len(objects) + 1,
             \A i \in 1 .. Len(objects) + 1 :
                objects'[i] = IF i < k THEN objects[i]
                              ELSE IF i = k THEN Fresh(h) ELSE objects[i - 1]
      PROVE  Map!Add(h)
  <2>1. /\ h \notin DOMAIN AsMap(objects)
        /\ AsMap(objects') = WithFresh(AsMap(objects), h)
    <3> DEFINE t == objects'
    <3>1. /\ t \in Seq(Entry) /\ SortedByOid(t) /\ Len(t) = Len(objects) + 1
          /\ \A i \in 1 .. Len(objects) + 1 :
                t[i] = IF i < k THEN objects[i]
                       ELSE IF i = k THEN Fresh(h) ELSE objects[i - 1]
      BY <1>1, <1>4
    <3> HIDE DEF t
    <3>2. h \notin DOMAIN AsMap(objects) /\ AsMap(t) = WithFresh(AsMap(objects), h)
      BY <1>1, <3>1, RefinesAdd
    <3> QED
      BY <3>2 DEF t
  <2> QED
    BY <1>3, <2>1 DEF Map!Add, WithFresh
<1>5. ASSUME NEW h \in Handle, Want(h) PROVE Step
  <2>1. /\ ~(pc # "idle") /\ (pc' # "idle") = TRUE
        /\ handle' = h
    BY <1>5 DEF Want
  <2>2. CASE objects = << >>
    <3>1. objects' = << Fresh(h) >>
      BY <1>5, <2>2 DEF Want
    <3>2. Map!Add(h)
      BY <3>1, <2>2, <1>4
    <3> QED
      BY <2>1, <3>2 DEF Map!Next, Map!Ask
  <2>3. CASE objects # << >>
    <3>1. UNCHANGED AsMap(objects)
      BY <1>2, <1>5, <2>3 DEF Want
    <3> QED
      BY <2>1, <3>1 DEF Map!Next, Map!Ask
  <2> QED
    BY <2>2, <2>3
<1>6. ASSUME NEW h \in Handle, Remove(h) PROVE Step
  <2>1. Map!Forget(h)
    BY <1>6, DeleteForgets DEF Remove
  <2>2. ~(pc # "idle") /\ UNCHANGED (pc # "idle") /\ handle' = h
    BY <1>6 DEF Remove
  <2> QED
    BY <2>1, <2>2 DEF Map!Next, Map!Remove
<1>7. CASE Probe
  <2>1. UNCHANGED AsMap(objects)
    BY <1>2, <1>7 DEF Probe
  <2>2. UNCHANGED <<handle, pc # "idle">>
    BY <1>7 DEF Probe
  <2> QED
    BY <2>1, <2>2
<1>8. CASE Place
  <2>1. pc # "idle" /\ UNCHANGED <<handle, pc # "idle">>
    BY <1>8 DEF Place, search
  <2>2. CASE objects[begin].oid = handle \/ objects[end].oid = handle
    <3>1. UNCHANGED AsMap(objects)
      BY <1>2, <1>8, <2>2 DEF Place
    <3> QED
      BY <2>1, <3>1
  <2>3. CASE objects[begin].oid # handle /\ objects[end].oid # handle
    <3>1. handle \in Handle
      BY <1>8 DEF Place, IInv, Bracketed
    <3>2. insertat \in 1 .. Len(objects) + 1
      BY <1>8, <2>3, InsertionPoint DEF Place
    <3>3. objects' = MakeRoom(objects, insertat, Fresh(handle))
      BY <1>8, <2>3 DEF Place
    <3>4. /\ Len(objects') = Len(objects) + 1
          /\ \A i \in 1 .. Len(objects) + 1 :
                objects'[i] = IF i < insertat THEN objects[i]
                              ELSE IF i = insertat THEN Fresh(handle) ELSE objects[i - 1]
      BY <1>1, <3>3 DEF MakeRoom
    <3>5. Map!Add(handle)
      BY <1>4, <3>1, <3>2, <3>4
    <3> QED
      BY <2>1, <3>5 DEF Map!Next, Map!Insert
  <2> QED
    BY <2>2, <2>3
<1>9. ASSUME pc = "have", pc' = "idle", UNCHANGED handle,
             Map!Learn(handle) \/ Map!Forget(handle) \/ UNCHANGED AsMap(objects)
      PROVE  Step
  <2>1. (pc # "idle") /\ (pc' # "idle") = FALSE
    BY <1>9
  <2> QED
    BY <1>9, <2>1 DEF Map!Next, Map!Answer
<1>10. ASSUME NEW info \in Info, Fill(info) PROVE Step
  <2>1. /\ ob \in 1 .. Len(objects) /\ objects[ob].oid = handle
        /\ objects' = [objects EXCEPT ![ob].info = info]
    BY <1>10 DEF Fill, IInv, RightObject
  <2>2. AsMap(objects') = WithInfo(AsMap(objects), handle, info)
    <3> DEFINE t == objects'
    <3>0. \A i \in 1 .. Len(objects) : objects[i] \in Entry
      BY <1>1
    <3>1. /\ t \in Seq(Entry) /\ SortedByOid(t) /\ Len(t) = Len(objects)
          /\ \A i \in 1 .. Len(objects) : t[i].oid = objects[i].oid
          /\ \A i \in 1 .. Len(objects) : i # ob => t[i].info = objects[i].info
          /\ t[ob].info = info
      BY <1>1, <2>1, <3>0 DEF Entry
    <3> HIDE DEF t
    <3>2. AsMap(t) = WithInfo(AsMap(objects), objects[ob].oid, info)
      BY <1>1, <2>1, <3>1, RefinesLearn
    <3> QED
      BY <2>1, <3>2 DEF t
  <2>3. handle \in DOMAIN AsMap(objects)
    BY <1>1, <2>1, MapEntry
  <2>4. Map!Learn(handle)
    BY <1>3, <2>2, <2>3 DEF Map!Learn, WithInfo
  <2> QED
    BY <1>9, <1>10, <2>4 DEF Fill, search
<1>11. CASE Kill
  <2>1. ob \in 1 .. Len(objects) /\ objects[ob].oid = handle
    BY <1>11 DEF Kill, IInv, RightObject
  <2>2. objects[ob] \in Entry
    BY <1>1, <2>1
  <2>3. Map!Forget(handle)
    BY <1>11, <2>1, <2>2, DeleteForgets DEF Kill, Entry
  <2> QED
    BY <1>9, <1>11, <2>3 DEF Kill, search
<1>12. CASE Keep
  <2>1. UNCHANGED AsMap(objects)
    BY <1>2, <1>12 DEF Keep
  <2> QED
    BY <1>9, <1>12, <2>1 DEF Keep, search
<1>13. CASE Flush
  <2>1. objects' = << >> /\ ~(pc # "idle") /\ UNCHANGED <<handle, pc # "idle">>
    BY <1>13 DEF Flush, search
  <2>2. AsMap(objects') = Map!Empty
    BY <2>1, EmptyArray DEF Map!Empty
  <2> QED
    BY <1>3, <2>1, <2>2 DEF Map!Next, Map!Drop
<1>14. CASE Load
  <2>1. Oids(objects') \in SUBSET Handle /\ AsMap(objects') \in [Oids(objects') -> Info]
    BY <1>1, RefinesLoad
  <2>2. AsMap(objects) = Map!Empty
    BY <1>14, EmptyArray DEF Load, Map!Empty
  <2>3. ~(pc # "idle") /\ UNCHANGED <<handle, pc # "idle">>
    BY <1>14 DEF Load, search
  <2> QED
    BY <1>3, <2>1, <2>2, <2>3 DEF Map!Next, Map!Load
<1>15. CASE UNCHANGED vars
  <2>1. UNCHANGED AsMap(objects)
    BY <1>2, <1>15 DEF vars
  <2> QED
    BY <1>15, <2>1 DEF vars, search
<1> QED
  BY <1>5, <1>6, <1>7, <1>8, <1>10, <1>11, <1>12, <1>13, <1>14, <1>15 DEF Next

(* The sorted array with its binary search implements the map of handles:   *)
(* no insertion, removal or reload loses, doubles or mixes up an entry.     *)
THEOREM Implementation == Spec => MapSpec
<1>1. Init => Map!Init
  <2> SUFFICES ASSUME Init PROVE Map!Init
    OBVIOUS
  <2>1. AsMap(objects) = Map!Empty
    BY EmptyArray DEF Init, Map!Empty
  <2>2. (pc # "idle") = FALSE
    BY DEF Init
  <2> QED
    BY <2>1, <2>2 DEF Map!Init
<1>2. IInv /\ IInv' /\ [Next]_vars => [Map!Next]_<<AsMap(objects), handle, pc # "idle">>
  BY StepRefines
<1> QED
  BY <1>1, <1>2, Invariance, PTL DEF Spec, MapSpec, Map!Spec
=============================================================================
