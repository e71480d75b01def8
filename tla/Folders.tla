------------------------------- MODULE Folders -------------------------------
(***************************************************************************)
(* LIBMTP_Get_Folder_List_For_Storage: the folders of the cache are put in *)
(* a ring, from which get_subfolders_for_folder takes those of a parent,   *)
(* descending into each while it goes through the ring.  The two links of  *)
(* a node serve both: they are next and previous in the ring, and sibling  *)
(* and child in the tree.                                                  *)
(***************************************************************************)
EXTENDS Integers, Sequences

Ring == 0           \* &head
NoNode == -1        \* NULL

\* A node goes behind the head of the ring.
Insert(ring, n) ==
  LET first == ring.sibling[Ring]
  IN [sibling |-> [ring.sibling EXCEPT ![n] = first, ![Ring] = n],
      child |-> [ring.child EXCEPT ![n] = Ring, ![first] = n]]
RingOf(folders) ==
  LET R[n \in 0 .. Len(folders)] ==
        IF n = 0 THEN [sibling |-> [m \in 0 .. Len(folders) |-> Ring],
                       child |-> [m \in 0 .. Len(folders) |-> Ring]]
        ELSE Insert(R[n - 1], n)
  IN R[Len(folders)]

\* Taken out of the ring, a node gets its place in the tree.
Moved(ring, n, children, siblings) ==
  LET before == ring.child[n]
      after == ring.sibling[n]
  IN [sibling |-> [[ring.sibling EXCEPT ![before] = after] EXCEPT ![n] = siblings],
      child |-> [[ring.child EXCEPT ![after] = before] EXCEPT ![n] = children]]

\* Where the walk goes on.  Mutant: where it would have before the descent.
Onward_Stale(before, after, n) == before.sibling[n]
Onward(before, after, n) == after.sibling[n]

\* get_subfolders_for_folder: what is left of the ring, and the first subfolder.  A walk
\* is its parameters and variables: the parent, the ring, the node it is at, the last found.
Walks(folders) ==
  LET Links == [0 .. Len(folders) -> Int]
  IN [parent : Int, ring : [sibling : Links, child : Links], iter : Int, found : Int]
Start(parent, ring) == [parent |-> parent, ring |-> ring, iter |-> ring.sibling[Ring], found |-> NoNode]
Subfolders(folders, root, wheel) ==
  LET From[w \in Walks(folders)] ==
        IF w.iter \notin DOMAIN folders THEN [ring |-> w.ring, first |-> w.found]
        ELSE IF folders[w.iter].parent # w.parent
          THEN From[[w EXCEPT !.iter = w.ring.sibling[w.iter]]]
        ELSE LET below == From[Start(folders[w.iter].id, w.ring)]
             IN From[[w EXCEPT !.ring = Moved(below.ring, w.iter, below.first, w.found),
                               !.iter = Onward(w.ring, below.ring, w.iter), !.found = w.iter]]
  IN From[Start(root, wheel)]

\* The tree as the program sees it.
TreeFrom(folders, links, first) ==
  LET At[n \in Int] ==
        IF n \notin DOMAIN folders THEN << >>
        ELSE << [id |-> folders[n].id, sub |-> At[links.child[n]]] >> \o At[links.sibling[n]]
  IN At[first]

\* From the root folder 0 or, if that has none, from top.
FolderTree(folders, top) ==
  LET zero == Subfolders(folders, 0, RingOf(folders))
      all == IF zero.first = NoNode THEN Subfolders(folders, top, zero.ring) ELSE zero
  IN TreeFrom(folders, all.ring, all.first)

\* What it should be: below each folder those it is the parent of, in their order.
Below(folders, root) ==
  LET B[p \in Int] ==
        LET of == SelectSeq(folders, LAMBDA f : f.parent = p)
        IN [i \in DOMAIN of |-> [id |-> of[i].id, sub |-> B[of[i].id]]]
  IN B[root]
=============================================================================
