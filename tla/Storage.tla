------------------------------- MODULE Storage -------------------------------
(***************************************************************************)
(* The storages of a device as libmtp.c keeps them: device->storage, a     *)
(* doubly linked list that LIBMTP_Get_Storage fills in the order of the    *)
(* device and sort_storage_by sorts in place, and what makes a storage fit *)
(* to be written to.                                                       *)
(***************************************************************************)
EXTENDS Integers, Sequences, FiniteSets

CONSTANT Store            \* storage ids, also the nodes of the list

Null == 0
Nowhere == -1             \* the -1 of get_writeable_storageid, 0xffffffff as an id
Unknown == 999            \* (uint64_t) -1: free space the device does not tell

ASSUME StoreAssumption == Store \subseteq 1 .. 9

\* What keeps a storage from being written to: it is ROM, it has no file
\* system in it (the low half of its id is 0), or it can only be read.
StoreKind == {"rw", "rom", "hollow", "readonly"}

Emptied == [head |-> Null, last |-> Null, nxt |-> [s \in Store |-> Null], prv |-> [s \in Store |-> Null]]

\* LIBMTP_Get_Storage adds a node behind the last one.
Append1(list, s) ==
  [head |-> IF list.head = Null THEN s ELSE list.head, last |-> s,
   nxt |-> [t \in Store |-> IF t = list.last THEN s ELSE IF t = s THEN Null ELSE list.nxt[t]],
   prv |-> [list.prv EXCEPT ![s] = list.last]]

\* Where so many links lead to, and the storages from a node on.
Ahead(list, node) ==
  LET Walk[n \in 0 .. 9] ==
        IF n = 0 THEN node
        ELSE LET s == Walk[n - 1] IN IF s = Null THEN Null ELSE list.nxt[s]
  IN Walk
From(list, node) ==
  LET walk == Ahead(list, node)
  IN [i \in 1 .. Cardinality({n \in 0 .. 9 : walk[n] # Null}) |-> walk[i - 1]]

-----------------------------------------------------------------------------
\* sort_storage_by: the first of the largest from oldhead on ...
Largest(list, oldhead, key) ==
  LET w == From(list, oldhead)
      i == CHOOSE i \in 1 .. Len(w) : /\ \A j \in 1 .. Len(w) : key[w[j]] <= key[w[i]]
                                      /\ \A j \in 1 .. i - 1 : key[w[j]] < key[w[i]]
  IN w[i]

\* Mutant: the new head still points back.
Unlink_KeepsPrev(list, s) ==
  LET before == list.prv[s]
      after == list.nxt[s]
  IN [list EXCEPT !.nxt = IF before # Null THEN [@ EXCEPT ![before] = after] ELSE @,
                  !.prv = IF after # Null /\ before # Null THEN [@ EXCEPT ![after] = before] ELSE @]

\* ... is taken out of the list, whose head it may be, ...
Unlink(list, s) ==
  LET before == list.prv[s]
      after == list.nxt[s]
  IN [list EXCEPT !.nxt = IF before # Null THEN [@ EXCEPT ![before] = after] ELSE @,
                  !.prv = IF after # Null THEN [@ EXCEPT ![after] = before] ELSE @]

HeadAfter(list, oldhead, s) == IF list.prv[s] = Null THEN list.nxt[s] ELSE oldhead

\* ... and put behind the last one of the new list.
Attach(list, newlist, s) ==
  IF newlist = Null THEN [list EXCEPT !.prv[s] = Null]
  ELSE [list EXCEPT !.prv[s] = newlist, !.nxt[newlist] = s]


\* The largest of what is left of the old list goes behind the new one, until
\* nothing is left.
Taken(x, key) ==
  IF x.oldhead = Null THEN x
  ELSE LET s == Largest(x.list, x.oldhead, key)
       IN [list |-> Attach(Unlink(x.list, s), x.newlist, s),
           oldhead |-> HeadAfter(x.list, x.oldhead, s), newlist |-> s]
Turns(list, key) ==
  LET Step[n \in 0 .. 9] == IF n = 0 THEN [list |-> list, oldhead |-> list.head, newlist |-> Null]
                            ELSE Taken(Step[n - 1], key)
  IN Step

\* At the end the list is closed and its head found from behind.
Behind(list, node) ==
  LET Back[n \in 0 .. 9] ==
        IF n = 0 THEN node
        ELSE LET s == Back[n - 1] IN IF list.prv[s] = Null THEN s ELSE list.prv[s]
  IN Back
Finished(list, newlist) ==
  [list EXCEPT !.nxt[newlist] = Null, !.head = Behind(list, newlist)[9], !.last = newlist]

SortedBy(list, key) ==
  IF list.head = Null THEN list
  ELSE LET end == Turns(list, key)[9] IN Finished(end.list, end.newlist)

-----------------------------------------------------------------------------
\* get_writeable_storageid skips the storages it knows to be unfit.
Writable(kind) == kind = "rw"

\* check_if_file_fits
Fits(size, free) == free # Unknown /\ size <= free
=============================================================================
