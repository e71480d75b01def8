--------------------------- MODULE MCObjectCache ---------------------------
\* A device with a music folder, a file in it, and a file at the top.
EXTENDS ObjectCache

MCContents == [h \in 1 .. 3 |->
                 [parent |-> IF h = 2 THEN 1 ELSE 0, folder |-> h = 1,
                  name |-> IF h = 1 THEN "Music" ELSE "other"]]

Max(c, u, f) == [calls |-> c, changes |-> u, faults |-> f]
Cacheds == {d \in Device : d.cached}

\* Cached devices that list properties all at once or one by one: three calls of
\* any kind, one failure.
Called == {[device |-> d, calls |-> CallNames \ {"folder"}, changes |-> {}, handles |-> Handle,
            max |-> Max(3, 0, 1)] : d \in {c \in Cacheds : c.proplist # "none"}}
\* Any device: its user makes two changes, one call, one failure.
Used == {[device |-> d, calls |-> {"delete", "rename", "list", "folder", "meta"},
          changes |-> ChangeNames, handles |-> Handle \ {5}, max |-> Max(1, 2, 1)] : d \in Device}
All == Called \cup Used
\* Cached devices: a move and a listing.
Moves == {[device |-> d, calls |-> {"move", "list"}, changes |-> {}, handles |-> Handle,
           max |-> Max(2, 0, 0)] : d \in Cacheds}
=============================================================================
