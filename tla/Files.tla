-------------------------------- MODULE Files --------------------------------
(***************************************************************************)
(* Reading a file in parts or as a whole, and changing it in place: the    *)
(* calls of libmtp.c that look up a file, as Listings has it, and then     *)
(* move its data.  How much can be read is what the library believes its   *)
(* size to be; BeginEditObject, SendPartialObject, TruncateObject and      *)
(* EndEditObject change the file behind that belief.                       *)
(***************************************************************************)
EXTENDS Listings

\* h, pos: the file the program reads part after part, and how far it (or what is
\* handed to its handler) got; ended:
\* whether a part was empty; open: files the device has open for editing; dirty:
\* files changed since an EndEditObject succeeded; disk: what LIBMTP_Get_File_To_File
\* left, or how much the handler of LIBMTP_Get_File_To_Handler took.
VARIABLE file

EveryVar == <<AllVars, file>>
NoFile == [h |-> 0, pos |-> 0, ended |-> FALSE, open |-> {}, dirty |-> {}, disk |-> 0]
NoDisk == -1        \* there is no file, or else its size
Reset == [file EXCEPT !.h = 0, !.pos = 0, !.ended = FALSE]

\* A packet and the header of a container.
Packet == 3
Header == 1

-----------------------------------------------------------------------------
\* LIBMTP_GetPartialObject: not past the end, and not so much that the last packet
\* of the answer is full, which some devices hang on.
Least(a, b) == IF a < b THEN a ELSE b
Full(n) == n % Packet = Packet - Header
Asked(n) == IF scene.hangs /\ Full(n) THEN n - 1 ELSE n

At64 == Supports("GetPartialObject64")
Partial ==
  /\ pc = "fetch" /\ call.op = "partial"
  /\ LET size == reading.items[1].size
         n == Asked(Least(call.size, size - file.pos))
         there == dev[call.h].size - file.pos
         hung == scene.hangs /\ n = there /\ Full(n)
     IN \/ file.pos >= size /\ Said(TRUE) /\ file' = [file EXCEPT !.ended = TRUE] /\ Fine
        \/ /\ file.pos < size /\ ~At64 /\ (~Supports("GetPartialObject") \/ file.pos >= Word)
           /\ Said(FALSE) /\ file' = Reset /\ errors' = errors \cup {"part"} /\ UNCHANGED spent
        \/ /\ file.pos < size /\ (At64 \/ (Supports("GetPartialObject") /\ file.pos < Word))
           /\ \/ ~hung /\ there > 0 /\ Fine /\ Said(TRUE)
                 /\ file' = [file EXCEPT !.h = call.h, !.pos = @ + Least(n, there)]
              \/ (hung \/ there <= 0) /\ Fine /\ Said(FALSE) /\ file' = Reset
              \/ Fails /\ UNCHANGED errors /\ Said(FALSE) /\ file' = Reset
  /\ UNCHANGED <<device, storages, folders, cache, call, my, reading>>

\* LIBMTP_Get_File_To_File: what cannot be had whole is deleted, whether the object
\* could not be looked up, is a folder, or the transfer broke off or was cancelled.
Kept(ok, bytes) == IF ok THEN bytes ELSE NoDisk
GetFile ==
  /\ pc = "fetch" /\ call.op = "getfile"
  /\ LET folder == dev[call.h].fmt = "folder"
         size == dev[call.h].size
         Ends(ok, bytes) == Said(ok) /\ file' = [Reset EXCEPT !.disk = Kept(ok, bytes)]
     IN \/ folder /\ Ends(FALSE, 0) /\ errors' = errors \cup {"format"} /\ UNCHANGED spent
        \/ ~folder /\ Ends(TRUE, size) /\ Fine
        \/ /\ ~folder /\ \E bytes \in 0 .. size, why \in {"transfer", "cancelled"} :
                           Ends(FALSE, bytes) /\ Fault(why)
  /\ UNCHANGED <<device, storages, folders, cache, call, my, reading>>

\* put_func_wrapper: what the program's handler answers to n bytes, and how many
\* of them it took.  Mutant: how many is not looked at.
HandlerAnswers == {"OK", "ERROR", "CANCEL"}
Put_Partly(answer, took, n) == answer = "OK"
Put(answer, took, n) == answer = "OK" /\ took = n

\* LIBMTP_Get_File_To_Handler: packet after packet is handed to the program;
\* whatever goes wrong there, the transport cancels the transfer.
GetToHandler ==
  /\ pc = "fetch" /\ call.op = "gethandler"
  /\ LET folder == dev[call.h].fmt = "folder"
         left == dev[call.h].size - file.pos
         n == Least(IF file.pos = 0 THEN Packet - Header ELSE Packet, left)
         Took(k) == file' = [file EXCEPT !.pos = @ + n, !.disk = @ + k]
     IN \/ folder /\ Said(FALSE) /\ errors' = errors \cup {"format"} /\ UNCHANGED <<spent, file>>
        \/ ~folder /\ left = 0 /\ Said(TRUE) /\ Fine /\ UNCHANGED file
        \/ /\ ~folder /\ left > 0
           /\ \E answer \in HandlerAnswers, k \in 0 .. n :
                /\ Took(k) /\ UNCHANGED spent
                /\ IF Put(answer, k, n) THEN Goto("fetch") /\ UNCHANGED errors
                   ELSE Said(FALSE) /\ errors' = errors \cup {"cancelled"}
        \/ ~folder /\ Said(FALSE) /\ UNCHANGED file /\ \E why \in {"transfer", "cancelled"} : Fault(why)
  /\ UNCHANGED <<device, storages, folders, cache, call, my, reading>>

-----------------------------------------------------------------------------
\* LIBMTP_BeginEditObject, _SendPartialObject, _TruncateObject.  An answer may be
\* lost after the device did as it was told.
Changes(h, size) == dev' = [dev EXCEPT ![h].size = size]
Edit ==
  /\ pc \in {"begin", "write", "truncate"}
  /\ LET h == call.h
         open == h \in file.open
         Does1 == CASE pc = "begin" -> ~open /\ file' = [file EXCEPT !.open = @ \cup {h}] /\ UNCHANGED dev
                    [] pc = "write" -> /\ open /\ file' = [file EXCEPT !.dirty = @ \cup {h}]
                                       /\ Changes(h, IF call.size > dev[h].size THEN call.size ELSE dev[h].size)
                    [] pc = "truncate" -> /\ open /\ file' = [file EXCEPT !.dirty = @ \cup {h}]
                                          /\ Changes(h, Least(call.size, dev[h].size))
     IN \/ Supports("EditObject") /\ Said(TRUE) /\ Fine /\ Does1
        \/ Supports("EditObject") /\ Said(FALSE) /\ Fails /\ UNCHANGED errors
           /\ (Does1 \/ UNCHANGED <<dev, file>>)
        \/ /\ Supports("EditObject") /\ open = (pc = "begin")          \* refused
           /\ Said(FALSE) /\ Fine /\ UNCHANGED <<dev, file>>
        \/ ~Supports("EditObject") /\ Said(FALSE) /\ errors' = errors \cup {"edit"} /\ UNCHANGED <<spent, dev, file>>
  /\ UNCHANGED <<scene, used, room, storages, folders, cache, call, my, reading>>

\* LIBMTP_EndEditObject then has the object looked up again.
\* Mutant: it does not.
Ended_Kept == Return(TRUE, call.h)
Ended == Goto("updated")
EndEdit ==
  /\ pc = "end"
  /\ LET h == call.h
         Over(d) == [file EXCEPT !.open = @ \ {h}, !.dirty = d]
     IN \/ /\ Supports("EditObject") /\ h \in file.open /\ Fine
           /\ Ended /\ file' = Over(file.dirty \ {h})
        \/ /\ Supports("EditObject") /\ Fails /\ UNCHANGED errors /\ Said(FALSE)
           /\ file' \in {file, Over(file.dirty)}
        \/ Supports("EditObject") /\ h \notin file.open /\ Fine /\ Said(FALSE) /\ UNCHANGED file
        \/ ~Supports("EditObject") /\ Said(FALSE) /\ errors' = errors \cup {"edit"} /\ UNCHANGED <<spent, file>>
  /\ UNCHANGED <<device, storages, folders, cache, call, my, reading>>

\* The program reads on where the last part ended.
Continues == call'.op = "partial" /\ call'.h = file.h /\ ~file.ended
Elsewhere ==
  /\ AnyCall
  /\ file' = IF pc = "idle"
               THEN IF Continues THEN file ELSE IF call'.op = "gethandler" THEN [Reset EXCEPT !.disk = 0] ELSE Reset
               ELSE IF pc' = "idle" /\ call.op = "getfile" THEN [Reset EXCEPT !.disk = NoDisk] ELSE file

Everything ==
  \/ Elsewhere
  \/ (Partial \/ GetFile \/ GetToHandler \/ Edit \/ EndEdit) /\ UNCHANGED lost
Begun == Init /\ reading = NotReading /\ lost = {} /\ file = NoFile
Device == Begun /\ [][Everything]_EveryVar

-----------------------------------------------------------------------------
\* A program that reads a file part after part, until a part is empty, gets all of
\* it, unless an error was put on the stack or the file was changed and its editing
\* did not end with success: whatever sizes the library knew before the editing, and
\* for files longer than 2^32 bytes.  No part asked for hangs a device that hangs
\* on full packets, so reading only breaks off when a transfer does.
ReadsBack ==
  pc = "idle" /\ call.op = "partial" /\ result.op = "partial" /\ call.h \notin file.dirty =>
    /\ result.ok /\ file.ended => file.pos >= dev[call.h].size \/ errors # {}
    /\ ~result.ok /\ Faultless => "part" \in errors

\* LIBMTP_Get_File_To_File leaves a whole file behind or none; when
\* LIBMTP_Get_File_To_Handler says it succeeded, the handler took every byte of the
\* file, whatever it answered, and when it fails an error says so.
WholeOrNone ==
  pc = "idle" /\ result.op = call.op =>
    /\ call.op = "getfile" => file.disk = IF result.ok THEN dev[call.h].size ELSE NoDisk
    /\ call.op = "gethandler" => IF result.ok THEN file.disk = dev[call.h].size ELSE errors # {}
=============================================================================
