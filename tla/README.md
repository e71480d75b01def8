# A TLA+ model of libmtp

libmtp talks MTP, the media extension of PTP, to players, phones and cameras
over USB. This directory models the parts of it in which steps of several
parties interleave (library, device, the device's own user, the program), in
which a call is a chain of transactions each of which may fail, or in which
index, byte and protocol arithmetic decides; it checks what they promise, and
proves part of it. Paths are those of the source tree (`src/src/libmtp.c`,
written `libmtp.c`).

## 1. The system

| Component | State it keeps | Operations | What makes it correct |
|---|---|---|---|
| Object cache array (`ptp.c`) | `params->objects`, sorted by handle | find, find-or-insert, remove, flush, bulk load and sort | always strictly sorted; the entry returned is the one asked for; one entry per handle; searches end |
| PTP transactions (`ptp.c`) | transaction id, session | `ptp_transaction_new`, `ptp_opensession`, CloseSession | success only with the response to one's own command; commands carried out at most once and in order; every call returns |
| USB bulk transport (`libusb1-glue.c`) | surplus response, USB timeouts, quirk flags | send request, send/get data, get response, cancel, open and reset | nothing left in the pipe, also after a cancel; a new program can open after one that died; byte counts right at packet boundaries |
| Object list and cache (`libmtp.c`) | which handles are known, default folders | `flush_handles` (fast or walking), listings, delete, move, copy, rename, create, send, metadata | no stale entry, complete listings, whatever happens between two transactions |
| Storage (`libmtp.c`) | list of storages and their free space | get and sort storages, choose one for a file | the sorted list is a list; a file that fits somewhere is not refused |
| Tracks, playlists, albums, files (`libmtp.c`) | object properties and references on the device, the cache of them | send, create, update, list, read in parts, edit in place | what succeeds is on the device as asked, the cache agrees, listings are right and complete |
| Samsung playlists (`playlist-spl.c`) | text files on the device | convert to and from playlists | writing and reading give the same tracks |
| Datasets (`ptp-pack.c`), values (`libmtp.c`) | whether object sizes have 64 bits | pack, unpack, sort and group, fit a value to its description | what arrived is read and nothing else; no property ends up at another object; stored values are allowed ones |
| Device discovery (`libusb1-glue.c`, `libmtp.c`) | raw devices, handles, claims, sessions | detect, probe, open, search, release | a device the program holds works whatever else is opened; no handle is lost |
| Events (`libusb1-glue.c`, `libmtp.c`) | interrupt transfers under way | blocking and asynchronous read | each callback called once, none after the release |
| Cameras (`ptp.c`, `ptp-pack.c`) | `canon_props`, the queues of events, `dpd_cache`, `params->objects`, storage ids | read EOS events, describe and set properties, list folders, check for events | what the library says of a camera is what the camera reported, no older than `cachetime`; no event is lost |
| Capabilities (`libmtp.c`) | extensions, bug flags, full battery, file types | open, file types, supported properties and operations, names, samples | what the library says a player can do, it can; names and samples read back |
| MTPZ (`mtpz.c`) | keys, random number, hash | load the keys, handshake | a handshake ends with the hash of the answer to its own request |
| Other USB backends (`libusb-glue.c`, `libopenusb1-glue.c`) | as the default one | as the default one | as the default one |
| Unicode, utilities, other vendor operations, examples | | | see section 6 |

How they interact: a call of `libmtp.c` asks the cache for objects
(`ptp_object_want`), which on a miss runs PTP transactions, which run over the
bulk transport. The cache array lives in the same `PTPParams` as the transaction
id, the surplus buffer and the `ocs64` flag of the datasets. Nothing in the
library is locked: one thread makes calls, a second one may sit in
`LIBMTP_Read_Event`, and libusb runs the callbacks of asynchronous events in
any call that waits for the bus. The progress callback of a transfer may ask for
it to be cancelled. On the other side the device answers one command after the
other, late, cut short or never, may be unplugged and come back as another, and
its user changes its objects between any two transactions.

Hard to test are: answers that arrive after the host gave up on them; cancelling
half way; a program that dies with a session open; the many ways responders
frame a data phase; changes by the user during a walk of the folders; a failure
at each single step of a call that makes ten; what a device that lacks an
operation makes of a call; devices that come and go between detecting and opening;
the boundary cases of the binary search and of sizes in packets. The list under
`hazards` in PROJECT.json gives each at the line where it bites, with the
properties that would catch it.

## 2. Modules

    ObjectMap  <--implements--  ObjectArray  <- MCObjectArray, ObjectArrayProofs
    MtpCalls   <--implements--  PtpTransaction  <- PtpPorts  <- MCPtpTransaction,
                                  PtpTransactionFlow  <- PtpTransactionProofs  <- PtpTransactionAnswers
    UsbBulk  <- UsbPorts  <- MCUsbBulk, UsbBulkProofs
    ObjectCache  <- MCObjectCache, ObjectCacheProofs
    Storage  <- Library  <- Listings (with Folders)  <- Files  <- MCLibrary, LibraryProofs
    Interfaces, Mtpz  <- Connection  <- ConnectionUsb0  <- MCConnection, ConnectionProofs
    Spl  <- MCSpl
    Datasets  <- Values  <- CameraEvents  <- CameraProps  <- CameraFolders  <- MCDatasets
                 Values  <- Capabilities  <- MCDatasets

What the program does and which device it meets is a *scenario*: a record with the
device, the calls and the bounds, one of the constant `Scenarios`. The `MC`
modules list the scenarios, so that one run asks a question of many devices.
`spent` counts what a scenario bounds (calls, failures, timeouts, moves, ...).

**ObjectArray** is the array of `ptp.c` 9486-9563 with its index arithmetic: one
action per turn of the loop of `ptp_find_or_insert_object_in_cache` (`Probe`),
one for the last two comparisons and the insertion (`Place`); `Fill`, `Keep` and
`Kill` are the three ways `ptp_object_want` ends. Indices count from 1. What
is known of an object is abstract. That `qsort` sorts is taken from the C
library (`Load` yields a sorted array).

**ObjectMap** is what the cache promises: a partial map from handles to
information, in which a call changes the entry of the handle it names and no
other. `ObjectArray` implements it (`MapSpec`) under `AsMap`, which forgets the
order and the search.

**PtpTransaction** puts host and responder on either end of a bulk pipe. Host:
`pc` walks through `ptp_transaction_new` (request, data, response), `tid` is
`params->transaction_id`, `surplus` is `params->response_packet`, `tries` the
counter of the response loop, `conn` where `configure_usb_device` is. Responder:
commands received (`outq`), answer being sent (`reply`), packets on the pipe
(`pipe`), `session`, whether its headers are `broken` (device flag
IGNORE_HEADER_ERRORS). Commands carry a serial number that is not on the wire
(`n`), so that a property can say whose answer was taken. Actions of the host
are the transport's functions: `GetData`/`GetRest` for `ptp_usb_getdata`,
`GetResp` for `ptp_usb_getresp` and the loop around it, `ReadCancel`, `DevStat`,
`Drain` for `ptp_read_cancel_func`, `CancelReq` for the cancel in
`ptp_transaction_new`, `Connect`, `OpenReset`, `OpenRetry` and `Opened` for the
opening of the session. `Crash` is a program that ends without releasing.

**MtpCalls** is what a caller may rely on: each command is carried out at most
once, in order, and it has been when the call reports success.

**UsbBulk** is the same transport below PtpTransaction, with bytes: `pipe` are the
packets on their way to the host, `wire` those the device received. Bytes are
numbers, so that a property can say which ones an object got. `GetData` is
`ptp_usb_getdata` with its first packet, and its ways on are `Stream` (the reads
after a full packet), `ReadExtra`, `ReadSized` and `ReadZero` (`ptp_read_func` for
the rest of the length). `Send` is `ptp_usb_senddata`; `Fill`, `Put` and
`PutDone` are the two loops of `ptp_write_func`, `Wrote` its zero-length packet and
what `ptp_usb_senddata` does next. A device is one that sends header and data apart or not,
ends whole packets with a zero-length packet or an extra byte
(NO_ZERO_READS), and may put the response or a stray byte behind short data. What
libusb does with a packet larger than the read (an error) or a read that
finds nothing (a time-out) is its documented behaviour.

**ObjectCache** models what `libmtp.c` does to the set of known objects: `objects` is
the cache, `dev` the objects of the device, one action per transaction of
`flush_handles` (`Fast`, `WalkList`, `WalkTake`, `WalkReturn`, `FixUp`, with the
recursion of `get_handles_recursively` as the stack of frames it is), of
`ptp_object_want` (`WantInfo`, `WantProps`), and one per call that changes
objects. A device is opened cached or uncached and can list all properties, those of
one object, or none (`mode`). `doubt`, `unlisted` and `since` are history: what the
library could not know, what a listing is known to lack, and what has been there
since a walk began. `music` stands for all default folders; there is one
storage.

**Storage** is `device->storage`, the doubly linked list, with the in-place
sorting of `sort_storage_by` link by link (`Turns`, one after the other).

**Library** is what puts things on a device, one action per transaction:
`Suggest` and `Fit` choose the storage, `Place` the folder, `Props`/`Descs` ask
which properties can be set, `SendInfo`/`SendData`/`SendFromHandler` send (from a descriptor, a file or
a handler of the program), `SetOne`, `SetList` and
`SetRefs` set properties and references, `Updated`, `AddInfo`, `AddProps` and `Reread`
put the object into the cache, and `RereadProps` takes from there where it is. A device supports some of
`Operations`, and the code takes another path for each. Of the properties it has, GetObjectPropsSupported
names some (`listed`) and the `GetSet` of a description forbids to set some (`fixed`); the code sets what is
`Settable`, and passes over the rest. A device may have none of the operations
that announce an object (`Unannounced`). Here an entry of the cache holds an object info, a
property list, both or neither, as `ptp_object_want` leaves it; how
`flush_handles` goes about its work is in ObjectCache (`Flushed` is its result).
A string (`title`) and a number (`track`) stand for the many properties.

**Listings** adds the calls that list: `Begin...` starts one, `NextItem` takes the
next handle, `Look`, `WantList`, `Supported`, `Field`, `Name`, `Members` get what is to be
known of it, from the property list in the cache or property by property from
the device. **Folders** is the ring and tree of
`LIBMTP_Get_Folder_List_For_Storage`, in which the two links of a node change
their meaning while `get_subfolders_for_folder` walks. **Files** adds reading a file
whole (to a file, or to a handler of the program that may take less than it is
given) or in parts (`Partial`), and changing it in place. Sizes have 64 bits in a
property and 32 in an object info (`Word` stands for 2^32).

**Interfaces** are the decisions made from USB descriptors
(`probe_device_descriptor`, `find_interface_and_endpoints`), as operators.
**Mtpz** are the messages of the handshake, with symbols for signatures, hashes and
ciphers. **Connection** uses both: units are attached at addresses and moved; the
library scans and probes them (`Scan`, `Probe`, `Names`, `AskMicrosoft`), opens one
(`Find` to `Ready`, with a reset and second attempt, and the steps of the handshake),
searches, and releases (`CloseSession`, `CloseUsb`). `handles` are the open
libusb handles, and whether each has claimed its interface. Events are
`Listen`, `Callback` (at any time) and `Wait`.

**UsbPorts**, **PtpPorts** and **ConnectionUsb0** are the same three levels on the
other two USB libraries. Their functions were copied from one backend to the other,
so that each action there is one of the default backend under a scenario with another
`port`, and what differs is a guard on `port` in the module below: a read that times out
is PTP_ERROR_IO (`TimeoutCode`), no `ptp_read_cancel_func` drains a cancelled read
(`ReadAborted`), and `InitUsb0` is an `init_ptp_usb` of its own, which goes on when the
interface cannot be claimed.

**Spl** are the `.spl` playlists with their text byte by byte, because the reader
looks for line ends in bytes and the text has two bytes a character. `Create`,
`Fetch`, `Compare`, `Delete` and `Rename` are the steps of creating, getting and
updating; paths are looked up and resolved in the object tree.

**Datasets** packs and unpacks datasets as `ptp-pack.c` does, from answers cut
short at any byte; `ocs64` is what the library learns from them. `UnpackDevice` goes on with the
next string behind one that was cut, which it then reads from inside it, as `ptp_unpack_DI` does. A byte has `Byte`
values (4 in the run), so that handles of four bytes wrap at 256 and the
comparison of `qsort` with its overflow can be exhausted. **Values** adds what
`libmtp.c` makes of a description: the value `adjust_u16`/`adjust_u32` store in
place of the one asked for, and what `LIBMTP_Get_Allowed_Property_Values` says. `Described` is the description
that is left when an answer was cut: a list without its first value is `freed` and still has its
number of values, and what is read of it then is any of `Readings`, or ends the program (`MayEnd`).

**CameraEvents** is `ptp_unpack_EOS_events`: the first pass over the records of an
answer, which counts them, and the second, which makes events and fills
`canon_props`, with the encodings of image formats, focus points, custom functions and the
fields of OLCInfoChanged. A mask without a field is counted as no event and makes one while the version of the
fields is unknown (`Uncounted`); `within` is history, whether the events of each answer so far fitted into the room
the first pass made, and `crowded` whether an answer had two such masks. **CameraProps** adds time: `cache` is `dpd_cache`, filled from
Sony's answer with all properties, from `canon_props`, or by asking for one; `until` is
history, when a value was the right one last. **CameraFolders** adds `ptp_list_folder` and
what it keeps in `params->objects` (`kept`), the events of Nikon, Canon and ordinary
cameras (`pending` in the camera, `queue` in the library, `coming` for history), and what
StoreAdded and StoreRemoved make the library forget. **Capabilities** is a player as
opened by `LIBMTP_Open_Raw_Device_Uncached`: its extension descriptor as a sequence of words, the
flags that Android, Sony and Aricent devices get, what the calls that describe a player
answer from them; `keeps` is what the player has, `promised` what it ought to be.

## 3. Runs

| Run | Question | Bounds |
|---|---|---|
| MCObjectArray | array sorted, returned entry right, implements the map, search ends | 5 handles with gaps, 2 informations; all lengths 0 to 5 |
| PtpCalls | who gets which answer, what is left over, every call returns, implements MtpCalls; with all framings, broken headers, a timeout, a cancel, a crash and two connections, or two timeouts, two data operations and a refused transaction id; on the other USB libraries | 5 commands |
| PtpStaleData | *violation*: late data taken for one's own | 4 commands, one timeout |
| UsbBulk | every size, kind of device, direction, USB library, one fault: bytes right, ends found and marked, nothing left over, every call returns | packets of 5, blocks of 3 packets, sizes 0 to 34, 2 calls |
| UsbExtraByte | *violation*: the extra byte of a device without zero-length packets is taken for data | sizes around the boundaries, 1 call |
| UsbShortFile | *violation*: sending a file shorter than announced never ends | as above |
| CacheCalls | calls of every kind on a cached device; one call on any device whose user adds, renames and deletes meanwhile: entries right, listings complete, calls return | 3 calls and one failure, 5 handles; 1 call, 2 changes and one failure, 4 handles |
| CacheMove | *violation*: a moved object is missing from the listing | 2 calls |
| Library | sending, creating, updating, reading, listing, sorting storages, reading and editing files, with six sets of supported operations, with properties that are read-only or not listed, with nothing on the device, and with no operation to announce an object: what succeeds is so, the cache and every listing agree | 2 calls and one failure or 3 calls without, for read-only properties 2 calls without, for an empty device 2 calls and 2 failures; trees of 4 folders with every parent each; 27 storage sizes times every kind; 6 calls on a file |
| Connection | detect, probe, open, search, release, authenticate, listen: devices in hand work, searches return what they promise, no handle is lost | 2 devices at 3 addresses, 9 kinds of descriptors, two USB libraries; 2 calls and 2 failures, or 3 calls and 3 moves, or 5 calls |
| Spl | playlists read back as written, updated as asked, others untouched | 3 calls, one failure; same names at every depth, both versions |
| Datasets | what arrived whole is read, up to a string of a device info that was cut inside; one object per handle, layouts kept, stored values allowed; what is known of a camera and of a player is so | every cut of every dataset, every order `qsort` may return; 3 calls for what is remembered; cameras: 2 seconds of `cachetime`, 4 of time, 5 calls, 2 acts of the user; players: 3, and 5 calls |

Why the bounds are enough. An array of five entries has every case of the
search: an insertion in front, behind and between, brackets of odd and even
width, and two probes before the last pair. In the transactions a left-over
answer can be met by the next command, by the one after it, and by an
OpenSession, which needs four commands after the one that timed out at most; ids of a second session
overlap those of the first after two. In the cache, a call, a second one on what the first
one left, and a listing see each way two updates combine; the contents (a
default folder, a file in it, a file beside it) make a walk descend, come back
and go on. The bytes are scaled down (packets of 512, blocks of 0x4000, headers of
12 bytes in the code); sizes up to 34 have every remainder of a packet and a
block, with nothing, one and two blocks before it, and the two calls
show what the first one leaves to the second. In Library a call leaves its
mark in the cache entry, the property list, the default folders and the storage list,
all of which the next call reads and a third one would read in the same
way; a failure is injected at every transaction of either. Four folders
make a ring in which the descent takes out the current, the next and the last
node. A file of 5 or 7 bytes lies on both sides of `Word`, takes several parts,
and 6 calls read, begin, write, truncate, end and read again. In Connection a second device is there to
be disturbed, one address is free to move to, and a handle lost or a session left
open shows in the call after. In Datasets, Byte = 4 keeps the order
of magnitude between the widths, and the lists hold handles more than half a range apart. The records of an EOS
camera keep their sizes, but the codes of properties and events are numbered from 1, 3 of the 13 OLC
fields and 4 bits of their mask are there (so that the mask has a bit without a field), and
Sony's codes begin at 8 in place of 0x200. A `cachetime` of 2 has an entry that is fresh, on its
last second and expired, with a call and a turned dial before each. Two cards with a
folder and a file each, one file to come, make every listing have something that belongs elsewhere.
Of the 45 file types and the many properties seven and three are there: the tables are
one to one, and these have the first, the last, and the two that are forgotten or added.

`CHECK_DEADLOCK FALSE` is set in the runs with bounds on calls: when these are
used up the model rightly stops. ObjectArray never stops and is checked.

Fairness. `PtpTransaction`: the host's blocking call goes on until it returns
(`WF_vars(Host)`: it is one thread in a loop, and a read without data times out),
and a responder with something to do goes on (`WF_vars(Responder)`). A read can
time out whenever nothing is outstanding, or, up to its bound, before the
answer comes. `ObjectCache` and `ObjectArray`: the library goes on with a call
that has begun; so do the host and the device in `UsbBulk`. Nothing makes a program call,
a device move or a user act. Library, Connection, Spl and Datasets state safety only.

Each property of a passing run has a mutant in PROJECT.json: an operator with a plausible
bug (`..._Kept`, `..._Once`, `..._Always`, ...), next to the definition it
stands in for, with which TLC finds the property violated.

### What the violations show

* `DataIsOwn`: after a read timed out, the data phase that comes late is
  delivered to the next transaction of the same operation. `ptp_usb_getdata`
  checks type and code of the container (`libusb1-glue.c` 1424-1440) and never
  its transaction id, while a late *response* is recognised (`ptp.c` 277-290).
* `ExtraDiscarded`: after a full first packet `ptp_usb_getdata` reads on until a
  short read (`libusb1-glue.c` 1467-1485), and on a device flagged NO_ZERO_READS that
  is the one with the extra byte, which ends up in the object.
* `SendReturns`: a data handler with nothing left returns no bytes and no error
  (`fd_getfunc`, `ptp.c` 417), and the loop of `ptp_write_func` waits for more. The
  test of `ptp_usb_senddata` for a write of nothing (`libusb1-glue.c` 1366) is
  never reached.
* `AllFiles`: `ptp_moveobject` takes the object out of the cache and nothing
  puts it back, so the file listing of a cached device lacks it.

### Met while modelling, without a run

Transport and transactions:

* When a responder refuses an operation with a data-in phase, the caller sees
  PTP_ERROR_DATA_EXPECTED in place of the response code, which is dropped
  (`ptp.c` 255).
* A write that takes only a part of a chunk is continued, and then the last part
  alone is compared with the chunk (`libusb1-glue.c` 1132): the function ends
  early. In the first write of a data phase nothing notices; `SendFramed` is about
  writes that take everything.
* An error response is returned before its transaction id is compared
  (`ptp.c` 275), so an old refusal can be taken for one's own; for this reason
  `OkIsOwn` speaks of successes.
* The `transaction_id += 10` of the OpenSession retry (`libusb1-glue.c` 2335) is
  undone by `ptp_opensession`, which starts again at 0 (`ptp.c` 1936).
* Two programs that end without closing, each with a response unread, are enough for the third to take an
  old success for its own command: nothing but the id tells sessions apart (section 4).
* OpenSession fails after more than two left-over responses, or one old refusal
  (hence the last part of `OpensAfterCrash`).
* A second surplus response overwrites the buffered one, which is not freed
  (`libusb1-glue.c` 1508); the status loop of `ptp_read_cancel_func` has no end while a
  device says it is busy; ids wrap after 2^32 transactions and are compared with `<`.

Cache and storage:

* `get_handles_recursively` abandons the rest of a folder at a bad handle
  (`libmtp.c` 2865-2870), though it says it tries to ignore it; `WalkFinds`
  makes that exception.
* `LIBMTP_Copy_Object` adds nothing to the cache; deleting a folder leaves the
  entries of what was in it (the exceptions of `FullListing` and `NoStale`);
  formatting a storage leaves the cache full.
* A unique name may be that of an object a refused send left behind: looked up as a parent it has a
  blank entry, which `check_filename_exists` (5689) passes over; `AsAsked` speaks of the entries that have an info,
  at the moment the object has been created.
* A file sent with parent 0 goes to the default folder (`libmtp.c` 6297-6330),
  and default folders are never forgotten, also when they are gone or, after
  `LIBMTP_Get_Storage` sorted the list, belong to another storage than the first.
* `get_suggested_storage_id` asks the cache for the parent, also for 0xffffffff,
  and leaves an entry of that handle behind.
* A string or number set with `set_object_string`/`set_object_u32` leaves the cached
  property list as it was, from which `get_..._from_object` then answers.
* A create or send that fails half way leaves an object on the device that the cache
  lacks (`lost` in Library); an update that fails half way leaves old values in it.
* A request for a file's 64-bit size that fails makes the file look empty, or
  4 GiB shorter, to `LIBMTP_GetPartialObject`; the lost answer of an EndEditObject leaves
  the old size.

Playlists, folders and values:

* When GetObjectPropsSupported fails, an object is sent without its name.
* A property that GetObjectPropsSupported does not name, or whose description says it is read-only, is passed
  over: nothing is put on the error stack and the call returns 0 (`libmtp.c` 6418, 6577, 6741, 8118, 8248). A
  track can be updated "successfully" with none of its values on the device; `AsAsked` claims
  the values of `Settable` properties, and that the others stay as they were. One by one, `update_abstract_list` does not
  look at the description, so there the device refuses the property and the error is recorded.
* On a device with neither SendObjectPropList nor SendObjectInfo, `send_file_object_info` and `create_new_abstract_list`
  announce nothing and go on (6520-6525): the SendObject of a file is then refused, the tracks of a list are too, and
  a list without any is "created" as object 0, of which `AsAsked` claims nothing.
* A track number or duration of 0 is sent with a list of properties, where a comment (6535-6540) says it is discarded;
  one by one it is.
* A local file that cannot be opened is the one failure of a send that leaves nothing on the error
  stack (the exception at the end of `AsAsked`).
* Folders below parent 0xffffffff are dropped from the tree when any folder is below 0.
* In `.spl` files names with a character of low byte 0A or 0D are misread, an
  unreadable file never ends the loop that splits it, and a track that is
  not found gets the id of the last folder looked at.
* `qsort` gets a comparison that is not an order for handles more than 2^31 apart
  (`ptp-pack.c` 1264). One object may then become several entries, and `OnePerHandle` is claimed
  only of lists whose handles the comparison does order.
* Behind a string of a device info that was cut `ptp_unpack_DI` goes on with the next one (`ptp-pack.c` 328-338), from the
  byte behind the length of the one that was cut (73), so that the version, say, is read from inside the model. `ReadsWhole`
  claims the parts that arrived whole before it, and does not say what the ones behind it are.
* When a list of allowed values ends before its first one, `ptp_unpack_OPD` frees it but leaves `FormFlag` and
  `NumberOfValues` (1041-1055, 1082); `ptp_mtp_getobjectpropdesc` ignores the failure (`ptp.c` 5235), and
  `LIBMTP_Get_Allowed_Property_Values` and `adjust_u16`/`adjust_u32` read the memory that was freed. `StoresAllowed`
  leaves out such a description.
* The step of a range is rounded down from its maximum, so the result may lie
  below a minimum that is no multiple of the step; a description cut short
  yields a step of 0, by which `adjust_u32` divides.
* Any failure of a receiving handler, a full disk too, is reported as a cancelled transfer.

Opening:

* A failed open keeps its libusb handle and its claim (`Owned` and `LosesNothing`
  say of which devices that is *not* so).
* An answer of the handshake from the same second is accepted again: the random
  number is seeded with the time.
* With libusb-0.1, probing a device whose driver cannot be detached returns without
  `usb_close` (`libusb-glue.c`, about 390). Opening a device a second time fails to claim it, which a comment
  (about 1710) calls harmless; its OpenSession is refused, the device is reset, and the first
  one has lost its session.
* In `libopenusb1-glue.c` `ptp_usb_event` takes the result of the read, 0 when it succeeded, for its length, so
  that no event ever arrives.
* `params->device_flags` is copied from the table (`libmtp.c` 1955) before the flags of Android,
  Aricent and Sony are added to those of the raw device (2067-2078: "force-assign these bug flags"). So
  `LIBMTP_Create_Folder` (7619) and `ptp_object_want` (`ptp.c` 9658), which look at
  `params->device_flags`, never see BROKEN_SEND_OBJECT_PROPLIST and BROKEN_MTPGETOBJPROPLIST on a device
  that is not in the table.

Cancelling before the data: `libmtp.h.in` 480-481 says of the progress callback "if anything
else than 0 is returned, the current transfer will be interrupted / cancelled". The callback is first called
while the request is written, and a cancel there ends `ptp_transaction_new` at once (`ptp.c` 244),
after the device has its request: the answer is left for the next transaction, as it is after
a time-out. `LeavesNothing` and `OwnAnswer` except it.

Two of the properties of PtpTransaction turned out narrower than their runs, when they were proved:

* The second cancel. A read that is cancelled when data and response came in one packet leaves the
  response in `params->response_packet` (`libusb1-glue.c` 1503-1507), which `ptp_read_cancel_func`
  does not look at. The next data phase takes it for its header and fails, and what the device
  sends for that one stays on the way, where the second cancelled transfer then leaves it. `LeavesNothing`
  speaks of the first.
* A device that refuses an OpenSession. A program that crashed in LIBMTP_Release_Device leaves the
  response to its CloseSession, which from the Leica of `ptp.c` 279 has transaction id 0. The next
  OpenSession, also 0, takes it for its own; the refusal of that OpenSession is the answer of the first
  call, and the program goes on without a session (one crash, two connections, 30 steps).
  `InSession` excepts it.

Cameras (none of this is called by `libmtp.c` itself):

* An expired entry of `dpd_cache` is freed in its place and a new one added behind it, which is
  never found again: after that every call asks the camera. A control that a Sony camera no longer sends
  is answered with success and no type; the first miss leaves an empty entry.
* `ptp_canon_eos_setdevicepropvalue` changes `canon_props` and leaves `dpd_cache` as it was, up to `cachetime`.
* A GetEvent without data leaves the events of the answer before it to be counted again; an answer
  whose records make no event ends `ptp_check_eos_events`, with more to come.
* An OLCInfoChanged with a mask without a field is counted as no event (`ptp-pack.c` 1893-1897) and makes one before its
  version is known (2430-2435). There is room for one more event than was counted; with two of these in an
  answer the second pass drops the records behind them, or writes behind the array. `KnowsCamera` says that the events fit and
  none is lost as long as no answer had two (`crowded`).
* The room for a list of image formats does not count all of a second entry, whose compression and
  size of 0 make it 0xFF; nothing compares the size of a record with the width of the value in it.
* In `ptp_list_folder` DIRECTORY_LOADED is set before the camera is asked: after a listing that failed the next one
  succeeds with whatever is known. A file whose ObjectInfo fails once is gone from its folder
  until the cache is flushed.
* After a flush the root of a second storage is listed empty, unless it is asked for without children.
* Listing a root for the second time tags the files of all folders with parent 0, which a comment says is
  avoided. The workaround for an object that is its own parent (`ptp.c`, about 3449) is never
  reached: the handle is in the cache by then.
* A Nikon event answer cut short loses its events; `storagechanged` is set and never read.

Capabilities:

* An extension after the last semicolon is not seen.
* `LIBMTP_Get_Supported_Filetypes` makes room for one more than the formats of the player; where both OGG
  and FLAC are forgotten (Cowon, `music-players.h` 1488-1515) and every format is known, it writes one behind.
  It lists folders and playlists, which its description says it does not.
* A failed description of the battery leaves one that was never filled, which is read and freed.
* `LIBMTP_Get_Secure_Time` and `LIBMTP_Get_Device_Certificate` leave the string untouched where their description
  promises NULL; the results of `ptp_mtp_getobjectpropdesc` and `set_object_u32` are
  not looked at for samples, and a new sample keeps the cached width and height of the old one.

## 4. Proofs

Modules named `...Proofs`, PtpTransactionFlow and PtpTransactionAnswers hold what TLAPS proves. A theorem speaks of every value of the constants, hence of every scenario: any
bounds, any number of devices, objects, calls and failures. What it assumes of the constants are
the named assumptions of the module it is about: `HandleAssumption` (handles are positive, and
finitely many), `InfoAssumption`, `ScenarioAssumption` (what a scenario is a record of),
`RefusalAssumption` (a refusal is none of the codes the library tells apart),
`ContentsAssumption` (what is on the device at first is a tree below the root),
`CallAssumption` (what a call of the library is a record of),
`UnitAssumption` (`None` is no device), `StoreAssumption` (no more than nine storages), and for UsbBulk `SizeAssumption` (a packet holds two headers), `BlockAssumption` and
`FirstAssumption` (a block, and the first write with its header, are whole packets, as 0x4000 and 1024 are of 64, 512 and 1024).

| Module | Theorem | What holds in every reachable state, or of every step |
|---|---|---|
| ObjectArrayProofs | `TypeCorrect`, `AlwaysSorted`, `AlwaysBracketed`, `AlwaysRightObject` | the array is sorted, the bracket never excludes the handle, the entry returned is the one asked for |
| | `Implementation` | the array implements ObjectMap |
| PtpTransactionFlow | `TypeCorrect`, `FlowAlways` | types; commands arrive in order, each once |
| PtpTransactionProofs | `OwnResponses`, `OwnResponsesOfTwo` | `OkIsOwn`, in the first two connections |
| | `TransactionsAreCalls` | transactions implement MtpCalls, with at most two connections |
| | `OpensUnlessRefused` | `OpensAfterCrash`, for any number of connections |
| PtpTransactionAnswers | `OrderAlways`, `AnswersAreOwn` | without faults nothing but the answer to the current command is on its way; `OwnAnswer` |
| | `NothingIsLeft` | `LeavesNothing`, with at most two connections |
| | `SessionIsOpen` | `InSession`, for any number of connections |
| UsbBulkProofs | `SendsFramed` | `SendFramed`, with any of the USB libraries |
| | `ReadsExactly`, `NothingIsLeft` | `DataExact`, `NothingLeft`, likewise |
| ObjectCacheProofs | `TypeCorrect`, `NoStaleAlways` | `NoStale` |
| | `WalkFindsAlways`, `WholeAlways`, `FullListingAlways` | `WalkFinds`; the cache of an undisturbed device is whole; `FullListing` |
| LibraryProofs | `CacheIsRight` | `CacheAgrees`, for Library with Listings and Files |
| | `CallsDoAsAsked` | `AsAsked`, likewise |
| | `PartsReadBack`, `WholeFiles` | `ReadsBack`, `WholeOrNone` |
| | `StoragesAreSorted`, `RoomIsFound` | `StorageSorted`, `SendsIfRoom` |
| ConnectionProofs | `InvAlways`, `OwnedAlways`, `LosesNothingAlways`, `EventsAlways` | `Owned`, `LosesNothing`, `EventsAccounted` |
| | `AgreedAlways` | `Agreed`, with either USB library |

**ObjectArray.** `Sorted` is not inductive alone. An insertion keeps the order only if
everything before the gap is smaller and everything after it larger, which is
what the bracket says when the loop is left; and the bracket survives a probe
only because the array is sorted. So `IInv == TypeOK /\ Sorted /\ RightObject /\
Bracketed`; `RightObject` is needed because a removal behind the pointer must
hit the entry of the handle. `MakeRoomSorted`, `CloseGapSorted` and
`ListingsSorted` say what insertion, removal and bulk load do to a sorted array,
`InsertionPoint` that the three cases of the insertion index are right, and
`PlaceKeeps`, `ProbeKeeps`, `Inductive` that every step keeps `IInv`. For the
implementation, `MapEntry` and `MapUnique` say that in a sorted array the map
and the positions agree, `RefinesAdd`, `RefinesForget`, `RefinesLearn`,
`RefinesLoad` what each change of the array is to the map, and `StepRefines`
takes them together, one case per action.

**PtpTransaction.** Three invariants, each resting on the one before. `Types` are the types.
`Flow` says where the host is in a connection (`Place`: in an open connection the next
id is one more than that of the current command), that every packet answers a
command that was sent (`Traffic`), that commands lie on the wire in the order they were
issued (`InOrder`), and that the device has carried out none that is younger than those
(`Ahead`); so it carries each out at most once. `Session` says which transaction ids
what is left over can have: ids of the session, growing with the serial numbers, or
those of an OpenSession or CloseSession. A response with the id of the current command is then the
response to it, which is why the comparison in `ptp_transaction_new` is enough and `OkIsOwn` holds, and
with it the refinement (`CallsStep`, one case per action). `Session` holds up to the
second connection only, and so does what rests on it. With the third, `OkIsOwn` and `CallsSpec` are false: an OpenSession
can take the response that a program which ended did not read and leave its own; the next program's
takes that one, with responses of the older session behind it whose ids are about to be
used again. TLC finds it with two crashes and no time-out
(8 commands, `connects` 3, plain framing, 24 steps); the runs of section 3 make two connections. `OpensAfterCrash` needs `Flow` and what an opening leaves
of an old session, and holds of any number.

`OwnAnswer` is about a transaction that nothing disturbs, and its invariant `Order` says what is on its
way at each place of `ptp_transaction_new`: the command, its data, or exactly the packets of one answer, in
the surplus, the pipe and the device one behind the other (`Coming`), whatever the framing; and that the
device carried the command out just when the response says so. `LeavesNothing` has three
parts. Without faults it is `Order`. A success leaves nothing since a response is the last packet of its
command (`Final`: behind it nothing is on its way, and the device has nothing left to do), and by `Session`
the one that was taken is the host's own. For a cancel `Halting` follows
the steps of `ptp_read_cancel_func`: after the first the device has nothing of this transaction to do,
and before the first everything was in order. For `InSession`, a session once open is
closed only by a CloseSession, whose response is still to come while the host
waits for it (`Closing`); a CloseSession that a crashed program left before the device is
followed by an OpenSession, and a device that refuses none has a session after it (`ToOpen`, `KeptOpen`);
in the first connection there was no older session (`FirstSession`).

**UsbBulk.** The invariant `SendInv` of `SendFramed` says at each place of `ptp_write_func` what the device
has: the packets of the writes before, and those of the current one as far as `curwrite`. That these are
what the whole transfer is cut into needs every chunk but the last to be whole packets, of
`ptp_write_func` (`ChunkFacts`) and of the file's rest (`Filling`, `Putting`), and the first write with its header
to be (`Firsts`). The zero-length packet is decided by the last chunk alone, which agrees with
the whole since the rest is full (`MultipleAdds`); that the sum of the packets is compared with the
length of the phase keeps it out of the first write of two (`WroteKeepsSend`). `PacketsAppend` and `FlattenPackets` say that
cutting and putting together are inverse; `FlattenSeq` of the community modules is a recursive function, of which
`Flattens` gives the equation from a least counterexample (`Smallest`).

`DataExact` and `NothingLeft` rest on `ReadInv`, which has two readings of what is on the pipe in a call for
data. An answer that nothing disturbed is still understood (`Undisturbed`): what has been read and what
is coming are, one behind the other, the object (`Coming`), in the packets the device cut it into, whose boundaries
the reads of `ptp_usb_getdata` and `ptp_read_func` meet (`ReadsBlock`, `SizedReads`); where they do not is `Misread`.
An answer that was refused, shorter, or cut off has no byte of a successful response in it
(`Silent`, kept by whatever part of it is read), so the call cannot return success. `Answers` says which
first packets there are (`Form`: data alone, joined with the response, the first of several, or a header apart from its data), and
`GetDataUnderstands` what `ptp_usb_getdata` makes of each. A packet is taken for a response by its first byte, so only the last of
an answer may begin like one (`Tamed`); and a read that asks for too little loses the packet it overflows on, which must then be
the last (`Room`, `TooMuchIsLast`: what comes before it fits what has been announced). Nothing is assumed of
the sizes but `SizeAssumption` and its companions; in particular a header may be one byte.
The proof met a flaw of the model: the guards of the CASE that chooses what `GetData` goes on with overlapped, for an object
that fills its packet, which TLC resolves by taking the first.

**ObjectCache.** Of what is stale in the cache, `NoStale` excepts what is in a
deleted folder. That is inductive only with the reason: an entry which is wrong and not in
doubt has a parent whose handle was used, and is gone, and a device does not give a used handle
to anything else (`Entries`). That the walk finds everything (`WalkFinds`) follows
from where an object that is still to be found can be (`Ahead`): in the list of a frame of the stack,
in a folder a frame is about to list, or in a folder that is to be found itself.
When no frame is left, only the last remains for each of them, that is, a set of objects each in
a folder of the set, and there is none in what is a tree (`Bottomless`, by
`Below` as the least set closed under children; no induction over the depth). `FullListing` rests on `Whole`: a cached device
that nobody else changes and nothing fails on has everything in the cache, but what was
moved or copied; for this the objects must form a tree at all times (`Tree`), which
moving folders keeps, and the entries must have the parents that the device has.

**Library, Listings, Files.** `CacheAgrees` looks at the end of a call; its invariant `CInv` follows the
object through the call. The device gives out a handle it never used before, so the cache has no entry for it, or a blank one
made by looking up a parent that does not exist (`Handles`), and keeps none until
`add_object_to_cache` reads the object (`Entered`). An object that was updated or edited exists to the end of the
call (`OnDevice`) and is forgotten before it is looked up again, and what is written into its entry is what the device
answers at that moment. Which calls get to which steps is `Where`.
Reading needs the size alone, also of objects whose other properties are out of date. `SizesAgree`:
the size in the cache, whole or its lower 32 bits, is that of the object, unless its editing did not end with
success or its entry is about to be dropped; an edit ends by dropping its own entry (`EndsOwn`). `Fetch` follows
the one object a reading call asks about to the size it works with, and `Reaches` says that a handler has been
given what was read, and that no further part is asked for after an empty one.

`AsAsked` is two claims: what is not `Settable` is left alone, and what was asked for is there (`Fulfilled`). The second compares the end of a call with its beginning, and `AskInv` follows what was asked for on the way.
Until there is an object, `Placing` says that the storage and the folder that were asked for are those
worked with, and that each property is chosen, not to be set, still to be described, or on the error stack; then
`Making` says at each place which of them the object has (`Placed`, `Setting`). After the
first failure of a setting the others go on, so the claim is per property, with `my.todo` as what is left. A send goes
through two phases, and that the values are those asked for holds only from the end of its update on (`my.updated`).
That what cannot be set stays as it was (`LeftAlone`) needs that nothing of it is ever among the properties chosen (`Choice`), and that
a handle is not given out twice, or an object could be compared with another one's past (`PassedInv`).
Where the object ended up is read back from the cache, which has it right by
`Agrees` (`Rereads`). A unique name is compared with the cache, so the cache must know the names (`NamesKnown`) of all objects
but those it has blank entries of, and no other object may come to the name until the object is created (`Distinct`). Titles that are read from
the cache are those of the device (`TitlesKnown`) as long as nothing failed and nobody uses
`LIBMTP_Set_Object_String`, except while an object is being changed. The proof takes from `ScenarioAssumption` that only
lists have references when a device is opened, and from `CallAssumption` that a request makes sense (`Sensible`): a
`LIBMTP_track_t` has no tracks on it, a `LIBMTP_playlist_t` or `LIBMTP_album_t` no number. Unique names
are claimed on any device, cached or not, and after any failure, if the name was set at all.

`StorageSorted` needs what `sort_storage_by` does to the links. A chain (`Chained`) is a list without repeats whose two links,
head and end agree; `FilledChains` gets one from the device, and `FromFinds` that following the links finds its storages.
In the midst of the sort there are two chains over the same nodes (`Links`): what is left of the old list, in the order of the
device, and the new one, in which everything goes before what is left and equal ones are in the order of the device (`Order`).
A turn takes the first of the largest (`LargestFound`) from wherever it is in the one to the end of the other (`TurnLinks`,
`TurnOrder`), so one storage fewer is left after it; the ends are closed only at last (`FinishedChains`). That the new list starts
where the walk back from its end stops is `BehindFinds`. `TurnsIs`, `AheadIs`, `BehindIs` and `FilledIs` are the equations of the recursive
functions, from a least counterexample. `StoreInv` has the list while it is filled (`Filling`), of which storages are still to
come. All of these walks stop at nine storages (`StoreAssumption`), a bound of the model and not of the code.

For `SendsIfRoom` the invariant `RoomInv` says that the list is that of the device and the default folder on its first
storage (`Homes`), as nobody moves a folder in the model; that `get_writeable_storageid` has left behind no storage with
room (`Searching`: the ones before that it is at lack room, `FitRoom`, by what the device said at that moment, not when the list was filled);
and that a storage chosen, with the folder of `Place`, is one the device takes the file on. Without
faults only a device can then refuse a send, for want of room, and the storage had it.

Both proofs changed the model. `StorageIds` put an error on the stack when the device names no storages or fails to name them;
`LIBMTP_Get_Storage` just returns -1. The device took a file on, and `SendsIfRoom` counted, storages it does not name:
both are now about those of the scenario (`Present`). `ScenarioAssumption` says that a device names a storage
once, and that no storage is so large as to be taken for unknown. And the walks
of Storage count with `Cardinality` what they selected with `SelectSeq`, which the prover cannot expand.

Two more flaws of the model came to light in these proofs: two guards of a CASE in `Elsewhere` (Files) overlapped, which TLC resolves by
taking the first, and `WantInfo` (Listings) let an object that is gone be answered for.

**Connection.** What the program holds is not safe by itself: a reset, a close, or an open
that fails could take the interface or the session away from it. The invariant
`Inv` adds what excludes it. No two devices held, opened or being
closed have the same handle, and a call is at a handle of its own (`Owners`, `Current`); at most
one handle of a unit has the interface (`OneClaim`), and a handle that is held has it or is dead. So a reset of a
unit, which with libusb-1.0 needs the interface, finds every other handle of that unit dead (`Lone`), and the session
it ends is not that of a device in hand. With libusb-0.1, where an open goes on without the
interface, this fails, and `Owned` makes that exception. `LosesNothing` follows step by step from where handles are (`Keeps`):
a step that opens one is at it afterwards, and a step that leaves one has closed it, hands it to the
program, or has given up on the device. For `EventsAccounted` the numbers of the callbacks that
ran, the transfers under way and those dropped are disjoint and make up all that were given
out (`EventInv`); that no callback comes to a released device rests on
handles being taken away by `CloseUsb` alone (`StepKeeps`), which takes the transfers along. `Kept`
is a recursive function; what it returns (`KeptFacts`) is proved by a least
counterexample (`Least`, from the well-foundedness of the naturals).

`Agreed` speaks of the end of an open, or of the middle of a handshake. `TrustInv` joins the two: in a handshake the device
is in the stage that belongs to the step of the library (`Meets`), has the random number of its request, and the
hash the library has is that of its answer, unless that answer was an older one, which the device gives only by a fault. So a device
refuses a step only for want of a genuine key or after a fault (`AcceptsFacts`), and what comes of a step is one of four
things (`HandshakeParts`). What the call has opened so far keeps its promise (`Promised`): another handshake with
the same unit would need the interface, so the device held before was detached (`OthersKept`, from `OneClaim`), and what is
detached is promised nothing. An earlier handshake that broke off does no harm because the library resets it
first; nothing is assumed of where the device was.

Every inductive invariant was checked as an invariant of its run before it was proved.

Only model-checked:

* liveness (`SearchEnds`, `Returns`, `CallReturns`, `SendReturns`), which is out of the prover's reach;
* of PtpTransaction nothing else, but `OkIsOwn`, `CallsSpec` and `LeavesNothing` are proved
  for two connections, not for more, where the first two do not hold;
* of Connection `AsPromised`, which is about the order of what `SelectSeq` returns;
* of Listings `ListsAll` and `FoldersInPlace`, which are about the order or the shape of a list that was
  walked;
* everything about Spl, Datasets, Values, the cameras and
  Capabilities. Folders, Spl, Datasets and Capabilities define trees, texts and datasets by
  recursion over data; what such definitions compute for every input is an induction the
  provers cannot do with an operator as parameter.

The `TypeOK` of UsbBulk, Library and Connection are not among the runs' properties.

## 5. What the models abstract

* Transport: PTP error codes inside a data container; the event read
  after a cancel; a device that stays busy for ever; the block sizes for one iRiver
  device; the 0x20000000 pieces of a long read. Cancelling is in PtpTransaction only, byte
  counts in UsbBulk only.
* `UsbBulk` takes packets and the 64-byte unit of the extra byte to be the same, as
  they are on USB 1.1. `Misread` names the devices with an extra byte that
  `DataExact` and `NothingLeft` leave to `ExtraDiscarded`: those with data behind a full first packet,
  and those that send the header apart, for data of one packet, where the
  extra read takes one byte of the data.
* `OkIsOwn` excludes devices with broken headers, whose responses cannot be
  told apart, and CloseSession, which takes any old response. `InSession` is about
  runs without timeouts, and about devices that refuse no OpenSession, unless nothing else went wrong or the
  connection is the first.
* ObjectCache has one storage, and none of the quirks of `ptp_object_want` for Canon, EOS,
  Nikon and Apple; cameras have their own in CameraFolders.
* Of the objects in EOS events the handle, the parent and the name are modelled; the status of the
  camera is only an event.
* Setting and reading the samples and names of a player is one step, not one per transaction:
  nobody else writes them in between but the player's user, whose acts are steps of their own.
* What the properties leave out because the code does not do it: `AsAsked` says of a property that is not `Settable` only
  that it stays as it was, of the title of a folder nothing, and of an object 0 nothing; `StoresAllowed` leaves out
  a step of 0, a range that was cut, and a list that was freed; `ReadsWhole` what is read from inside a string that
  was cut; `KnowsCamera` the answers of `crowded` and, from Sony, descriptions without a type, which are found behind an expired one.
* Freeing a property description that was never filled, after its transaction failed, is not modelled:
  `send_file_object_info` and the functions like it do so and go on.
* The error stack is the set of errors a call can report; filetypes and
  properties are a few representatives of their tables.

## 6. Not modelled

* Finding devices in `libopenusb1-glue.c`: as it stands it does not compile (it uses a member `conf`
  that `PTP_USB` does not have, and `configure.ac` 193 defines HAVE_OPENUSB where the sources test
  HAVE_LIBOPENUSB). Its transport is modelled as it is written.
* The other vendor operations (Olympus, Sigma, Panasonic, Fuji, CHDK, Canon and Nikon capture and
  live view) in `ptp.c` and `ptp-pack.c`: each is one transaction that leaves `params` alone,
  part of the code shared with gphoto2 and not called by `libmtp.c`.
* `music-players.h` and `ptp.h` are tables and numbers, of which the models have representatives.
* `unicode.c`, `util.c`, the example programs: conversions, dumps, argument handling.
* A second thread in `LIBMTP_Read_Event` while the first one releases the device, for
  which `libmtp.c` itself has a FIXME.
* The arithmetic of RSA, SHA-1 and AES in `mtpz.c`, which is symbolic.
* `LIBMTP_Format_Storage`, thumbnails, strings of more than 254 characters.

## 7. Plan

What could be proved next: the lemmas on `Rounded`, `BestFit` and `Adjusted` of Values (`StoresAllowed`).
