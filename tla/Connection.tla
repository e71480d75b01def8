----------------------------- MODULE Connection -----------------------------
(***************************************************************************)
(* Finding devices, opening and releasing them, and listening to them      *)
(* (libusb1-glue.c, libmtp.c, and the handshake of mtpz.c).  A raw device  *)
(* is an address and a model; opening one looks for it again, opens a USB  *)
(* handle, claims the interface, opens a session and asks for the device   *)
(* information, each of which may fail or find the device gone; an MTPZ    *)
(* device is then authenticated.  What libusb, the kernel and the firmware *)
(* keep (addresses, handles, claims, sessions, transfers) is modelled as   *)
(* this code uses it.                                                      *)
(***************************************************************************)
EXTENDS Integers, FiniteSets, Sequences, SequencesExt, Interfaces, Mtpz

CONSTANTS Unit,        \* devices; a unit stands for its serial number, too
          Address,     \* bus_location and devnum
          Model,       \* vendor and product
          Scenarios    \* see Scenario

Gone == 0              \* the address of a unit that is not attached
None == "none"
Flag == {"known", "mtpz", "reset", "unload", "massage"}
CallNames == {"detect", "check", "open", "get", "serial", "connected", "release", "releaseList", "listen", "wait"}

\* model, flags: what the units are (in mtp_device_table, with the MTPZ extension,
\* FLAG_FORCE_RESET_ON_CLOSE, FLAG_UNLOAD_DRIVER, FLAG_ALWAYS_PROBE_DESCRIPTOR);
\* usb: their descriptors; file: ~/.mtpz-data; at: where they are at first;
\* session: those a program left with an open session; calls: what is called; max: bounds;
\* port: the library is built on libusb-1.0 (libusb1-glue.c) or libusb-0.1 (libusb-glue.c).
ASSUME ScenarioAssumption ==
  \A sc \in Scenarios :
    /\ sc.model \in [Unit -> Model] /\ sc.flags \in [Unit -> SUBSET Flag]
    /\ sc.file \in [1 .. 5 -> Line] /\ DOMAIN sc.usb = Unit
    /\ \A u \in Unit : sc.flags[u] \cap {"unload", "massage"} # {} => "known" \in sc.flags[u]
    /\ sc.at \in [Unit -> Address \cup {Gone}] /\ sc.session \subseteq Unit
    /\ sc.calls \subseteq CallNames /\ sc.port \in {"usb1", "usb0"}
    /\ sc.max \in [{"calls", "faults", "moves"} -> Nat]
ASSUME AddressAssumption == Address \subseteq Nat \ {Gone}
ASSUME UnitAssumption == None \notin Unit

VARIABLES
  scene,               \* which of Scenarios it is
  at, session, trust,  \* of each unit: its address, whether a session is open, its part of the handshake
  driven,              \* the units of which kernel drivers have interfaces
  handles,             \* the open libusb_device_handles
  transfers, heard,    \* interrupt transfers under way; event callbacks that were run
  registered,          \* how many LIBMTP_Read_Event_Async returned 0, and which of them were dropped
  raw, opened,         \* what the program holds: raw devices, and LIBMTP_mtpdevice_t
  pc, call, my,        \* where the library is, the call and its local variables
  result,              \* what the last call returned
  spent                \* how much of each bound is used

world == <<scene, at, session, trust, driven>>
events == <<transfers, heard, registered>>
held == <<raw, opened>>
vars == <<world, handles, events, held, pc, call, my, result, spent>>

Has(u, flag) == flag \in scene.flags[u]
Attached == {u \in Unit : at[u] # Gone}
Place(u) == [addr |-> at[u], model |-> scene.model[u], unit |-> u]
\* libusb_get_device_list.
Bus == SetToSortSeq({Place(u) : u \in Attached}, LAMBDA a, b : a.addr < b.addr)

\* dead: the unit was detached since; claimed: it has the interface.
Handle == [unit : Unit, claimed : BOOLEAN, dead : BOOLEAN]
Fresh == CHOOSE h \in 1 .. Cardinality(DOMAIN handles) + 1 : h \notin DOMAIN handles
With(f, h, x) == [g \in DOMAIN f \cup {h} |-> IF g = h THEN x ELSE f[g]]
Without(f, h) == [g \in DOMAIN f \ {h} |-> f[g]]
\* Those of s that are in S, in their order.
Kept(s, S) ==
  LET upTo[i \in 0 .. Len(s)] ==
        IF i = 0 THEN << >> ELSE IF s[i] \in S THEN Append(upTo[i - 1], s[i]) ELSE upTo[i - 1]
  IN upTo[Len(s)]

NoCall == [op |-> "none", n |-> 0, serial |-> None]
\* todo: what is left to probe or open; found: the raw devices; probe: the handle
\* for probing; unit, gone: the libusb_device being opened, and whether it was
\* detached; h: ptp_usb->handle; interface: the one to use; again: it was reset, or read;
\* step, random, hash: of the handshake; got: mtpdevices opened; closing: those to
\* be closed; broken: the units that something failed for in this call
Local == [todo |-> << >>, found |-> << >>, probe |-> 0, unit |-> None, gone |-> FALSE, h |-> 0,
          interface |-> 0, again |-> FALSE, step |-> 0, random |-> 0, hash |-> NoHash,
          got |-> << >>, closing |-> << >>, broken |-> {}]

Spend(what) == spent[what] < scene.max[what] /\ spent' = [spent EXCEPT ![what] = @ + 1]
Fault == Spend("faults")
Fine == UNCHANGED spent
Goto(p, m) == pc' = p /\ my' = m /\ UNCHANGED <<call, result>>
\* A call that returns leaves its devices to the program.
Return(value) == /\ pc' = "idle" /\ my' = Local /\ UNCHANGED call
                 /\ result' = [op |-> call.op, value |-> value, broken |-> my.broken]
                 /\ opened' = opened \o my.got

Init ==
  /\ scene \in Scenarios /\ at = scene.at /\ session = scene.session
  /\ driven = Unit /\ trust = [u \in Unit |-> Stranger] /\ handles = [h \in {} |-> 0]
  /\ transfers = {} /\ heard = << >> /\ registered = [n |-> 0, dropped |-> {}]
  /\ raw = << >> /\ opened = << >> /\ pc = "idle" /\ call = NoCall /\ my = Local
  /\ result = [op |-> "none", value |-> << >>, broken |-> {}]
  /\ spent = [calls |-> 0, faults |-> 0, moves |-> 0]

-----------------------------------------------------------------------------
\* Devices come and go at any time; a unit that was detached is another
\* libusb_device when it is attached again, and its handles stay dead.
Detach(u) ==
  /\ u \in Attached /\ Spend("moves")
  /\ at' = [at EXCEPT ![u] = Gone] /\ session' = session \ {u} /\ trust' = [trust EXCEPT ![u] = Stranger]
  /\ handles' = [h \in DOMAIN handles |-> IF handles[h].unit = u
                                             THEN [handles[h] EXCEPT !.dead = TRUE, !.claimed = FALSE]
                                             ELSE handles[h]]
  /\ my' = [my EXCEPT !.gone = @ \/ my.unit = u]
  /\ driven' = driven \cup {u}
  /\ UNCHANGED <<scene, events, held, pc, call, result>>

Attach(u, a) ==
  /\ u \notin Attached /\ \A v \in Unit : at[v] # a
  /\ Spend("moves") /\ at' = [at EXCEPT ![u] = a]
  /\ UNCHANGED <<scene, session, trust, driven, handles, events, held, pc, call, my, result>>

-----------------------------------------------------------------------------
\* What the program calls: with an address (LIBMTP_Check_Specific_Device), a raw
\* device (LIBMTP_Open_Raw_Device), a position (LIBMTP_Get_Device), a serial number,
\* all devices (LIBMTP_Get_Connected_Devices), or an open device.  LIBMTP_Release_Device_List starts from the tail.
Call ==
  /\ pc = "idle" /\ Spend("calls")
  /\ \E op \in scene.calls, n \in 0 .. Cardinality(Unit), s \in Unit \cup {None} :
       /\ (s # None) <=> (op = "serial")
       /\ op \in {"detect", "serial", "connected", "releaseList"} => n = 0
       /\ op = "open" => n \in DOMAIN raw
       /\ op \in {"release", "listen", "wait"} => n \in DOMAIN opened
       /\ call' = [op |-> op, n |-> n, serial |-> s]
       /\ LET linked == {d \in ToSet(opened) : d.listed}
          IN CASE op \in {"detect", "get", "serial", "connected"} ->
                    pc' = "scan" /\ my' = [Local EXCEPT !.todo = Bus] /\ UNCHANGED opened
               [] op = "check" ->
                    /\ pc' = "scan" /\ my' = [Local EXCEPT !.todo = SelectSeq(Bus, LAMBDA p : p.addr = n)]
                    /\ UNCHANGED opened
               [] op = "open" ->
                    pc' = "find" /\ my' = [Local EXCEPT !.todo = << raw[n] >>] /\ UNCHANGED opened
               [] op = "release" ->
                    /\ pc' = "close" /\ my' = [Local EXCEPT !.closing = << opened[n] >>]
                    /\ opened' = RemoveAt(opened, n)
               [] op = "releaseList" ->
                    /\ linked # {}
                    /\ pc' = "close" /\ my' = [Local EXCEPT !.closing = Reverse(Kept(opened, linked))]
                    /\ opened' = Kept(opened, ToSet(opened) \ linked)
               [] op \in {"listen", "wait"} ->
                    pc' = op /\ my' = [Local EXCEPT !.h = opened[n].h] /\ UNCHANGED opened
  /\ UNCHANGED <<world, handles, events, raw, result>>

Alts(u) == LET alts == AllAltsettings(scene.usb[u].configs)
           IN [i \in DOMAIN alts |-> [alts[i] EXCEPT !.driver = @ /\ u \in driven]]
Opened(u, claimed) == With(handles, Fresh, [unit |-> u, claimed |-> claimed, dead |-> FALSE])

\* get_mtp_usb_device_list: what is in the table is listed without touching it,
\* hubs are passed over, and the rest is probed.
Next1(lists, broken) ==
  [my EXCEPT !.todo = Tail(@), !.probe = 0, !.broken = @ \cup broken,
             !.found = IF lists THEN Append(@, Head(my.todo)) ELSE @]
Scan ==
  /\ pc = "scan" /\ my.todo # << >> /\ Fine
  /\ LET u == Head(my.todo).unit
     IN IF call.op # "check" /\ (Has(u, "known") \/ scene.usb[u].class = "hub")
        THEN Goto("scan", Next1(scene.usb[u].class # "hub", {}))
        ELSE Goto("probe", my)
  /\ UNCHANGED <<world, handles, events, held>>

\* probe_device_descriptor: of a device in the list, or (FLAG_ALWAYS_PROBE_DESCRIPTOR)
\* of the one being opened, where it does not matter what comes of it.
Subject == IF my.unit = None THEN Head(my.todo).unit ELSE my.unit
Present == IF my.unit = None THEN at[Subject] = Head(my.todo).addr ELSE ~my.gone
Identified(mtp, broken) ==
  IF my.unit = None THEN Goto("scan", Next1(mtp, broken)) ELSE Goto("interface", [my EXCEPT !.probe = 0])
Unlikely(u) == scene.usb[u].class \in {"hub", "other"}
Closed == Without(handles, my.probe)

Probe ==
  /\ pc = "probe"
  /\ \/ Unlikely(Subject) /\ Fine /\ Identified(FALSE, {}) /\ UNCHANGED handles
     \/ /\ ~Unlikely(Subject) /\ Present /\ Fine
        /\ handles' = Opened(Subject, FALSE) /\ Goto("names", [my EXCEPT !.probe = Fresh])
     \/ /\ ~Unlikely(Subject) /\ ((~Present /\ Fine) \/ (Present /\ Fault))
        /\ Identified(FALSE, {Subject}) /\ UNCHANGED handles
  /\ UNCHANGED <<world, events, held>>

\* The descriptors of the configurations are at hand; names have to be asked for.
\* libusb-glue.c avoids a device with a driver of its own, and does not close it.
DecidingNames(u, mute) ==
  Deciding(Alts(u), mute, IF scene.port = "usb1" THEN Foreign(Alts(u)) ELSE ForeignByName(Alts(u)))
Names ==
  /\ pc = "names"
  /\ LET alts == Alts(Subject)
         is(mute) == Named(scene.usb[Subject].class, alts, DecidingNames(Subject, mute))
         ends(kind, broken) ==
           IF kind = "ask" THEN Goto("ask", [my EXCEPT !.broken = @ \cup broken]) /\ UNCHANGED handles
           ELSE /\ Identified(kind = "mtp", broken)
                /\ handles' = IF kind = "avoid" /\ scene.port = "usb0" THEN handles ELSE Closed
     IN \/ ~handles[my.probe].dead /\ Fine /\ ends(is({}), {})
        \/ handles[my.probe].dead /\ Fine /\ ends(is(DOMAIN alts), {Subject})
        \/ /\ ~handles[my.probe].dead /\ Fault
           /\ \E i \in Tells(alts, {}) : ends(is({i}), {Subject})
  /\ UNCHANGED <<world, events, held>>

AskMicrosoft ==
  /\ pc = "ask"
  /\ \/ /\ ~handles[my.probe].dead /\ Fine
        /\ LET mtp == Microsoft(scene.usb[Subject].os)
           IN Identified(mtp, {}) /\ handles' = Closed
     \/ /\ (handles[my.probe].dead /\ Fine) \/ (~handles[my.probe].dead /\ Fault)
        /\ Identified(FALSE, {Subject}) /\ handles' = Closed
  /\ UNCHANGED <<world, events, held>>

\* LIBMTP_Detect_Raw_Devices is done.
Scanned ==
  /\ pc = "scan" /\ my.todo = << >>
  /\ \/ call.op = "detect" /\ Return(my.found) /\ raw' = my.found
     \/ call.op = "check" /\ Return(my.found) /\ UNCHANGED raw
     \/ /\ call.op = "get" /\ call.n < Len(my.found)
        /\ Goto("find", [my EXCEPT !.todo = << my.found[call.n + 1] >>]) /\ UNCHANGED held
     \/ call.op = "get" /\ call.n >= Len(my.found) /\ Return(<< >>) /\ UNCHANGED raw
     \/ /\ call.op \in {"serial", "connected"}
        /\ Goto("find", [my EXCEPT !.todo = my.found]) /\ UNCHANGED held
  /\ UNCHANGED <<world, handles, events, spent>>

-----------------------------------------------------------------------------
\* Mutant: the first device that cannot be opened ends the search.
Others_None == << >>
Others == Tail(my.todo)
\* On to the next device; the one at hand could not be opened.
NextDevice(m) == [m EXCEPT !.unit = None, !.gone = FALSE, !.h = 0, !.interface = 0,
                       !.again = FALSE, !.step = 0, !.random = 0, !.hash = NoHash]
Abandon == Goto("find", [NextDevice(my) EXCEPT !.todo = Others,
                           !.broken = @ \cup ({Head(my.todo).unit, my.unit} \ {None})])

\* configure_usb_device: is it still there?  Another unit of the model may be there now.
Find ==
  /\ pc = "find" /\ my.todo # << >>
  /\ LET p == Head(my.todo)
         there == {u \in Attached : at[u] = p.addr /\ scene.model[u] = p.model}
     IN \/ \E u \in there : /\ Goto(IF Has(u, "massage") THEN "probe" ELSE "interface", [my EXCEPT !.unit = u])
                            /\ Fine
        \/ there = {} /\ Abandon /\ Fine
        \/ Fault /\ Abandon
  /\ UNCHANGED <<world, handles, events, held>>

Found ==
  /\ pc = "find" /\ my.todo = << >> /\ Return(my.got)
  /\ UNCHANGED <<world, handles, events, raw, spent>>

\* The interface it is used through, if the configurations can be read; libusb-0.1
\* has read them.
ChooseInterface ==
  /\ pc = "interface"
  /\ LET configs == scene.usb[my.unit].configs
     IN \E skipped \in IF scene.port = "usb1" THEN SUBSET DOMAIN configs ELSE {{}} :
          LET chosen == Chosen(Readable(configs, skipped))
          IN /\ IF skipped = {} THEN Fine ELSE Fault
             /\ \/ chosen # 0 /\ Goto("init", [my EXCEPT !.interface = chosen])
                \/ chosen = 0 /\ Abandon
  /\ UNCHANGED <<world, handles, events, held>>

\* init_ptp_usb: a kernel driver in the way is unloaded if the flag says so.  A
\* handle whose configuration cannot be read or whose interface cannot be
\* claimed is not closed.  Mutant: an interface that is busy will do.
Free_Always(u) == TRUE
Free(u) == \A h \in DOMAIN handles : handles[h].unit = u => ~handles[h].claimed
HasDriver(u, number) == \E i \in DOMAIN Alts(u) : Alts(u)[i].number = number /\ Alts(u)[i].driver
Claimable(u, drivers) == Free(u) /\ ~(HasDriver(u, my.interface) /\ u \in drivers)
Unloaded == IF Has(my.unit, "unload") THEN driven \ {my.unit} ELSE driven
InitUsb ==
  /\ pc = "init" /\ scene.port = "usb1"
  /\ LET unloaded == Unloaded
         free == Claimable(my.unit, unloaded)
     IN \/ my.gone /\ Fine /\ Abandon /\ UNCHANGED <<handles, driven>>
        \/ ~my.gone /\ Fault /\ Abandon /\ UNCHANGED <<handles, driven>>
        \/ /\ ~my.gone /\ Fault /\ Abandon /\ handles' = Opened(my.unit, FALSE)
           /\ driven' \in {driven, unloaded}
        \/ /\ ~my.gone /\ ~free /\ Fine /\ Abandon
           /\ handles' = Opened(my.unit, FALSE) /\ driven' = unloaded
        \/ /\ ~my.gone /\ free /\ Fine /\ handles' = Opened(my.unit, TRUE) /\ driven' = unloaded
           /\ Goto("session", [my EXCEPT !.h = Fresh])
  /\ UNCHANGED <<scene, at, session, trust, events, held>>

\* What comes of an OpenSession request.  The kernel claims an interface for its
\* first transfer if nobody has it.
Takes == handles[my.h].claimed \/ Claimable(my.unit, driven)
Answer(rc) ==
  \/ rc = "OK" /\ ~my.gone /\ Takes /\ my.unit \notin session /\ session' = session \cup {my.unit} /\ Fine
  \/ rc = "SessionAlreadyOpened" /\ ~my.gone /\ Takes /\ my.unit \in session /\ UNCHANGED session /\ Fine
  \/ rc = "IO" /\ (my.gone \/ ~Takes) /\ UNCHANGED session /\ Fine
  \/ rc = "IO" /\ ~my.gone /\ Fault /\ session' \in {session, session \cup {my.unit}}
  \/ rc \in {"InvalidTransactionID", "other"} /\ ~my.gone /\ Fault /\ UNCHANGED session
Codes == {"OK", "SessionAlreadyOpened", "IO", "InvalidTransactionID", "other"}
Released == [handles EXCEPT ![my.h].claimed = FALSE]
InUse == [handles EXCEPT ![my.h].claimed = TRUE]

OpenSession ==
  /\ pc = "session"
  /\ \E rc \in Codes :
       /\ Answer(rc)
       /\ \/ rc \in {"OK", "SessionAlreadyOpened"} /\ Goto("info", my) /\ handles' = InUse
          \/ rc = "IO" /\ ~my.again /\ Goto("reset", my) /\ UNCHANGED handles
          \/ rc = "IO" /\ my.again /\ Abandon /\ UNCHANGED handles
          \/ /\ rc = "InvalidTransactionID" /\ UNCHANGED handles
             /\ Goto("increment", my)
          \/ rc = "other" /\ Abandon /\ handles' = Released
  /\ UNCHANGED <<scene, at, trust, driven, events, held>>

\* The device is reset and closed, and initialised from the start.
Reset ==
  /\ pc = "reset" /\ session' \in {session, session \ {my.unit}}
  /\ handles' = Without(handles, my.h) /\ Fine
  /\ Goto("init", [my EXCEPT !.again = TRUE, !.h = 0])
  /\ UNCHANGED <<scene, at, trust, driven, events, held>>

\* "Transaction ID was invalid, increment and try again"; the ids are in PtpTransaction.
OpenAgain ==
  /\ pc = "increment"
  /\ \E rc \in Codes :
       /\ Answer(rc)
       /\ \/ rc \in {"OK", "SessionAlreadyOpened"} /\ Goto("info", my) /\ handles' = InUse
          \/ rc \notin {"OK", "SessionAlreadyOpened"} /\ Abandon /\ handles' = Released
  /\ UNCHANGED <<scene, at, trust, driven, events, held>>

\* LIBMTP_Open_Raw_Device_Uncached: without device information nothing is closed.
GetDeviceInfo ==
  /\ pc = "info"
  /\ \/ ~my.gone /\ Fine /\ Goto(IF Has(my.unit, "mtpz") /\ Loads(scene.file) THEN "trust" ELSE "ready", my)
     \/ my.gone /\ Fine /\ Abandon
     \/ ~my.gone /\ Fault /\ Abandon
  /\ UNCHANGED <<world, handles, events, held>>

-----------------------------------------------------------------------------
\* ptp_mtpz_handshake.
Steps == << "initiator", "reset", "request", "response", "confirm", "trusted" >>
\* A device takes the messages in their order, after a reset; what it takes must
\* be signed, or made with the hash of its own response.
InOrder(t, step) == \/ step \in {"initiator", "reset"}
                    \/ \E k \in 2 .. Len(Stages) : Stages[k] = step /\ t.stage = Stages[k - 1]
Accepts(t, step) ==
  /\ InOrder(t, step)
  /\ step = "request" => Request(scene.file, my.random).signature.genuine
  /\ step = "confirm" => Confirmation(my.hash) = Confirmation(t.made)
  /\ step = "trusted" => SecureSession(my.hash) = SecureSession(t.made)
After(t, step) ==
  CASE step = "initiator" -> t
    [] step = "reset"     -> [t EXCEPT !.stage = "reset", !.random = 0]
    [] step = "request"   -> [t EXCEPT !.stage = "request", !.random = my.random, !.before = t.answered]
    [] step = "response"  -> [t EXCEPT !.stage = "response", !.made = @ + 1, !.answered = t.random]
    [] OTHER              -> [t EXCEPT !.stage = step]
\* It answers, or (a fault) garbles its answer or gives the one before again.
Answers(t) == {Response(t.random, t.made + 1)}
BadAnswers(t) == {Garbled(Response(t.random, t.made + 1)), Response(t.before, t.made)}

\* A random number is made of the second it is.
Seconds == {1, 2}

\* A device that cannot be authenticated is opened all the same.
Handshake ==
  /\ pc = "trust"
  /\ LET t == trust[my.unit]
         step == Steps[my.step + 1]
         ends == Goto("ready", [my EXCEPT !.step = 0, !.broken = @ \cup {my.unit}])
         goesOn(m) == IF my.step + 1 = Len(Steps) THEN Goto("ready", [m EXCEPT !.step = 0])
                                                  ELSE Goto("trust", [m EXCEPT !.step = @ + 1])
         takes == trust' = [trust EXCEPT ![my.unit] = After(t, step)]
         validates(m, broken) ==
           LET hash == Validated(m, my.random)
           IN IF hash # NoHash THEN goesOn([my EXCEPT !.hash = hash, !.broken = @ \cup broken])
              ELSE Goto("ready", [my EXCEPT !.step = 0, !.broken = @ \cup broken])
     IN \/ /\ ~my.gone /\ Accepts(t, step) /\ Fine /\ takes
           /\ CASE step = "reset" -> \E r \in Seconds : goesOn([my EXCEPT !.random = r])
                [] step = "response" -> \E m \in Answers(t) : validates(m, {})
                [] OTHER -> goesOn(my)
        \/ /\ ~my.gone /\ Accepts(t, step) /\ step = "response" /\ Fault /\ takes
           /\ \E m \in BadAnswers(t) : validates(m, {my.unit})
        \/ /\ ~my.gone /\ ~Accepts(t, step) /\ Fine /\ UNCHANGED trust
           /\ Goto("ready", [my EXCEPT !.step = 0])
        \/ my.gone /\ Fine /\ UNCHANGED trust /\ ends
        \/ ~my.gone /\ Fault /\ (takes \/ UNCHANGED trust) /\ ends
  /\ UNCHANGED <<scene, at, session, driven, handles, events, held>>

\* The device is open: it is the one wanted, one of the list, or closed again.
\* Mutant: it is not closed.
Rejected_Kept(d) == Goto("find", [NextDevice(my) EXCEPT !.todo = Tail(@)])
Rejected(d) == Goto("close", [NextDevice(my) EXCEPT !.todo = Tail(@), !.closing = << d >>])
Ready ==
  /\ pc = "ready" /\ Fine
  /\ LET d == [unit |-> my.unit, h |-> my.h, listed |-> call.op = "connected"]
         keeps(todo) == Goto("find", [NextDevice(my) EXCEPT !.todo = todo, !.got = Append(@, d)])
     IN \/ call.op = "serial" /\ my.unit = call.serial /\ keeps(<< >>)
        \/ call.op = "serial" /\ my.unit # call.serial /\ Rejected(d)
        \/ call.op # "serial" /\ keeps(Tail(my.todo))
  /\ UNCHANGED <<world, handles, events, held>>

-----------------------------------------------------------------------------
\* LIBMTP_Release_Device, close_device: that the session cannot be closed is only said.
CloseSession ==
  /\ pc = "close"
  /\ LET d == Head(my.closing)
     IN \/ ~handles[d.h].dead /\ Fine /\ session' = session \ {d.unit}
        \/ handles[d.h].dead /\ Fine /\ UNCHANGED session
        \/ ~handles[d.h].dead /\ Fault /\ session' \in {session, session \ {d.unit}}
  /\ Goto("closeusb", my)
  /\ UNCHANGED <<scene, at, trust, driven, handles, events, held>>

\* close_usb: the interface is released, or goes with the handle, and so do the
\* transfers under way; FLAG_FORCE_RESET_ON_CLOSE resets the device.
CloseUsb ==
  /\ pc = "closeusb" /\ Fine
  /\ LET d == Head(my.closing)
         rest == Tail(my.closing)
         m == [my EXCEPT !.closing = rest]
     IN /\ session' = IF Has(d.unit, "reset") /\ ~handles[d.h].dead THEN session \ {d.unit} ELSE session
        /\ handles' = Without(handles, d.h)
        /\ transfers' = {t \in transfers : t.h # d.h}
        /\ registered' = [registered EXCEPT !.dropped = @ \cup {t.id : t \in transfers \ transfers'}]
        /\ CASE rest # << >> -> Goto("close", m) /\ UNCHANGED opened
             [] rest = << >> /\ call.op = "serial" -> Goto("find", m) /\ UNCHANGED opened
             [] OTHER -> Return(<< >>)
  /\ UNCHANGED <<scene, at, trust, driven, heard, raw>>

-----------------------------------------------------------------------------
\* LIBMTP_Read_Event_Async, which libusb-0.1 cannot do.  Mutant: whether the transfer was submitted is not looked at.
Submitted_Always(ok) == TRUE
Submitted(ok) == ok
Listen ==
  /\ pc = "listen"
  /\ \E ok \in BOOLEAN :
       /\ LET works == ~handles[my.h].dead /\ scene.port = "usb1"
          IN IF ok THEN works /\ Fine ELSE (~works /\ Fine) \/ (works /\ Fault)
       /\ transfers' = IF ok THEN transfers \cup {[id |-> registered.n + 1, h |-> my.h]} ELSE transfers
       /\ IF Submitted(ok) THEN registered' = [registered EXCEPT !.n = @ + 1] /\ Return(<< 0 >>)
                           ELSE UNCHANGED registered /\ Return(<< -1 >>)
  /\ UNCHANGED <<world, handles, heard, raw>>

\* ptp_usb_event_cb, LIBMTP_Read_Event_Cb: libusb runs the callback of the oldest
\* transfer of a device when the program polls, and while the library itself waits
\* for a transfer.  LIBMTP_Handle_Event passes some events on and not the others.
EventOf(code) == IF code = "ObjectInfoChanged" THEN "NONE" ELSE code
Heard(t, handler, event) ==
  heard' = Append(heard, [id |-> t.id, handler |-> handler, event |-> event])
Callback ==
  /\ \E t \in transfers :
       /\ \A x \in transfers : x.h = t.h => t.id <= x.id
       /\ transfers' = transfers \ {t}
       /\ \/ /\ ~handles[t.h].dead /\ Fine
             /\ \E code \in {"ObjectAdded", "ObjectInfoChanged"} : Heard(t, "OK", EventOf(code))
          \/ handles[t.h].dead /\ Fine /\ Heard(t, "ERROR", "NONE")
          \/ ~handles[t.h].dead /\ Fault /\ Heard(t, "ERROR", "NONE")
  /\ UNCHANGED <<world, handles, registered, held, pc, call, my, result>>

\* LIBMTP_Read_Event waits without end for an event, of which those asked for before
\* get theirs first, and reads a second time when it got nothing.
Wait ==
  /\ pc = "wait"
  /\ LET dead == handles[my.h].dead
         Nothing == IF my.again THEN Return(<< -1 >>)
                    ELSE Goto("wait", [my EXCEPT !.again = TRUE]) /\ UNCHANGED opened
     IN \/ /\ ~dead /\ Fine /\ \A t \in transfers : t.h # my.h
           /\ \E code \in {"ObjectAdded", "ObjectInfoChanged"} : Return(<< EventOf(code) >>)
        \/ dead /\ Fine /\ Nothing
        \/ ~dead /\ Fault /\ (Nothing \/ Return(<< -1 >>))
  /\ UNCHANGED <<world, handles, events, raw>>

Library == Scan \/ Probe \/ Names \/ AskMicrosoft \/ Scanned \/ Find \/ Found \/ ChooseInterface
           \/ InitUsb \/ OpenSession \/ Reset \/ OpenAgain \/ GetDeviceInfo \/ Handshake \/ Ready \/ CloseSession \/ CloseUsb \/ Listen \/ Wait
Next == \/ Call \/ Library \/ Callback
        \/ \E u \in Unit : Detach(u) \/ \E a \in Address : Attach(u, a)
Spec == Init /\ [][Next]_vars

-----------------------------------------------------------------------------
Mine == ToSet(opened) \cup ToSet(my.got) \cup ToSet(my.closing)
Lost == DOMAIN handles \ ({d.h : d \in Mine} \cup {my.h, my.probe})

MtpDevice == [unit : Unit, h : Nat, listed : BOOLEAN]
RawDevice == [addr : Address, model : Model, unit : Unit]
\* The variables have these types.
TypeOK ==
  /\ at \in [Unit -> Address \cup {Gone}] /\ session \subseteq Unit
  /\ \A u \in Unit : trust[u].stage \in ToSet(Stages) /\ Range(handles) \subseteq Handle
  /\ \A t \in transfers : t.id \in 1 .. registered.n + 1
  /\ ToSet(raw) \cup ToSet(my.todo) \cup ToSet(my.found) \subseteq RawDevice
  /\ Mine \subseteq MtpDevice /\ my.unit \in Unit \cup {None}

\* A device the program holds has a handle of its own that is open and belongs to
\* it, and while it is attached the interface and a session, whatever other opens
\* of it, failed ones among them, and other devices went through.  With libusb-0.1 it
\* may lose the session: see InitUsb0.
Owned ==
  \A i \in DOMAIN opened :
    LET d == opened[i]
    IN /\ d.h \in DOMAIN handles /\ handles[d.h].unit = d.unit
       /\ \A j \in DOMAIN opened : j # i => opened[j].h # d.h
       /\ ~handles[d.h].dead => handles[d.h].claimed /\ (d.unit \in session \/ scene.port = "usb0")
       /\ \A h \in DOMAIN handles \ {d.h} :
            handles[h].unit = d.unit /\ handles[d.h].claimed => ~handles[h].claimed

\* Only an open that failed leaves a handle nobody closes: not a search that goes
\* on after a device it did not want, nor a list that is released, nor a device
\* released after it was detached.  The probing of libusb-glue.c loses one, see Names.
LosesNothing ==
  [][\/ Lost' \subseteq Lost
     \/ my.unit # None /\ my.unit \in my'.broken
     \/ Names /\ scene.port = "usb0"]_vars

\* What is listed, and of that what can be opened, when nothing fails.
IsMtp(u) == LET usb == scene.usb[u]
                kind == Named(usb.class, Alts(u), DecidingNames(u, {}))
            IN ~Unlikely(u) /\ (kind = "mtp" \/ (kind = "ask" /\ Microsoft(usb.os)))
Openable(u) == LET number == Chosen(scene.usb[u].configs)
               IN number # 0 /\ (Has(u, "unload") \/ ~HasDriver(u, number))
Listable == SelectSeq(Bus, LAMBDA p : scene.usb[p.unit].class # "hub" /\ (Has(p.unit, "known") \/ IsMtp(p.unit)))
UnitsOf(s) == [i \in DOMAIN s |-> s[i].unit]
\* With the devices staying where they are, a detection lists, in order, exactly the
\* devices in the table and those whose descriptors make them MTP devices, of those
\* nothing failed for; LIBMTP_Get_Connected_Devices returns them, opened, and LIBMTP_Get_Device_By_SerialNumber
\* the one asked for and no other, whatever became of those before them.
AsPromised ==
  pc = "idle" /\ spent.moves = 0 =>
    LET sound(s) == SelectSeq(UnitsOf(s), LAMBDA u : u \notin result.broken /\ Openable(u))
    IN /\ result.op = "detect" =>
            SelectSeq(result.value, LAMBDA p : p.unit \notin result.broken)
              = SelectSeq(Listable, LAMBDA p : p.unit \notin result.broken)
       /\ result.op = "check" /\ result.broken = {} =>
            (result.value # << >> <=> \E u \in Attached : at[u] = call.n /\ IsMtp(u))
       /\ result.op = "connected" => sound(result.value) = sound(Listable)
       /\ result.op = "serial" =>
            /\ ToSet(UnitsOf(result.value)) \subseteq {call.serial}
            /\ call.serial \in ToSet(sound(Listable)) => result.value # << >>

\* The handshake of an open in which nothing failed succeeds, however far an
\* earlier one got; and the library goes on with no hash but that of the device's
\* answer to it, unless an earlier answer was to a request of the same second.
Agreed ==
  /\ pc = "idle" /\ result.op \in {"open", "get", "serial", "connected"} =>
       \A d \in ToSet(result.value) :
         Has(d.unit, "mtpz") /\ Genuine(scene.file) /\ d.unit \notin result.broken /\ ~handles[d.h].dead
           => trust[d.unit].stage = "trusted"
  /\ pc = "trust" /\ ~my.gone /\ my.hash # NoHash =>
       LET t == trust[my.unit] IN my.hash = t.made \/ t.before = t.random

\* A callback is run once for every LIBMTP_Read_Event_Async that returned 0 unless
\* its device was released first, never for one that returned -1, and never for a
\* device that was released.
EventsAccounted ==
  LET ran == {e.id : e \in ToSet(heard)}
      waiting == {t.id : t \in transfers}
  IN /\ ran \cup waiting \cup registered.dropped = 1 .. registered.n
     /\ Cardinality(ran) = Len(heard)
     /\ ran \cap (waiting \cup registered.dropped) = {} /\ waiting \cap registered.dropped = {}
     /\ {t.h : t \in transfers} \subseteq {d.h : d \in Mine}
=============================================================================
