--------------------------- MODULE PtpTransaction ---------------------------
(***************************************************************************)
(* A PTP transaction over USB bulk pipes: ptp_transaction_new (src/src/    *)
(* ptp.c) on top of the libusb-1.0 transport (src/src/libusb1-glue.c), and *)
(* how configure_usb_device opens the session it runs in.                  *)
(*                                                                         *)
(* The initiator sends a command, perhaps a data phase, and reads packets  *)
(* from the bulk-in pipe until it has the response.  A read that times out *)
(* ends the transaction on the host, not on the responder: what it was     *)
(* about to send is read by whoever asks next.  Every command carries a    *)
(* serial number n that is not on the wire, and every packet the number of *)
(* the command it belongs to, so that the properties can say whose answer  *)
(* the host took.                                                          *)
(***************************************************************************)
EXTENDS Naturals, Sequences, Functions

CONSTANTS Refusals,    \* error response codes of the responder
          Scenarios    \* kinds of responder and bounds, see ScenarioAssumption

Wire == {"plain", "joined", "exact", "large"}

\* Whether the responder has broken headers (and IGNORE_HEADER_ERRORS is set for
\* it), the operation codes with a data-in phase, how it packs one (see Answers),
\* the response codes to OpenSession of a fresh responder, the library the program
\* is built on (libusb1-glue.c, libusb-glue.c or libopenusb1-glue.c), and what is
\* bounded; early are cancels before the bulk of the data.
Bounded == {"calls", "timeouts", "cancels", "early", "connects", "crashes"}
Port == {"usb1", "usb0", "openusb"}
Insane == 99     \* a transaction id, or code, no initiator uses

ASSUME ScenarioAssumption ==
  \A sc \in Scenarios :
    /\ DOMAIN sc = {"broken", "ops", "framings", "opening", "port", "max"}
    /\ sc.broken \in BOOLEAN /\ sc.port \in Port /\ sc.framings \subseteq Wire /\ sc.max \in [Bounded -> Nat]
    /\ sc.opening \subseteq Refusals \cup {"OK", "InvalidTid"}
    /\ sc.ops \cap (Refusals \cup {"OK", "AlreadyOpened", "InvalidTid", "insane"}) = {}

VARIABLES
  pc, cur, tid, tries, surplus, got, last, conn, \* initiator
  outq, waiting, reply, pipe, session,           \* responder and its pipes
  scene,                                         \* which of Scenarios it is
  done,                                          \* history: commands carried out
  spent                                          \* how much of each bound is used

host == <<pc, cur, tid, tries, surplus, got, last, conn>>
device == <<outq, waiting, reply, pipe, session, scene, done>>
vars == <<host, device, spent>>

Errors == Refusals \cup {"AlreadyOpened", "InvalidTid"}
HostErrors == {"IO", "TIMEOUT", "CANCEL", "DATA_EXPECTED", "BADPARAM"}

\* A refusal is a response code (ptp.h lines 1114-1150) other than success, and only
\* OpenSession is refused because a session is open already; the errors the library
\* itself reports are no response codes (PTP_ERROR_*, ptp.h lines 1232-1238).
ASSUME RefusalAssumption == Refusals \cap ({"OK", "AlreadyOpened", "insane"} \cup HostErrors) = {}
Kinds == {"open", "close", "nodata", "get", "send"}

\* Nothing was transferred yet; n = 0 stands for "none" throughout.
NoCommand == [n |-> 0, tid |-> 0, kind |-> "close", op |-> "none"]
NoResult == [n |-> 0, kind |-> "close", rc |-> "OK", resp |-> 0, data |-> 0]

Init ==
  /\ pc = "idle" /\ conn = "down"
  /\ cur = NoCommand /\ tid = 0 /\ tries = 0 /\ surplus = << >> /\ got = 0
  /\ last = NoResult
  /\ outq = << >> /\ waiting = 0 /\ reply = << >> /\ pipe = << >>
  /\ session = FALSE /\ scene \in Scenarios /\ done = << >>
  /\ spent = [timeouts |-> 0, cancels |-> 0, early |-> 0, connects |-> 0, crashes |-> 0]

broken == scene.broken

Spend(what) == spent' = [spent EXCEPT ![what] = @ + 1]

-----------------------------------------------------------------------------
\* The packets of the bulk-in pipe.  rest says what follows a data header:
\* nothing, its response in the same packet, or more packets of payload.
Packet(type, c, t, code, rest) ==
  [type |-> type, n |-> c.n, tid |-> t, code |-> code, rest |-> rest]
Response(c, t, code) == Packet("resp", c, t, code, "none")

Tids(c) == IF broken THEN {Insane} ELSE {c.tid}
Codes(c) == IF broken THEN {"insane"} ELSE {c.op}

\* A data-in phase followed by its response:
\*   plain   one short packet;          joined  data and response in one packet;
\*   exact   one full packet, then the zero-length packet that ends it, which
\*           ptp_usb_getdata leaves unread;
\*   large   more than one packet.
DataPhase(c, t, code, framing) ==
  CASE framing = "plain"  -> << Packet("data", c, t, code, "none"), Response(c, t, "OK") >>
    [] framing = "joined" -> << Packet("data", c, t, code, "joined") >>
    [] framing = "exact"  -> << Packet("data", c, t, code, "none"),
                                Packet("null", c, t, code, "none"), Response(c, t, "OK") >>
    [] framing = "large"  -> << Packet("data", c, t, code, "payload"),
                                Packet("payload", c, t, code, "none"), Response(c, t, "OK") >>

\* What a responder may answer a command with.  The Leica answers
\* CloseSession with transaction id 0 (ptp.c line 279).
Answers(c) ==
  CASE c.kind = "open"   -> {<< Response(c, t, code) >> : t \in Tids(c),
                               code \in IF session THEN {"AlreadyOpened"} ELSE scene.opening}
    [] c.kind = "close"  -> {<< Response(c, t, "OK") >> : t \in Tids(c) \cup {0}}
    [] c.kind = "nodata" -> {<< Response(c, t, code) >> : t \in Tids(c), code \in Refusals \cup {"OK"}}
    [] c.kind = "get"    -> {<< Response(c, t, code) >> : t \in Tids(c), code \in Refusals}
                              \cup {DataPhase(c, t, code, f) : t \in Tids(c), code \in Codes(c),
                                                               f \in scene.framings}
    [] OTHER -> {}

-----------------------------------------------------------------------------
\* The responder takes commands one at a time, in order.
Busy == reply # << >> \/ outq # << >>

TakeCommand ==
  /\ reply = << >> /\ outq # << >> /\ Head(outq).kind # "data"
  /\ outq' = Tail(outq)
  /\ LET c == Head(outq) IN
       \/ /\ c.kind # "send"
          /\ reply' \in Answers(c)
          /\ session' = IF c.kind = "open" /\ reply'[1].code = "OK" THEN TRUE
                        ELSE IF c.kind = "close" THEN FALSE ELSE session
          /\ done' = IF reply'[Len(reply')].code \in Errors THEN done ELSE Append(done, c.n)
          /\ waiting' = 0          \* a SendObject left without its data is forgotten
       \/ /\ c.kind = "send"
          /\ waiting' = c.n
          /\ UNCHANGED <<reply, session, done>>
  /\ UNCHANGED <<host, pipe, scene, spent>>

TakeData ==
  /\ reply = << >> /\ outq # << >> /\ Head(outq).kind = "data"
  /\ outq' = Tail(outq)
  /\ waiting' = 0
  /\ IF waiting = Head(outq).n
       THEN \E t \in Tids(Head(outq)), code \in Refusals \cup {"OK"} :
              /\ reply' = << Response(Head(outq), t, code) >>
              /\ done' = IF code = "OK" THEN Append(done, waiting) ELSE done
       ELSE UNCHANGED <<reply, done>>
  /\ UNCHANGED <<host, pipe, session, scene, spent>>

SendPacket ==
  /\ reply # << >>
  /\ pipe' = Append(pipe, Head(reply)) /\ reply' = Tail(reply)
  /\ UNCHANGED <<host, outq, waiting, session, scene, done, spent>>

Responder == TakeCommand \/ TakeData \/ SendPacket

-----------------------------------------------------------------------------
\* Begin, wrong: without the increment.
Begin_SameTid(kind, op, t) ==
  /\ cur' = [n |-> cur.n + 1, tid |-> t, kind |-> kind, op |-> op]
  /\ tid' = t /\ tries' = 3 /\ got' = 0 /\ pc' = "sendreq"

\* ptp_transaction_new up to the request: the transaction id is used up even
\* if the request is never sent.
Begin(kind, op, t) ==
  /\ cur' = [n |-> cur.n + 1, tid |-> t, kind |-> kind, op |-> op]
  /\ tid' = t + 1
  /\ tries' = 3 /\ got' = 0
  /\ pc' = "sendreq"

Call(kind, op) ==
  /\ pc = "idle" /\ conn = "up" /\ cur.n < scene.max.calls
  /\ Begin(kind, op, tid)
  /\ UNCHANGED <<surplus, last, conn, device, spent>>

\* Return, wrong: the connection stays up after CloseSession.
Return_NoClose(rc, resp) ==
  /\ last' = [n |-> cur.n, kind |-> cur.kind, rc |-> rc, resp |-> resp,
              data |-> IF rc = "OK" THEN got ELSE 0]
  /\ pc' = IF cur.kind = "open" THEN "opened" ELSE "idle"
  /\ UNCHANGED <<conn, cur, tid, tries, got>>

\* ptp_transaction_new returns rc; CloseSession is followed by close_usb.
Return(rc, resp) ==
  /\ last' = [n |-> cur.n, kind |-> cur.kind, rc |-> rc, resp |-> resp,
              data |-> IF rc = "OK" THEN got ELSE 0]
  /\ pc' = IF cur.kind = "open" THEN "opened" ELSE "idle"
  /\ conn' = IF cur.kind = "close" THEN "down" ELSE conn
  /\ UNCHANGED <<cur, tid, tries, got>>

\* A read or write that does not complete within the timeout.  One on which
\* nothing is outstanding is no fault of the responder.
MayTimeOut == spent.timeouts < scene.max.timeouts \/ ~Busy
TimedOut == /\ MayTimeOut
            /\ IF Busy THEN Spend("timeouts") ELSE UNCHANGED spent

Fault == spent.timeouts < scene.max.timeouts /\ Spend("timeouts")
Abort == spent.cancels < scene.max.cancels /\ Spend("cancels")

\* The callback also runs for the request itself, in ptp_usb_sendreq, and for the
\* first packet, in ptp_usb_getpacket: cancelling there ends the transaction with
\* no cancel request.
Early == cur.kind \in {"get", "send"} /\ spent.early < scene.max.early /\ Spend("early")

\* A cancelled read is drained by libusb1-glue.c only.
ReadAborted == IF scene.port = "usb1" THEN "readcancel" ELSE "cancelreq"
TimeoutCode == IF scene.port = "usb1" THEN "TIMEOUT" ELSE "IO"

\* SendReq, wrong: the request goes out twice.
SendReq_Twice ==
  /\ pc = "sendreq"
  /\ outq' = outq \o <<cur, cur>>
  /\ pc' = CASE cur.kind = "send" -> "senddata" [] cur.kind = "get" -> "getdata"
             [] OTHER -> "getresp"
  /\ UNCHANGED <<cur, tid, tries, surplus, got, last, conn,
                 waiting, reply, pipe, session, scene, done, spent>>

SendReq ==
  /\ pc = "sendreq"
  /\ \/ /\ outq' = Append(outq, cur)
        /\ pc' = CASE cur.kind = "send" -> "senddata"
                   [] cur.kind = "get" -> "getdata"
                   [] OTHER -> "getresp"
        /\ UNCHANGED <<cur, tid, tries, got, last, conn, spent>>
     \/ /\ outq' = Append(outq, cur)
        /\ Early /\ Return("CANCEL", 0)
     \/ /\ Fault /\ Return("IO", 0)
        /\ UNCHANGED outq
  /\ UNCHANGED <<surplus, waiting, reply, pipe, session, scene, done>>

\* ptp_usb_senddata; the callback may cancel it.
SendData ==
  /\ pc = "senddata"
  /\ \/ /\ outq' = Append(outq, [cur EXCEPT !.kind = "data"])
        /\ pc' = "getresp"
        /\ UNCHANGED <<cur, tid, tries, got, last, conn, spent>>
     \/ /\ Fault /\ Return("IO", 0)
        /\ UNCHANGED outq
     \/ /\ Abort /\ pc' = "cancelreq"
        /\ UNCHANGED <<cur, tid, tries, got, last, conn, outq>>
  /\ UNCHANGED <<surplus, waiting, reply, pipe, session, scene, done>>

\* ptp_usb_getpacket: the buffered surplus first, then the pipe.
Incoming == surplus \o pipe
Next1 == Head(Incoming)
\* TakePacket, wrong: the packet is not consumed.
TakePacket_Peeks(rest) ==
  /\ Incoming # << >> /\ UNCHANGED pipe /\ surplus' = rest

TakePacket(rest) ==
  /\ Incoming # << >>
  /\ pipe' = IF surplus = << >> THEN Tail(pipe) ELSE pipe
  /\ surplus' = rest
NoPacket == Incoming = << >> /\ TimedOut

\* ptp_usb_getdata, its header: any data container of the right operation
\* will do, the transaction id is not looked at.
GetData ==
  /\ pc = "getdata"
  /\ \/ /\ surplus = << >> /\ TakePacket(<< >>)
        /\ Early /\ Return("IO", 0)
     \/ /\ Incoming # << >> /\ Next1.type # "data"
        /\ TakePacket(<< >>)
        /\ Return("DATA_EXPECTED", 0)
        /\ UNCHANGED spent
     \/ /\ Incoming # << >> /\ Next1.type = "data"
        /\ Next1.code # cur.op /\ ~broken
        /\ TakePacket(<< >>)
        /\ Return("IO", 0)
        /\ UNCHANGED spent
     \/ /\ Incoming # << >> /\ Next1.type = "data"
        /\ (Next1.code = cur.op \/ broken)
        /\ TakePacket(IF Next1.rest = "joined"
                        THEN << [Next1 EXCEPT !.type = "resp", !.code = "OK", !.rest = "none"] >>
                        ELSE << >>)
        /\ got' = Next1.n
        /\ \/ /\ pc' = IF Next1.rest = "payload" THEN "getrest" ELSE "getresp"
              /\ UNCHANGED spent
           \/ /\ pc' = ReadAborted
              /\ Abort
        /\ UNCHANGED <<cur, tid, tries, last, conn>>
     \/ /\ NoPacket /\ Return("IO", 0)
        /\ UNCHANGED <<surplus, pipe>>
  /\ UNCHANGED <<outq, waiting, reply, session, scene, done>>

\* ptp_usb_getdata, the packets after a full one: ptp_read_func.
GetRest ==
  /\ pc = "getrest"
  /\ \/ /\ pipe # << >>
        /\ pipe' = Tail(pipe)
        /\ \/ /\ pc' = "getresp"
              /\ UNCHANGED spent
           \/ /\ pc' = ReadAborted
              /\ Abort
        /\ UNCHANGED <<cur, tid, tries, got, last, conn>>
     \/ /\ pipe = << >> /\ TimedOut /\ Return(TimeoutCode, 0)
        /\ UNCHANGED pipe
  /\ UNCHANGED <<surplus, outq, waiting, reply, session, scene, done>>

-----------------------------------------------------------------------------
\* PTP class request Cancel: the responder drops the transaction.
CancelAtDevice ==
  /\ reply' = IF reply # << >> /\ Head(reply).n = cur.n THEN << >> ELSE reply
  /\ waiting' = IF waiting = cur.n THEN 0 ELSE waiting
  /\ \E k \in 0 .. Len(outq) :     \* its command and data are the last ones
       /\ \A i \in 1 .. Len(outq) : i <= k <=> outq[i].n # cur.n
       /\ outq' = SubSeq(outq, 1, k)
  /\ UNCHANGED <<pipe, session, scene, done>>

\* ptp_read_cancel_func: cancel (whether it worked is not looked at), ...
ReadCancel ==
  /\ pc = "readcancel" /\ pc' = "devstat"
  /\ \/ CancelAtDevice /\ UNCHANGED spent
     \/ Fault /\ UNCHANGED device
  /\ UNCHANGED <<cur, tid, tries, surplus, got, last, conn>>

\* DevStat, wrong: the pipe is not drained.
DevStat_NoDrain ==
  /\ pc = "devstat" /\ pc' = "cancelreq"
  /\ \/ ~Busy /\ UNCHANGED spent
     \/ Fault
  /\ UNCHANGED <<cur, tid, tries, surplus, got, last, conn, device>>

\* ... ask for the status until the device is no longer busy, or does not say, ...
DevStat ==
  /\ pc = "devstat" /\ pc' = "drain"
  /\ \/ ~Busy /\ UNCHANGED spent
     \/ Fault
  /\ UNCHANGED <<cur, tid, tries, surplus, got, last, conn, device>>

\* ... and read the pipe until a read times out.
Drain ==
  /\ pc = "drain"
  /\ \/ /\ pipe # << >> /\ pipe' = Tail(pipe)
        /\ UNCHANGED <<pc, spent>>
     \/ /\ pipe = << >> /\ TimedOut /\ pc' = "cancelreq"
        /\ UNCHANGED pipe
  /\ UNCHANGED <<cur, tid, tries, surplus, got, last, conn,
                 outq, waiting, reply, session, scene, done>>

\* The cancel request of ptp_transaction_new, for a read the second one.
CancelReq ==
  /\ pc = "cancelreq"
  /\ \/ CancelAtDevice /\ Return("CANCEL", 0) /\ UNCHANGED spent
     \/ Fault /\ Return("IO", 0) /\ UNCHANGED device
  /\ UNCHANGED surplus

\* The tests on a response, left out.
Refused_Never == FALSE
Leftover_Never == FALSE

\* ptp_usb_getresp and the loop around it.  Next1 is ...
Junk == Next1.type # "resp"                  \* RESP_EXPECTED, a zero-length packet
Refused == ~Junk /\ Next1.code # "OK"        \* returned before its id is looked at
RespTid == IF broken THEN cur.tid ELSE Next1.tid
Old == ~Junk /\ ~Refused /\ RespTid < cur.tid /\ cur.kind # "close"
Future == ~Junk /\ ~Refused /\ RespTid > cur.tid
\* ... and only a left-over met by OpenSession uses up one of the tries.
Leftover == Future /\ cur.kind = "open" /\ tries > 1

GetResp ==
  /\ pc = "getresp"
  /\ \/ /\ TakePacket(<< >>)
        /\ \/ /\ Junk \/ Old
              /\ UNCHANGED <<pc, cur, tid, tries, got, last, conn>>
           \/ /\ Leftover
              /\ tries' = tries - 1
              /\ UNCHANGED <<pc, cur, tid, got, last, conn>>
           \/ Refused /\ Return(Next1.code, Next1.n)
           \/ Future /\ ~Leftover /\ Return("BADPARAM", Next1.n)
           \/ ~Junk /\ ~Refused /\ ~Old /\ ~Future /\ Return("OK", Next1.n)
        /\ UNCHANGED spent
     \/ /\ NoPacket /\ Return("IO", 0)
        /\ UNCHANGED <<surplus, pipe>>
  /\ UNCHANGED <<outq, waiting, reply, session, scene, done>>

-----------------------------------------------------------------------------
\* ptp_opensession starts over with transaction id 0 and drops the surplus.
OpenSession(stage) ==
  /\ Begin("open", "OpenSession", 0)
  /\ surplus' = << >>
  /\ conn' = stage
  /\ UNCHANGED last

\* configure_usb_device: a first OpenSession, ...
Connect ==
  /\ pc = "idle" /\ conn = "down" /\ spent.connects < scene.max.connects
  /\ OpenSession("first") /\ Spend("connects")
  /\ UNCHANGED device

\* ... after an I/O error a USB reset and a second one, ...
OpenReset ==
  /\ pc = "opened" /\ conn = "first" /\ last.rc = "IO"
  /\ OpenSession("second")
  /\ outq' = << >> /\ waiting' = 0 /\ reply' = << >> /\ pipe' = << >> /\ session' = FALSE
  /\ UNCHANGED <<scene, done, spent>>

\* ... if the transaction id was invalid another one: transaction_id is
\* increased by 10, and ptp_opensession sets it to 0 again.
OpenRetry ==
  /\ pc = "opened" /\ conn \in {"first", "second"} /\ last.rc = "InvalidTid"
  /\ OpenSession("retry")
  /\ UNCHANGED <<device, spent>>

\* The session is open, or it is given up.
Opened ==
  /\ pc = "opened" /\ ~(conn = "first" /\ last.rc = "IO")
  /\ ~(conn \in {"first", "second"} /\ last.rc = "InvalidTid")
  /\ conn' = IF last.rc \in {"OK", "AlreadyOpened"} THEN "up" ELSE "down"
  /\ pc' = "idle"
  /\ UNCHANGED <<cur, tid, tries, surplus, got, last, device, spent>>

\* The program ends without LIBMTP_Release_Device; the device does not notice.
Crash ==
  /\ conn # "down" /\ spent.crashes < scene.max.crashes /\ Spend("crashes")
  /\ pc' = "idle" /\ conn' = "down" /\ surplus' = << >> /\ tid' = 0 /\ got' = 0
  /\ UNCHANGED <<cur, tries, last, device>>

Host == SendReq \/ SendData \/ GetData \/ GetRest \/ GetResp
          \/ ReadCancel \/ DevStat \/ Drain \/ CancelReq
          \/ OpenReset \/ OpenRetry \/ Opened

Next == \/ \E k \in {"nodata", "send", "close"} : Call(k, k)
        \/ \E op \in scene.ops : Call("get", op)
        \/ Connect \/ Host \/ Responder \/ Crash

\* A blocking call goes on until it returns; the responder goes on until it
\* has answered.  Nobody has to make a call.
Spec == Init /\ [][Next]_vars /\ WF_vars(Host) /\ WF_vars(Responder)

-----------------------------------------------------------------------------
\* Properties

Serials == 0 .. cur.n
Packets == [type : {"data", "resp", "payload", "null"}, n : Serials,
            tid : 0 .. cur.n \cup {Insane},
            code : scene.ops \cup Errors \cup {"OK", "insane"},
            rest : {"none", "joined", "payload"}]
Operations == scene.ops \cup {"none", "OpenSession", "nodata", "send", "close"}

\* Every variable has its type: transaction ids and serial numbers never run
\* ahead of the commands issued, and no packet is from the future.
TypeOK ==
  /\ pc \in {"idle", "sendreq", "senddata", "getdata", "getrest", "getresp",
             "readcancel", "devstat", "drain", "cancelreq", "opened"}
  /\ conn \in {"down", "first", "second", "retry", "up"}
  /\ cur \in [n : Nat, tid : Serials, kind : Kinds, op : Operations]
  /\ tid \in Serials /\ tries \in 0 .. 3 /\ got \in Serials
  /\ last \in [n : Serials, kind : Kinds, rc : Errors \cup HostErrors \cup {"OK"},
               resp : Serials, data : Serials]
  /\ surplus \in Seq(Packets) /\ reply \in Seq(Packets) /\ pipe \in Seq(Packets)
  /\ outq \in Seq([n : Serials, tid : Serials, kind : Kinds \cup {"data"}, op : Operations])
  /\ waiting \in Serials /\ session \in BOOLEAN /\ scene \in Scenarios /\ done \in Seq(Serials)
  /\ spent \in [timeouts : 0 .. scene.max.timeouts, cancels : 0 .. scene.max.cancels,
                early : 0 .. scene.max.early, connects : 0 .. scene.max.connects, crashes : 0 .. scene.max.crashes]

Work == {"nodata", "get", "send"}
Quiet == Incoming = << >> /\ ~Busy
Faultless ==
  spent.timeouts = 0 /\ spent.cancels = 0 /\ spent.early = 0 /\ spent.crashes = 0

\* ptp_transaction_new reports success only with the response to its own
\* command, whatever was left in the pipe by transactions that timed out.
\* CloseSession, which takes any old response, is left out, and so are devices
\* with broken headers, whose responses cannot be told apart.  It is a promise
\* for the first two connections only: see PtpTransactionProofs.
OkIsOwn == last.rc = "OK" /\ last.kind \in Work /\ ~broken => last.resp = last.n

\* The pipe is clean when a transaction is over: when nothing went wrong the host
\* took every packet, surplus responses, zero-length packets and refused data
\* phases included; a success leaves nothing of earlier transactions that timed
\* out; and the first transfer that is cancelled leaves nothing the device goes
\* on with (ptp_read_cancel_func, and for a data-out phase the cancel request
\* alone), unless it was cancelled early, or read without ptp_read_cancel_func.
\* Not so the second: a read that is cancelled when data and response came in one
\* packet leaves the response in params->response_packet (libusb1-glue.c lines
\* 1503-1507), the next data phase takes it for its header, and what the device
\* then sends is left on the way.
LeavesNothing ==
  pc = "idle" =>
    /\ Faultless => Quiet
    /\ last.n = cur.n /\ last.rc = "OK" /\ last.kind \in Work /\ ~broken => Quiet
    /\ last.n = cur.n /\ last.rc = "CANCEL" /\ (scene.port = "usb1" \/ last.kind = "send")
       /\ spent.timeouts = 0 /\ spent.early = 0 /\ spent.crashes = 0 /\ spent.cancels = 1
       => pipe = << >> /\ ~Busy

\* When nothing goes wrong, result and data are those of the caller's own
\* command, success means just that the command was carried out, and no call
\* fails on the host's own account: not for a surplus response, the id 0 of a
\* CloseSession response, or a broken header of a device known for it
\* (DEVICE_FLAG_IGNORE_HEADER_ERRORS).
OwnAnswer ==
  Faultless =>
    /\ last.rc \in Errors \cup {"OK", "DATA_EXPECTED"}
    /\ last.n > 0 /\ last.rc \in Errors \cup {"OK"} => last.resp = last.n
    /\ last.n > 0 /\ last.rc = "OK" /\ last.kind = "get" => last.data = last.n
    /\ last.n > 0 => (last.rc = "OK" <=> last.n \in Range(done))

\* A program can connect after one that ended without LIBMTP_Release_Device
\* (libusb1-glue.c lines 2305-2308): its OpenSession fails only when a response
\* says so, or after two left-over responses.
OpensAfterCrash ==
  [][Opened /\ spent.timeouts = 0 /\ conn' # "up" => last.rc \in Errors \/ tries = 1]_vars

\* Unless a read timed out, while the host holds a session open and nothing is
\* on its way the device has one open as well: when nothing else went wrong
\* either, in the first connection, and, if the device refuses no OpenSession,
\* whatever a crashed program left.  On one that does, OpenSession can take the
\* response to an old CloseSession, with transaction id 0, for its own.
InSession ==
  /\ spent.timeouts = 0 /\ conn = "up" /\ Quiet
  /\ Faultless \/ spent.connects = 1 \/ scene.opening = {"OK"}
  => session

\* The data a successful transaction delivers are its own.
DataIsOwn == last.rc = "OK" /\ last.kind = "get" => last.data = last.n

\* Every call returns, however late the responder and whatever it sends.
Returns == (pc # "idle") ~> (pc = "idle")

\* The transactions implement MtpCalls.
Calls == INSTANCE MtpCalls
           WITH issued <- cur.n, done <- done,
                result <- [n |-> last.n, ok |-> last.rc = "OK" /\ last.kind \in Work /\ ~broken]
CallsSpec == Calls!Spec
=============================================================================
