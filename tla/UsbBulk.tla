------------------------------- MODULE UsbBulk -------------------------------
(***************************************************************************)
(* The bytes of a data phase on the bulk pipes (src/src/libusb1-glue.c):   *)
(* how ptp_usb_getdata and ptp_read_func find the end of what the device   *)
(* sends, and how ptp_usb_senddata and ptp_write_func cut what the host    *)
(* sends.  A transfer ends with a packet that is not full; one that is a   *)
(* whole number of packets long needs something more, a zero-length        *)
(* packet or, from devices that cannot send one, an extra byte.            *)
(***************************************************************************)
EXTENDS Integers, Sequences, SequencesExt

CONSTANTS Packet,     \* inep_maxpacket and outep_maxpacket
          Block,      \* CONTEXT_BLOCK_SIZE
          HdrLen,     \* PTP_USB_BULK_HDR_LEN, also the length of a response
          First,      \* PTP_USB_BULK_PAYLOAD_LEN_WRITE
          Sizes,      \* of objects
          Missing,    \* how many bytes a file may be shorter than announced
          Devices,    \* kinds of device, see Device
          MaxCalls, MaxFaults  \* bounds

ASSUME SizeAssumption == /\ {Packet, HdrLen, First} \subseteq Nat \ {0}
                         /\ Sizes \cup Missing \subseteq Nat
                         /\ 2 * HdrLen < Packet
ASSUME BlockAssumption == Block \in {k * Packet : k \in 1 .. Block}
ASSUME FirstAssumption == HdrLen + First \in {k * Packet : k \in 1 .. Block \div Packet}
ASSUME BoundAssumption == MaxCalls \in Nat /\ MaxFaults \in Nat

\* Header and data in separate transfers; the extra byte (and the flag
\* NO_ZERO_READS set for it); what may follow short data in the same packet:
\* the response, or a stray byte.  port: the file the library is built with, see UsbPorts.
Port == {"usb1", "usb0", "openusb"}
Device == [split : BOOLEAN, noZeroReads : BOOLEAN, tail : {"none", "joined", "stray"}, port : Port]

ASSUME DeviceAssumption == Devices \subseteq Device

VARIABLES
  dev,                \* which of Devices it is
  pc, kind, size, rc, \* the call: of data in or out, of an object of this size
  pipe, surplus,      \* packets on their way to the host; response_packet
  got, curread,       \* what the data handler was given; bytes read by ptp_read_func
  split,              \* params->split_header_data
  stage, rest,        \* of ptp_usb_senddata: which write, and what comes after it
  left, file, buf,    \* of ptp_write_func: its size, what its handler still has, a chunk
  curwrite, usbwritten, xwritten,
  wire,               \* the packets the device received
  calls, faults       \* how much of each bound is used

reading == <<pipe, surplus, got, curread>>
writing == <<stage, rest, left, file, buf, curwrite, usbwritten, xwritten, wire>>
call == <<dev, kind, size, calls>>
vars == <<call, pc, rc, reading, split, writing, faults>>

\* Bytes: those of the object are 1, 2, ..., the others are
Header == 0
Response == -1
Refusal == -2
Extra == -3

Object(n) == [i \in 1 .. n |-> i]
Hdr(byte) == [i \in 1 .. HdrLen |-> byte]
Least(m, n) == IF m <= n THEN m ELSE n

-----------------------------------------------------------------------------
\* A transfer as packets, and the packet that ends one of whole packets.
Full(s) == Len(s) % Packet = 0
Packets(s) == [i \in 1 .. (Len(s) + Packet - 1) \div Packet |->
                 SubSeq(s, (i - 1) * Packet + 1, Least(i * Packet, Len(s)))]
Ended(s, last) == IF Full(s) THEN Append(Packets(s), last) ELSE Packets(s)

\* A data phase with these bytes, header first or apart.
DataPhase(apart, s, last) ==
  IF apart /\ s # << >> THEN << Hdr(Header) >> \o Ended(s, last) ELSE Ended(Hdr(Header) \o s, last)

EndPacket == IF dev.noZeroReads THEN << Extra >> ELSE << >>

\* The device sends s for an object announced with its size, and a response;
\* data of one short packet may have a tail.
Sent(s, code) ==
  LET alone == Hdr(Header) \o s
      tail == CASE dev.tail = "joined" -> Hdr(code) [] dev.tail = "stray" -> << Extra >>
                [] OTHER -> << >>
      response == IF dev.tail = "joined" THEN << >> ELSE << Hdr(code) >>
  IN IF ~dev.split /\ Len(alone) + Len(tail) < Packet THEN << alone \o tail >> \o response
     ELSE DataPhase(dev.split, s, EndPacket) \o << Hdr(code) >>

\* The device answers a data-in operation; or it refuses it, gives up half way
\* (and says so), or stops sending.
GetAnswers ==
  {<< Hdr(Refusal) >>} \cup {Sent(Object(m), Refusal) : m \in 0 .. size - 1}
    \cup {SubSeq(Sent(Object(size), Response), 1, k) :
            k \in 0 .. Len(Sent(Object(size), Response)) - 1}

-----------------------------------------------------------------------------
\* libusb_bulk_transfer(inep, n): packets until one is short or n bytes are
\* there; a packet with more than was asked for is lost, and an error.
Stops(k, n) == Len(pipe[k]) < Packet \/ k * Packet >= n
Arrived(n) == \E k \in 1 .. Len(pipe) : Stops(k, n)
Count(n) == CHOOSE k \in 1 .. Len(pipe) : Stops(k, n) /\ \A j \in 1 .. k - 1 : ~Stops(j, n)
Bytes(n) == FlattenSeq(SubSeq(pipe, 1, Count(n)))
Overflow(n) == Len(Bytes(n)) > n
Take(n) == pipe' = SubSeq(pipe, Count(n) + 1, Len(pipe))
Lost == pipe' = << >>        \* a read that timed out has taken what there was

\* A read whose result is ignored.
TakeIgnored(n) == IF Arrived(n) THEN Take(n) ELSE Lost

Return(code) == pc' = "idle" /\ rc' = code

\* What ptp_read_func says of a read that times out.
TimeoutCode == IF dev.port = "usb1" THEN "TIMEOUT" ELSE "IO"

\* ptp_usb_getpacket: the surplus first.
PacketThere == surplus # << >> \/ Arrived(Packet)
ThePacket == IF surplus # << >> THEN surplus ELSE Bytes(Packet)
TakePacket == IF surplus # << >> THEN UNCHANGED pipe ELSE Take(Packet)

\* The first write of a data-out phase: its size, its bytes, and those after it.
Begins(n, data, after) ==
  /\ stage' = "first" /\ left' = n /\ file' = data /\ rest' = after
  /\ buf' = << >> /\ curwrite' = 0 /\ usbwritten' = 0 /\ xwritten' = 0 /\ wire' = << >>
NoWriting == Begins(0, << >>, << >>)

Init ==
  /\ dev \in Devices
  /\ pc = "idle" /\ kind = "get" /\ size = 0 /\ rc = "none"
  /\ pipe = << >> /\ surplus = << >> /\ got = << >> /\ curread = 0
  /\ split = FALSE
  /\ stage = "first" /\ rest = << >> /\ left = 0 /\ file = << >> /\ buf = << >>
  /\ curwrite = 0 /\ usbwritten = 0 /\ xwritten = 0 /\ wire = << >>
  /\ calls = 0 /\ faults = 0

-----------------------------------------------------------------------------
\* A call with a data-in phase, and what the device answers.
Get(n) ==
  /\ pc = "idle" /\ calls < MaxCalls /\ calls' = calls + 1
  /\ kind' = "get" /\ size' = n /\ rc' = "none"
  /\ got' = << >> /\ curread' = 0
  /\ pc' = "answer" /\ NoWriting
  /\ UNCHANGED <<dev, pipe, surplus, split, faults>>

Answer ==
  /\ pc = "answer" /\ pc' = "getdata"
  /\ \/ pipe' = pipe \o Sent(Object(size), Response) /\ UNCHANGED faults
     \/ /\ faults < MaxFaults /\ faults' = faults + 1
        /\ \E a \in GetAnswers : pipe' = pipe \o a
  /\ UNCHANGED <<call, rc, surplus, got, curread, split, writing>>

\* ptp_usb_getdata with its first packet.  A full one is taken for one of
\* many; another holds all of the data or, if it is as long as a header, none.
Length == HdrLen + size
IsData == ThePacket # << >> /\ ThePacket[1] = Header
Whole == Len(ThePacket) = Packet
Behind == SubSeq(ThePacket, Length + 1, Len(ThePacket))

\* Mutant: what follows the data is dropped.
Surplus_Dropped == << >>

rlen == IF Whole THEN Packet ELSE Least(Length, Len(ThePacket))
Surplus == IF ~Whole /\ Len(Behind) >= HdrLen THEN Behind ELSE << >>
SplitHeader == ~Whole /\ rlen = HdrLen /\ Length > HdrLen

GetData ==
  /\ pc = "getdata"
  /\ \/ /\ ~PacketThere /\ Lost /\ Return("IO")
        /\ UNCHANGED <<surplus, got, split>>
     \/ /\ PacketThere /\ ~IsData /\ TakePacket /\ surplus' = << >>
        /\ Return("DATA_EXPECTED")
        /\ UNCHANGED <<got, split>>
     \/ /\ PacketThere /\ IsData /\ TakePacket
        /\ surplus' = Surplus
        /\ split' = (split \/ SplitHeader)
        /\ got' = SubSeq(ThePacket, HdrLen + 1, rlen)
        /\ pc' = IF rlen = Length THEN "getresp"
                 ELSE IF Whole THEN "stream"
                 ELSE IF Length = Packet /\ (dev.noZeroReads \/ ~split') THEN "extra" ELSE "sized"
        /\ UNCHANGED rc
  /\ UNCHANGED <<call, curread, writing, faults>>

\* After a full packet: blocks until one is short, whatever the length.
Stream ==
  /\ pc = "stream"
  /\ \/ /\ Arrived(Block) /\ Take(Block)
        /\ got' = got \o Bytes(Block)
        /\ pc' = IF Len(Bytes(Block)) < Block THEN "getresp" ELSE "stream"
        /\ UNCHANGED rc
     \/ ~Arrived(Block) /\ Lost /\ Return(TimeoutCode) /\ UNCHANGED got
  /\ UNCHANGED <<call, surplus, curread, split, writing, faults>>

\* Data as long as a packet: the byte, or packet, behind it is read before
\* what has not been read of the data.
ReadExtra ==
  /\ pc = "extra" /\ pc' = "sized"
  /\ TakeIgnored(IF dev.noZeroReads THEN 1 ELSE 0)
  /\ UNCHANGED <<call, rc, surplus, got, curread, split, writing, faults>>

\* After a header: ptp_read_func for the rest of the length.  A block that is
\* not the last one, or is a whole one, gets no room for an extra byte.
Remaining == size - Len(got)
Terminator == Remaining < Block /\ dev.noZeroReads /\ Remaining % Packet = 0
\* Mutant: the extra byte is kept.
Kept_Extra == Bytes(IF Terminator THEN Remaining + 1 ELSE Least(Remaining, Block))

toread == IF Terminator THEN Remaining + 1 ELSE Least(Remaining, Block)
Kept == IF Terminator THEN SubSeq(Bytes(toread), 1, Least(Remaining, Len(Bytes(toread))))
        ELSE Bytes(toread)

ReadSized ==
  /\ pc = "sized"
  /\ \/ /\ Arrived(toread) /\ ~Overflow(toread) /\ Take(toread)
        /\ got' = got \o Kept /\ curread' = curread + Len(Kept)
        /\ pc' = IF Len(Kept) < toread \/ Remaining <= Len(Kept) THEN "zero" ELSE "sized"
        /\ UNCHANGED rc
     \/ /\ Arrived(toread) /\ Overflow(toread) /\ Take(toread)
        /\ Return("IO")
        /\ UNCHANGED <<got, curread>>
     \/ /\ ~Arrived(toread) /\ Lost /\ Return(TimeoutCode)
        /\ UNCHANGED <<got, curread>>
  /\ UNCHANGED <<call, surplus, split, writing, faults>>

\* "there might be a zero packet waiting for us..."
ZeroPacket == ~dev.noZeroReads /\ curread % Packet = 0

ReadZero ==
  /\ pc = "zero" /\ pc' = "getresp"
  /\ IF ZeroPacket THEN TakeIgnored(0) ELSE UNCHANGED pipe
  /\ UNCHANGED <<call, rc, surplus, got, curread, split, writing, faults>>

\* ptp_usb_getresp and the loop around it pass over what is no response.
GetResp ==
  /\ pc = "getresp"
  /\ \/ /\ PacketThere /\ TakePacket /\ surplus' = << >>
        /\ IF ThePacket # << >> /\ ThePacket[1] \in {Response, Refusal}
             THEN Return(IF ThePacket[1] = Response THEN "OK" ELSE "refused")
             ELSE UNCHANGED <<pc, rc>>
     \/ ~PacketThere /\ Lost /\ Return("IO") /\ UNCHANGED surplus
  /\ UNCHANGED <<call, got, curread, split, writing, faults>>

-----------------------------------------------------------------------------
\* A call with a data-out phase, of a file that may be shorter than announced:
\* ptp_usb_senddata with its first write, the header alone or with data.
datawlen(n) == IF split THEN 0 ELSE Least(n, First)

Send(n) ==
  /\ pc = "idle" /\ calls < MaxCalls /\ calls' = calls + 1
  /\ kind' = "send" /\ size' = n /\ got' = << >> /\ curread' = 0
  /\ \E m \in Missing :
       LET data == Object(IF m <= n THEN n - m ELSE 0)
           d == datawlen(n)
       IN \/ /\ Len(data) >= d /\ pc' = "fill" /\ rc' = "none"
             /\ Begins(HdrLen + d, Hdr(Header) \o SubSeq(data, 1, d),
                       SubSeq(data, d + 1, Len(data)))
          \/ Len(data) < d /\ Return("GeneralError") /\ NoWriting
  /\ UNCHANGED <<dev, pipe, surplus, split, faults>>

\* Mutants: a chunk shorter than a packet is cut as well, a last packet that is
\* full is left as it is.
Chunk_Always(n) == IF n > Block THEN Block ELSE n - (n % Packet)
Ends_Not == FALSE

\* ptp_write_func: "This magic makes packets the same size that WMP send them."
Chunk(n) == IF n > Block THEN Block
            ELSE IF n > Packet THEN n - (n % Packet) ELSE n
Ends == Len(FlattenSeq(wire)) >= Length /\ Full(buf)

Fill ==
  /\ pc = "fill"
  /\ IF curwrite < left
       THEN /\ LET n == Least(Chunk(left - curwrite), Len(file))
               IN buf' = SubSeq(file, 1, n) /\ file' = SubSeq(file, n + 1, Len(file))
            /\ usbwritten' = 0 /\ xwritten' = 0 /\ pc' = "put"
       ELSE pc' = "wrote" /\ UNCHANGED <<buf, file, usbwritten, xwritten>>
  /\ UNCHANGED <<call, rc, reading, split, stage, rest, left, curwrite, wire, faults>>

\* A write takes all it is given, or (a fault) fails or takes whole packets of it.
PutBytes(k) ==
  /\ wire' = wire \o Packets(SubSeq(buf, usbwritten + 1, usbwritten + k))
  /\ xwritten' = k /\ usbwritten' = usbwritten + k /\ curwrite' = curwrite + k
  /\ UNCHANGED <<pc, rc>>

Put ==
  /\ pc = "put" /\ usbwritten < Len(buf)
  /\ \/ PutBytes(Len(buf) - usbwritten) /\ UNCHANGED faults
     \/ /\ faults < MaxFaults /\ faults' = faults + 1
        /\ \/ Return("IO") /\ UNCHANGED <<wire, xwritten, usbwritten, curwrite>>
           \/ \E k \in 1 .. Len(buf) - usbwritten - 1 : k % Packet = 0 /\ PutBytes(k)
  /\ UNCHANGED <<call, reading, split, stage, rest, left, file, buf>>

\* "short writes happen"
PutDone ==
  /\ pc = "put" /\ usbwritten = Len(buf)
  /\ pc' = IF xwritten < Len(buf) THEN "wrote" ELSE "fill"
  /\ UNCHANGED <<call, rc, reading, split, writing, faults>>

\* The end of ptp_write_func, and what ptp_usb_senddata goes on with.  The
\* device answers when it has everything.
NextWrite(n, data) ==
  /\ stage' = "rest" /\ left' = n /\ file' = data /\ rest' = << >>
  /\ curwrite' = 0 /\ pc' = "fill" /\ UNCHANGED <<rc, pipe>>

Sending == pc' = "getresp" /\ pipe' = Append(pipe, Hdr(Response))
           /\ UNCHANGED <<rc, stage, left, file, rest, curwrite>>

Wrote ==
  /\ pc = "wrote"
  /\ wire' = IF Ends THEN Append(wire, << >>) ELSE wire
  /\ \/ stage = "first" /\ Length <= left /\ Sending
     \/ stage = "first" /\ Length > left /\ NextWrite(Length - left, rest)
     \/ stage = "rest" /\ curwrite = left /\ Sending
     \/ /\ stage = "rest" /\ curwrite < left
        /\ IF curwrite > 0 THEN NextWrite(left - curwrite, file)
           ELSE Return("IO") /\ UNCHANGED <<pipe, stage, left, file, rest, curwrite>>
  /\ UNCHANGED <<call, surplus, got, curread, split, buf, usbwritten, xwritten, faults>>

Host == \/ GetData \/ Stream \/ ReadExtra \/ ReadSized \/ ReadZero \/ GetResp
        \/ Fill \/ Put \/ PutDone \/ Wrote
Next == (\E n \in Sizes : Get(n) \/ Send(n)) \/ Answer \/ Host

\* Calls block: the host goes on until one returns, and the device answers.
Spec == Init /\ [][Next]_vars /\ WF_vars(Host \/ Answer)

-----------------------------------------------------------------------------
\* Properties

TypeOK ==
  /\ dev \in Devices /\ kind \in {"get", "send"} /\ split \in BOOLEAN
  /\ pc \in {"idle", "answer", "getdata", "stream", "extra", "sized", "zero", "getresp",
             "fill", "put", "wrote"}
  /\ Len(surplus) <= Packet /\ \A i \in DOMAIN pipe : Len(pipe[i]) <= Packet
  /\ Len(got) <= size + 1 /\ curread <= Len(got)
  /\ pc \in {"put", "wrote"} => usbwritten <= Len(buf) /\ curwrite <= left
  /\ \A i \in DOMAIN wire : Len(wire[i]) <= Packet

Done(k) == pc = "idle" /\ kind = k /\ rc # "none"

\* Devices that send an extra byte, where the library takes it for data: behind
\* a data phase that is read in blocks, and when it reads one byte of a packet
\* of data.
Misread == dev.noZeroReads /\ IF dev.split THEN Length = Packet
                               ELSE Length > Packet /\ Length % Packet = 0

\* Success delivers the object: no byte too many (of a tail, an extra byte or
\* the response) and none too few, also when the device stopped or gave up.
DataExact == Done("get") /\ rc = "OK" /\ ~Misread => got = Object(size)

\* "exactly one extra byte is sent at the end of the transfer"
\* (device-flags.h line 78), which the library reads "and discard[s]"
\* (libusb1-glue.c line 1543).
ExtraDiscarded == Done("get") /\ rc = "OK" => got = Object(size)

\* A device that behaves is understood whatever the size of its object: the
\* call succeeds and takes every packet, so that the next one begins with its
\* own; and header and data are sent apart just to devices that do so.
NothingLeft ==
  pc = "idle" /\ rc \notin {"none", "GeneralError"} /\ faults = 0 /\ ~(kind = "get" /\ Misread) =>
    rc = "OK" /\ pipe = << >> /\ surplus = << >> /\ (split => dev.split)

\* What the host sends is header and data in order, in full packets, with one
\* that is not full at the end, for every size.
SendFramed ==
  kind = "send" /\ pc = "getresp" /\ faults = 0 => wire = DataPhase(split, Object(size), << >>)

\* Every call returns.
CallReturns == pc # "idle" ~> pc = "idle"

\* A file that ends before its announced size ends the transfer: the write of
\* nothing is meant to be an error (libusb1-glue.c line 1366).
SendReturns == (kind = "send" /\ pc # "idle") ~> pc = "idle"
=============================================================================
