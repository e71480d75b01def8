------------------------ MODULE PtpTransactionFlow --------------------------
(***************************************************************************)
(* The types of PtpTransaction, for any responder and any bounds: what     *)
(* TypeOK says, and the little more that makes it inductive, by the parts  *)
(* of the state: the host's variables, the wires, the device's variables   *)
(* and what is spent.  Then what is on its way between host and responder: *)
(* commands in the order they were issued, each once, answers to commands  *)
(* that were sent, and a responder never ahead of the host.                *)
(***************************************************************************)
EXTENDS PtpPorts, SequenceTheorems, TLAPS

Limits == [timeouts : 0 .. scene.max.timeouts, cancels : 0 .. scene.max.cancels,
           early : 0 .. scene.max.early, connects : 0 .. scene.max.connects,
           crashes : 0 .. scene.max.crashes]

Places == {"idle", "sendreq", "senddata", "getdata", "getrest", "getresp",
           "readcancel", "devstat", "drain", "cancelreq", "opened"}
HostTypes ==
  /\ pc \in Places
  /\ conn \in {"down", "first", "second", "retry", "up"}
  /\ cur \in [n : Nat, tid : Serials, kind : Kinds, op : Operations]
  /\ cur.kind = "get" => cur.op \in scene.ops
  /\ tid \in Serials /\ tries \in 0 .. 3 /\ got \in Serials
  /\ last \in [n : Serials, kind : Kinds, rc : Errors \cup HostErrors \cup {"OK"},
               resp : Serials, data : Serials]

\* Packets and commands with what TypeOK leaves open about their codes.
Sound == {p \in Packets : p.type = "resp" => p.code \in Errors \cup {"OK"}}
Orders == {c \in [n : Serials, tid : Serials, kind : Kinds \cup {"data"}, op : Operations] :
             c.kind = "get" => c.op \in scene.ops}

Wires ==
  /\ surplus \in Seq(Sound) /\ reply \in Seq(Sound) /\ pipe \in Seq(Sound)
  /\ outq \in Seq(Orders)
DeviceTypes ==
  waiting \in Serials /\ session \in BOOLEAN /\ scene \in Scenarios /\ done \in Seq(Serials)

Types == HostTypes /\ Wires /\ DeviceTypes /\ spent \in Limits

(* The program starts, and the device was switched on, within the types. *)
LEMMA TypesInit == Init => Types
<1> SUFFICES ASSUME Init PROVE Types
  OBVIOUS
<1> USE DEF Init
<1>1. HostTypes
  BY DEF HostTypes, Places, NoCommand, NoResult, Serials, Kinds, Operations
<1>2. Wires
  BY DEF Wires
<1>3. DeviceTypes
  <2>1. 0 \in Serials
    BY DEF NoCommand, Serials
  <2>2. done \in Seq(Serials)
    BY EmptySeq
  <2> QED
    BY <2>1, <2>2 DEF DeviceTypes
<1>4. scene.max \in [Bounded -> Nat]
  BY ScenarioAssumption
<1>5. spent \in Limits
  BY <1>4 DEF Limits, Bounded
<1> QED
  BY <1>1, <1>2, <1>3, <1>5 DEF Types

(* A fault, a cancel or a connection that is allowed stays within its bound. *)
LEMMA SpendKeeps ==
  ASSUME Types, scene' = scene,
         NEW what \in {"timeouts", "cancels", "early", "connects", "crashes"},
         spent[what] < scene.max[what], Spend(what)
  PROVE  spent' \in Limits'
<1>1. scene.max \in [Bounded -> Nat]
  BY ScenarioAssumption DEF Types, DeviceTypes
<1> QED
  BY <1>1 DEF Types, Limits, Spend, Bounded

(* ptp_transaction_new returns one of the result codes there are.       *)
LEMMA ReturnKeeps ==
  ASSUME Types, scene' = scene, NEW rc \in Errors \cup HostErrors \cup {"OK"}, NEW resp \in Serials,
         Return(rc, resp)
  PROVE  HostTypes'
BY DEF Types, HostTypes, Places, Return, Serials, Operations, Errors

(* As commands are issued there are more serial numbers, and nothing leaves its type. *)
LEMMA SetsGrow ==
  ASSUME cur.n \in Nat, cur'.n \in Nat, cur.n <= cur'.n, scene' = scene
  PROVE  /\ Sound \subseteq Sound' /\ Orders \subseteq Orders'
         /\ Serials \subseteq Serials'
BY DEF Sound, Orders, Serials, Packets, Operations, Errors

(* While no command is issued the types are the same sets.              *)
LEMMA SameSets ==
  ASSUME cur' = cur, scene' = scene
  PROVE  /\ Sound' = Sound /\ Orders' = Orders /\ Serials' = Serials
         /\ Operations' = Operations /\ Limits' = Limits /\ Kinds' = Kinds
         /\ Errors' = Errors /\ HostErrors' = HostErrors
BY DEF Sound, Orders, Serials, Packets, Operations, Errors, HostErrors, Kinds, Limits

(* The current command may be queued, and so may its data. *)
LEMMA CurrentOrder ==
  ASSUME Types
  PROVE  /\ cur \in Orders /\ [cur EXCEPT !.kind = "data"] \in Orders
         /\ [cur EXCEPT !.kind = "data"].n = cur.n /\ [cur EXCEPT !.kind = "data"].tid = cur.tid
         /\ [cur EXCEPT !.kind = "data"].kind = "data"
BY DEF Types, HostTypes, Orders, Kinds, Serials

(* 0, "no command", is a serial number.                                 *)
LEMMA ZeroSerial == Types => 0 \in Serials
BY DEF Types, HostTypes, Serials

(* A step inside a transaction.                                         *)
LEMMA HostKeeps ==
  ASSUME Types, scene' = scene, UNCHANGED <<cur, tid, last, conn>>,
         pc' \in Places, tries' \in 0 .. 3, got' \in Serials
  PROVE  HostTypes'
BY SameSets DEF Types, HostTypes, Places

(* Packets and commands keep their types while no command is issued, ... *)
LEMMA WiresKeep ==
  ASSUME scene' = scene, cur' = cur,
         surplus' \in Seq(Sound), reply' \in Seq(Sound), pipe' \in Seq(Sound), outq' \in Seq(Orders)
  PROVE  Wires'
BY SameSets DEF Wires

(* ... and when one is.                                                 *)
LEMMA WiresGrow ==
  ASSUME Types, cur'.n \in Nat, cur.n <= cur'.n, scene' = scene
  PROVE  /\ \A s \in Seq(Sound) : s \in Seq(Sound')
         /\ \A s \in Seq(Orders) : s \in Seq(Orders')
         /\ \A s \in Seq(Serials) : s \in Seq(Serials')
<1>1. cur.n \in Nat
  BY DEF Types, HostTypes
<1> QED
  BY <1>1, SetsGrow, SeqMonotonic

(* The packet read next is the surplus, or the first one of the pipe.   *)
LEMMA NextPacket ==
  ASSUME surplus \in Seq(Sound), pipe \in Seq(Sound), Incoming # << >>
  PROVE  /\ Next1 \in Sound
         /\ surplus = << >> => pipe # << >> /\ Next1 = Head(pipe)
         /\ surplus # << >> => Next1 = Head(surplus)
<1>1. CASE surplus = << >>
  <2>1. Incoming = pipe
    BY <1>1 DEF Incoming
  <2> QED
    BY <1>1, <2>1, HeadTailProperties DEF Next1
<1>2. CASE surplus # << >>
  <2>1. Len(surplus) >= 1
    BY <1>2
  <2>2. Incoming[1] = surplus[1] /\ Incoming \in Seq(Sound)
    BY <2>1, ConcatProperties DEF Incoming
  <2>3. Head(Incoming) = Head(surplus)
    BY <1>2, <2>1, <2>2
  <2> QED
    BY <1>2, <2>3, HeadTailProperties DEF Next1
<1> QED
  BY <1>1, <1>2

(* ptp_usb_getpacket takes packets from where packets are.              *)
LEMMA TakePacketKeeps ==
  ASSUME surplus \in Seq(Sound), pipe \in Seq(Sound), NEW rest \in Seq(Sound), TakePacket(rest)
  PROVE  pipe' \in Seq(Sound) /\ surplus' \in Seq(Sound) /\ Next1 \in Sound
BY NextPacket, HeadTailProperties DEF TakePacket

(* A packet is a serial number's, and so is what getdata makes of it. *)
LEMMA SoundPacket ==
  ASSUME NEW p \in Sound
  PROVE  /\ p.n \in Serials
         /\ p.type = "resp" => p.code \in Errors \cup {"OK"}
         /\ << [p EXCEPT !.type = "resp", !.code = "OK", !.rest = "none"] >> \in Seq(Sound)
<1>1. [p EXCEPT !.type = "resp", !.code = "OK", !.rest = "none"] \in Sound
  BY DEF Sound, Packets
<1> QED
  BY <1>1 DEF Sound, Packets

(* Types are kept by ptp_usb_sendreq, ...                               *)
LEMMA TypesSendReq == ASSUME Types, SendReq PROVE Types'
<1> USE DEF Types
<1>1. DeviceTypes' /\ scene' = scene
  BY SameSets DEF SendReq, DeviceTypes, Return
<1>2. HostTypes'
  <2>1. ASSUME NEW rc \in {"CANCEL", "IO"}, Return(rc, 0)
        PROVE  HostTypes'
    BY <1>1, <2>1, ReturnKeeps, ZeroSerial DEF HostErrors
  <2>2. CASE UNCHANGED <<cur, tid, tries, got, last, conn>>
    <3>1. pc' \in Places
      BY <2>2 DEF SendReq, Places, HostTypes, ReadAborted, Return
    <3> QED
      BY <1>1, <2>2, <3>1, HostKeeps DEF HostTypes
  <2> QED
    BY <2>1, <2>2 DEF SendReq
<1>3. spent' \in Limits'
  BY <1>1, SpendKeeps DEF SendReq, Early, Fault, Limits
<1>4. Wires'
  <2>1. cur \in Orders /\ cur' = cur
    BY DEF HostTypes, Orders, Kinds, Serials, Return, SendReq
  <2>2. outq' \in Seq(Orders)
    <3>1. outq' = outq \/ outq' = Append(outq, cur)
      BY DEF SendReq
    <3>2. outq \in Seq(Orders)
      BY DEF Wires
    <3>3. Append(outq, cur) \in Seq(Orders)
      BY ONLY <2>1, <3>2, AppendProperties
    <3> QED
      BY <3>1, <3>2, <3>3
  <2> QED
    BY <1>1, <2>1, <2>2, WiresKeep DEF Wires, SendReq
<1> QED
  BY <1>1, <1>2, <1>3, <1>4

(* ... by ptp_usb_senddata, ...                                         *)
LEMMA TypesSendData == ASSUME Types, SendData PROVE Types'
<1> USE DEF Types
<1>1. DeviceTypes' /\ scene' = scene
  BY SameSets DEF SendData, DeviceTypes, Return
<1>2. HostTypes'
  <2>1. CASE Return("IO", 0)
    BY <1>1, <2>1, ReturnKeeps, ZeroSerial DEF HostErrors
  <2>2. CASE UNCHANGED <<cur, tid, tries, got, last, conn>>
    <3>1. pc' \in Places
      BY <2>2 DEF SendData, Places, HostTypes, ReadAborted, Return
    <3> QED
      BY <1>1, <2>2, <3>1, HostKeeps DEF HostTypes
  <2> QED
    BY <2>1, <2>2 DEF SendData
<1>3. spent' \in Limits'
  BY <1>1, SpendKeeps DEF SendData, Abort, Fault, Limits
<1>4. Wires'
  <2>1. [cur EXCEPT !.kind = "data"] \in Orders /\ cur' = cur
    BY DEF HostTypes, Orders, Kinds, Serials, Return, SendData
  <2>2. outq' \in Seq(Orders)
    <3>1. outq' = outq \/ outq' = Append(outq, [cur EXCEPT !.kind = "data"])
      BY DEF SendData
    <3>2. outq \in Seq(Orders)
      BY DEF Wires
    <3>3. Append(outq, [cur EXCEPT !.kind = "data"]) \in Seq(Orders)
      BY ONLY <2>1, <3>2, AppendProperties
    <3> QED
      BY <3>1, <3>2, <3>3
  <2> QED
    BY <1>1, <2>1, <2>2, WiresKeep DEF Wires, SendData
<1> QED
  BY <1>1, <1>2, <1>3, <1>4

(* ... when a read times out, ...                                       *)
LEMMA TimedOutKeeps ==
  ASSUME Types, TimedOut, scene' = scene
  PROVE  spent' \in Limits'
BY SpendKeeps DEF Types, TimedOut, MayTimeOut, Limits

(* ... by ptp_usb_getdata and the header it looks at, ...               *)
LEMMA TypesGetData == ASSUME Types, GetData PROVE Types'
<1> USE DEF Types, GetData
<1>1. DeviceTypes' /\ scene' = scene
  BY SameSets DEF Types, DeviceTypes, Return
<1>2. Incoming # << >> => Next1 \in Sound
  BY NextPacket DEF Wires
<1>3. HostTypes'
  <2>1. ASSUME NEW rc \in {"DATA_EXPECTED", "IO"}, Return(rc, 0)
        PROVE  HostTypes'
    BY <1>1, <2>1, ReturnKeeps, ZeroSerial DEF HostErrors
  <2>2. CASE /\ Incoming # << >> /\ got' = Next1.n
             /\ UNCHANGED <<cur, tid, tries, last, conn>>
    <3>1. got' \in Serials
      BY <1>2, <2>2, SoundPacket
    <3>2. pc' \in Places
      BY <2>2 DEF Places, HostTypes, ReadAborted, Return
    <3> QED
      BY <1>1, <2>2, <3>1, <3>2, HostKeeps DEF HostTypes
  <2> QED
    BY <2>1, <2>2
<1>4. spent' \in Limits'
  BY <1>1, SpendKeeps, TimedOutKeeps DEF Abort, Early, Limits, NoPacket
<1>5. Wires'
  <2>1. cur' = cur
    BY DEF Return
  <2>2. surplus' \in Seq(Sound) /\ pipe' \in Seq(Sound)
    <3>1. CASE TakePacket(<< >>)
      BY <3>1, TakePacketKeeps, EmptySeq DEF Wires
    <3>2. CASE UNCHANGED <<surplus, pipe>>
      BY <3>2 DEF Wires
    <3>3. CASE /\ Incoming # << >>
               /\ TakePacket(<< [Next1 EXCEPT !.type = "resp", !.code = "OK", !.rest = "none"] >>)
      BY <1>2, <3>3, TakePacketKeeps, SoundPacket DEF Wires
    <3> QED
      BY <3>1, <3>2, <3>3
  <2> QED
    BY <1>1, <2>1, <2>2, SameSets DEF Wires
<1> QED
  BY <1>1, <1>3, <1>4, <1>5

(* ... by the packets that follow it, ...                               *)
LEMMA TypesGetRest == ASSUME Types, GetRest PROVE Types'
<1> USE DEF Types, GetRest
<1>1. DeviceTypes' /\ scene' = scene
  BY SameSets DEF Types, DeviceTypes, Return
<1>2. HostTypes'
  <2>1. CASE Return(TimeoutCode, 0)
    BY <1>1, <2>1, ReturnKeeps, ZeroSerial DEF HostErrors, TimeoutCode
  <2>2. CASE UNCHANGED <<cur, tid, tries, got, last, conn>>
    <3>1. pc' \in Places
      BY <2>2 DEF Places, HostTypes, ReadAborted, Return
    <3> QED
      BY <1>1, <2>2, <3>1, HostKeeps DEF HostTypes
  <2> QED
    BY <2>1, <2>2
<1>3. spent' \in Limits'
  BY <1>1, SpendKeeps, TimedOutKeeps DEF Abort, Limits
<1>4. Wires'
  <2>1. cur' = cur
    BY DEF Return
  <2>2. pipe' \in Seq(Sound)
    BY HeadTailProperties DEF Wires
  <2> QED
    BY <1>1, <2>1, <2>2, SameSets DEF Wires
<1> QED
  BY <1>1, <1>2, <1>3, <1>4

(* ... by ptp_usb_getresp and the loop around it, ...                   *)
LEMMA TypesGetResp == ASSUME Types, GetResp PROVE Types'
<1> USE DEF Types, GetResp
<1>1. DeviceTypes' /\ scene' = scene
  BY SameSets DEF Types, DeviceTypes, Return
<1>2. HostTypes'
  <2>1. CASE TakePacket(<< >>)
    <3>1. Next1 \in Sound
      BY <2>1, NextPacket DEF Wires, TakePacket
    <3>2. Next1.n \in Serials
      BY <3>1, SoundPacket
    <3>3. CASE UNCHANGED <<pc, cur, tid, got, last, conn>> /\ (tries' = tries \/ (Leftover /\ tries' = tries - 1))
      <4>1. pc' \in Places /\ tries' \in 0 .. 3
        BY <3>3 DEF HostTypes, Leftover, Return, Places
      <4> QED
        BY <1>1, <3>3, <4>1, HostKeeps DEF HostTypes
    <3>4. CASE Refused /\ Return(Next1.code, Next1.n)
      BY <1>1, <3>1, <3>2, <3>4, ReturnKeeps, SoundPacket DEF Refused, Junk
    <3>5. ASSUME NEW rc \in {"BADPARAM", "OK"}, Return(rc, Next1.n)
          PROVE  HostTypes'
      BY <1>1, <3>2, <3>5, ReturnKeeps DEF HostErrors
    <3>6. CASE Return("IO", 0)
      BY <1>1, <3>6, ReturnKeeps, ZeroSerial DEF HostErrors
    <3> QED
      BY <2>1, <3>3, <3>4, <3>5, <3>6
  <2>2. CASE Return("IO", 0)
    BY <1>1, <2>2, ReturnKeeps, ZeroSerial DEF HostErrors
  <2> QED
    BY <2>1, <2>2
<1>3. spent' \in Limits'
  BY <1>1, TimedOutKeeps DEF Limits, NoPacket
<1>4. Wires'
  <2>1. cur' = cur
    BY DEF Return
  <2>2. surplus' \in Seq(Sound) /\ pipe' \in Seq(Sound)
    BY TakePacketKeeps, EmptySeq DEF Wires
  <2> QED
    BY <1>1, <2>1, <2>2, SameSets DEF Wires
<1> QED
  BY <1>1, <1>2, <1>3, <1>4

(* A cancel request takes away what belongs to the current command. *)
LEMMA CancelKeeps ==
  ASSUME Types, CancelAtDevice
  PROVE  /\ reply' \in {reply, << >>} /\ waiting' \in {waiting, 0}
         /\ \E k \in 0 .. Len(outq) :
              /\ outq' = SubSeq(outq, 1, k) /\ outq' \in Seq(Orders) /\ Len(outq') = k
              /\ \A i \in 1 .. Len(outq') : outq'[i] = outq[i] /\ outq[i].n # cur.n
         /\ UNCHANGED <<pipe, session, scene, done>>
<1>1. PICK k \in 0 .. Len(outq) : /\ \A i \in 1 .. Len(outq) : i <= k <=> outq[i].n # cur.n
                                  /\ outq' = SubSeq(outq, 1, k)
  BY DEF CancelAtDevice
<1>2. outq \in Seq(Orders)
  BY DEF Types, Wires
<1>3. outq' \in Seq(Orders) /\ Len(outq') = k /\ \A i \in 1 .. k : outq'[i] = outq[i]
  BY <1>1, <1>2, SubSeqProperties
<1> QED
  BY <1>1, <1>2, <1>3 DEF CancelAtDevice

(* Types are kept by the device that is told to cancel, ...             *)
LEMMA TypesCancelAtDevice ==
  ASSUME Types, CancelAtDevice, cur' = cur, surplus' = surplus
  PROVE  Wires' /\ DeviceTypes' /\ scene' = scene
BY CancelKeeps, EmptySeq, SameSets, ZeroSerial DEF Types, Wires, DeviceTypes

(* ... by ptp_read_cancel_func and the cancel request, ...              *)
LEMMA TypesCancelling ==
  ASSUME Types, ReadCancel \/ DevStat \/ Drain \/ CancelReq
  PROVE  Types'
<1> USE DEF Types
<1>1. CASE ReadCancel
  <2>1. Wires' /\ DeviceTypes' /\ scene' = scene
    BY <1>1, TypesCancelAtDevice, SameSets DEF ReadCancel, device, Wires, DeviceTypes
  <2>2. HostTypes'
    BY <1>1, <2>1, HostKeeps DEF ReadCancel, HostTypes, Places
  <2>3. spent' \in Limits'
    BY <1>1, <2>1, SpendKeeps DEF ReadCancel, Fault, Limits
  <2> QED
    BY <2>1, <2>2, <2>3
<1>2. CASE DevStat
  <2>1. Wires' /\ DeviceTypes' /\ scene' = scene
    BY <1>2, SameSets DEF DevStat, device, Wires, DeviceTypes
  <2>2. HostTypes'
    BY <1>2, <2>1, HostKeeps DEF DevStat, HostTypes, Places
  <2>3. spent' \in Limits'
    BY <1>2, <2>1, SpendKeeps DEF DevStat, Fault, Limits
  <2> QED
    BY <2>1, <2>2, <2>3
<1>3. CASE Drain
  <2>1. DeviceTypes' /\ scene' = scene
    BY <1>3 DEF Drain, DeviceTypes, Serials
  <2>2. HostTypes'
    BY <1>3, <2>1, HostKeeps DEF Drain, HostTypes, Places
  <2>3. spent' \in Limits'
    BY <1>3, <2>1, TimedOutKeeps DEF Drain, Limits
  <2>4. pipe' \in Seq(Sound)
    BY <1>3, HeadTailProperties DEF Drain, Wires
  <2>5. Wires'
    BY <1>3, <2>1, <2>4, SameSets DEF Drain, Wires
  <2> QED
    BY <2>1, <2>2, <2>3, <2>5
<1>4. CASE CancelReq
  <2>1. ASSUME NEW rc \in {"CANCEL", "IO"}, Return(rc, 0), scene' = scene
        PROVE  HostTypes'
    BY <2>1, ReturnKeeps, ZeroSerial DEF HostErrors
  <2>2. cur' = cur /\ surplus' = surplus
    BY <1>4 DEF CancelReq, Return
  <2>3. Wires' /\ DeviceTypes' /\ scene' = scene
    BY <1>4, <2>2, TypesCancelAtDevice, SameSets DEF CancelReq, device, Wires, DeviceTypes
  <2>4. spent' \in Limits'
    BY <1>4, <2>3, SpendKeeps DEF CancelReq, Fault, Limits
  <2> QED
    BY <1>4, <2>1, <2>3, <2>4 DEF CancelReq
<1> QED
  BY <1>1, <1>2, <1>3, <1>4

(* A new command has the next serial number, and an id that is one.     *)
LEMMA BeginKeeps ==
  ASSUME Types, scene' = scene, last' = last,
         NEW kind \in Kinds, NEW op \in Operations, kind = "get" => op \in scene.ops,
         NEW t \in Serials, Begin(kind, op, t), conn' \in {"first", "second", "retry", "up"}
  PROVE  /\ HostTypes' /\ cur'.n \in Nat /\ cur.n <= cur'.n
<1>1. cur.n \in Nat /\ cur'.n = cur.n + 1
  BY DEF Types, HostTypes, Begin
<1>2. Serials \subseteq Serials' /\ t + 1 \in Serials' /\ Operations' = Operations
  BY <1>1 DEF Serials, Operations
<1>3. cur' \in [n : Nat, tid : Serials', kind : Kinds, op : Operations] /\ cur'.kind = kind /\ cur'.op = op
  BY <1>1, <1>2 DEF Begin
<1>4. last' \in [n : Serials', kind : Kinds, rc : Errors \cup HostErrors \cup {"OK"},
                resp : Serials', data : Serials']
  BY <1>2 DEF Types, HostTypes
<1>5. tid' \in Serials' /\ tries' \in 0 .. 3 /\ got' \in Serials' /\ pc' \in Places
  BY <1>1, <1>2 DEF Begin, Places, Serials
<1>6. Kinds' = Kinds /\ Errors' = Errors /\ HostErrors' = HostErrors /\ Places' = Places
  BY DEF Kinds, Errors, HostErrors, Places
<1> QED
  BY <1>1, <1>2, <1>3, <1>4, <1>5, <1>6 DEF HostTypes

(* Types are kept when a transaction begins, ...                        *)
LEMMA TypesBegin ==
  ASSUME Types, HostTypes', cur'.n \in Nat, cur.n <= cur'.n,
         surplus' \in {surplus, << >>}, UNCHANGED <<scene, done>>,
         \/ UNCHANGED <<outq, waiting, reply, pipe, session>>
         \/ outq' = << >> /\ waiting' = 0 /\ reply' = << >> /\ pipe' = << >> /\ session' = FALSE
  PROVE  Wires' /\ DeviceTypes'
<1>1. cur.n \in Nat /\ Serials \subseteq Serials'
  BY SetsGrow DEF Types, HostTypes
<1>2. Wires'
  BY WiresGrow, EmptySeq DEF Types, Wires
<1>3. DeviceTypes'
  BY <1>1, WiresGrow, ZeroSerial DEF Types, DeviceTypes
<1> QED
  BY <1>2, <1>3

(* ... by a call of the program, ...                                    *)
LEMMA TypesCall ==
  ASSUME Types, NEW kind \in Kinds, NEW op \in Operations, kind = "get" => op \in scene.ops,
         Call(kind, op)
  PROVE  Types'
<1>1. UNCHANGED <<outq, waiting, reply, pipe, session, scene, done, surplus, last, spent, conn>>
  BY DEF Call, device
<1>2. HostTypes' /\ cur'.n \in Nat /\ cur.n <= cur'.n
  BY <1>1, BeginKeeps DEF Call, Types, HostTypes
<1>3. Wires' /\ DeviceTypes'
  BY <1>1, <1>2, TypesBegin
<1>4. spent' \in Limits'
  BY <1>1 DEF Types, Limits
<1> QED
  BY <1>2, <1>3, <1>4 DEF Types

(* ... by an OpenSession, ...                                           *)
LEMMA TypesOpens ==
  ASSUME Types, Connect \/ OpenReset \/ OpenRetry
  PROVE  Types'
<1>1. PICK stage \in {"first", "second", "retry"} : OpenSession(stage)
  BY DEF Connect, OpenReset, OpenRetry
<1>2. /\ UNCHANGED <<scene, done>>
      /\ \/ UNCHANGED <<outq, waiting, reply, pipe, session>>
         \/ outq' = << >> /\ waiting' = 0 /\ reply' = << >> /\ pipe' = << >> /\ session' = FALSE
  BY DEF Connect, OpenReset, OpenRetry, device
<1>3. surplus' = << >> /\ last' = last /\ conn' = stage /\ Begin("open", "OpenSession", 0)
  BY <1>1 DEF OpenSession
<1>4. HostTypes' /\ cur'.n \in Nat /\ cur.n <= cur'.n
  BY <1>2, <1>3, BeginKeeps, ZeroSerial DEF Kinds, Operations
<1>5. Wires' /\ DeviceTypes'
  BY <1>2, <1>3, <1>4, TypesBegin
<1>6. spent' \in Limits'
  <2>1. CASE Connect
    BY <1>2, <2>1, SpendKeeps DEF Connect
  <2>2. CASE OpenReset \/ OpenRetry
    BY <1>2, <2>2 DEF OpenReset, OpenRetry, Types, Limits
  <2> QED
    BY <2>1, <2>2
<1> QED
  BY <1>4, <1>5, <1>6 DEF Types

(* ... by what configure_usb_device makes of its result, ...            *)
LEMMA TypesOpened == ASSUME Types, Opened PROVE Types'
<1>1. UNCHANGED <<outq, waiting, reply, pipe, session, scene, done, surplus, cur, tid, tries, got, last, spent>>
  BY DEF Opened, device
<1>2. HostTypes'
  BY <1>1, SameSets DEF Opened, Types, HostTypes, Places
<1>3. Wires' /\ DeviceTypes' /\ spent' \in Limits'
  BY <1>1, SameSets DEF Types, Wires, DeviceTypes
<1> QED
  BY <1>2, <1>3 DEF Types

(* ... and when the program ends.                                       *)
LEMMA TypesCrash == ASSUME Types, Crash PROVE Types'
<1>1. UNCHANGED <<outq, waiting, reply, pipe, session, scene, done, cur, tries, last>> /\ surplus' = << >>
  BY DEF Crash, device
<1>2. HostTypes'
  BY <1>1, SameSets, ZeroSerial DEF Crash, Types, HostTypes, Places
<1>3. Wires' /\ DeviceTypes'
  BY <1>1, SameSets, EmptySeq DEF Types, Wires, DeviceTypes
<1>4. spent' \in Limits'
  BY <1>1, SpendKeeps DEF Crash
<1> QED
  BY <1>2, <1>3, <1>4 DEF Types

(* What a responder answers a command with is sound. *)
LEMMA AnswersSound ==
  ASSUME Types, NEW c \in Orders, NEW r \in Answers(c)
  PROVE  r \in Seq(Sound) /\ Len(r) > 0
<1>1. \A t \in Tids(c) \cup {0}, code \in Errors \cup {"OK"} : Response(c, t, code) \in Sound
  BY DEF Types, HostTypes, Orders, Sound, Packets, Response, Packet, Tids, Serials
<1>2. ASSUME NEW t \in Tids(c), NEW code \in Codes(c), NEW f \in scene.framings, c.kind = "get"
      PROVE  DataPhase(c, t, code, f) \in Seq(Sound) /\ Len(DataPhase(c, t, code, f)) > 0
  <2>1. \A type \in {"data", "null", "payload"}, rest \in {"none", "joined", "payload"} :
           Packet(type, c, t, code, rest) \in Sound
    BY <1>2 DEF Types, HostTypes, Orders, Sound, Packets, Packet, Tids, Codes, Serials
  <2>2. f \in Wire
    BY ScenarioAssumption DEF Types, DeviceTypes
  <2>3. Response(c, t, "OK") \in Sound
    BY <1>1, <1>2
  <2> QED
    BY <2>1, <2>2, <2>3 DEF DataPhase, Wire
<1>3. scene.opening \subseteq Errors \cup {"OK"}
  BY ScenarioAssumption DEF Types, DeviceTypes, Errors
<1>4. \A p \in Sound : << p >> \in Seq(Sound) /\ Len(<< p >>) = 1
  OBVIOUS
<1>5. CASE c.kind = "open"
  <2>1. Answers(c) = {<< Response(c, t, code) >> : t \in Tids(c),
                        code \in IF session THEN {"AlreadyOpened"} ELSE scene.opening}
    BY <1>5 DEF Answers
  <2>2. PICK t \in Tids(c), code \in Errors \cup {"OK"} : r = << Response(c, t, code) >>
    BY <1>3, <2>1 DEF Errors
  <2> QED
    BY <1>1, <1>4, <2>2
<1>6. CASE c.kind = "close"
  <2>1. Answers(c) = {<< Response(c, t, "OK") >> : t \in Tids(c) \cup {0}}
    BY <1>6 DEF Answers
  <2>2. PICK t \in Tids(c) \cup {0} : r = << Response(c, t, "OK") >>
    BY <2>1
  <2> QED
    BY <1>1, <1>4, <2>2
<1>7. CASE c.kind = "nodata"
  <2>1. Answers(c) = {<< Response(c, t, code) >> : t \in Tids(c), code \in Refusals \cup {"OK"}}
    BY <1>7 DEF Answers
  <2>2. PICK t \in Tids(c), code \in Errors \cup {"OK"} : r = << Response(c, t, code) >>
    BY <2>1 DEF Errors
  <2> QED
    BY <1>1, <1>4, <2>2
<1>8. CASE c.kind = "get"
  <2>1. Answers(c) = {<< Response(c, t, code) >> : t \in Tids(c), code \in Refusals}
                       \cup {DataPhase(c, t, code, f) : t \in Tids(c), code \in Codes(c),
                                                       f \in scene.framings}
    BY <1>8 DEF Answers
  <2>2. CASE \E t \in Tids(c), code \in Errors \cup {"OK"} : r = << Response(c, t, code) >>
    BY <1>1, <1>4, <2>2
  <2>3. CASE \E t \in Tids(c), code \in Codes(c), f \in scene.framings : r = DataPhase(c, t, code, f)
    BY <1>2, <1>8, <2>3
  <2> QED
    BY <2>1, <2>2, <2>3 DEF Errors
<1>9. CASE c.kind \in {"send", "data"}
  BY <1>9 DEF Answers
<1> QED
  BY <1>5, <1>6, <1>7, <1>8, <1>9 DEF Orders, Kinds

(* The fields of an answer that is a response alone.                    *)
LEMMA OneResponse ==
  ASSUME NEW c, NEW t, NEW code, NEW r, r = << Response(c, t, code) >>
  PROVE  /\ Len(r) = 1
         /\ \A i \in 1 .. Len(r) : /\ r[i].n = c.n /\ r[i].tid = t /\ r[i].code = code
                                   /\ r[i].type = "resp" /\ r[i].rest = "none"
BY DEF Response, Packet

(* An answer with a data phase is of one command and one transaction id. *)
LEMMA DataThenResponse ==
  ASSUME NEW c, NEW t, NEW code, NEW f \in Wire, NEW r, r = DataPhase(c, t, code, f)
  PROVE  /\ Len(r) \in 1 .. 3
         /\ \A i \in 1 .. Len(r) : /\ r[i].n = c.n /\ r[i].tid = t
                                   /\ r[i].type = "resp" => r[i].code = "OK"
         /\ r[Len(r)].code \in {code, "OK"}
<1> USE DEF Response, Packet
<1>1. CASE f = "plain"
  BY <1>1 DEF DataPhase
<1>2. CASE f = "joined"
  BY <1>2 DEF DataPhase
<1>3. CASE f = "exact"
  BY <1>3 DEF DataPhase
<1>4. CASE f = "large"
  BY <1>4 DEF DataPhase
<1> QED
  BY <1>1, <1>2, <1>3, <1>4 DEF Wire

\* A response that says OK, or a data container with one in its packet.
Positive(p) == (p.type = "resp" /\ p.code = "OK") \/ p.rest = "joined"

\* All packets of an answer are of the command and have one transaction id, the
\* command's but for CloseSession; OpenSession alone is answered that a session
\* is open; and an answer that has success in it is a success.
Answering(c, r) ==
  /\ \E t \in Tids(c) \cup {0} : /\ t \in Tids(c) \/ c.kind = "close"
                                /\ \A i \in 1 .. Len(r) : r[i].tid = t
  /\ \A i \in 1 .. Len(r) : r[i].n = c.n
  /\ c.kind \in {"open", "close"} => Len(r) = 1 /\ r[1].type = "resp"
  /\ \A i \in 1 .. Len(r) :
        r[i].type = "resp" /\ r[i].code = "AlreadyOpened" => c.kind = "open"
  /\ \A i \in 1 .. Len(r) : Positive(r[i]) => r[Len(r)].code \notin Errors

(* A response alone is an answer in the sense of Answering.             *)
LEMMA ResponseAnswers ==
  ASSUME NEW c, NEW t \in Tids(c) \cup {0}, t \in Tids(c) \/ c.kind = "close",
         NEW code \in Errors \cup {"OK"}, code = "AlreadyOpened" => c.kind = "open",
         NEW r, r = << Response(c, t, code) >>
  PROVE  Answering(c, r)
<1>1. "OK" \notin Errors
  BY RefusalAssumption DEF Errors
<1>2. /\ Len(r) = 1
      /\ \A i \in 1 .. Len(r) : /\ r[i].n = c.n /\ r[i].tid = t /\ r[i].code = code
                                /\ r[i].type = "resp" /\ r[i].rest = "none"
  BY OneResponse
<1> QED
  BY <1>1, <1>2 DEF Answering, Positive

(* So is whatever a responder may answer a command with.                *)
LEMMA AnswersTo ==
  ASSUME Types, NEW c \in Orders, NEW r \in Answers(c)
  PROVE  Answering(c, r)
<1>1. /\ "AlreadyOpened" \notin Refusals \cup scene.opening \cup {"OK"}
      /\ scene.opening \subseteq Errors \cup {"OK"} /\ Refusals \subseteq Errors
  BY RefusalAssumption, ScenarioAssumption DEF Errors, Types, DeviceTypes
<1>2. CASE c.kind = "open"
  <2>1. Answers(c) = {<< Response(c, t, code) >> : t \in Tids(c),
                        code \in IF session THEN {"AlreadyOpened"} ELSE scene.opening}
    BY <1>2 DEF Answers
  <2>2. PICK t \in Tids(c), code \in Errors \cup {"OK"} : r = << Response(c, t, code) >>
    BY <1>1, <2>1 DEF Errors
  <2> QED
    BY <1>2, <2>2, ResponseAnswers
<1>3. CASE c.kind = "close"
  <2>1. Answers(c) = {<< Response(c, t, "OK") >> : t \in Tids(c) \cup {0}}
    BY <1>3 DEF Answers
  <2>2. PICK t \in Tids(c) \cup {0} : r = << Response(c, t, "OK") >>
    BY <2>1
  <2> QED
    BY <1>3, <2>2, ResponseAnswers
<1>4. CASE c.kind = "nodata"
  <2>1. Answers(c) = {<< Response(c, t, code) >> : t \in Tids(c), code \in Refusals \cup {"OK"}}
    BY <1>4 DEF Answers
  <2>2. PICK t \in Tids(c), code \in Refusals \cup {"OK"} : r = << Response(c, t, code) >>
    BY <2>1
  <2> QED
    BY <1>1, <2>2, ResponseAnswers
<1>5. CASE c.kind = "get"
  <2>1. Answers(c) = {<< Response(c, t, code) >> : t \in Tids(c), code \in Refusals}
                       \cup {DataPhase(c, t, code, f) : t \in Tids(c), code \in Codes(c),
                                                       f \in scene.framings}
    BY <1>5 DEF Answers
  <2>2. CASE \E t \in Tids(c), code \in Refusals : r = << Response(c, t, code) >>
    BY <1>1, <2>2, ResponseAnswers
  <2>3. ASSUME NEW t \in Tids(c), NEW code \in Codes(c), NEW f \in scene.framings,
               r = DataPhase(c, t, code, f)
        PROVE  Answering(c, r)
    <3>1. f \in Wire
      BY ScenarioAssumption DEF Types, DeviceTypes
    <3>2. /\ Len(r) \in 1 .. 3
          /\ \A i \in 1 .. Len(r) : /\ r[i].n = c.n /\ r[i].tid = t
                                    /\ r[i].type = "resp" => r[i].code = "OK"
          /\ r[Len(r)].code \in {code, "OK"}
      BY <2>3, <3>1, DataThenResponse
    <3>3. code \notin Errors
      <4>1. scene.ops \cap (Refusals \cup {"OK", "AlreadyOpened", "InvalidTid", "insane"}) = {}
        BY ScenarioAssumption DEF Types, DeviceTypes
      <4>2. code = "insane" \/ code \in scene.ops
        BY <1>5 DEF Codes, Orders
      <4> QED
        BY <4>1, <4>2, RefusalAssumption DEF Errors
    <3>4. "OK" \notin Errors
      BY RefusalAssumption DEF Errors
    <3> QED
      BY <1>5, <3>2, <3>3, <3>4 DEF Answering
  <2> QED
    BY <2>1, <2>2, <2>3
<1>6. CASE c.kind \in {"send", "data"}
  BY <1>6 DEF Answers
<1> QED
  BY <1>2, <1>3, <1>4, <1>5, <1>6 DEF Orders, Kinds

(* Types are kept by the responder.                                     *)
LEMMA TypesResponder ==
  ASSUME Types, Responder
  PROVE  Types'
<1>1. UNCHANGED <<pc, cur, tid, tries, surplus, got, last, conn, scene, spent>>
  BY DEF Responder, TakeCommand, TakeData, SendPacket, host
<1>2. HostTypes' /\ spent' \in Limits'
  BY <1>1, SameSets DEF Types, HostTypes, Places
<1>3. outq # << >> => /\ Head(outq) \in Orders /\ Tail(outq) \in Seq(Orders)
                     /\ Head(outq).n \in Serials
  BY HeadTailProperties DEF Types, Wires, Orders
<1>4. Wires'
  <2>1. CASE TakeCommand
    BY <1>1, <1>3, <2>1, AnswersSound, WiresKeep DEF TakeCommand, Types, Wires
  <2>2. CASE TakeData
    <3>1. \A t \in Tids(Head(outq)), code \in Refusals \cup {"OK"} :
             << Response(Head(outq), t, code) >> \in Seq(Sound)
      <4>1. \A t \in Tids(Head(outq)), code \in Errors \cup {"OK"} :
               Response(Head(outq), t, code) \in Sound
        BY <1>3, <2>2 DEF TakeData, Types, HostTypes, Orders, Sound, Packets, Response, Packet, Tids, Serials
      <4> QED
        BY <4>1 DEF Errors
    <3>2. reply' \in Seq(Sound) /\ outq' \in Seq(Orders)
      BY <1>3, <2>2, <3>1 DEF TakeData, Types, Wires
    <3> QED
      BY <1>1, <2>2, <3>2, WiresKeep DEF TakeData, Types, Wires
  <2>3. CASE SendPacket
    <3>1. Head(reply) \in Sound /\ Tail(reply) \in Seq(Sound)
      BY <2>3, HeadTailProperties DEF SendPacket, Types, Wires
    <3>2. Append(pipe, Head(reply)) \in Seq(Sound)
      BY <3>1, AppendProperties DEF Types, Wires
    <3> QED
      BY <1>1, <2>3, <3>1, <3>2, WiresKeep DEF SendPacket, Types, Wires
  <2> QED
    BY <2>1, <2>2, <2>3 DEF Responder
<1>5. DeviceTypes'
  <2>1. waiting' \in Serials /\ session' \in BOOLEAN
    BY <1>3, ZeroSerial DEF Responder, TakeCommand, TakeData, SendPacket, Types, DeviceTypes
  <2>2. \A n \in Serials : Append(done, n) \in Seq(Serials)
    BY AppendProperties DEF Types, DeviceTypes
  <2>3. done' \in Seq(Serials)
    BY <1>3, <2>2 DEF Responder, TakeCommand, TakeData, SendPacket, Types, DeviceTypes
  <2> QED
    BY <1>1, <2>1, <2>3, SameSets DEF Types, DeviceTypes
<1> QED
  BY <1>2, <1>4, <1>5 DEF Types

(* Types are kept by every step.                                        *)
LEMMA TypesNext ==
  ASSUME Types, [Next]_vars
  PROVE  Types'
<1>1. ASSUME NEW k \in {"nodata", "send", "close"}, Call(k, k)
      PROVE  Types'
  BY <1>1, TypesCall DEF Kinds, Operations
<1>2. ASSUME NEW op \in scene.ops, Call("get", op)
      PROVE  Types'
  BY <1>2, TypesCall DEF Kinds, Operations
<1>3. CASE Host
  BY <1>3, TypesSendReq, TypesSendData, TypesGetData, TypesGetRest, TypesGetResp,
     TypesCancelling, TypesOpens, TypesOpened DEF Host
<1>4. CASE Connect \/ Crash
  BY <1>4, TypesOpens, TypesCrash
<1>5. CASE Responder
  BY <1>5, TypesResponder
<1>6. CASE UNCHANGED vars
  BY <1>6, SameSets DEF vars, host, device, Types, HostTypes, Places, Wires, DeviceTypes
<1> QED
  BY <1>1, <1>2, <1>3, <1>4, <1>5, <1>6 DEF Next

(* The inductive invariant is no weaker than TypeOK.                    *)
LEMMA TypesImply == Types => TypeOK
<1> SUFFICES ASSUME Types PROVE TypeOK
  OBVIOUS
<1>1. surplus \in Seq(Packets) /\ reply \in Seq(Packets) /\ pipe \in Seq(Packets)
  BY SeqMonotonic DEF Types, Wires, Sound
<1>2. outq \in Seq([n : Serials, tid : Serials, kind : Kinds \cup {"data"}, op : Operations])
  <2>1. Orders \subseteq [n : Serials, tid : Serials, kind : Kinds \cup {"data"}, op : Operations]
    BY DEF Orders
  <2> QED
    BY <2>1, SeqMonotonic DEF Types, Wires
<1> QED
  BY <1>1, <1>2 DEF Types, HostTypes, Places, DeviceTypes, Limits, TypeOK

(* Whichever library the program is built on, its steps are those of PtpTransaction. *)
LEMMA PortsAreSteps == AnyPort => Next
BY DEF AnyPort, Next, AnyHost, On, Usb1Host, Host, sendreq_usb0, senddata_usb0, getdata_usb0,
   getresp_usb0, cancel_usb0, open_usb0, sendreq_openusb, senddata_openusb, getdata_openusb,
   getresp_openusb, cancel_openusb, open_openusb

(* The inductive invariant of the types holds, for every library.       *)
THEOREM TypesAlways == (Spec => []Types) /\ (PortsSpec => []Types)
<1>1. [AnyPort]_vars => [Next]_vars
  BY PortsAreSteps
<1> QED
  BY <1>1, TypesInit, TypesNext, PTL DEF Spec, PortsSpec

(* TypeOK holds for any responder, library and bounds: no transaction id and no *)
(* packet is ahead of the commands that ptp_transaction_new issued.             *)
THEOREM TypeCorrect == (Spec => []TypeOK) /\ (PortsSpec => []TypeOK)
BY TypesAlways, TypesImply, PTL

-----------------------------------------------------------------------------
Opening == conn \in {"first", "second", "retry"}

\* The host's place in a connection, and what kind of command it is at.
Place ==
  /\ conn = "down" => pc = "idle"
  /\ pc # "idle" => cur.n > 0
  /\ pc = "opened" => Opening
  /\ Opening => /\ cur.kind = "open" /\ cur.tid = 0 /\ tid = 1 /\ surplus = << >>
                /\ pc \in {"sendreq", "getresp", "opened"}
                /\ tries \in 1 .. 3
  /\ conn = "up" => /\ tid = cur.tid + 1
                    /\ cur.kind = "open" => pc = "idle"
                    /\ cur.kind # "open" => cur.tid > 0
                    /\ cur.kind = "close" => pc # "idle"
  /\ pc \in {"getdata", "getrest", "readcancel", "devstat", "drain"} => cur.kind = "get"
  /\ pc = "senddata" => cur.kind = "send"
  /\ pc = "cancelreq" => cur.kind \in {"get", "send"}
  /\ Len(surplus) <= 1

\* Packets answer commands that were sent.
Issued ==
  {p \in Sound :
     /\ p.n > 0 /\ (pc = "sendreq" => p.n < cur.n)
     /\ ~broken => p.tid \in Serials
     /\ p.type = "resp" /\ p.code = "AlreadyOpened" /\ ~broken => p.tid = 0
     /\ p.n = cur.n /\ cur.kind = "open" => p.type = "resp" /\ (~broken => p.tid = 0)
     /\ Positive(p) => p.n \in Range(done)}

Queued ==
  {c \in Orders :
     /\ c.n > 0 /\ (pc = "sendreq" => c.n < cur.n)
     /\ c.kind = "open" => c.tid = 0
     /\ c.n = cur.n => /\ c.tid = cur.tid
                       /\ c.kind = cur.kind \/ (c.kind = "data" /\ cur.kind = "send")
     /\ pc = "senddata" /\ c.n = cur.n => c.kind = "send"}

Traffic ==
  /\ surplus \in Seq(Issued) /\ pipe \in Seq(Issued) /\ reply \in Seq(Issued)
  /\ outq \in Seq(Queued)

\* The device is never ahead of the host, and takes commands in order.
InOrder ==
  \A i, j \in 1 .. Len(outq) :
    i < j => \/ outq[i].n < outq[j].n
             \/ outq[i].n = outq[j].n /\ outq[i].kind = "send" /\ outq[j].kind = "data"
Ahead ==
  /\ \A m \in Range(done), i \in 1 .. Len(outq) : m < outq[i].n
  /\ pc \in {"sendreq", "senddata"} => \A m \in Range(done) : m < cur.n

Flow == Place /\ Traffic /\ InOrder /\ Ahead

-----------------------------------------------------------------------------
(* The commands carried out, and one more.                              *)
LEMMA RangeOfDone ==
  ASSUME Types
  PROVE  /\ Range(done) \subseteq Serials
         /\ \A n \in Serials : Range(Append(done, n)) = Range(done) \cup {n}
<1>1. done \in Seq(Serials)
  BY DEF Types, DeviceTypes
<1>2. ASSUME NEW n \in Serials
      PROVE  Range(Append(done, n)) = Range(done) \cup {n}
  <2>1. Append(done, n) \in Seq(Serials)
    BY <1>1, <1>2, AppendProperties
  <2>2. /\ Range(done) = {done[i] : i \in 1 .. Len(done)}
        /\ Range(Append(done, n)) = {Append(done, n)[i] : i \in 1 .. Len(done) + 1}
    BY <1>1, <1>2, <2>1 DEF Range
  <2> QED
    BY <1>1, <1>2, <2>2
<1>3. \A i \in DOMAIN done : done[i] \in Serials
  BY <1>1, LenProperties, ElementOfSeq
<1> QED
  BY <1>2, <1>3 DEF Range

(* A program that starts has no connection.                             *)
LEMMA PlaceInit == Init => Place
BY EmptySeq DEF Init, Place, Opening, NoCommand

(* Each step of a transaction leaves the host at a place of the connection it is in, ... *)
LEMMA PlaceHost ==
  ASSUME Types, Types', Place, Host
  PROVE  Place'
<1> USE DEF Place, Opening
<1>1. CASE SendReq
  BY <1>1 DEF SendReq, Return, Early, Types, HostTypes, Kinds
<1>2. CASE SendData
  BY <1>2 DEF SendData, Return, Types, HostTypes, Kinds
<1>3. CASE GetData
  <2>1. cur.kind = "get" /\ cur' = cur /\ tid' = tid /\ tries' = tries /\ pc = "getdata"
    BY <1>3 DEF GetData, Return
  <2>2. pc' \in {"idle", "getrest", "getresp", "readcancel", "cancelreq"} /\ conn' = conn
    BY <1>3, <2>1 DEF GetData, Return, ReadAborted
  <2>3. surplus' = surplus \/ surplus' = << >> \/ \E x : surplus' = << x >>
    BY <1>3 DEF GetData, TakePacket
  <2>4. Len(surplus') <= 1
    <3>1. CASE surplus' = << >>
      BY <3>1, EmptySeq
    <3>2. ASSUME NEW x, surplus' = << x >> PROVE Len(surplus') <= 1
      BY <3>2
    <3> QED
      BY <2>3, <3>1, <3>2
  <2> QED
    BY <2>1, <2>2, <2>4
<1>4. CASE GetRest
  BY <1>4 DEF GetRest, Return, ReadAborted, Types, HostTypes, Kinds
<1>5. CASE GetResp
  BY <1>5 DEF GetResp, Return, TakePacket, Leftover, Types, HostTypes, Kinds
<1>6. CASE ReadCancel \/ DevStat \/ Drain
  BY <1>6 DEF ReadCancel, DevStat, Drain, device
<1>7. CASE CancelReq
  BY <1>7 DEF CancelReq, Return
<1>8. CASE OpenReset \/ OpenRetry
  BY <1>8 DEF OpenReset, OpenRetry, OpenSession, Begin, Types, HostTypes
<1>9. CASE Opened
  BY <1>9 DEF Opened
<1> QED
  BY <1>1, <1>2, <1>3, <1>4, <1>5, <1>6, <1>7, <1>8, <1>9 DEF Host

(* ... and so does every other step.                                    *)
LEMMA PlaceNext ==
  ASSUME Types, Types', Place, [Next]_vars
  PROVE  Place'
<1>1. CASE Host
  BY <1>1, PlaceHost
<1>2. ASSUME NEW k \in Kinds \ {"open"}, NEW op, Call(k, op)
      PROVE  Place'
  BY <1>2 DEF Place, Opening, Call, Begin, Types, HostTypes, Serials
<1>3. CASE Connect \/ Crash
  BY <1>3, EmptySeq DEF Place, Opening, Connect, Crash, OpenSession, Begin, Types, HostTypes
<1>4. CASE Responder \/ UNCHANGED vars
  BY <1>4 DEF Responder, TakeCommand, TakeData, SendPacket, host, vars, Place, Opening
<1> QED
  BY <1>1, <1>2, <1>3, <1>4 DEF Next, Kinds

-----------------------------------------------------------------------------
(* At the start nothing is on its way.                                  *)
LEMMA FlowInit == Init => Traffic /\ InOrder /\ Ahead
BY EmptySeq DEF Init, Traffic, InOrder, Ahead, Range

(* What was issued or queued stays so, and more is carried out.         *)
LEMMA FlowSets ==
  ASSUME Types, Types', scene' = scene, Range(done) \subseteq Range(done'),
         \/ cur' = cur /\ (pc' \notin {"sendreq", "senddata"} \/ pc' = pc \/ pc = "sendreq")
         \/ cur'.n = cur.n + 1 /\ pc' = "sendreq"
  PROVE  Issued \subseteq Issued' /\ Queued \subseteq Queued'
<1>1. cur.n \in Nat /\ cur'.n \in Nat /\ cur.n <= cur'.n
  BY DEF Types, HostTypes
<1>2. Sound \subseteq Sound' /\ Orders \subseteq Orders' /\ Serials \subseteq Serials'
  BY <1>1, SetsGrow
<1>3. ASSUME NEW p \in Issued PROVE p \in Issued'
  BY <1>1, <1>2, <1>3 DEF Issued, Positive, Errors, Sound, Packets, Serials, broken
<1>4. ASSUME NEW c \in Queued PROVE c \in Queued'
  BY <1>1, <1>2, <1>4 DEF Queued, Orders, Serials
<1> QED
  BY <1>3, <1>4

(* The next packet was issued.                                          *)
LEMMA Packet1 ==
  ASSUME Types, Place, Traffic, Incoming # << >>
  PROVE  /\ Next1 \in Issued
         /\ \/ surplus = << >> /\ pipe # << >> /\ Next1 = Head(pipe)
            \/ surplus # << >> /\ Next1 = Head(surplus)
BY NextPacket, HeadTailProperties DEF Types, Wires, Traffic

(* Reading leaves issued packets.                                       *)
LEMMA FlowTake ==
  ASSUME Types, Place, Traffic, NEW rest \in Seq(Issued), TakePacket(rest)
  PROVE  pipe' \in Seq(Issued) /\ surplus' \in Seq(Issued) /\ Next1 \in Issued
BY Packet1, HeadTailProperties DEF TakePacket, Traffic

\* A host that only reads: nothing is queued, and what is read was issued.
LEMMA FlowReads ==
  ASSUME Types, Types', Traffic, InOrder, Ahead, cur' = cur, scene' = scene, done' = done,
         pc' \notin {"sendreq", "senddata"} \/ pc' = pc,
         surplus' \in Seq(Issued), pipe' \in Seq(Issued), reply' \in {reply, << >>},
         outq' = outq
  PROVE  Traffic' /\ InOrder' /\ Ahead'
<1>1. Issued \subseteq Issued' /\ Queued \subseteq Queued'
  BY FlowSets
<1>2. surplus' \in Seq(Issued') /\ pipe' \in Seq(Issued') /\ reply' \in Seq(Issued')
      /\ outq' \in Seq(Queued')
  BY <1>1, SeqMonotonic, EmptySeq DEF Traffic
<1> QED
  BY <1>2 DEF Traffic, InOrder, Ahead

(* ptp_usb_sendreq queues its command behind older ones, ...            *)
LEMMA FlowSendReq ==
  ASSUME Types, Types', Flow, SendReq
  PROVE  Traffic' /\ InOrder' /\ Ahead'
<1>1. /\ pc = "sendreq" /\ cur' = cur /\ UNCHANGED <<surplus, waiting, reply, pipe, session, scene, done>>
      /\ pc' # "sendreq" /\ (pc' = "senddata" => cur.kind = "send")
      /\ outq' = outq \/ outq' = Append(outq, cur)
  BY DEF SendReq, Return
<1>2. Issued \subseteq Issued' /\ Queued \subseteq Queued'
  BY <1>1, FlowSets
<1>3. surplus' \in Seq(Issued') /\ pipe' \in Seq(Issued') /\ reply' \in Seq(Issued')
      /\ outq \in Seq(Queued')
  BY <1>1, <1>2, SeqMonotonic DEF Flow, Traffic
<1>4. cur \in Queued'
  <2>1. cur \in Orders' /\ cur.n > 0
    <3>1. cur \in Orders
      BY CurrentOrder
    <3> QED
      BY <1>1, <3>1, SameSets DEF Flow, Place
  <2>2. cur.kind = "open" => cur.tid = 0
    BY <1>1 DEF Flow, Place, Opening, Types, HostTypes
  <2> QED
    BY <1>1, <2>1, <2>2 DEF Queued
<1>5. Append(outq, cur) \in Seq(Queued')
  BY <1>3, <1>4, AppendProperties
<1>6. Traffic'
  BY <1>1, <1>3, <1>5 DEF Traffic
<1>7. \A i \in 1 .. Len(outq) : outq[i].n < cur.n
  BY <1>1, ElementOfSeq DEF Flow, Traffic, Queued
<1>8. CASE outq' = outq
  BY <1>1, <1>6, <1>8 DEF Flow, InOrder, Ahead
<1>9. CASE outq' = Append(outq, cur)
  <2>1. InOrder'
    <3> SUFFICES ASSUME NEW i \in 1 .. Len(outq) + 1, NEW j \in 1 .. Len(outq) + 1, i < j
                 PROVE  \/ outq'[i].n < outq'[j].n
                        \/ /\ outq'[i].n = outq'[j].n
                           /\ outq'[i].kind = "send" /\ outq'[j].kind = "data"
      BY <1>3, <1>9 DEF InOrder
    <3>1. i \in 1 .. Len(outq) /\ outq'[i] = outq[i]
      BY <1>3, <1>9
    <3>2. CASE j \in 1 .. Len(outq)
      BY <1>3, <1>9, <3>1, <3>2 DEF Flow, InOrder
    <3>3. CASE j = Len(outq) + 1
      <4>1. outq'[j] = cur
        BY <1>3, <1>9, <3>3
      <4> QED
        BY <1>7, <3>1, <4>1
    <3>4. Len(outq) \in Nat
      BY <1>3, LenProperties
    <3> QED
      BY ONLY <3>2, <3>3, <3>4, j \in 1 .. Len(outq) + 1
  <2>2. Ahead'
    BY <1>1, <1>7, <1>9 DEF Flow, Traffic, Ahead
  <2> QED
    BY <1>6, <2>1, <2>2
<1> QED
  BY <1>1, <1>8, <1>9

(* ... and ptp_usb_senddata its data behind the command they belong to. *)
LEMMA FlowSendData ==
  ASSUME Types, Types', Flow, SendData
  PROVE  Traffic' /\ InOrder' /\ Ahead'
<1> DEFINE d == [cur EXCEPT !.kind = "data"]
<1>1. /\ pc = "senddata" /\ cur' = cur /\ UNCHANGED <<surplus, waiting, reply, pipe, session, scene, done>>
      /\ pc' \notin {"sendreq", "senddata"}
      /\ outq' = outq \/ outq' = Append(outq, d)
  BY DEF SendData, Return
<1>2. Issued \subseteq Issued' /\ Queued \subseteq Queued'
  BY <1>1, FlowSets
<1>3. surplus' \in Seq(Issued') /\ pipe' \in Seq(Issued') /\ reply' \in Seq(Issued')
      /\ outq \in Seq(Queued')
  BY <1>1, <1>2, SeqMonotonic DEF Flow, Traffic
<1>4. d \in Queued'
  <2>1. d \in Orders' /\ d.n > 0 /\ d.n = cur.n /\ d.kind = "data" /\ d.tid = cur.tid
    <3>1. d \in Orders /\ d.n = cur.n /\ d.kind = "data" /\ d.tid = cur.tid
      BY CurrentOrder
    <3> QED
      BY <1>1, <3>1, SameSets DEF Flow, Place
  <2> QED
    BY <1>1, <2>1 DEF Queued, Flow, Place
<1>10. d.n = cur.n /\ d.kind = "data" /\ cur.n \in Nat
  BY CurrentOrder DEF Types, HostTypes
<1> HIDE DEF d
<1>5. Append(outq, d) \in Seq(Queued')
  BY <1>3, <1>4, AppendProperties
<1>6. Traffic'
  BY <1>1, <1>3, <1>5 DEF Traffic
<1>7. \A i \in 1 .. Len(outq) : outq[i].n \in Nat /\ outq[i].n <= cur.n /\ (outq[i].n = cur.n => outq[i].kind = "send")
  BY <1>1, ElementOfSeq DEF Flow, Traffic, Queued, Orders, Serials
<1>8. CASE outq' = outq
  BY <1>1, <1>6, <1>8 DEF Flow, InOrder, Ahead
<1>9. CASE outq' = Append(outq, d)
  <2>1. InOrder'
    <3> SUFFICES ASSUME NEW i \in 1 .. Len(outq) + 1, NEW j \in 1 .. Len(outq) + 1, i < j
                 PROVE  \/ outq'[i].n < outq'[j].n
                        \/ /\ outq'[i].n = outq'[j].n
                           /\ outq'[i].kind = "send" /\ outq'[j].kind = "data"
      BY <1>3, <1>9 DEF InOrder
    <3>1. i \in 1 .. Len(outq) /\ outq'[i] = outq[i]
      BY <1>3, <1>9
    <3>2. CASE j \in 1 .. Len(outq)
      BY <1>3, <1>9, <3>1, <3>2 DEF Flow, InOrder
    <3>3. CASE j = Len(outq) + 1
      <4>1. outq'[j] = d
        BY <1>3, <1>9, <3>3
      <4> QED
        BY ONLY <1>10, <1>7, <3>1, <4>1
    <3>4. Len(outq) \in Nat
      BY <1>3, LenProperties
    <3> QED
      BY ONLY <3>2, <3>3, <3>4, j \in 1 .. Len(outq) + 1
  <2>2. Ahead'
    BY <1>1, <1>3, <1>10, <1>7, <1>9 DEF Flow, Ahead
  <2> QED
    BY <1>6, <2>1, <2>2
<1> QED
  BY <1>1, <1>8, <1>9

(* ptp_usb_getdata only reads, ...                                      *)
LEMMA FlowGetData ==
  ASSUME Types, Types', Flow, GetData
  PROVE  Traffic' /\ InOrder' /\ Ahead'
<1>1. /\ cur' = cur /\ UNCHANGED <<outq, waiting, reply, session, scene, done>>
      /\ pc' \notin {"sendreq", "senddata"} /\ cur.kind = "get"
  BY DEF GetData, Return, ReadAborted, Flow, Place
<1>2. surplus' \in Seq(Issued) /\ pipe' \in Seq(Issued)
  <2>1. CASE TakePacket(<< >>)
    BY <2>1, FlowTake, EmptySeq DEF Flow
  <2>2. CASE UNCHANGED <<surplus, pipe>>
    BY <2>2 DEF Flow, Traffic
  <2>3. CASE /\ Incoming # << >> /\ Next1.type = "data" /\ Next1.rest = "joined"
             /\ TakePacket(<< [Next1 EXCEPT !.type = "resp", !.code = "OK", !.rest = "none"] >>)
    <3>1. Next1 \in Issued /\ Positive(Next1)
      BY <2>3, Packet1 DEF Flow, Positive
    <3> DEFINE q == [Next1 EXCEPT !.type = "resp", !.code = "OK", !.rest = "none"]
    <3>2. /\ q \in Sound /\ q.n = Next1.n /\ q.tid = Next1.tid
          /\ q.type = "resp" /\ q.code = "OK"
      BY <3>1 DEF Issued, Sound, Packets
    <3> HIDE DEF q
    <3>3. q \in Issued
      BY <1>1, <3>1, <3>2 DEF Issued, Positive, Flow, Place
    <3>4. << q >> \in Seq(Issued)
      BY <3>3
    <3> QED
      BY <2>3, <3>4, FlowTake DEF Flow, q
  <2> QED
    BY <2>1, <2>2, <2>3 DEF GetData
<1> QED
  BY <1>1, <1>2, FlowReads DEF Flow

(* ... so do the packets that follow, ...                               *)
LEMMA FlowGetRest ==
  ASSUME Types, Types', Flow, GetRest
  PROVE  Traffic' /\ InOrder' /\ Ahead'
<1>1. /\ cur' = cur /\ UNCHANGED <<surplus, outq, waiting, reply, session, scene, done>>
      /\ pc' \notin {"sendreq", "senddata"}
  BY DEF GetRest, Return, ReadAborted
<1>2. surplus' \in Seq(Issued) /\ pipe' \in Seq(Issued)
  BY <1>1, HeadTailProperties DEF GetRest, Flow, Traffic
<1> QED
  BY <1>1, <1>2, FlowReads DEF Flow

(* ... and ptp_usb_getresp.                                             *)
LEMMA FlowGetResp ==
  ASSUME Types, Types', Flow, GetResp
  PROVE  Traffic' /\ InOrder' /\ Ahead'
<1>1. /\ cur' = cur /\ UNCHANGED <<outq, waiting, reply, session, scene, done>>
      /\ pc' \notin {"sendreq", "senddata"}
  BY DEF GetResp, Return
<1>2. surplus' \in Seq(Issued) /\ pipe' \in Seq(Issued)
  BY FlowTake, EmptySeq DEF GetResp, Flow, Traffic
<1> QED
  BY <1>1, <1>2, FlowReads DEF Flow

(* Cancelling takes away from the end of the queue.                     *)
LEMMA FlowCancelling ==
  ASSUME Types, Types', Flow, ReadCancel \/ DevStat \/ Drain \/ CancelReq
  PROVE  Traffic' /\ InOrder' /\ Ahead'
<1>1. /\ cur' = cur /\ UNCHANGED <<surplus, session, scene, done>>
      /\ pc' \notin {"sendreq", "senddata"}
  BY CancelKeeps DEF ReadCancel, DevStat, Drain, CancelReq, Return, device
<1>2. pipe' \in Seq(Issued)
  BY HeadTailProperties, CancelKeeps DEF ReadCancel, DevStat, Drain, CancelReq, Return, device, Flow, Traffic
<1>3. reply' \in {reply, << >>}
  BY CancelKeeps DEF ReadCancel, DevStat, Drain, CancelReq, Return, device
<1>4. CASE outq' = outq
  BY <1>1, <1>2, <1>3, <1>4, FlowReads DEF Flow, Traffic
<1>5. CASE CancelAtDevice
  <2>1. PICK k \in 0 .. Len(outq) :
           /\ outq' = SubSeq(outq, 1, k) /\ Len(outq') = k /\ outq' \in Seq(Orders)
           /\ \A i \in 1 .. k : outq'[i] = outq[i]
    BY <1>5, CancelKeeps
  <2>2. k <= Len(outq) /\ Len(outq) \in Nat /\ \A i \in 1 .. Len(outq) : outq[i] \in Queued
    BY <2>1, LenProperties, ElementOfSeq DEF Flow, Traffic
  <2>3. outq' \in Seq(Queued)
    BY <2>1, <2>2, SubSeqProperties
  <2>4. Issued \subseteq Issued' /\ Queued \subseteq Queued'
    BY <1>1, FlowSets
  <2>5. Traffic'
    BY <1>1, <1>2, <1>3, <2>3, <2>4, SeqMonotonic, EmptySeq DEF Flow, Traffic
  <2>6. InOrder' /\ Ahead'
    BY <1>1, <2>1, <2>2 DEF Flow, InOrder, Ahead
  <2> QED
    BY <2>5, <2>6
<1> QED
  BY <1>4, <1>5 DEF ReadCancel, DevStat, Drain, CancelReq, device

(* A new command: all that is on its way is older. *)
LEMMA FlowBegin ==
  ASSUME Types, Types', Flow, UNCHANGED <<scene, done>>,
         cur'.n = cur.n + 1, pc' = "sendreq", surplus' \in {surplus, << >>},
         UNCHANGED <<outq, reply, pipe>> \/ (outq' = << >> /\ reply' = << >> /\ pipe' = << >>)
  PROVE  Traffic' /\ InOrder' /\ Ahead'
<1>1. Issued \subseteq Issued' /\ Queued \subseteq Queued'
  BY FlowSets
<1>2. Traffic'
  BY <1>1, SeqMonotonic, EmptySeq DEF Flow, Traffic
<1>3. \A m \in Range(done) : m < cur'.n
  BY RangeOfDone DEF Types, HostTypes, Serials
<1> QED
  BY <1>2, <1>3, EmptySeq DEF Flow, InOrder, Ahead

(* An OpenSession is a new command, ...                                 *)
LEMMA FlowOpens ==
  ASSUME Types, Types', Flow, Connect \/ OpenReset \/ OpenRetry
  PROVE  Traffic' /\ InOrder' /\ Ahead'
BY FlowBegin DEF Connect, OpenReset, OpenRetry, OpenSession, Begin, device

(* ... and so is a call.                                                *)
LEMMA FlowCall ==
  ASSUME Types, Types', Flow, NEW kind, NEW op, Call(kind, op)
  PROVE  Traffic' /\ InOrder' /\ Ahead'
BY FlowBegin DEF Call, Begin, device

(* The end of an opening, or of the program, leaves the device alone.   *)
LEMMA FlowRest ==
  ASSUME Types, Types', Flow, Opened \/ Crash \/ UNCHANGED vars
  PROVE  Traffic' /\ InOrder' /\ Ahead'
<1>1. /\ cur' = cur /\ UNCHANGED <<outq, reply, pipe, session, scene, done>>
      /\ surplus' \in {surplus, << >>}
      /\ pc' \notin {"sendreq", "senddata"} \/ pc' = pc
  BY DEF Opened, Crash, vars, host, device
<1> QED
  BY <1>1, FlowReads, EmptySeq DEF Flow, Traffic

(* The responder takes the oldest command: what it carries out is newer than all *)
(* it has carried out and older than what is queued.                             *)
LEMMA FlowTakeCommand ==
  ASSUME Types, Types', Flow, TakeCommand
  PROVE  Traffic' /\ InOrder' /\ Ahead'
<1> DEFINE c == Head(outq)
<1>1. /\ UNCHANGED <<pc, cur, tid, tries, surplus, got, last, conn, pipe, scene>>
      /\ reply = << >> /\ outq # << >> /\ outq' = Tail(outq) /\ c.kind # "data"
  BY DEF TakeCommand, host
<1>2. /\ c \in Queued /\ c = outq[1] /\ Len(outq) \in Nat \ {0}
      /\ outq' \in Seq(Queued) /\ Len(outq') = Len(outq) - 1
      /\ \A i \in 1 .. Len(outq') : outq'[i] = outq[i + 1]
  BY <1>1, HeadTailProperties, LenProperties DEF Flow, Traffic
<1>3. c \in Orders /\ c.n \in Serials /\ c.n > 0
  BY <1>2 DEF Queued, Orders
<1>4. InOrder'
  BY <1>2 DEF Flow, InOrder
<1>5. \A i \in 1 .. Len(outq') : c.n < outq'[i].n \/ (c.n = outq'[i].n /\ c.kind = "send")
  BY <1>2 DEF Flow, InOrder
<1>6. CASE c.kind = "send"
  <2>1. UNCHANGED <<reply, done>>
    BY <1>6 DEF TakeCommand
  <2>2. Issued \subseteq Issued' /\ Queued \subseteq Queued'
    BY <1>1, <2>1, FlowSets
  <2>3. Traffic'
    BY <1>1, <1>2, <2>1, <2>2, SeqMonotonic DEF Flow, Traffic
  <2>4. Ahead'
    BY <1>1, <1>2, <2>1 DEF Flow, Ahead
  <2> QED
    BY <1>4, <2>3, <2>4
<1>7. CASE c.kind # "send"
  <2>1. /\ reply' \in Answers(c)
        /\ done' = IF reply'[Len(reply')].code \in Errors THEN done ELSE Append(done, c.n)
    BY <1>7 DEF TakeCommand
  <2>2. Range(done') = Range(done) \/ Range(done') = Range(done) \cup {c.n}
    BY <1>3, <2>1, RangeOfDone
  <2>3. Issued \subseteq Issued' /\ Queued \subseteq Queued'
    BY <1>1, <2>2, FlowSets
  <2>4. reply' \in Seq(Issued')
    <3>1. Answering(c, reply') /\ reply' \in Seq(Sound)
      BY <1>3, <2>1, AnswersTo, AnswersSound
    <3>2. (\E i \in 1 .. Len(reply') : Positive(reply'[i])) => c.n \in Range(done')
      BY <1>3, <2>1, <3>1, RangeOfDone DEF Answering
    <3>3. ASSUME NEW i \in 1 .. Len(reply') PROVE reply'[i] \in Issued'
      <4>1. reply'[i] \in Sound' /\ reply'[i].n = c.n
        BY <1>1, <3>1, <3>3, SameSets, ElementOfSeq DEF Answering
      <4>2. ~broken => reply'[i].tid = c.tid \/ (c.kind = "close" /\ reply'[i].tid = 0)
        BY <3>1, <3>3 DEF Answering, Tids
      <4>3. c.n = cur.n /\ cur.kind = "open" => c.kind = "open" /\ c.tid = 0
        BY <1>2 DEF Queued
      <4>4. c.kind = "open" => reply'[i].type = "resp" /\ c.tid = 0
        BY <1>2, <3>1, <3>3 DEF Queued, Answering
      <4>5. reply'[i].type = "resp" /\ reply'[i].code = "AlreadyOpened" => c.kind = "open"
        BY <3>1, <3>3 DEF Answering
      <4>6. /\ pc' = "sendreq" => c.n < cur'.n
            /\ c.tid \in Serials' /\ 0 \in Serials' /\ broken' = broken /\ cur' = cur
        BY <1>1, <1>2, <1>3, SameSets, ZeroSerial DEF Queued, Orders, broken
      <4> QED
        BY <1>3, <3>2, <3>3, <4>1, <4>2, <4>3, <4>4, <4>5, <4>6 DEF Issued
    <3> QED
      BY <3>1, <3>3
  <2>5. Traffic'
    BY <1>1, <1>2, <2>3, <2>4, SeqMonotonic DEF Flow, Traffic
  <2>6. Ahead'
    <3>1. \A i \in 1 .. Len(outq') : outq'[i].n \in Nat /\ c.n < outq'[i].n
      BY <1>2, <1>5, <1>7, ElementOfSeq DEF Queued, Orders, Serials
    <3>2. \A m \in Range(done), i \in 1 .. Len(outq') : m < outq'[i].n
      BY <1>2 DEF Flow, Ahead
    <3>3. pc \in {"sendreq", "senddata"} => c.n < cur.n
      <4>1. cur.n \in Nat /\ c.n \in 0 .. cur.n
        BY <1>3 DEF Serials, Types, HostTypes
      <4>2. pc \in {"sendreq", "senddata"} => c.n # cur.n
        BY <1>2, <1>7, <4>1 DEF Queued
      <4> QED
        BY <4>1, <4>2
    <3> QED
      BY <1>1, <2>2, <3>1, <3>2, <3>3 DEF Flow, Ahead
  <2> QED
    BY <1>4, <2>5, <2>6
<1> QED
  BY <1>6, <1>7

(* The data of a command are carried out once, right behind it.         *)
LEMMA FlowTakeData ==
  ASSUME Types, Types', Flow, TakeData
  PROVE  Traffic' /\ InOrder' /\ Ahead'
<1> DEFINE c == Head(outq)
<1>1. /\ UNCHANGED <<pc, cur, tid, tries, surplus, got, last, conn, pipe, scene>>
      /\ reply = << >> /\ outq # << >> /\ outq' = Tail(outq) /\ c.kind = "data"
  BY DEF TakeData, host
<1>2. /\ c \in Queued /\ c = outq[1] /\ Len(outq) \in Nat \ {0}
      /\ outq' \in Seq(Queued) /\ Len(outq') = Len(outq) - 1
      /\ \A i \in 1 .. Len(outq') : outq'[i] = outq[i + 1]
  BY <1>1, HeadTailProperties, LenProperties DEF Flow, Traffic
<1>3. c \in Orders /\ c.n \in Serials /\ c.n > 0
  BY <1>2 DEF Queued, Orders
<1>4. InOrder'
  BY <1>2 DEF Flow, InOrder
<1>5. \A i \in 1 .. Len(outq') : c.n < outq'[i].n
  BY <1>1, <1>2 DEF Flow, InOrder
<1>6. CASE UNCHANGED <<reply, done>>
  <2>1. Issued \subseteq Issued' /\ Queued \subseteq Queued'
    BY <1>1, <1>6, FlowSets
  <2>2. Traffic'
    BY <1>1, <1>2, <1>6, <2>1, SeqMonotonic DEF Flow, Traffic
  <2>3. Ahead'
    BY <1>1, <1>2, <1>6 DEF Flow, Ahead
  <2> QED
    BY <1>4, <2>2, <2>3
<1>7. ASSUME NEW t \in Tids(c), NEW code \in Refusals \cup {"OK"},
             reply' = << Response(c, t, code) >>,
             done' = IF code = "OK" THEN Append(done, c.n) ELSE done
      PROVE  Traffic' /\ InOrder' /\ Ahead'
  <2>1. Range(done) \subseteq Range(done') /\ Range(done') \subseteq Range(done) \cup {c.n}
        /\ (code = "OK" => c.n \in Range(done'))
    BY <1>3, <1>7, RangeOfDone
  <2>2. Issued \subseteq Issued' /\ Queued \subseteq Queued'
    BY <1>1, <2>1, FlowSets
  <2>3. reply' \in Seq(Issued')
    <3>1. /\ Len(reply') = 1
          /\ \A i \in 1 .. Len(reply') : /\ reply'[i].n = c.n /\ reply'[i].tid = t
                                        /\ reply'[i].code = code /\ reply'[i].type = "resp"
                                        /\ reply'[i].rest = "none"
      <4>1. PICK r : r = << Response(c, t, code) >>
        OBVIOUS
      <4>2. reply' = r
        BY <1>7, <4>1
      <4> HIDE DEF c
      <4>3. /\ Len(r) = 1
            /\ \A i \in 1 .. Len(r) : /\ r[i].n = c.n /\ r[i].tid = t /\ r[i].code = code
                                      /\ r[i].type = "resp" /\ r[i].rest = "none"
        BY <4>1, OneResponse
      <4> QED
        BY <4>2, <4>3
    <3>2. reply' \in Seq(Sound')
      BY DEF Types, Wires
    <3>3. \A i \in 1 .. Len(reply') : reply'[i] \in Sound'
      BY ONLY <3>2, ElementOfSeq
    <3>4. ~broken => t = c.tid
      BY <1>7 DEF Tids
    <3>5. c.n = cur.n => cur.kind # "open"
      BY <1>1, <1>2 DEF Queued
    <3>6. /\ pc' = "sendreq" => c.n < cur'.n
          /\ c.tid \in Serials' /\ broken' = broken /\ cur' = cur
      BY <1>1, <1>2, <1>3, SameSets DEF Queued, Orders, broken
    <3>7. code # "AlreadyOpened"
      BY <1>7, RefusalAssumption
    <3>8. \A i \in 1 .. Len(reply') : reply'[i] \in Issued'
      BY <1>3, <2>1, <3>1, <3>3, <3>4, <3>5, <3>6, <3>7 DEF Issued, Positive
    <3> QED
      BY ONLY <3>2, <3>8, LenProperties, SeqDef
  <2>4. Traffic'
    BY <1>1, <1>2, <2>2, <2>3, SeqMonotonic DEF Flow, Traffic
  <2>5. Ahead'
    <3>1. \A m \in Range(done), i \in 1 .. Len(outq') : m < outq'[i].n
      BY <1>2 DEF Flow, Ahead
    <3>2. pc \in {"sendreq", "senddata"} => c.n < cur.n
      BY <1>1, <1>2 DEF Queued, Orders, Serials, Types, HostTypes
    <3> QED
      BY <1>1, <1>5, <2>1, <3>1, <3>2 DEF Flow, Ahead
  <2> QED
    BY <1>4, <2>4, <2>5
<1> QED
  BY <1>6, <1>7 DEF TakeData

(* A packet moves from the responder to the pipe.                       *)
LEMMA FlowSendPacket ==
  ASSUME Types, Types', Flow, SendPacket
  PROVE  Traffic' /\ InOrder' /\ Ahead'
<1>1. /\ UNCHANGED <<pc, cur, tid, tries, surplus, got, last, conn, scene, outq, done>>
      /\ pipe' = Append(pipe, Head(reply)) /\ reply' = Tail(reply) /\ reply # << >>
  BY DEF SendPacket, host
<1>2. Issued \subseteq Issued' /\ Queued \subseteq Queued'
  BY <1>1, FlowSets
<1>3. Head(reply) \in Issued /\ Tail(reply) \in Seq(Issued)
  BY <1>1, HeadTailProperties DEF Flow, Traffic
<1>4. pipe' \in Seq(Issued)
  BY <1>1, <1>3, AppendProperties DEF Flow, Traffic
<1>5. Traffic'
  BY <1>1, <1>2, <1>3, <1>4, SeqMonotonic DEF Flow, Traffic
<1> QED
  BY <1>1, <1>5 DEF Flow, InOrder, Ahead

(* The flow of commands and answers is kept by every step.              *)
LEMMA FlowNext ==
  ASSUME Types, Types', Flow, [Next]_vars
  PROVE  Flow'
<1>1. Place'
  BY PlaceNext DEF Flow
<1>2. CASE Host
  BY <1>1, <1>2, FlowSendReq, FlowSendData, FlowGetData, FlowGetRest, FlowGetResp, FlowCancelling,
     FlowOpens, FlowRest DEF Host, Flow
<1>3. CASE Responder
  BY <1>1, <1>3, FlowTakeCommand, FlowTakeData, FlowSendPacket DEF Responder, Flow
<1>4. CASE Connect \/ Crash \/ UNCHANGED vars
  BY <1>1, <1>4, FlowOpens, FlowRest DEF Flow
<1>5. CASE \E kind, op : Call(kind, op)
  BY <1>1, <1>5, FlowCall DEF Flow
<1> QED
  BY <1>2, <1>3, <1>4, <1>5 DEF Next

(* Commands are carried out in the order ptp_transaction_new issued them, each at *)
(* most once, and what answers one was sent after it, whatever times out or is    *)
(* cancelled.                                                                     *)
THEOREM FlowAlways == (Spec => []Flow) /\ (PortsSpec => []Flow)
<1>1. [AnyPort]_vars => [Next]_vars
  BY PortsAreSteps
<1>2. Init => Flow
  BY PlaceInit, FlowInit DEF Flow
<1> QED
  BY <1>1, <1>2, TypesAlways, FlowNext, PTL DEF Spec, PortsSpec
=============================================================================
