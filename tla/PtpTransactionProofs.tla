------------------------ MODULE PtpTransactionProofs ------------------------
(***************************************************************************)
(* What a caller of ptp_transaction_new may rely on, proved of             *)
(* PtpTransaction for any responder and any bounds: success is reported    *)
(* only with the response to the caller's own command (OkIsOwn), the       *)
(* transactions implement MtpCalls, and a first OpenSession fails only for *)
(* a reason (OpensAfterCrash).                                             *)
(*                                                                         *)
(* The first two rest on an invariant on the transaction ids, Session.     *)
(* It holds up to the second connection of a device and they fail with the *)
(* third: ids start at 0 again with every OpenSession, and an OpenSession  *)
(* may take the response that a program which ended did not read and leave *)
(* its own behind.  The next program's OpenSession takes that one, with    *)
(* responses of the session before behind it, whose ids it has yet to use. *)
(***************************************************************************)
EXTENDS PtpTransactionFlow

-----------------------------------------------------------------------------
\* Two connections, of a device whose headers are good.
Tame == ~broken /\ spent.connects <= 2

\* What is on its way in a session is of that session, numbered like its
\* commands, or has the id 0 of an OpenSession or a CloseSession, which in the
\* first session is of the current command; and once a second OpenSession has
\* its answer all that is left behind it is of OpenSessions.
Kept(x, zero) ==
  /\ Tame /\ conn = "up" => x.tid = 0 \/ x.n + cur.tid = x.tid + cur.n
  /\ Tame /\ conn = "up" /\ spent.connects = 1 /\ zero => x.n = cur.n /\ cur.kind = "close"
  /\ Tame /\ pc = "opened" /\ last.rc \in {"OK", "AlreadyOpened"} /\ spent.connects = 2 => x.tid = 0
Ending(c) == c.tid = 0 \/ c.kind = "close"
KnownPackets == {p \in Sound : Kept(p, p.tid = 0)}
KnownOrders == {c \in Orders : Kept(c, Ending(c))}
Carried ==
  /\ surplus \in Seq(KnownPackets) /\ pipe \in Seq(KnownPackets) /\ reply \in Seq(KnownPackets)
  /\ outq \in Seq(KnownOrders)

\* The first OpenSession of a program has the pipes to itself.
Alone ==
  Opening /\ Tame /\ spent.connects = 1 =>
    /\ Len(pipe) + Len(reply) + Len(outq) <= 1
    /\ \A i \in 1 .. Len(outq) : outq[i].kind = "open"
    /\ pc = "sendreq" => Len(pipe) + Len(reply) + Len(outq) = 0
    /\ pc = "opened" /\ last.rc # "IO" => Len(pipe) + Len(reply) + Len(outq) = 0

\* Up to the second session, nothing with an id of a session comes behind what
\* ended it.
Before(s, t) == \A i \in 1 .. Len(s), j \in 1 .. Len(t) : s[i].tid = 0 => t[j].tid = 0
Zeros ==
  Tame /\ (spent.connects = 2 => Opening) =>
    /\ \A i, j \in 1 .. Len(pipe) : i < j /\ pipe[i].tid = 0 => pipe[j].tid = 0
    /\ \A i, j \in 1 .. Len(reply) : reply[i].tid = reply[j].tid
    /\ \A i, j \in 1 .. Len(outq) : i < j /\ Ending(outq[i]) => outq[j].tid = 0
    /\ Before(pipe, reply) /\ Before(pipe, outq) /\ Before(reply, outq)

Unused == spent.connects = 0 => conn = "down" /\ pipe = << >> /\ reply = << >> /\ outq = << >>

Session == Carried /\ Alone /\ Zeros /\ Unused

OwnResponse == spent.connects <= 2 => OkIsOwn

-----------------------------------------------------------------------------
(* Before the first connection nothing is on its way.                   *)
LEMMA SessionInit == Init => Session
BY EmptySeq DEF Init, Session, Carried, Alone, Opening, Zeros, Before, Unused

(* A sequence all of whose elements are in T. *)
LEMMA ElementwiseSeq ==
  ASSUME NEW S, NEW T, NEW s \in Seq(S), \A i \in 1 .. Len(s) : s[i] \in T
  PROVE  s \in Seq(T)
BY LenProperties, SeqDef

(* Serial numbers and transaction ids are numbers.                      *)
LEMMA KnownNumbers ==
  ASSUME Types
  PROVE  /\ \A p \in Sound : p.n \in Nat /\ p.tid \in Nat /\ p.n <= cur.n
         /\ \A c \in Orders : c.n \in Nat /\ c.tid \in Nat /\ c.n <= cur.n
         /\ cur.n \in Nat /\ cur.tid \in Nat
BY DEF Types, HostTypes, Sound, Packets, Orders, Serials, Insane

(* Lengths are numbers.                                                 *)
LEMMA Lengths ==
  ASSUME Types
  PROVE  Len(pipe) \in Nat /\ Len(reply) \in Nat /\ Len(outq) \in Nat
BY LenProperties DEF Types, Wires

(* Nothing that is known is forgotten, unless a session begins. *)
LEMMA KnownStays ==
  ASSUME Types, cur' = cur, scene' = scene, spent'.connects = spent.connects,
         conn' = "up" => conn = "up",
         \/ pc' = "opened" => pc = "opened" /\ last' = last
         \/ Tame => last'.rc \notin {"OK", "AlreadyOpened"} \/ spent.connects # 2
  PROVE  KnownPackets \subseteq KnownPackets' /\ KnownOrders \subseteq KnownOrders'
<1>1. \A x, zero : Kept(x, zero) => Kept(x, zero)'
  BY DEF Kept, Tame, broken
<1> QED
  BY <1>1, SameSets DEF KnownPackets, KnownOrders, Ending, Kept, Tame, broken

(* A step that only takes away, from the front of the pipe or the end of the queue. *)
LEMMA FewerPackets ==
  ASSUME Types, NEW k \in 0 .. Len(outq),
         pipe' = pipe \/ (pipe # << >> /\ pipe' = Tail(pipe)), reply' \in {reply, << >>},
         outq' = SubSeq(outq, 1, k)
  PROVE  /\ Len(pipe') \in Nat /\ Len(pipe') <= Len(pipe) /\ (pipe' # pipe => Len(pipe') = Len(pipe) - 1)
         /\ \/ \A i \in 1 .. Len(pipe') : i \in 1 .. Len(pipe) /\ pipe'[i] = pipe[i]
            \/ \A i \in 1 .. Len(pipe') : i + 1 \in 1 .. Len(pipe) /\ pipe'[i] = pipe[i + 1]
         /\ Len(reply') \in Nat /\ Len(reply') <= Len(reply)
         /\ \A i \in 1 .. Len(reply') : i \in 1 .. Len(reply) /\ reply'[i] = reply[i]
         /\ Len(outq') \in Nat /\ Len(outq') <= Len(outq)
         /\ \A i \in 1 .. Len(outq') : i \in 1 .. Len(outq) /\ outq'[i] = outq[i]
<1>1. pipe \in Seq(Sound) /\ reply \in Seq(Sound) /\ outq \in Seq(Orders)
  BY DEF Types, Wires
<1>2. /\ Len(outq) \in Nat /\ Len(reply) \in Nat /\ Len(pipe) \in Nat
  BY Lengths
<1>3. Len(outq') = k /\ \A i \in 1 .. k : outq'[i] = outq[i]
  BY <1>1, <1>2, SubSeqProperties
<1>4. Len(reply') \in Nat /\ Len(reply') <= Len(reply)
      /\ \A i \in 1 .. Len(reply') : i \in 1 .. Len(reply) /\ reply'[i] = reply[i]
  BY <1>2, EmptySeq
<1>5. /\ Len(pipe') \in Nat /\ Len(pipe') <= Len(pipe) /\ (pipe' # pipe => Len(pipe') = Len(pipe) - 1)
      /\ \/ \A i \in 1 .. Len(pipe') : i \in 1 .. Len(pipe) /\ pipe'[i] = pipe[i]
         \/ \A i \in 1 .. Len(pipe') : i + 1 \in 1 .. Len(pipe) /\ pipe'[i] = pipe[i + 1]
  <2>1. CASE pipe # << >> /\ pipe' = Tail(pipe)
    <3>1. Len(pipe') = Len(pipe) - 1 /\ Len(pipe) > 0
          /\ \A i \in 1 .. Len(pipe') : pipe'[i] = pipe[i + 1]
      BY <1>1, <2>1, HeadTailProperties, EmptySeq, LenProperties
    <3> QED
      BY <1>2, <3>1
  <2> QED
    BY <1>2, <2>1
<1> QED
  BY <1>2, <1>3, <1>4, <1>5

(* Taking away leaves the order of ids alone, ...                       *)
LEMMA FewerZeros ==
  ASSUME Types, Zeros, NEW k \in 0 .. Len(outq), scene' = scene, spent'.connects = spent.connects,
         Opening' => Opening,
         pipe' = pipe \/ (pipe # << >> /\ pipe' = Tail(pipe)), reply' \in {reply, << >>},
         outq' = SubSeq(outq, 1, k)
  PROVE  Zeros'
<1>1. /\ \/ \A i \in 1 .. Len(pipe') : i \in 1 .. Len(pipe) /\ pipe'[i] = pipe[i]
         \/ \A i \in 1 .. Len(pipe') : i + 1 \in 1 .. Len(pipe) /\ pipe'[i] = pipe[i + 1]
      /\ \A i \in 1 .. Len(reply') : i \in 1 .. Len(reply) /\ reply'[i] = reply[i]
      /\ \A i \in 1 .. Len(outq') : i \in 1 .. Len(outq) /\ outq'[i] = outq[i]
      /\ Len(pipe') \in Nat /\ Len(outq') \in Nat /\ Len(reply') \in Nat
  BY FewerPackets
<1> SUFFICES ASSUME Tame', (spent.connects = 2 => Opening)'
             PROVE  /\ \A i, j \in 1 .. Len(pipe') : i < j /\ pipe'[i].tid = 0 => pipe'[j].tid = 0
                    /\ \A i, j \in 1 .. Len(reply') : reply'[i].tid = reply'[j].tid
                    /\ \A i, j \in 1 .. Len(outq') : i < j /\ Ending(outq'[i]) => outq'[j].tid = 0
                    /\ Before(pipe', reply') /\ Before(pipe', outq') /\ Before(reply', outq')
  BY DEF Zeros, Before, Ending
<1>2. Tame /\ (spent.connects = 2 => Opening)
  BY DEF Tame, broken
<1>3. /\ \A i, j \in 1 .. Len(pipe) : i < j /\ pipe[i].tid = 0 => pipe[j].tid = 0
      /\ \A i, j \in 1 .. Len(reply) : reply[i].tid = reply[j].tid
      /\ \A i, j \in 1 .. Len(outq) : i < j /\ Ending(outq[i]) => outq[j].tid = 0
      /\ Before(pipe, reply) /\ Before(pipe, outq) /\ Before(reply, outq)
  BY <1>2 DEF Zeros
<1>4. ASSUME NEW i \in 1 .. Len(pipe'), NEW j \in 1 .. Len(pipe'), i < j, pipe'[i].tid = 0
      PROVE  pipe'[j].tid = 0
  <2>1. \E u, v \in 1 .. Len(pipe) : u < v /\ pipe'[i] = pipe[u] /\ pipe'[j] = pipe[v]
    <3>1. CASE \A l \in 1 .. Len(pipe') : l \in 1 .. Len(pipe) /\ pipe'[l] = pipe[l]
      BY <1>4, <3>1
    <3>2. CASE \A l \in 1 .. Len(pipe') : l + 1 \in 1 .. Len(pipe) /\ pipe'[l] = pipe[l + 1]
      <4>1. i + 1 < j + 1 /\ i + 1 \in 1 .. Len(pipe) /\ j + 1 \in 1 .. Len(pipe)
        BY <1>4, <3>2
      <4> QED
        BY <3>2, <4>1
    <3> QED
      BY <1>1, <3>1, <3>2
  <2> QED
    BY ONLY <1>3, <1>4, <2>1
<1>5. ASSUME NEW i \in 1 .. Len(reply'), NEW j \in 1 .. Len(reply')
      PROVE  reply'[i].tid = reply'[j].tid
  <2>1. /\ i \in 1 .. Len(reply) /\ reply'[i] = reply[i]
        /\ j \in 1 .. Len(reply) /\ reply'[j] = reply[j]
    BY <1>1
  <2> QED
    BY ONLY <1>3, <2>1
<1>6. \A i, j \in 1 .. Len(outq') : i < j /\ Ending(outq'[i]) => outq'[j].tid = 0
  BY ONLY <1>1, <1>3
<1>7. ASSUME NEW s, NEW t, NEW u, NEW v, Before(s, t),
             \A i \in 1 .. Len(u) : \E j \in 1 .. Len(s) : u[i] = s[j],
             \A i \in 1 .. Len(v) : \E j \in 1 .. Len(t) : v[i] = t[j]
      PROVE  Before(u, v)
  BY ONLY <1>7 DEF Before
<1>8. /\ \A i \in 1 .. Len(pipe') : \E j \in 1 .. Len(pipe) : pipe'[i] = pipe[j]
      /\ \A i \in 1 .. Len(reply') : \E j \in 1 .. Len(reply) : reply'[i] = reply[j]
      /\ \A i \in 1 .. Len(outq') : \E j \in 1 .. Len(outq) : outq'[i] = outq[j]
  BY ONLY <1>1
<1>9. Before(pipe', reply') /\ Before(pipe', outq') /\ Before(reply', outq')
  BY ONLY <1>3, <1>7, <1>8
<1> QED
  BY <1>4, <1>5, <1>6, <1>9

(* ... and the rest of Session, ...                                     *)
LEMMA FewerRest ==
  ASSUME Types, Types', Alone, Zeros, Unused, NEW k \in 0 .. Len(outq),
         cur' = cur, scene' = scene, spent'.connects = spent.connects,
         conn' \in {conn, "down"}, pc' # "sendreq" \/ pc' = pc,
         pc' = "opened" => \/ pc = "opened" /\ last' = last
                           \/ last'.rc = "IO" \/ (pipe # << >> /\ pipe' = Tail(pipe)),
         pipe' = pipe \/ (pipe # << >> /\ pipe' = Tail(pipe)), reply' \in {reply, << >>},
         outq' = SubSeq(outq, 1, k)
  PROVE  Alone' /\ Zeros' /\ Unused'
<1>1. Opening' => Opening
  BY DEF Opening
<1>2. Zeros'
  BY <1>1, FewerZeros
<1>3. /\ Len(pipe') \in Nat /\ Len(pipe') <= Len(pipe)
      /\ Len(reply') \in Nat /\ Len(reply') <= Len(reply)
      /\ Len(outq') \in Nat /\ Len(outq') <= Len(outq)
      /\ pipe' # pipe => Len(pipe') = Len(pipe) - 1
      /\ pipe # << >> /\ pipe' = Tail(pipe) => Len(pipe') = Len(pipe) - 1
  BY FewerPackets, HeadTailProperties DEF Types, Wires
<1>4. Len(pipe) \in Nat /\ Len(reply) \in Nat /\ Len(outq) \in Nat
  BY Lengths
<1>5. Alone'
  BY <1>1, <1>3, <1>4 DEF Alone, Tame, broken
<1>6. Unused'
  <2>1. outq = << >> => outq' = << >>
    BY <1>3, EmptySeq DEF Types, Wires
  <2> QED
    BY <2>1 DEF Unused
<1> QED
  BY <1>2, <1>5, <1>6

(* ... and what is left is of the session.                              *)
LEMMA FewerCarried ==
  ASSUME Types, Carried, NEW k \in 0 .. Len(outq),
         KnownPackets \subseteq KnownPackets', KnownOrders \subseteq KnownOrders',
         pipe' = pipe \/ (pipe # << >> /\ pipe' = Tail(pipe)), reply' \in {reply, << >>},
         outq' = SubSeq(outq, 1, k), surplus' \in Seq(KnownPackets)
  PROVE  Carried'
<1>1. pipe' \in Seq(KnownPackets) /\ reply' \in Seq(KnownPackets)
  BY HeadTailProperties, EmptySeq DEF Carried
<1>2. outq' \in Seq(KnownOrders)
  <2>1. outq \in Seq(KnownOrders) /\ Len(outq) \in Nat
    BY LenProperties DEF Carried
  <2>2. k \in Nat /\ k <= Len(outq) /\ \A i \in 1 .. k : outq[i] \in KnownOrders
    BY <2>1, ElementOfSeq
  <2> QED
    BY <2>1, <2>2, SubSeqProperties
<1> QED
  BY <1>1, <1>2, SeqMonotonic DEF Carried

(* Nothing taken away is a case of taking away.                         *)
LEMMA Whole ==
  ASSUME Types
  PROVE  \E k \in 0 .. Len(outq) : outq = SubSeq(outq, 1, k)
<1>1. outq \in Seq(Orders)
  BY DEF Types, Wires
<1>2. SubSeq(outq, 1, Len(outq)) = outq
  BY <1>1, SubSeqFull
<1>3. Len(outq) \in 0 .. Len(outq)
  BY Lengths
<1> WITNESS Len(outq) \in 0 .. Len(outq)
<1> QED
  BY <1>2

(* The next packet is of the session.                                   *)
LEMMA KnownPacket1 ==
  ASSUME Types, Carried, Incoming # << >>
  PROVE  Next1 \in KnownPackets
BY NextPacket, HeadTailProperties DEF Types, Wires, Carried

(* What ptp_usb_getpacket leaves.                                       *)
LEMMA Taken ==
  ASSUME Types, NEW rest, TakePacket(rest)
  PROVE  /\ surplus' = rest
         /\ surplus = << >> => pipe # << >> /\ pipe' = Tail(pipe)
         /\ surplus # << >> => pipe' = pipe
BY NextPacket DEF TakePacket, Types, Wires

(* Session is kept by ptp_usb_getdata, ...                              *)
LEMMA SessionGetData ==
  ASSUME Types, Types', Place, Session, GetData
  PROVE  Session'
<1>1. /\ cur' = cur /\ UNCHANGED <<outq, waiting, reply, session, scene, done>>
      /\ pc' \notin {"sendreq", "opened"} /\ conn' = conn /\ cur.kind = "get"
  BY DEF GetData, Return, ReadAborted, Place
<1>2. spent'.connects = spent.connects
  BY DEF GetData, Early, Abort, NoPacket, TimedOut, Spend, Types, Limits
<1>3. KnownPackets \subseteq KnownPackets' /\ KnownOrders \subseteq KnownOrders'
  BY <1>1, <1>2, KnownStays
<1>4. pipe' = pipe \/ (pipe # << >> /\ pipe' = Tail(pipe))
  BY Taken DEF GetData
<1>5. surplus' \in Seq(KnownPackets)
  <2>1. CASE TakePacket(<< >>)
    BY <2>1, Taken, EmptySeq
  <2>2. CASE UNCHANGED <<surplus, pipe>>
    BY <2>2 DEF Session, Carried
  <2>3. CASE /\ Incoming # << >>
             /\ TakePacket(<< [Next1 EXCEPT !.type = "resp", !.code = "OK", !.rest = "none"] >>)
    <3>1. Next1 \in KnownPackets
      BY <2>3, KnownPacket1 DEF Session
    <3> DEFINE q == [Next1 EXCEPT !.type = "resp", !.code = "OK", !.rest = "none"]
    <3>2. q \in Sound /\ q.n = Next1.n /\ q.tid = Next1.tid
      BY <3>1 DEF KnownPackets, Sound, Packets
    <3> HIDE DEF q
    <3>3. q \in KnownPackets
      BY <3>1, <3>2 DEF KnownPackets, Kept
    <3>4. << q >> \in Seq(KnownPackets)
      BY <3>3
    <3> QED
      BY <2>3, <3>4, Taken DEF q
  <2> QED
    BY <2>1, <2>2, <2>3 DEF GetData
<1>6. PICK k \in 0 .. Len(outq) : outq' = SubSeq(outq, 1, k)
  BY <1>1, Whole
<1> QED
  BY <1>1, <1>2, <1>3, <1>4, <1>5, <1>6, FewerCarried, FewerRest DEF Session

(* ... by the packets that follow, ...                                  *)
LEMMA SessionGetRest ==
  ASSUME Types, Types', Place, Session, GetRest
  PROVE  Session'
<1>1. /\ cur' = cur /\ UNCHANGED <<surplus, outq, waiting, reply, session, scene, done>>
      /\ pc' \notin {"sendreq", "opened"} /\ conn' = conn
  BY DEF GetRest, Return, ReadAborted, Place
<1>2. spent'.connects = spent.connects
  BY DEF GetRest, Abort, TimedOut, Spend, Types, Limits
<1>3. KnownPackets \subseteq KnownPackets' /\ KnownOrders \subseteq KnownOrders'
  BY <1>1, <1>2, KnownStays
<1>4. pipe' = pipe \/ (pipe # << >> /\ pipe' = Tail(pipe))
  BY DEF GetRest
<1>5. PICK k \in 0 .. Len(outq) : outq' = SubSeq(outq, 1, k)
  BY <1>1, Whole
<1> QED
  BY <1>1, <1>2, <1>3, <1>4, <1>5, FewerCarried, FewerRest DEF Session, Carried

(* ... by ptp_read_cancel_func and the cancel request, ...              *)
LEMMA SessionCancelling ==
  ASSUME Types, Types', Place, Session, ReadCancel \/ DevStat \/ Drain \/ CancelReq
  PROVE  Session'
<1>1. /\ cur' = cur /\ UNCHANGED <<surplus, session, scene, done>>
      /\ pc' \notin {"sendreq", "opened"} /\ conn' = conn
  BY CancelKeeps DEF ReadCancel, DevStat, Drain, CancelReq, Return, device, Place
<1>2. spent'.connects = spent.connects
  BY DEF ReadCancel, DevStat, Drain, CancelReq, Fault, TimedOut, Spend, Types, Limits
<1>3. KnownPackets \subseteq KnownPackets' /\ KnownOrders \subseteq KnownOrders'
  BY <1>1, <1>2, KnownStays
<1>4. /\ pipe' = pipe \/ (pipe # << >> /\ pipe' = Tail(pipe))
      /\ reply' \in {reply, << >>}
  BY CancelKeeps DEF ReadCancel, DevStat, Drain, CancelReq, device
<1>5. PICK k \in 0 .. Len(outq) : outq' = SubSeq(outq, 1, k)
  <2>1. CASE outq' = outq
    BY <2>1, Whole
  <2>2. CASE CancelAtDevice
    BY <2>2, CancelKeeps
  <2> QED
    BY <2>1, <2>2 DEF ReadCancel, DevStat, Drain, CancelReq, device
<1> QED
  BY <1>1, <1>2, <1>3, <1>4, <1>5, FewerCarried, FewerRest DEF Session, Carried

(* Behind an answer to the second OpenSession there are only OpenSessions'. *)
LEMMA SecondOpening ==
  ASSUME Types, Types', Flow, Session, GetResp, pc' = "opened", Tame, spent.connects = 2,
         last'.rc \in {"OK", "AlreadyOpened"}
  PROVE  /\ \A i \in 1 .. Len(pipe) : pipe[i].tid = 0
         /\ \A i \in 1 .. Len(reply) : reply[i].tid = 0
         /\ \A i \in 1 .. Len(outq) : outq[i].tid = 0
<1>1. pc = "getresp" /\ cur.kind = "open" /\ Opening /\ surplus = << >> /\ cur.tid = 0
  BY DEF GetResp, Return, Flow, Place, Opening, Types, HostTypes
<1>2. /\ TakePacket(<< >>)
      /\ \/ Refused /\ Next1.code = "AlreadyOpened"
         \/ ~Junk /\ ~Refused /\ ~Old /\ ~Future
  BY <1>1 DEF GetResp, Return, Refused
<1>3. Next1 \in Issued /\ pipe # << >> /\ Next1 = pipe[1] /\ Len(pipe) \in Nat \ {0}
  BY <1>1, <1>2, Packet1, HeadTailProperties, LenProperties, EmptySeq DEF TakePacket, Flow, Traffic
<1>4. Next1.tid = 0
  <2>1. ~broken /\ Next1.tid \in Nat
    BY <1>3, KnownNumbers DEF Tame, Issued
  <2>2. CASE Refused /\ Next1.code = "AlreadyOpened"
    BY <1>3, <2>1, <2>2 DEF Refused, Junk, Issued
  <2>3. CASE ~Junk /\ ~Refused /\ ~Future
    BY <1>1, <2>1, <2>3 DEF Future, RespTid
  <2> QED
    BY <1>2, <2>2, <2>3
<1>5. /\ \A i, j \in 1 .. Len(pipe) : i < j /\ pipe[i].tid = 0 => pipe[j].tid = 0
      /\ Before(pipe, reply) /\ Before(pipe, outq)
  BY <1>1 DEF Session, Zeros
<1>6. 1 \in 1 .. Len(pipe) /\ \A i \in 1 .. Len(pipe) : i = 1 \/ 1 < i
  BY <1>3
<1> QED
  BY <1>3, <1>4, <1>5, <1>6 DEF Before

(* ... by ptp_usb_getresp, ...                                          *)
LEMMA SessionGetResp ==
  ASSUME Types, Types', Flow, Session, GetResp
  PROVE  Session'
<1>1. /\ cur' = cur /\ UNCHANGED <<outq, waiting, reply, session, scene, done>>
      /\ pc' # "sendreq" /\ conn' \in {conn, "down"}
  BY DEF GetResp, Return
<1>2. spent'.connects = spent.connects
  BY DEF GetResp, NoPacket, TimedOut, Spend, Types, Limits
<1>3. /\ pipe' = pipe \/ (pipe # << >> /\ pipe' = Tail(pipe))
      /\ surplus' \in {surplus, << >>} /\ reply' \in {reply, << >>}
  BY Taken DEF GetResp
<1>4. surplus' \in Seq(KnownPackets)
  BY <1>3, EmptySeq DEF Session, Carried
<1>5. PICK k \in 0 .. Len(outq) : outq' = SubSeq(outq, 1, k)
  BY <1>1, Whole
<1>6. pc' = "opened" => Opening /\ (last'.rc = "IO" \/ (pipe # << >> /\ pipe' = Tail(pipe)))
  <2>1. pc' = "opened" => cur.kind = "open" /\ pc = "getresp"
    BY DEF GetResp, Return
  <2>2. pc' = "opened" => Opening /\ surplus = << >>
    BY <2>1 DEF Flow, Place, Opening, Types, HostTypes
  <2> QED
    BY <2>1, <2>2, Taken DEF GetResp, Return
<1>7. Alone' /\ Zeros' /\ Unused'
  BY <1>1, <1>2, <1>3, <1>5, <1>6, FewerRest DEF Session
<1>8. Carried'
  <2>1. CASE \/ pc' # "opened" \/ ~Tame \/ spent.connects # 2
             \/ last'.rc \notin {"OK", "AlreadyOpened"}
    <3>1. KnownPackets \subseteq KnownPackets' /\ KnownOrders \subseteq KnownOrders'
      BY <1>1, <1>2, <2>1, KnownStays
    <3> QED
      BY <1>3, <1>4, <1>5, <3>1, FewerCarried DEF Session
  <2>2. CASE /\ pc' = "opened" /\ Tame /\ spent.connects = 2
             /\ last'.rc \in {"OK", "AlreadyOpened"}
    <3>1. /\ \A i \in 1 .. Len(pipe) : pipe[i].tid = 0
          /\ \A i \in 1 .. Len(reply) : reply[i].tid = 0
          /\ \A i \in 1 .. Len(outq) : outq[i].tid = 0
      BY <2>2, SecondOpening
    <3>2. conn' # "up" /\ surplus' = << >>
      BY <1>1, <1>3, <1>6, <2>2, EmptySeq DEF Flow, Place, Opening
    <3>3. \A x, zero : x.tid = 0 => Kept(x, zero)'
      BY <3>2 DEF Kept
    <3>4. \A i \in 1 .. Len(pipe') : pipe'[i].tid = 0
      <4>1. \/ \A i \in 1 .. Len(pipe') : i \in 1 .. Len(pipe) /\ pipe'[i] = pipe[i]
            \/ \A i \in 1 .. Len(pipe') : i + 1 \in 1 .. Len(pipe) /\ pipe'[i] = pipe[i + 1]
        BY <1>3, <1>5, FewerPackets
      <4> QED
        BY ONLY <3>1, <4>1
    <3>5. /\ \A i \in 1 .. Len(pipe') : pipe'[i] \in Sound'
          /\ \A i \in 1 .. Len(reply') : reply'[i] \in Sound'
          /\ \A i \in 1 .. Len(outq') : outq'[i] \in Orders'
      BY ElementOfSeq DEF Types, Wires
    <3>6. /\ \A i \in 1 .. Len(pipe') : pipe'[i] \in KnownPackets'
          /\ \A i \in 1 .. Len(reply') : reply'[i] \in KnownPackets'
          /\ \A i \in 1 .. Len(outq') : outq'[i] \in KnownOrders'
      BY <1>1, <3>1, <3>3, <3>4, <3>5 DEF KnownPackets, KnownOrders, Kept
    <3> QED
      BY <3>2, <3>6, EmptySeq, ElementwiseSeq DEF Carried, Types, Wires
  <2> QED
    BY <2>1, <2>2
<1> QED
  BY <1>7, <1>8 DEF Session

(* Steps that leave what is on its way alone, or drop all of it. *)
LEMMA AllKept ==
  ASSUME Types', \A x, zero : Kept(x, zero)'
  PROVE  Carried'
<1>1. KnownPackets' = Sound' /\ KnownOrders' = Orders'
  BY DEF KnownPackets, KnownOrders, Kept
<1> QED
  BY <1>1 DEF Types, Wires, Carried

(* ... by an OpenSession, ...                                           *)
LEMMA SessionOpens ==
  ASSUME Types, Types', Place, Session, Connect \/ OpenReset \/ OpenRetry
  PROVE  Session'
<1>1. Opening' /\ pc' = "sendreq" /\ scene' = scene /\ pc' # "opened"
  BY DEF Connect, OpenReset, OpenRetry, OpenSession, Begin, Opening, device
<1>2. Carried'
  <2>1. \A x, zero : Kept(x, zero)'
    BY <1>1 DEF Kept, Opening
  <2> QED
    BY <2>1, AllKept
<1>3. spent.connects \in Nat
  BY ScenarioAssumption DEF Types, Limits, DeviceTypes, Bounded
<1>4. \/ spent'.connects = spent.connects + 1 /\ UNCHANGED <<outq, reply, pipe>> /\ Connect
      \/ /\ spent'.connects = spent.connects /\ pc = "opened" /\ Opening
         /\ \/ outq' = << >> /\ reply' = << >> /\ pipe' = << >>
            \/ UNCHANGED <<outq, reply, pipe>> /\ last.rc = "InvalidTid"
  BY DEF Connect, OpenReset, OpenRetry, Spend, Types, Limits, device, Place
<1>5. Unused'
  BY <1>3, <1>4 DEF Session, Unused, Opening
<1>6. Alone'
  <2>1. CASE outq' = << >> /\ reply' = << >> /\ pipe' = << >>
    BY <2>1, EmptySeq DEF Alone
  <2>2. CASE spent'.connects = spent.connects + 1 /\ UNCHANGED <<outq, reply, pipe>>
    <3>1. spent'.connects = 1 => outq' = << >> /\ reply' = << >> /\ pipe' = << >>
      BY <1>3, <2>2 DEF Session, Unused
    <3> QED
      BY <3>1, EmptySeq DEF Alone
  <2>3. CASE /\ UNCHANGED <<outq, reply, pipe>> /\ last.rc = "InvalidTid" /\ pc = "opened"
             /\ Opening /\ spent'.connects = spent.connects
    BY <1>1, <2>3 DEF Session, Alone, Tame, broken
  <2> QED
    BY <1>4, <2>1, <2>2, <2>3
<1>7. Zeros'
  <2>1. CASE outq' = << >> /\ reply' = << >> /\ pipe' = << >>
    BY <2>1, EmptySeq DEF Zeros, Before
  <2>2. CASE UNCHANGED <<outq, reply, pipe>>
    <3>1. (Tame /\ (spent.connects = 2 => Opening))' => (Tame /\ (spent.connects = 2 => Opening))
      BY <1>1, <1>3, <1>4 DEF Tame, broken
    <3> QED
      BY <2>2, <3>1 DEF Session, Zeros, Before, Ending
  <2> QED
    BY <1>4, <2>1, <2>2
<1> QED
  BY <1>2, <1>5, <1>6, <1>7 DEF Session

(* ... by a call, ...                                                   *)
LEMMA SessionCall ==
  ASSUME Types, Types', Place, Session, NEW kind, NEW op, Call(kind, op)
  PROVE  Session'
<1>1. /\ pc = "idle" /\ conn = "up" /\ cur.kind # "close" /\ tid = cur.tid + 1
      /\ cur'.n = cur.n + 1 /\ cur'.tid = tid /\ pc' = "sendreq"
      /\ UNCHANGED <<surplus, last, conn, outq, reply, pipe, scene, spent>>
  BY DEF Call, Begin, device, Place
<1>2. KnownPackets \subseteq KnownPackets' /\ KnownOrders \subseteq KnownOrders'
  <2>1. \A x, zero : /\ x.n \in Nat /\ x.tid \in Nat /\ Kept(x, zero) => Kept(x, zero)'
    BY <1>1, KnownNumbers DEF Kept, Tame, broken
  <2>2. Sound \subseteq Sound' /\ Orders \subseteq Orders'
    BY <1>1, KnownNumbers, SetsGrow
  <2> QED
    BY <2>1, <2>2, KnownNumbers DEF KnownPackets, KnownOrders, Ending, Kept
<1>3. Carried'
  BY <1>1, <1>2, SeqMonotonic DEF Session, Carried
<1>4. Zeros'
  <2>1. (Tame /\ (spent.connects = 2 => Opening))' => (Tame /\ (spent.connects = 2 => Opening))
    BY <1>1 DEF Tame, broken, Opening
  <2> QED
    BY <1>1, <2>1 DEF Session, Zeros, Before, Ending
<1>5. Alone' /\ Unused'
  BY <1>1 DEF Session, Alone, Unused, Opening
<1> QED
  BY <1>3, <1>4, <1>5 DEF Session

(* ... when the session is open or given up, ...                        *)
LEMMA SessionOpened ==
  ASSUME Types, Types', Place, Session, Opened
  PROVE  Session'
<1>1. /\ pc = "opened" /\ pc' = "idle" /\ cur' = cur /\ Opening /\ surplus = << >>
      /\ UNCHANGED <<surplus, last, outq, reply, pipe, scene, spent>>
  BY DEF Opened, device, Place
<1>2. PICK k \in 0 .. Len(outq) : outq' = SubSeq(outq, 1, k)
  BY <1>1, Whole
<1>3. CASE conn' = "down"
  <2>1. KnownPackets \subseteq KnownPackets' /\ KnownOrders \subseteq KnownOrders'
    BY <1>1, <1>3, KnownStays
  <2> QED
    BY <1>1, <1>2, <1>3, <2>1, FewerCarried, FewerRest DEF Session, Carried
<1>4. CASE conn' = "up" /\ last.rc \in {"OK", "AlreadyOpened"}
  <2>1. Alone' /\ Unused'
    BY <1>1, <1>4 DEF Session, Alone, Unused, Opening
  <2>2. Zeros'
    <3>1. (Tame /\ (spent.connects = 2 => Opening))' => (Tame /\ (spent.connects = 2 => Opening))
      BY <1>1, <1>4 DEF Tame, broken, Opening
    <3> QED
      BY <1>1, <3>1 DEF Session, Zeros, Before, Ending
  <2>3. spent.connects \in Nat /\ spent.connects # 0
    BY <1>1, ScenarioAssumption DEF Types, Limits, DeviceTypes, Bounded, Session, Unused, Opening
  <2>4. CASE Tame /\ spent.connects = 1
    <3>1. Len(pipe) = 0 /\ Len(reply) = 0 /\ Len(outq) = 0
      BY <1>1, <1>4, <2>4, Lengths DEF Session, Alone
    <3> QED
      BY <1>1, <2>1, <2>2, <3>1, EmptySeq DEF Session, Carried, Types, Wires
  <2>5. CASE Tame => spent.connects = 2
    <3>1. \A x, zero : Kept(x, zero) => Kept(x, zero)'
      BY <1>1, <1>4, <2>5 DEF Kept, Tame, broken
    <3>2. KnownPackets \subseteq KnownPackets' /\ KnownOrders \subseteq KnownOrders'
      BY <1>1, <3>1, SameSets DEF KnownPackets, KnownOrders, Ending, Kept
    <3> QED
      BY <1>1, <2>1, <2>2, <3>2, SeqMonotonic DEF Session, Carried
  <2> QED
    BY <2>3, <2>4, <2>5 DEF Tame
<1> QED
  BY <1>3, <1>4 DEF Opened

(* ... when the program ends, ...                                       *)
LEMMA SessionCrash ==
  ASSUME Types, Types', Session, Crash \/ UNCHANGED vars
  PROVE  Session'
<1>1. CASE Crash
  <2>1. /\ pc' = "idle" /\ cur' = cur /\ conn' = "down" /\ surplus' = << >>
        /\ UNCHANGED <<last, outq, reply, pipe, scene>> /\ spent'.connects = spent.connects
    BY <1>1 DEF Crash, device, Spend, Types, Limits
  <2>2. PICK k \in 0 .. Len(outq) : outq' = SubSeq(outq, 1, k)
    BY <2>1, Whole
  <2>3. KnownPackets \subseteq KnownPackets' /\ KnownOrders \subseteq KnownOrders'
    BY <2>1, KnownStays
  <2> QED
    BY <2>1, <2>2, <2>3, EmptySeq, FewerCarried, FewerRest DEF Session, Carried
<1>2. CASE UNCHANGED vars
  <2>1. UNCHANGED <<pc, cur, surplus, last, conn, outq, reply, pipe, scene, spent>>
    BY <1>2 DEF vars, host, device
  <2>2. PICK k \in 0 .. Len(outq) : outq' = SubSeq(outq, 1, k)
    BY <2>1, Whole
  <2>3. KnownPackets \subseteq KnownPackets' /\ KnownOrders \subseteq KnownOrders'
    BY <2>1, KnownStays
  <2> QED
    BY <2>1, <2>2, <2>3, FewerCarried, FewerRest DEF Session, Carried
<1> QED
  BY <1>1, <1>2

(* A command or its data is queued: in a session it is numbered like its
   commands, and nothing that ended the session is ahead of it. *)
LEMMA SessionQueues ==
  ASSUME Types, Types', Flow, Session, pc \in {"sendreq", "senddata"}, pc' # "sendreq",
         UNCHANGED <<cur, surplus, reply, pipe, scene>>, spent'.connects = spent.connects,
         conn' \in {conn, "down"}, pc' = "opened" => last'.rc = "IO",
         NEW d \in Orders, d.n = cur.n, d.tid = cur.tid,
         d.kind = cur.kind \/ (cur.kind = "send" /\ d.kind = "data"),
         outq' = outq \/ outq' = Append(outq, d)
  PROVE  Session'
<1>1. Opening' => Opening
  BY DEF Opening
<1>2. KnownPackets \subseteq KnownPackets' /\ KnownOrders \subseteq KnownOrders'
  BY KnownStays
<1>3. conn = "up" => cur.tid > 0 /\ cur.kind # "open"
  BY DEF Flow, Place
<1>4. conn = "up" \/ Opening
  BY DEF Flow, Place, Opening, Types, HostTypes
<1>5. Opening => cur.tid = 0 /\ d.tid = 0 /\ pc = "sendreq"
  BY DEF Flow, Place, Opening
<1>6. outq \in Seq(Orders) /\ Len(outq) \in Nat
  BY LenProperties DEF Types, Wires
<1>7. CASE outq' = outq
  <2>1. PICK k \in 0 .. Len(outq) : outq' = SubSeq(outq, 1, k)
    BY <1>7, Whole
  <2> QED
    BY <1>2, <2>1, FewerCarried, FewerRest DEF Session, Carried
<1>8. CASE outq' = Append(outq, d)
  <2>1. Len(outq') = Len(outq) + 1 /\ outq'[Len(outq) + 1] = d
        /\ \A i \in 1 .. Len(outq) : outq'[i] = outq[i]
    BY <1>6, <1>8, AppendProperties
  <2>2. Carried'
    <3>1. d \in Orders'
      BY SameSets
    <3>2. Kept(d, Ending(d))'
      BY <1>3, KnownNumbers DEF Kept, Ending
    <3>3. d \in KnownOrders'
      BY <3>1, <3>2 DEF KnownOrders, Kept, Ending
    <3>4. outq \in Seq(KnownOrders')
      BY <1>2, SeqMonotonic DEF Session, Carried
    <3>5. outq' \in Seq(KnownOrders')
      BY <1>8, <3>3, <3>4, AppendProperties
    <3> QED
      BY <1>2, <3>5, SeqMonotonic DEF Session, Carried
  <2>3. Unused'
    BY <1>4 DEF Session, Unused, Opening
  <2>4. Alone'
    <3>1. Opening /\ Tame /\ spent.connects = 1 =>
            Len(pipe) + Len(reply) + Len(outq) = 0 /\ d.kind = "open"
      BY <1>5 DEF Session, Alone, Flow, Place
    <3>2. Opening /\ Tame /\ spent.connects = 1 =>
            Len(outq) = 0 /\ Len(outq') = 1 /\ Len(pipe') = 0 /\ Len(reply') = 0 /\ outq'[1].kind = "open"
      BY <2>1, <3>1, Lengths
    <3>3. Opening /\ Tame /\ spent.connects = 1 => \A i \in 1 .. Len(outq') : outq'[i].kind = "open"
      <4>1. \A i \in 1 .. 1 : i = 1
        OBVIOUS
      <4> QED
        BY <3>2, <4>1
    <3> QED
      BY <1>1, <3>2, <3>3 DEF Alone, Tame, broken
  <2> DEFINE Together == Tame /\ (spent.connects = 2 => Opening)
  <2>5. ASSUME Together
        PROVE  /\ \A i, j \in 1 .. Len(outq') : i < j /\ Ending(outq'[i]) => outq'[j].tid = 0
               /\ \A i \in 1 .. Len(pipe) : pipe[i].tid = 0 => d.tid = 0
               /\ \A i \in 1 .. Len(reply) : reply[i].tid = 0 => d.tid = 0
    <3>1. CASE Opening
      <4>1. \A i, j \in 1 .. Len(outq) : i < j /\ Ending(outq[i]) => outq[j].tid = 0
        BY <2>5 DEF Session, Zeros
      <4>2. \A i, j \in 1 .. Len(outq') : i < j /\ Ending(outq'[i]) => outq'[j].tid = 0
        <5> SUFFICES ASSUME NEW i \in 1 .. Len(outq'), NEW j \in 1 .. Len(outq'), i < j,
                            Ending(outq'[i])
                     PROVE  outq'[j].tid = 0
          OBVIOUS
        <5>1. i \in 1 .. Len(outq) /\ outq'[i] = outq[i]
          BY <1>6, <2>1
        <5>2. j = Len(outq) + 1 \/ (j \in 1 .. Len(outq) /\ outq'[j] = outq[j])
          BY <1>6, <2>1
        <5> QED
          BY <1>5, <2>1, <3>1, <4>1, <5>1, <5>2
      <4> QED
        BY <1>5, <3>1, <4>2
    <3>2. CASE conn = "up"
      <4>1. spent.connects = 1
        <5>1. spent.connects \in Nat
          BY ScenarioAssumption DEF Types, Limits, DeviceTypes, Bounded
        <5> QED
          BY <2>5, <3>2, <5>1 DEF Opening, Tame, Session, Unused
      <4>2. /\ \A i \in 1 .. Len(outq) : outq[i] \in KnownOrders /\ outq[i] \in Queued
            /\ \A i \in 1 .. Len(pipe) : pipe[i] \in KnownPackets /\ pipe[i] \in Issued
            /\ \A i \in 1 .. Len(reply) : reply[i] \in KnownPackets /\ reply[i] \in Issued
        BY ElementOfSeq DEF Session, Carried, Flow, Traffic
      <4>3. cur.kind = "close" => pc = "sendreq"
        BY DEF Flow, Place
      <4>4. /\ \A i \in 1 .. Len(outq) : ~Ending(outq[i])
            /\ \A i \in 1 .. Len(pipe) : pipe[i].tid # 0
            /\ \A i \in 1 .. Len(reply) : reply[i].tid # 0
        BY <2>5, <3>2, <4>1, <4>2, <4>3, KnownNumbers DEF KnownOrders, KnownPackets, Kept, Queued, Issued
      <4>5. \A i, j \in 1 .. Len(outq') : i < j /\ Ending(outq'[i]) => outq'[j].tid = 0
        BY <1>6, <2>1, <4>4
      <4> QED
        BY <4>4, <4>5
    <3> QED
      BY <1>4, <3>1, <3>2
  <2>6. Zeros'
    <3>1. Together' => Together
      BY <1>1 DEF Tame, broken
    <3>2. Together => /\ \A i, j \in 1 .. Len(pipe) : i < j /\ pipe[i].tid = 0 => pipe[j].tid = 0
                      /\ \A i, j \in 1 .. Len(reply) : reply[i].tid = reply[j].tid
                      /\ Before(pipe, reply) /\ Before(pipe, outq) /\ Before(reply, outq)
      BY DEF Session, Zeros
    <3>3. \A j \in 1 .. Len(outq') : outq'[j] = d \/ (j \in 1 .. Len(outq) /\ outq'[j] = outq[j])
      BY <1>6, <2>1
    <3>4. ASSUME NEW s, Before(s, outq), \A i \in 1 .. Len(s) : s[i].tid = 0 => d.tid = 0
          PROVE  Before(s, outq')
      BY <3>3, <3>4 DEF Before
    <3>5. Together => Before(pipe, outq') /\ Before(reply, outq')
      BY ONLY <2>5, <3>2, <3>4
    <3>6. Zeros' = (Together' =>
            /\ \A i, j \in 1 .. Len(pipe) : i < j /\ pipe[i].tid = 0 => pipe[j].tid = 0
            /\ \A i, j \in 1 .. Len(reply) : reply[i].tid = reply[j].tid
            /\ \A i, j \in 1 .. Len(outq') : i < j /\ Ending(outq'[i]) => outq'[j].tid = 0
            /\ Before(pipe, reply) /\ Before(pipe, outq') /\ Before(reply, outq'))
      BY DEF Zeros, Before, Ending
    <3> QED
      BY ONLY <2>5, <3>1, <3>2, <3>5, <3>6
  <2> QED
    BY <2>2, <2>3, <2>4, <2>6 DEF Session
<1> QED
  BY <1>7, <1>8

(* ... by ptp_usb_sendreq and ptp_usb_senddata, ...                     *)
LEMMA SessionSends ==
  ASSUME Types, Types', Flow, Session, SendReq \/ SendData
  PROVE  Session'
<1>1. CASE SendReq
  <2>1. /\ pc = "sendreq" /\ pc' # "sendreq" /\ UNCHANGED <<cur, surplus, reply, pipe, scene>>
        /\ conn' \in {conn, "down"} /\ (outq' = outq \/ outq' = Append(outq, cur))
        /\ pc' = "opened" => last'.rc = "IO"
    BY <1>1 DEF SendReq, Return, Early
  <2>2. spent'.connects = spent.connects
    BY <1>1 DEF SendReq, Early, Fault, Spend, Types, Limits
  <2>3. cur \in Orders
    BY CurrentOrder
  <2> QED
    BY <2>1, <2>2, <2>3, SessionQueues
<1>2. CASE SendData
  <2> DEFINE d == [cur EXCEPT !.kind = "data"]
  <2>1. /\ pc = "senddata" /\ pc' \notin {"sendreq", "opened"} /\ cur.kind = "send"
        /\ UNCHANGED <<cur, surplus, reply, pipe, scene>>
        /\ conn' \in {conn, "down"} /\ (outq' = outq \/ outq' = Append(outq, d))
    BY <1>2 DEF SendData, Return, Flow, Place
  <2>2. spent'.connects = spent.connects
    BY <1>2 DEF SendData, Abort, Fault, Spend, Types, Limits
  <2>3. d \in Orders /\ d.n = cur.n /\ d.tid = cur.tid /\ d.kind = "data"
    BY CurrentOrder
  <2> HIDE DEF d
  <2> QED
    BY <2>1, <2>2, <2>3, SessionQueues
<1> QED
  BY <1>1, <1>2

(* ... by a responder that takes a command and answers it or does not, ... *)
LEMMA SessionTakes ==
  ASSUME Types, Types', Session, UNCHANGED <<pc, cur, surplus, last, conn, pipe, scene, spent>>,
         reply = << >>, outq # << >>, outq' = Tail(outq),
         reply' = << >> \/ Answering(Head(outq), reply')
  PROVE  Session'
<1> DEFINE c == Head(outq)
<1>1. KnownPackets \subseteq KnownPackets' /\ KnownOrders \subseteq KnownOrders'
  BY KnownStays
<1>2. /\ c \in KnownOrders /\ c \in Orders /\ c = outq[1] /\ Len(outq) \in Nat \ {0}
      /\ outq' \in Seq(KnownOrders) /\ Len(outq') = Len(outq) - 1
      /\ \A i \in 1 .. Len(outq') : outq'[i] = outq[i + 1]
  BY HeadTailProperties, LenProperties, EmptySeq DEF Session, Carried, KnownOrders
<1> HIDE DEF c
<1>3. reply' = << >> \/ Answering(c, reply')
  BY DEF c
<1>4. Len(reply') \in Nat /\ \A i \in 1 .. Len(reply') : reply'[i] \in Sound'
  BY LenProperties, ElementOfSeq DEF Types, Wires
<1>5. \A i, j \in 1 .. Len(reply') : reply'[i].tid = reply'[j].tid
  BY <1>3, EmptySeq DEF Answering
<1>6. ASSUME ~broken, NEW i \in 1 .. Len(reply')
      PROVE  /\ reply'[i].n = c.n
             /\ reply'[i].tid = c.tid \/ (c.kind = "close" /\ reply'[i].tid = 0)
  BY <1>3, <1>6, EmptySeq DEF Answering, Tids
<1>7. Carried'
  <2>1. ASSUME NEW i \in 1 .. Len(reply') PROVE reply'[i] \in KnownPackets'
    <3>1. Tame => Kept(reply'[i], reply'[i].tid = 0)
      BY <1>2, <1>6 DEF Tame, KnownOrders, Kept, Ending
    <3>2. \A p \in Sound' : (Tame => Kept(p, p.tid = 0)) => p \in KnownPackets'
      BY DEF KnownPackets, Kept, Tame, broken
    <3> QED
      BY <1>4, <3>1, <3>2
  <2>2. reply' \in Seq(KnownPackets')
    BY <2>1, ElementwiseSeq DEF Types, Wires
  <2> QED
    BY <1>1, <1>2, <2>2, SeqMonotonic DEF Session, Carried
<1>8. Unused'
  BY DEF Session, Unused
<1>9. Alone'
  <2>1. Opening /\ Tame /\ spent.connects = 1 => c.kind = "open"
    BY <1>2 DEF Session, Alone
  <2>2. c.kind = "open" => Len(reply') <= 1
    BY <1>3, EmptySeq DEF Answering
  <2>3. Len(reply) = 0 /\ Len(pipe) \in Nat
    BY EmptySeq, Lengths
  <2>4. Opening /\ Tame /\ spent.connects = 1 =>
          /\ Len(pipe) + Len(reply') + Len(outq') <= Len(pipe) + Len(reply) + Len(outq)
          /\ Len(pipe) + Len(reply) + Len(outq) > 0
          /\ \A i \in 1 .. Len(outq') : outq'[i].kind = "open"
    BY <1>2, <1>4, <2>1, <2>2, <2>3 DEF Session, Alone
  <2> QED
    BY <1>2, <1>4, <2>3, <2>4 DEF Session, Alone, Opening, Tame, broken
<1>10. Zeros'
  <2> DEFINE Together == Tame /\ (spent.connects = 2 => Opening)
  <2>1. Together' => Together
    BY DEF Tame, broken, Opening
  <2>2. Together => /\ \A i, j \in 1 .. Len(pipe) : i < j /\ pipe[i].tid = 0 => pipe[j].tid = 0
                    /\ \A i, j \in 1 .. Len(outq) : i < j /\ Ending(outq[i]) => outq[j].tid = 0
                    /\ Before(pipe, outq)
    BY DEF Session, Zeros
  <2> SUFFICES ASSUME Together
               PROVE  /\ \A i, j \in 1 .. Len(outq') : i < j /\ Ending(outq'[i]) => outq'[j].tid = 0
                      /\ Before(pipe, reply') /\ Before(pipe, outq') /\ Before(reply', outq')
    BY <1>5, <2>1, <2>2 DEF Zeros, Before, Ending
  <2>3. \A i \in 1 .. Len(outq') : i + 1 \in 1 .. Len(outq) /\ 1 < i + 1
    BY <1>2
  <2>4. 1 \in 1 .. Len(outq)
    BY <1>2
  <2>5. ASSUME NEW i \in 1 .. Len(outq'), NEW j \in 1 .. Len(outq'), i < j, Ending(outq'[i])
        PROVE  outq'[j].tid = 0
    <3>1. /\ i + 1 \in 1 .. Len(outq) /\ j + 1 \in 1 .. Len(outq) /\ i + 1 < j + 1
          /\ outq'[i] = outq[i + 1] /\ outq'[j] = outq[j + 1]
      BY <1>2, <2>5
    <3> QED
      BY <2>2, <2>5, <3>1
  <2>6. Before(pipe, reply')
    BY <1>2, <1>6, <2>2, <2>4 DEF Before, Tame
  <2>7. Before(pipe, outq')
    BY <1>2, <2>2, <2>3 DEF Before
  <2>8. Before(reply', outq')
    <3>1. \A i \in 1 .. Len(reply') : reply'[i].tid = 0 => Ending(outq[1])
      BY <1>2, <1>6 DEF Ending, Tame
    <3>2. Ending(outq[1]) => \A j \in 1 .. Len(outq') : outq'[j].tid = 0
      BY <1>2, <2>2, <2>3, <2>4
    <3> QED
      BY <3>1, <3>2 DEF Before
  <2> QED
    BY <2>5, <2>6, <2>7, <2>8
<1> QED
  BY <1>7, <1>8, <1>9, <1>10 DEF Session

(* ... whatever the command, ...                                        *)
LEMMA SessionTakeCommand ==
  ASSUME Types, Types', Session, TakeCommand
  PROVE  Session'
<1>1. /\ UNCHANGED <<pc, cur, surplus, last, conn, pipe, scene, spent>>
      /\ reply = << >> /\ outq # << >> /\ outq' = Tail(outq)
  BY DEF TakeCommand, host
<1>2. Head(outq) \in Orders
  BY <1>1, HeadTailProperties DEF Types, Wires
<1>3. reply' = << >> \/ reply' \in Answers(Head(outq))
  BY <1>1 DEF TakeCommand
<1>4. reply' = << >> \/ Answering(Head(outq), reply')
  BY <1>2, <1>3, AnswersTo
<1> QED
  BY <1>1, <1>4, SessionTakes

(* ... its data, ...                                                    *)
LEMMA SessionTakeData ==
  ASSUME Types, Types', Session, TakeData
  PROVE  Session'
<1> DEFINE c == Head(outq)
<1>1. /\ UNCHANGED <<pc, cur, surplus, last, conn, pipe, scene, spent>>
      /\ reply = << >> /\ outq # << >> /\ outq' = Tail(outq)
      /\ \/ reply' = << >>
         \/ \E t \in Tids(c), code \in Refusals \cup {"OK"} : reply' = << Response(c, t, code) >>
  BY DEF TakeData, host
<1> HIDE DEF c
<1>2. ASSUME NEW t \in Tids(c), NEW code \in Refusals \cup {"OK"},
             NEW r, r = << Response(c, t, code) >>
      PROVE  Answering(c, r)
  BY <1>2, RefusalAssumption, ResponseAnswers DEF Errors
<1>3. reply' = << >> \/ Answering(c, reply')
  BY <1>1, <1>2
<1> QED
  BY <1>1, <1>3, SessionTakes DEF c

(* ... and when a packet is sent.                                       *)
LEMMA SessionSendPacket ==
  ASSUME Types, Types', Session, SendPacket
  PROVE  Session'
<1>1. /\ UNCHANGED <<pc, cur, surplus, last, conn, outq, scene, spent>>
      /\ pipe' = Append(pipe, Head(reply)) /\ reply' = Tail(reply) /\ reply # << >>
  BY DEF SendPacket, host
<1>2. KnownPackets \subseteq KnownPackets' /\ KnownOrders \subseteq KnownOrders'
  BY <1>1, KnownStays
<1>3. /\ Head(reply) \in KnownPackets /\ Head(reply) = reply[1] /\ Len(reply) \in Nat \ {0}
      /\ reply' \in Seq(KnownPackets) /\ Len(reply') = Len(reply) - 1
      /\ \A i \in 1 .. Len(reply') : reply'[i] = reply[i + 1]
  BY <1>1, HeadTailProperties, LenProperties, EmptySeq DEF Session, Carried
<1>4. /\ pipe' \in Seq(KnownPackets) /\ Len(pipe') = Len(pipe) + 1 /\ Len(pipe) \in Nat
      /\ pipe'[Len(pipe) + 1] = reply[1] /\ \A i \in 1 .. Len(pipe) : pipe'[i] = pipe[i]
  BY <1>1, <1>3, AppendProperties, LenProperties DEF Session, Carried
<1>5. Carried'
  BY <1>1, <1>2, <1>3, <1>4, SeqMonotonic DEF Session, Carried
<1>6. Unused'
  BY <1>1 DEF Session, Unused
<1>7. Alone'
  BY <1>1, <1>3, <1>4 DEF Session, Alone, Opening, Tame, broken
<1>8. Zeros'
  <2> DEFINE Together == Tame /\ (spent.connects = 2 => Opening)
  <2>1. Together' => Together
    BY <1>1 DEF Tame, broken, Opening
  <2>2. Together => /\ \A i, j \in 1 .. Len(pipe) : i < j /\ pipe[i].tid = 0 => pipe[j].tid = 0
                    /\ \A i, j \in 1 .. Len(reply) : reply[i].tid = reply[j].tid
                    /\ \A i, j \in 1 .. Len(outq) : i < j /\ Ending(outq[i]) => outq[j].tid = 0
                    /\ Before(pipe, reply) /\ Before(pipe, outq) /\ Before(reply, outq)
    BY DEF Session, Zeros
  <2> SUFFICES ASSUME Together
               PROVE  /\ \A i, j \in 1 .. Len(pipe') : i < j /\ pipe'[i].tid = 0 => pipe'[j].tid = 0
                      /\ \A i, j \in 1 .. Len(reply') : reply'[i].tid = reply'[j].tid
                      /\ Before(pipe', reply') /\ Before(pipe', outq) /\ Before(reply', outq)
    BY <1>1, <2>1, <2>2 DEF Zeros, Before, Ending
  <2>3. /\ \A i \in 1 .. Len(reply') : i + 1 \in 1 .. Len(reply) /\ reply'[i] = reply[i + 1]
        /\ 1 \in 1 .. Len(reply)
    BY <1>3
  <2>4. \A i \in 1 .. Len(pipe') : \/ i \in 1 .. Len(pipe) /\ pipe'[i] = pipe[i]
                                   \/ i = Len(pipe) + 1 /\ pipe'[i] = reply[1]
    BY <1>4
  <2>5. ASSUME NEW i \in 1 .. Len(pipe'), NEW j \in 1 .. Len(pipe'), i < j, pipe'[i].tid = 0
        PROVE  pipe'[j].tid = 0
    <3>1. i \in 1 .. Len(pipe) /\ pipe'[i] = pipe[i]
      BY <1>4, <2>4, <2>5
    <3> QED
      BY <2>2, <2>3, <2>4, <2>5, <3>1 DEF Before
  <2>6. ASSUME NEW i \in 1 .. Len(reply'), NEW j \in 1 .. Len(reply')
        PROVE  reply'[i].tid = reply'[j].tid
    BY <2>2, <2>3
  <2>7. ASSUME NEW i \in 1 .. Len(pipe'), NEW j \in 1 .. Len(reply'), pipe'[i].tid = 0
        PROVE  reply'[j].tid = 0
    <3>1. j + 1 \in 1 .. Len(reply) /\ reply'[j] = reply[j + 1]
      BY <2>3
    <3>2. CASE i \in 1 .. Len(pipe) /\ pipe'[i] = pipe[i]
      BY ONLY <2>2, <2>7, <3>1, <3>2, Together DEF Before
    <3>3. CASE pipe'[i] = reply[1]
      BY ONLY <2>2, <2>3, <2>7, <3>1, <3>3, Together
    <3> QED
      BY <2>4, <3>2, <3>3
  <2>8. Before(pipe', outq)
    BY <2>2, <2>3, <2>4 DEF Before
  <2>9. ASSUME NEW i \in 1 .. Len(reply'), NEW j \in 1 .. Len(outq), reply'[i].tid = 0
        PROVE  outq[j].tid = 0
    BY <2>2, <2>3, <2>9 DEF Before
  <2> QED
    BY <2>5, <2>6, <2>7, <2>8, <2>9 DEF Before
<1> QED
  BY <1>5, <1>6, <1>7, <1>8 DEF Session

(* Session is kept by every step.                                       *)
LEMMA SessionNext ==
  ASSUME Types, Types', Flow, Session, [Next]_vars
  PROVE  Session'
<1>1. CASE Host
  BY <1>1, SessionSends, SessionGetData, SessionGetRest, SessionGetResp, SessionCancelling,
     SessionOpens, SessionOpened DEF Host, Flow
<1>2. CASE Responder
  BY <1>2, SessionTakeCommand, SessionTakeData, SessionSendPacket DEF Responder
<1>3. CASE Connect \/ Crash \/ UNCHANGED vars
  BY <1>3, SessionOpens, SessionCrash DEF Flow
<1>4. CASE \E kind, op : Call(kind, op)
  BY <1>4, SessionCall DEF Flow
<1> QED
  BY <1>1, <1>2, <1>3, <1>4 DEF Next

(* In the first two sessions with a device what is on its way is numbered like the *)
(* commands of the session, or is of an OpenSession or CloseSession.               *)
THEOREM SessionAlways == (Spec => []Session) /\ (PortsSpec => []Session)
<1>1. [AnyPort]_vars => [Next]_vars
  BY PortsAreSteps
<1> QED
  BY <1>1, SessionInit, TypesAlways, FlowAlways, SessionNext, PTL DEF Spec, PortsSpec

-----------------------------------------------------------------------------
(* The test on a response's transaction id tells whose it is. *)
LEMMA OwnSuccess ==
  ASSUME Types, Flow, Session, Tame, pc = "getresp", cur.kind \in Work,
         Incoming # << >>, ~Junk, ~Refused, ~Old, ~Future
  PROVE  Next1.n = cur.n /\ cur.n \in Range(done)
<1>1. Next1 \in Issued /\ Next1 \in KnownPackets /\ Next1 \in Sound
  BY Packet1, KnownPacket1 DEF Flow, Session, KnownPackets
<1>2. conn = "up" /\ cur.tid > 0
  BY DEF Flow, Place, Opening, Types, HostTypes, Work
<1>3. Next1.tid = cur.tid
  BY <1>1, KnownNumbers DEF Tame, Old, Future, RespTid, Work
<1>4. Next1.n = cur.n
  BY <1>1, <1>2, <1>3, KnownNumbers DEF KnownPackets, Kept
<1>5. Positive(Next1)
  BY DEF Positive, Junk, Refused
<1> QED
  BY <1>1, <1>4, <1>5 DEF Issued

(* What a step does to the result of the last call. *)
LEMMA Reports ==
  ASSUME Types, Types', Flow, Session, [Next]_vars
  PROVE  \/ UNCHANGED last
         \/ /\ last'.n = cur.n /\ UNCHANGED <<cur, done>> /\ last'.kind = cur.kind
            /\ Tame /\ last'.rc = "OK" /\ cur.kind \in Work =>
                 last'.resp = cur.n /\ cur.n \in Range(done)
<1>1. CASE GetResp
  <2>1. CASE UNCHANGED last
    BY <2>1
  <2>2. ASSUME NEW rc \in Errors \cup {"IO", "BADPARAM"}, NEW resp, Return(rc, resp)
        PROVE  last'.rc # "OK" /\ last'.n = cur.n /\ last'.kind = cur.kind
    BY <2>2, RefusalAssumption DEF Return, Errors
  <2>3. CASE /\ TakePacket(<< >>) /\ ~Junk /\ ~Refused /\ ~Old /\ ~Future /\ Return("OK", Next1.n)
    BY <1>1, <2>3, OwnSuccess DEF Return, GetResp, TakePacket
  <2>4. Incoming # << >> /\ Refused => Next1.code \in Errors
    BY NextPacket DEF Types, Wires, Refused, Junk, Sound
  <2> QED
    BY <1>1, <2>1, <2>2, <2>3, <2>4 DEF GetResp, Return, TakePacket
<1>2. CASE SendReq \/ SendData \/ GetData \/ GetRest
  BY <1>2 DEF SendReq, SendData, GetData, GetRest, Return, TimeoutCode
<1>3. CASE ReadCancel \/ DevStat \/ Drain \/ CancelReq
  BY <1>3, CancelKeeps DEF ReadCancel, DevStat, Drain, CancelReq, Return, device
<1>4. CASE Connect \/ OpenReset \/ OpenRetry \/ Opened \/ Crash \/ UNCHANGED vars
  BY <1>4 DEF Connect, OpenReset, OpenRetry, OpenSession, Opened, Crash, vars, host
<1>5. CASE Responder
  BY <1>5 DEF Responder, TakeCommand, TakeData, SendPacket, host
<1>6. CASE \E kind, op : Call(kind, op)
  BY <1>6 DEF Call
<1> QED
  BY <1>1, <1>2, <1>3, <1>4, <1>5, <1>6 DEF Next, Host

(* Connections are counted, and the responder stays the same.           *)
LEMMA SpentGrows ==
  ASSUME Types, Types', [Next]_vars
  PROVE  /\ spent.connects \in Nat /\ spent'.connects \in Nat
         /\ spent.connects <= spent'.connects /\ scene' = scene
<1>1. spent.connects \in Nat /\ spent'.connects \in Nat
  BY ScenarioAssumption DEF Types, Limits, DeviceTypes, Bounded
<1>2. \A what : Spend(what) => \/ spent'.connects = spent.connects
                              \/ spent'.connects = spent.connects + 1
  BY DEF Spend, Types, Limits
<1>3. CASE SendReq \/ SendData \/ GetData \/ GetRest \/ GetResp
  BY <1>1, <1>2, <1>3 DEF SendReq, SendData, GetData, GetRest, GetResp, Early, Fault, Abort, TimedOut, NoPacket
<1>4. CASE ReadCancel \/ DevStat \/ Drain \/ CancelReq
  BY <1>1, <1>2, <1>4 DEF ReadCancel, DevStat, Drain, CancelReq, Fault, TimedOut, device, CancelAtDevice
<1>5. CASE Connect \/ OpenReset \/ OpenRetry \/ Opened \/ Crash \/ UNCHANGED vars
  BY <1>1, <1>2, <1>5 DEF Connect, OpenReset, OpenRetry, Opened, Crash, vars, device
<1>6. CASE Responder
  <2>1. UNCHANGED <<scene, spent>>
    BY <1>6 DEF Responder, TakeCommand, TakeData, SendPacket
  <2> QED
    BY <1>1, <2>1
<1>7. CASE \E kind, op : Call(kind, op)
  BY <1>1, <1>7 DEF Call, device
<1> QED
  BY <1>1, <1>3, <1>4, <1>5, <1>6, <1>7 DEF Next, Host

(* Scenarios with two connections.                                      *)
LEMMA TwoConnections ==
  ASSUME \A sc \in Scenarios : sc.max.connects <= 2, Types
  PROVE  spent.connects <= 2
<1>1. scene \in Scenarios /\ scene.max.connects <= 2 /\ scene.max \in [Bounded -> Nat]
  BY ScenarioAssumption DEF Types, DeviceTypes
<1>2. spent.connects \in 0 .. scene.max.connects /\ scene.max.connects \in Nat
  BY <1>1 DEF Types, Limits, Bounded
<1> QED
  BY <1>1, <1>2

(* OkIsOwn is kept by every step of the first two connections.          *)
LEMMA OwnResponseNext ==
  ASSUME Types, Types', Flow, Session, OwnResponse, [Next]_vars
  PROVE  OwnResponse'
<1>1. spent.connects \in Nat /\ spent'.connects \in Nat /\ spent.connects <= spent'.connects
      /\ scene' = scene
  BY SpentGrows
<1> SUFFICES ASSUME spent.connects <= 2, ~broken, last'.rc = "OK", last'.kind \in Work
             PROVE  last'.resp = last'.n
  BY <1>1 DEF OwnResponse, OkIsOwn, broken
<1>2. CASE UNCHANGED last
  BY <1>2 DEF OwnResponse, OkIsOwn
<1>3. CASE last' # last
  BY <1>3, Reports DEF Tame, broken
<1> QED
  BY <1>2, <1>3

(* OkIsOwn in the first two connections of any behaviour: ptp_transaction_new     *)
(* reports success only with the response to its own command, whatever timed out, *)
(* was cancelled or was left by a program that crashed.                           *)
THEOREM OwnResponses ==
  /\ Spec => [](spent.connects <= 2 => OkIsOwn)
  /\ PortsSpec => [](spent.connects <= 2 => OkIsOwn)
<1>1. [AnyPort]_vars => [Next]_vars
  BY PortsAreSteps
<1>2. Init => OwnResponse
  BY DEF Init, NoResult, OwnResponse, OkIsOwn, Work
<1>3. OwnResponse => (spent.connects <= 2 => OkIsOwn)
  BY DEF OwnResponse
<1> QED
  BY <1>1, <1>2, <1>3, TypesAlways, FlowAlways, SessionAlways, OwnResponseNext, PTL DEF Spec, PortsSpec

(* OkIsOwn always, when there are at most two connections.              *)
THEOREM OwnResponsesOfTwo ==
  ASSUME \A sc \in Scenarios : sc.max.connects <= 2
  PROVE  (Spec => []OkIsOwn) /\ (PortsSpec => []OkIsOwn)
<1>1. Types => spent.connects <= 2
  BY TwoConnections
<1> QED
  BY <1>1, TypesAlways, OwnResponses, PTL

-----------------------------------------------------------------------------
(* Nothing was issued, carried out or reported.                         *)
LEMMA CallsInit == Init => Calls!Init
<1> SUFFICES ASSUME Init PROVE Calls!Init
  OBVIOUS
<1>1. cur.n = 0 /\ done = << >> /\ last.n = 0 /\ last.kind = "close"
  BY DEF Init, NoCommand, NoResult
<1>2. (last.rc = "OK" /\ last.kind \in Work /\ ~broken) = FALSE
  BY <1>1 DEF Work
<1> QED
  BY <1>1, <1>2 DEF Calls!Init

(* The responder skips commands; it repeats none.                       *)
LEMMA CarriesOut ==
  ASSUME Types, Flow, TakeCommand \/ TakeData
  PROVE  \/ UNCHANGED done
         \/ \E n \in 1 .. cur.n : (\A m \in Range(done) : m < n) /\ done' = Append(done, n)
<1> DEFINE c == Head(outq)
<1>1. outq # << >> /\ (done' = done \/ done' = Append(done, c.n))
  BY DEF TakeCommand, TakeData
<1>2. c \in Queued /\ c = outq[1] /\ Len(outq) \in Nat \ {0}
  BY <1>1, HeadTailProperties, LenProperties, EmptySeq DEF Flow, Traffic
<1>3. c.n \in 1 .. cur.n
  BY <1>2, KnownNumbers DEF Queued
<1>4. \A m \in Range(done) : m < c.n
  BY <1>2 DEF Flow, Ahead
<1> QED
  BY <1>1, <1>3, <1>4

(* Every step is one of MtpCalls, or none.                              *)
LEMMA CallsStep ==
  ASSUME Types, Types', Flow, Session, spent.connects <= 2, [Next]_vars
  PROVE  [Calls!Next]_<<cur.n, done, [n |-> last.n,
                        ok |-> last.rc = "OK" /\ last.kind \in Work /\ ~broken]>>
<1> DEFINE ok == last.rc = "OK" /\ last.kind \in Work /\ ~broken
           result == [n |-> last.n, ok |-> ok]
<1>1. scene' = scene
  BY SpentGrows
<1> SUFFICES [Calls!Next]_<<cur.n, done, result>>
  OBVIOUS
<1>7. Calls!Range(done) = Range(done)
  BY DEF Range, Calls!Range
<1>2. CASE UNCHANGED <<cur, done, last>>
  BY <1>1, <1>2 DEF broken
<1>3. CASE cur'.n = cur.n + 1 /\ UNCHANGED <<done, last>>
  BY <1>1, <1>3 DEF broken, Calls!Next, Calls!Issue
<1>4. CASE UNCHANGED <<cur, last>> /\ (TakeCommand \/ TakeData)
  <2>1. CASE done' = done
    BY <1>1, <1>4, <2>1 DEF broken
  <2>2. CASE \E n \in 1 .. cur.n : (\A m \in Range(done) : m < n) /\ done' = Append(done, n)
    <3>1. result' = result /\ cur.n' = cur.n
      BY <1>1, <1>4 DEF broken
    <3> HIDE DEF result
    <3> QED
      BY <1>7, <2>2, <3>1 DEF Calls!Next, Calls!CarryOut, result
  <2> QED
    BY <1>4, <2>1, <2>2, CarriesOut
<1>5. CASE UNCHANGED <<cur, done>> /\ ~UNCHANGED last
  <2>1. last'.n = cur.n /\ (ok' /\ Tame => cur.n \in Range(done))
    BY <1>1, <1>5, Reports DEF Tame, broken
  <2>2. ok' => cur.n \in Range(done)
    BY <1>1, <2>1 DEF Tame, broken
  <2>3. CASE ok'
    <3>1. ok' = TRUE
      BY <2>3
    <3> HIDE DEF ok
    <3>2. result' = [n |-> cur.n, ok |-> TRUE] /\ cur.n \in Range(done)
      BY <2>1, <2>2, <2>3, <3>1
    <3>3. UNCHANGED <<cur.n, done>>
      BY <1>5
    <3> HIDE DEF result
    <3> QED
      BY <1>7, <3>2, <3>3 DEF Calls!Next, Calls!Report, result, ok
  <2>4. CASE ~ok'
    <3>1. ok' = FALSE
      BY <2>4
    <3> HIDE DEF ok
    <3>2. result' = [n |-> cur.n, ok |-> FALSE]
      BY <2>1, <3>1
    <3>3. UNCHANGED <<cur.n, done>>
      BY <1>5
    <3> HIDE DEF result
    <3> QED
      BY <1>7, <3>2, <3>3 DEF Calls!Next, Calls!Report, result, ok
  <2> QED
    BY <2>3, <2>4
<1>6. \/ UNCHANGED <<cur, done, last>>
      \/ cur'.n = cur.n + 1 /\ UNCHANGED <<done, last>>
      \/ UNCHANGED <<cur, last>> /\ (TakeCommand \/ TakeData)
      \/ UNCHANGED <<cur, done>>
  <2>1. CASE Responder
    BY <2>1 DEF Responder, TakeCommand, TakeData, SendPacket, host
  <2>2. CASE Connect \/ OpenReset \/ OpenRetry \/ \E kind, op : Call(kind, op)
    BY <2>2 DEF Connect, OpenReset, OpenRetry, OpenSession, Begin, Call, device
  <2>3. CASE SendReq \/ SendData \/ GetData \/ GetRest \/ GetResp
    BY <2>3 DEF SendReq, SendData, GetData, GetRest, GetResp, Return
  <2>4. CASE ReadCancel \/ DevStat \/ Drain \/ CancelReq
    BY <2>4, CancelKeeps DEF ReadCancel, DevStat, Drain, CancelReq, Return, device
  <2>5. CASE Opened \/ Crash \/ UNCHANGED vars
    BY <2>5 DEF Opened, Crash, vars, host, device
  <2> QED
    BY <2>1, <2>2, <2>3, <2>4, <2>5 DEF Next, Host
<1> QED
  BY <1>2, <1>3, <1>4, <1>5, <1>6

(* The transactions implement MtpCalls: commands are carried out in order and at *)
(* most once, and success means that the command was carried out.                *)
THEOREM TransactionsAreCalls ==
  ASSUME \A sc \in Scenarios : sc.max.connects <= 2
  PROVE  (Spec => CallsSpec) /\ (PortsSpec => CallsSpec)
<1>1. [AnyPort]_vars => [Next]_vars
  BY PortsAreSteps
<1>2. Types => spent.connects <= 2
  BY TwoConnections
<1> QED
  BY <1>1, <1>2, CallsInit, CallsStep, TypesAlways, FlowAlways, SessionAlways, PTL
  DEF Spec, PortsSpec, CallsSpec, Calls!Spec

-----------------------------------------------------------------------------
\* An OpenSession that was sent has its answer, or will get it.
At(s) == \E i \in 1 .. Len(s) : s[i].n = cur.n
Awaited == Opening /\ pc = "getresp" => At(pipe) \/ At(reply) \/ At(outq)

\* Why an OpenSession may have failed.
WhyNot ==
  pc = "opened" => \/ last.rc \in Errors \cup {"OK"}
                   \/ last.rc = "IO" /\ spent.timeouts > 0
                   \/ last.rc = "BADPARAM" /\ tries = 1

(* The host takes no answer to its OpenSession without noticing it, ... *)
LEMMA AwaitedHost ==
  ASSUME Types, Types', Flow, Awaited, Host
  PROVE  Awaited'
<1> SUFFICES ASSUME Opening', pc' = "getresp"
             PROVE  (At(pipe) \/ At(reply) \/ At(outq))'
  BY DEF Awaited
<1>1. CASE SendReq
  <2>1. outq' = Append(outq, cur) /\ cur' = cur
    BY <1>1 DEF SendReq, Return
  <2>2. Len(outq') = Len(outq) + 1 /\ outq'[Len(outq) + 1] = cur /\ Len(outq) \in Nat
    BY <2>1, AppendProperties, LenProperties DEF Types, Wires
  <2>3. Len(outq) + 1 \in 1 .. Len(outq')
    BY <2>2
  <2> QED
    BY <2>1, <2>2, <2>3 DEF At
<1>2. CASE GetResp
  <2>1. /\ Opening /\ pc = "getresp" /\ surplus = << >> /\ cur.kind = "open" /\ cur.tid = 0
        /\ TakePacket(<< >>) /\ (Junk \/ Old \/ Leftover)
        /\ UNCHANGED <<cur, reply, outq>>
    BY <1>2 DEF GetResp, Return, Flow, Place, Opening
  <2>2. pipe # << >> /\ pipe' = Tail(pipe) /\ Next1 \in Issued /\ Next1 = Head(pipe)
    BY <2>1, Taken, Packet1 DEF Flow, TakePacket
  <2>3. Next1.n # cur.n
    <3>1. Next1.n = cur.n => Next1.type = "resp" /\ (~broken => Next1.tid = 0)
      BY <2>1, <2>2 DEF Issued
    <3>2. Next1.n = cur.n => RespTid = 0
      BY <2>1, <3>1 DEF RespTid
    <3> QED
      BY <2>1, <3>1, <3>2 DEF Junk, Old, Leftover, Future
  <2>4. At(pipe) => At(pipe)'
    <3>1. /\ Len(pipe') = Len(pipe) - 1 /\ Len(pipe) \in Nat /\ Next1 = pipe[1]
          /\ \A i \in 1 .. Len(pipe') : pipe'[i] = pipe[i + 1]
      BY <2>2, HeadTailProperties, LenProperties DEF Types, Wires
    <3> SUFFICES ASSUME NEW i \in 1 .. Len(pipe), pipe[i].n = cur.n
                 PROVE  \E j \in 1 .. Len(pipe') : pipe'[j].n = cur.n
      BY <2>1 DEF At
    <3>2. i # 1
      BY <2>3, <3>1
    <3>3. i - 1 \in 1 .. Len(pipe') /\ pipe'[i - 1] = pipe[i - 1 + 1] /\ i - 1 + 1 = i
      BY <3>1, <3>2
    <3> QED
      BY <3>3
  <2> QED
    BY <2>1, <2>4 DEF Awaited, At
<1>3. CASE \/ SendData \/ GetData \/ GetRest \/ ReadCancel \/ DevStat \/ Drain \/ CancelReq
           \/ OpenReset \/ OpenRetry \/ Opened
  BY <1>3 DEF SendData, GetData, GetRest, ReadCancel, DevStat, Drain, CancelReq, OpenReset,
     OpenRetry, OpenSession, Begin, Opened, Return, Flow, Place, Opening
<1> QED
  BY <1>1, <1>2, <1>3 DEF Host

(* ... and the responder loses none.                                    *)
LEMMA AwaitedResponder ==
  ASSUME Types, Types', Flow, Awaited, Responder
  PROVE  Awaited'
<1>1. UNCHANGED <<pc, cur, conn, scene>>
  BY DEF Responder, TakeCommand, TakeData, SendPacket, host
<1> SUFFICES ASSUME Opening, pc = "getresp"
             PROVE  (At(pipe) \/ At(reply) \/ At(outq))'
  BY <1>1 DEF Awaited, Opening
<1>2. cur.kind = "open" /\ (At(pipe) \/ At(reply) \/ At(outq))
  BY DEF Awaited, Flow, Place
<1>3. CASE TakeCommand \/ TakeData
  <2> DEFINE c == Head(outq)
  <2>1. /\ reply = << >> /\ outq # << >> /\ outq' = Tail(outq) /\ pipe' = pipe
    BY <1>3 DEF TakeCommand, TakeData
  <2>2. /\ Len(outq') = Len(outq) - 1 /\ Len(outq) \in Nat /\ c = outq[1] /\ c \in Queued
        /\ \A i \in 1 .. Len(outq') : outq'[i] = outq[i + 1]
    BY <2>1, HeadTailProperties, LenProperties DEF Flow, Traffic
  <2>3. CASE c.n = cur.n
    <3>1. c.kind = "open" /\ c \in Orders
      BY <1>2, <2>2, <2>3 DEF Queued
    <3>2. reply' \in Answers(c)
      BY <1>3, <3>1 DEF TakeCommand, TakeData
    <3>3. Answering(c, reply')
      BY <3>1, <3>2, AnswersTo
    <3>4. Len(reply') = 1 /\ 1 \in 1 .. Len(reply') /\ reply'[1].n = c.n
      BY <3>1, <3>3 DEF Answering
    <3> QED
      BY <1>1, <2>3, <3>4 DEF At
  <2>4. CASE c.n # cur.n
    <3>1. ASSUME NEW i \in 1 .. Len(outq), outq[i].n = cur.n
          PROVE  \E j \in 1 .. Len(outq') : outq'[j].n = cur.n
      <4>1. i # 1
        BY <2>2, <2>4, <3>1
      <4>2. i - 1 \in 1 .. Len(outq') /\ outq'[i - 1] = outq[i - 1 + 1] /\ i - 1 + 1 = i
        BY <2>2, <4>1
      <4> QED
        BY <3>1, <4>2
    <3>2. ~At(reply)
      BY <2>1, EmptySeq DEF At
    <3> QED
      BY <1>1, <1>2, <2>1, <3>1, <3>2 DEF At
  <2> QED
    BY <2>3, <2>4
<1>4. CASE SendPacket
  <2>1. /\ reply # << >> /\ reply' = Tail(reply) /\ pipe' = Append(pipe, Head(reply)) /\ outq' = outq
    BY <1>4 DEF SendPacket
  <2>2. /\ Len(reply') = Len(reply) - 1 /\ Len(reply) \in Nat /\ Head(reply) = reply[1]
        /\ \A i \in 1 .. Len(reply') : reply'[i] = reply[i + 1]
    BY <2>1, HeadTailProperties, LenProperties DEF Types, Wires
  <2>3. /\ Len(pipe') = Len(pipe) + 1 /\ Len(pipe) \in Nat /\ pipe'[Len(pipe) + 1] = reply[1]
        /\ \A i \in 1 .. Len(pipe) : pipe'[i] = pipe[i]
    BY <2>1, <2>2, HeadTailProperties, AppendProperties, LenProperties DEF Types, Wires
  <2>4. At(pipe) => At(pipe)'
    BY <1>1, <2>3 DEF At
  <2>5. ASSUME NEW i \in 1 .. Len(reply), reply[i].n = cur.n
        PROVE  At(pipe)' \/ At(reply)'
    <3>1. CASE i = 1
      BY <1>1, <2>3, <2>5, <3>1 DEF At
    <3>2. CASE i # 1
      <4>1. i - 1 \in 1 .. Len(reply') /\ reply'[i - 1] = reply[i - 1 + 1] /\ i - 1 + 1 = i
        BY <2>2, <3>2
      <4> QED
        BY <1>1, <2>5, <4>1 DEF At
    <3> QED
      BY <3>1, <3>2
  <2>6. At(reply) => At(pipe)' \/ At(reply)'
    BY <2>5 DEF At
  <2> QED
    BY <1>1, <1>2, <2>1, <2>4, <2>6 DEF At
<1> QED
  BY <1>3, <1>4 DEF Responder

(* So an OpenSession that was sent is answered.                         *)
LEMMA AwaitedNext ==
  ASSUME Types, Types', Flow, Awaited, [Next]_vars
  PROVE  Awaited'
<1>1. CASE Connect \/ Crash \/ UNCHANGED vars \/ \E kind, op : Call(kind, op)
  BY <1>1 DEF Connect, OpenSession, Begin, Crash, Call, vars, host, device, Awaited, At, Opening
<1> QED
  BY <1>1, AwaitedHost, AwaitedResponder DEF Next

(* ptp_opensession fails for one of three reasons.                      *)
LEMMA WhyNotNext ==
  ASSUME Types, Types', Flow, Awaited, WhyNot, [Next]_vars
  PROVE  WhyNot'
<1> SUFFICES ASSUME pc' = "opened"
             PROVE  \/ last'.rc \in Errors \cup {"OK"}
                    \/ last'.rc = "IO" /\ spent'.timeouts > 0
                    \/ last'.rc = "BADPARAM" /\ tries' = 1
  BY DEF WhyNot, Errors
<1>1. spent.timeouts \in Nat /\ \A what : Spend(what) => (what = "timeouts" => spent'.timeouts > 0)
  BY ScenarioAssumption DEF Types, Limits, DeviceTypes, Bounded, Spend
<1>2. CASE SendReq
  BY <1>1, <1>2 DEF SendReq, Return, Early, Fault
<1>3. CASE GetResp
  <2>1. Opening /\ cur.kind = "open" /\ pc = "getresp" /\ surplus = << >> /\ tries \in 1 .. 3
    BY <1>3 DEF GetResp, Return, Flow, Place, Opening, Types, HostTypes
  <2>2. CASE NoPacket /\ Return("IO", 0)
    <3>1. Busy
      <4>1. pipe = << >>
        BY <2>1, <2>2 DEF NoPacket, Incoming, Types, Wires
      <4> QED
        BY <2>1, <4>1, EmptySeq DEF Awaited, At, Busy
    <3> QED
      BY <1>1, <2>2, <3>1 DEF NoPacket, TimedOut, Return
  <2>3. CASE TakePacket(<< >>) /\ Refused /\ Return(Next1.code, Next1.n)
    BY <2>3, NextPacket DEF TakePacket, Types, Wires, Refused, Junk, Sound, Return
  <2>4. CASE Future /\ ~Leftover /\ Return("BADPARAM", Next1.n)
    BY <2>1, <2>4 DEF Leftover, Return
  <2>5. CASE Return("OK", Next1.n)
    BY <2>5 DEF Return
  <2> QED
    BY <1>3, <2>1, <2>2, <2>3, <2>4, <2>5 DEF GetResp
<1>4. CASE SendData \/ GetData \/ GetRest \/ ReadCancel \/ DevStat \/ Drain \/ CancelReq
  BY <1>4 DEF SendData, GetData, GetRest, ReadCancel, DevStat, Drain, CancelReq, Return,
     ReadAborted, Flow, Place
<1>5. CASE \/ Connect \/ OpenReset \/ OpenRetry \/ Opened \/ Crash \/ UNCHANGED vars
           \/ Responder \/ \E kind, op : Call(kind, op)
  BY <1>5 DEF Connect, OpenReset, OpenRetry, OpenSession, Begin, Opened, Crash, Call, Responder,
     TakeCommand, TakeData, SendPacket, vars, host, WhyNot
<1> QED
  BY <1>2, <1>3, <1>4, <1>5 DEF Next, Host

(* OpensAfterCrash, for any number of connections: unless a read timed out the      *)
(* OpenSession of configure_usb_device fails only when a response says so, or after *)
(* two left-over responses.                                                         *)
THEOREM OpensUnlessRefused == (Spec => OpensAfterCrash) /\ (PortsSpec => OpensAfterCrash)
<1> DEFINE Step == Opened /\ spent.timeouts = 0 /\ conn' # "up" => last.rc \in Errors \/ tries = 1
<1>1. [AnyPort]_vars => [Next]_vars
  BY PortsAreSteps
<1>2. Init => Awaited /\ WhyNot
  BY DEF Init, Awaited, Opening, WhyNot
<1>3. WhyNot => Step
  BY DEF WhyNot, Opened, Errors
<1>4. WhyNot => [Step]_vars
  BY <1>3
<1> QED
  BY <1>1, <1>2, <1>4, TypesAlways, FlowAlways, AwaitedNext, WhyNotNext, PTL
  DEF Spec, PortsSpec, OpensAfterCrash
=============================================================================
