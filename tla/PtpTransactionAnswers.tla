----------------------- MODULE PtpTransactionAnswers -----------------------
(***************************************************************************)
(* What an undisturbed transaction finds on the bulk-in pipe, and what a   *)
(* transaction leaves behind: OwnAnswer, LeavesNothing and InSession of    *)
(* PtpTransaction, for every value of the constants.                       *)
(***************************************************************************)
EXTENDS PtpTransactionProofs

(* The first element and the rest of a short sequence.                                *)
LEMMA Tuples ==
  ASSUME NEW S, NEW a \in S, NEW b \in S, NEW c \in S
  PROVE  /\ Head(<< a >>) = a /\ Tail(<< a >>) = << >>
         /\ Head(<< a, b >>) = a /\ Tail(<< a, b >>) = << b >>
         /\ Head(<< a, b, c >>) = a /\ Tail(<< a, b, c >>) = << b, c >>
         /\ Append(<< >>, a) = << a >> /\ Append(<< a >>, b) = << a, b >>
<1>1. Head(<< a >>) = a /\ Head(<< a, b >>) = a /\ Head(<< a, b, c >>) = a
  OBVIOUS
<1>2. Tail(<< a >>) = << >>
  OBVIOUS
<1>3. Tail(<< a, b >>) = << b >>
  OBVIOUS
<1>4. Tail(<< a, b, c >>) = << b, c >>
  OBVIOUS
<1>5. Append(<< >>, a) = << a >>
  OBVIOUS
<1>6. Append(<< a >>, b) = << a, b >>
  <2>1. << a >> \in Seq(S) /\ << a, b >> \in Seq(S) /\ Len(<< a >>) = 1 /\ Len(<< a, b >>) = 2
        /\ << a >>[1] = a /\ << a, b >>[1] = a /\ << a, b >>[2] = b
    OBVIOUS
  <2> DEFINE x == Append(<< a >>, b)  y == << a, b >>
  <2>2. x \in Seq(S) /\ Len(x) = 2 /\ x[1] = a /\ x[2] = b
    BY <2>1, AppendProperties
  <2>3. y \in Seq(S) /\ Len(y) = 2 /\ y[1] = a /\ y[2] = b
    BY <2>1
  <2> HIDE DEF x, y
  <2>4. \A i \in 1 .. Len(x) : x[i] = y[i]
    BY <2>2, <2>3
  <2>5. x = y
    BY <2>2, <2>3, <2>4, SeqEqual
  <2> QED
    BY <2>5 DEF x, y
<1> QED
  BY <1>1, <1>2, <1>3, <1>4, <1>5, <1>6

(* The first element of a sequence put before another.                                *)
LEMMA FirstOf ==
  ASSUME NEW S, NEW s \in Seq(S), NEW a \in S
  PROVE  << a >> \o s # << >> /\ Head(<< a >> \o s) = a /\ Tail(<< a >> \o s) = s
<1> DEFINE x == << a >> \o s
<1>1. << a >> \in Seq(S) /\ Len(<< a >>) = 1 /\ << a >>[1] = a
  OBVIOUS
<1>2. /\ x \in Seq(S) /\ Len(x) = 1 + Len(s)
      /\ \A i \in 1 .. 1 + Len(s) : x[i] = IF i <= 1 THEN << a >>[i] ELSE s[i - 1]
  BY <1>1, ConcatProperties
<1>3. Len(s) \in Nat
  BY LenProperties
<1> HIDE DEF x
<1>4. x # << >> /\ Head(x) = a
  BY <1>1, <1>2, <1>3
<1>5. /\ Tail(x) \in Seq(S) /\ Len(Tail(x)) = Len(s)
      /\ \A i \in 1 .. Len(s) : Tail(x)[i] = x[i + 1]
  BY <1>2, <1>3, <1>4, HeadTailProperties
<1>6. \A i \in 1 .. Len(s) : Tail(x)[i] = s[i]
  BY <1>2, <1>3, <1>5
<1>7. Tail(x) = s
  BY <1>5, <1>6, SeqEqual
<1> QED
  BY <1>4, <1>7 DEF x

(* A sequence is its first element and the rest.                                      *)
LEMMA Rebuilt ==
  ASSUME NEW S, NEW s \in Seq(S), s # << >>
  PROVE  Head(s) \in S /\ Tail(s) \in Seq(S) /\ s = << Head(s) >> \o Tail(s)
<1>1. Head(s) \in S /\ Tail(s) \in Seq(S) /\ Len(s) \in Nat \ {0} /\ Head(s) = s[1]
  BY HeadTailProperties, EmptySeq
<1>2. /\ SubSeq(s, 1, Len(s)) = s /\ Tail(s) = SubSeq(s, 2, Len(s))
  BY SubSeqFull, TailIsSubSeq
<1>3. SubSeq(s, 1, Len(s)) = << s[1] >> \o SubSeq(s, 1 + 1, Len(s))
  <2>1. 1 \in 1 .. Len(s) /\ Len(s) \in 1 .. Len(s)
    BY <1>1
  <2> QED
    BY <2>1, SubSeqRecursiveFirst
<1> QED
  BY <1>1, <1>2, <1>3

(* The first element of a concatenation is that of its first part.                    *)
LEMMA TailOfConcat ==
  ASSUME NEW S, NEW s \in Seq(S), NEW t \in Seq(S), s # << >>
  PROVE  /\ s \o t # << >> /\ Head(s \o t) = Head(s) /\ Tail(s \o t) = Tail(s) \o t
<1>1. Head(s) \in S /\ Tail(s) \in Seq(S) /\ s = << Head(s) >> \o Tail(s) /\ << Head(s) >> \in Seq(S)
  BY Rebuilt
<1>2. s \o t = << Head(s) >> \o (Tail(s) \o t)
  BY <1>1, ConcatAssociative
<1>3. Tail(s) \o t \in Seq(S)
  BY <1>1, ConcatProperties
<1> QED
  BY <1>1, <1>2, <1>3, FirstOf

(* Taking from the surplus of one packet, or from the pipe after it.                  *)
LEMMA TailOfShort ==
  ASSUME NEW S, NEW s \in Seq(S), NEW p \in Seq(S), Len(s) <= 1, s \o p # << >>
  PROVE  Tail(s \o p) = IF s = << >> THEN Tail(p) ELSE p
<1>1. CASE s = << >>
  BY <1>1, ConcatEmptySeq
<1>2. CASE s # << >>
  <2>1. Len(s) \in Nat \ {0} /\ Tail(s) \in Seq(S) /\ Len(Tail(s)) = Len(s) - 1
    BY <1>2, EmptySeq, HeadTailProperties
  <2>2. Tail(s) = << >>
    BY <2>1, EmptySeq
  <2>3. Tail(s \o p) = Tail(s) \o p
    BY <1>2, TailOfConcat
  <2>4. << >> \o p = p
    BY ConcatEmptySeq
  <2> QED
    BY <1>2, <2>2, <2>3, <2>4
<1> QED
  BY <1>1, <1>2

(* Moving a packet from one sequence to the next changes no concatenation.            *)
LEMMA Regrouped ==
  ASSUME NEW S, NEW s \in Seq(S), NEW p \in Seq(S), NEW h \in Seq(S), NEW t \in Seq(S)
  PROVE  (s \o (p \o h)) \o t = (s \o p) \o (h \o t)
<1>1. s \o (p \o h) = (s \o p) \o h
  BY ConcatAssociative
<1>2. s \o p \in Seq(S)
  BY ConcatProperties
<1>3. ((s \o p) \o h) \o t = (s \o p) \o (h \o t)
  BY <1>2, ConcatAssociative
<1> QED
  BY <1>1, <1>3

-----------------------------------------------------------------------------
\* What is on its way to the host, the oldest first.
Coming == Incoming \o reply
Undone == cur.n \notin Range(done)
Untaken == outq = << cur >> /\ Coming = << >>
OneTids == Tids(cur) \cup (IF cur.kind = "close" THEN {0} ELSE {})
Answered(code) == outq = << >> /\ \E t \in OneTids : Coming = << Response(cur, t, code) >>
TheData == [cur EXCEPT !.kind = "data"]

Sending ==
  /\ Undone /\ Coming = << >>
  /\ pc = "senddata" => outq = << cur >> \/ (outq = << >> /\ waiting = cur.n)
  /\ pc = "getresp" => outq = << cur, TheData >> \/ (outq = << TheData >> /\ waiting = cur.n)
Replied == (\E code \in Errors : Undone /\ Answered(code)) \/ (~Undone /\ Answered("OK"))
WithData ==
  /\ ~Undone /\ outq = << >>
  /\ \E t \in Tids(cur), code \in Codes(cur), f \in Wire : Coming = DataPhase(cur, t, code, f)
Success(p) == p.type = "resp" /\ p.n = cur.n /\ p.tid \in Tids(cur) /\ p.code = "OK"
AfterHeader ==
  /\ ~Undone /\ got = cur.n /\ outq = << >>
  /\ \E p \in Sound :
       /\ Success(p)
       /\ \/ pc = "getresp" /\ Coming = << p >>
          \/ /\ pc = "getrest" => surplus = << >>
             /\ \E q \in Sound : q.type # "resp" /\ q.n = cur.n /\ Coming = << q, p >>

\* The transaction the host is in, at each of its places, when nothing went wrong.
Course ==
  /\ pc \notin {"readcancel", "devstat", "drain", "cancelreq"}
  /\ pc \in {"idle", "sendreq", "opened"} => outq = << >> /\ Coming = << >>
  /\ pc = "sendreq" => Undone
  /\ pc = "senddata" => Sending
  /\ pc = "getdata" => \/ Undone /\ Untaken
                       \/ \E code \in Refusals : Undone /\ Answered(code)
                       \/ WithData
  /\ pc = "getrest" => AfterHeader
  /\ pc = "getresp" => \/ cur.kind = "get" /\ AfterHeader
                       \/ cur.kind = "send" /\ Sending
                       \/ cur.kind \in {"open", "close", "nodata"} /\ Undone /\ Untaken
                       \/ cur.kind # "get" /\ Replied
\* The session of the device.
Inside ==
  /\ conn = "up" => session \/ (cur.kind = "close" /\ pc = "getresp" /\ ~Undone)
  /\ Opening /\ pc = "getresp" /\ (\E code \in {"OK", "AlreadyOpened"} : Answered(code)) => session
  /\ Opening /\ pc = "opened" /\ last.rc \in {"OK", "AlreadyOpened"} => session
Told ==
  /\ last.rc \in Errors \cup {"OK", "DATA_EXPECTED"}
  /\ last.n > 0 /\ last.rc \in Errors \cup {"OK"} => last.resp = last.n
  /\ last.n > 0 /\ last.rc = "OK" /\ last.kind = "get" => last.data = last.n
  /\ last.n > 0 => (last.rc = "OK" <=> last.n \in Range(done))
Order == Course /\ Inside /\ Told

\* The result is that of the last command, once it is over.
Results ==
  /\ last.n <= cur.n
  /\ pc \notin {"idle", "opened"} => last.n < cur.n
  /\ pc = "opened" => last.n = cur.n /\ last.kind = "open"
  /\ last.rc = "CANCEL" => last.kind \in {"get", "send"}

(* At first nothing is coming and nothing was said.                                   *)
LEMMA OrderInit == Init => Order /\ Results
<1> SUFFICES ASSUME Init PROVE Order /\ Results
  OBVIOUS
<1>1. Coming = << >> /\ outq = << >>
  <2>1. << >> \o << >> = << >>
    BY ConcatEmptySeq, EmptySeq
  <2> QED
    BY <2>1 DEF Init, Coming, Incoming
<1> QED
  BY <1>1, RefusalAssumption DEF Init, Order, Course, Inside, Told, Results, NoResult, NoCommand, Opening, Errors

(* What is spent is counted: without faults no read times out while the device is     *)
(* busy, and nothing is cancelled.                                                    *)
LEMMA Counted ==
  ASSUME Types, Types'
  PROVE  /\ \A what \in {"timeouts", "cancels", "early", "crashes", "connects"} :
               spent[what] \in Nat /\ spent'[what] \in Nat
         /\ \A what \in {"timeouts", "cancels", "early", "crashes"} : Spend(what) => ~Faultless'
         /\ Faultless' => ~Fault /\ ~Abort /\ ~Early
         /\ Faultless' /\ TimedOut => ~Busy
<1>1. \A what \in {"timeouts", "cancels", "early", "crashes", "connects"} :
               spent[what] \in Nat /\ spent'[what] \in Nat
  <2>1. \A what \in Bounded : scene.max[what] \in Nat /\ scene'.max[what] \in Nat
    BY ScenarioAssumption DEF Types, DeviceTypes
  <2>2. \A what \in Bounded \ {"calls"} : spent[what] \in 0 .. scene.max[what] /\ spent'[what] \in 0 .. scene'.max[what]
    BY DEF Types, Limits, Bounded
  <2> QED
    BY <2>1, <2>2 DEF Bounded
<1>2. ASSUME NEW what \in {"timeouts", "cancels", "early", "crashes"}, Spend(what), Faultless'
      PROVE  FALSE
  <2>1. spent'[what] = spent[what] + 1
    BY <1>2 DEF Spend, Types, Limits
  <2>2. spent'[what] = 0
    BY <1>2 DEF Faultless
  <2> QED
    BY <1>1, <2>1, <2>2
<1> QED
  BY <1>1, <1>2 DEF Fault, Abort, Early, TimedOut

(* What was said stays true while the device carries out a newer command.             *)
LEMMA ToldKept ==
  ASSUME Types, Told, Results, UNCHANGED last,
         done' = done \/ (done' = Append(done, cur.n) /\ last.n < cur.n)
  PROVE  Told'
<1>1. last.n \in Nat /\ cur.n \in Serials /\ cur.n \in Nat
  BY DEF Types, HostTypes, Serials
<1>2. last.n \in Range(done') <=> last.n \in Range(done)
  <2>1. Range(done') = Range(done) \/ (Range(done') = Range(done) \cup {cur.n} /\ last.n # cur.n)
    <3>1. Range(Append(done, cur.n)) = Range(done) \cup {cur.n}
      BY <1>1, RangeOfDone
    <3>2. CASE done' = done
      BY <3>2
    <3>3. CASE done' = Append(done, cur.n) /\ last.n < cur.n
      BY <1>1, <3>1, <3>3
    <3> QED
      BY <3>2, <3>3
  <2> QED
    BY <2>1
<1> QED
  BY <1>2 DEF Told

(* ptp_transaction_new returns the result of the command it was called for, and       *)
(* PTP_ERROR_CANCEL for a transfer only.                                              *)
LEMMA ResultsNext ==
  ASSUME Types, Types', Flow, Results, [Next]_vars
  PROVE  Results'
<1> USE DEF Results
<1>1. /\ cur.n \in Nat /\ last.n \in Nat /\ cur'.n \in Nat /\ last'.n \in Nat
  BY DEF Types, HostTypes, Serials
<1>2. CASE SendReq \/ SendData
  BY <1>1, <1>2 DEF SendReq, SendData, Return, Early, Flow, Place
<1>3. CASE GetData
  BY <1>1, <1>3 DEF GetData, Return, ReadAborted, Flow, Place
<1>4. CASE GetRest
  BY <1>1, <1>4 DEF GetRest, Return, ReadAborted, Flow, Place, TimeoutCode
<1>5. CASE GetResp
  <2>1. Incoming # << >> /\ Refused => Next1.code \in Errors
    BY NextPacket DEF Types, Wires, Refused, Junk, Sound
  <2>2. "CANCEL" \notin Errors
    BY RefusalAssumption DEF Errors, HostErrors
  <2> QED
    BY <1>1, <1>5, <2>1, <2>2 DEF GetResp, Return, TakePacket
<1>6. CASE ReadCancel \/ DevStat \/ Drain \/ CancelReq
  BY <1>1, <1>6, CancelKeeps DEF ReadCancel, DevStat, Drain, CancelReq, Return, device, Flow, Place
<1>7. CASE Connect \/ OpenReset \/ OpenRetry \/ Opened \/ Crash \/ UNCHANGED vars
  BY <1>1, <1>7 DEF Connect, OpenReset, OpenRetry, OpenSession, Begin, Opened, Crash, vars, host
<1>8. CASE Responder
  BY <1>1, <1>8 DEF Responder, TakeCommand, TakeData, SendPacket, host
<1>9. CASE \E kind, op : Call(kind, op)
  BY <1>1, <1>9 DEF Call, Begin
<1> QED
  BY <1>2, <1>3, <1>4, <1>5, <1>6, <1>7, <1>8, <1>9 DEF Next, Host

(* ptp_usb_getpacket takes the first of what is coming: the surplus, then the pipe,   *)
(* then what the device still has to send.                                            *)
LEMMA Reading ==
  ASSUME Types, Flow
  PROVE  /\ Coming = << >> <=> Incoming = << >> /\ reply = << >>
         /\ Incoming = << >> <=> surplus = << >> /\ pipe = << >>
         /\ Incoming # << >> => Coming # << >> /\ Next1 = Head(Coming) /\ Next1 \in Sound
         /\ TakePacket(<< >>) /\ reply' = reply => Coming' = Tail(Coming) /\ surplus' = << >>
         /\ \A rest : TakePacket(rest) /\ reply' = reply /\ Tail(Coming) = << >> => pipe' = << >> /\ reply = << >>
         /\ Coming \in Seq(Sound) /\ surplus \in Seq(Sound) /\ pipe \in Seq(Sound) /\ reply \in Seq(Sound)
<1>1. surplus \in Seq(Sound) /\ pipe \in Seq(Sound) /\ reply \in Seq(Sound) /\ Len(surplus) <= 1
  BY DEF Types, Wires, Flow, Place
<1>2. Incoming \in Seq(Sound) /\ Coming \in Seq(Sound)
  BY <1>1, ConcatProperties DEF Incoming, Coming
<1>3. /\ Coming = << >> <=> Incoming = << >> /\ reply = << >>
      /\ Incoming = << >> <=> surplus = << >> /\ pipe = << >>
  BY <1>1, <1>2, ConcatEqualIffEmpty DEF Incoming, Coming
<1>4. ASSUME Incoming # << >>
      PROVE  /\ Coming # << >> /\ Next1 = Head(Coming) /\ Next1 \in Sound
             /\ Tail(Coming) = (IF surplus = << >> THEN Tail(pipe) ELSE pipe) \o reply
  <2>1. Next1 \in Sound
    BY <1>1, <1>4, NextPacket
  <2>2. /\ Incoming \o reply # << >> /\ Head(Incoming \o reply) = Head(Incoming)
        /\ Tail(Incoming \o reply) = Tail(Incoming) \o reply
    BY <1>1, <1>2, <1>4, TailOfConcat
  <2>3. Tail(Incoming) = IF surplus = << >> THEN Tail(pipe) ELSE pipe
    BY <1>1, <1>4, TailOfShort DEF Incoming
  <2> QED
    BY <2>1, <2>2, <2>3 DEF Coming, Next1
<1>5. TakePacket(<< >>) /\ reply' = reply => Coming' = Tail(Coming) /\ surplus' = << >>
  <2> SUFFICES ASSUME TakePacket(<< >>), reply' = reply PROVE Coming' = Tail(Coming) /\ surplus' = << >>
    OBVIOUS
  <2>1. pipe' \in Seq(Sound) /\ surplus' = << >> /\ Tail(Coming) = pipe' \o reply
    BY <1>1, <1>3, <1>4, HeadTailProperties DEF TakePacket
  <2>2. << >> \o pipe' = pipe'
    BY <2>1, ConcatEmptySeq
  <2> QED
    BY <2>1, <2>2 DEF Coming, Incoming
<1>6. ASSUME NEW rest, TakePacket(rest), reply' = reply, Tail(Coming) = << >>
      PROVE  pipe' = << >> /\ reply = << >>
  <2>1. pipe' \in Seq(Sound) /\ Tail(Coming) = pipe' \o reply
    BY <1>1, <1>3, <1>4, <1>6, HeadTailProperties DEF TakePacket
  <2>2. pipe' \o reply = << >>
    BY <1>6, <2>1
  <2>3. pipe' \o reply = << >> <=> pipe' = << >> /\ reply = << >>
    BY <1>1, <2>1, ConcatEqualIffEmpty
  <2> QED
    BY <2>2, <2>3
<1> QED
  BY <1>1, <1>2, <1>3, <1>4, <1>5, <1>6

(* A host that leaves the surplus and the pipe alone changes nothing of what is coming. *)
LEMMA SameComing ==
  ASSUME UNCHANGED <<surplus, pipe, reply>>
  PROVE  Coming' = Coming
BY DEF Coming, Incoming

(* ptp_usb_sendreq and ptp_usb_senddata send what the device expects next.            *)
LEMMA OrderSends ==
  ASSUME Types, Types', Flow, Order, Faultless', SendReq \/ SendData
  PROVE  Order'
<1> USE DEF Order
<1>1. /\ cur' = cur /\ UNCHANGED <<tid, tries, got, last, conn, waiting, session, done, scene>> /\ Coming' = Coming
      /\ ~Fault /\ ~Early /\ ~Abort
  BY Counted, SameComing DEF SendReq, SendData
<1>2. Told'
  BY <1>1 DEF Told
<1>3. cur \in Orders /\ cur.kind \in Kinds /\ TheData \in Orders
  BY CurrentOrder DEF TheData, Types, HostTypes
<1>4. CASE SendReq
  <2>1. outq = << >> /\ outq' = << cur >> /\ Coming = << >> /\ Undone
    BY <1>1, <1>3, <1>4, Tuples DEF SendReq, Course
  <2>2. /\ cur.kind = "send" => pc' = "senddata"
        /\ cur.kind = "get" => pc' = "getdata"
        /\ cur.kind \notin {"get", "send"} => pc' = "getresp"
    BY <1>1, <1>4 DEF SendReq
  <2>3. Course'
    BY <1>1, <1>3, <2>1, <2>2 DEF Course, Undone, Untaken, Sending, Kinds
  <2>4. Inside'
    BY <1>1, <1>4, <2>1 DEF Inside, Answered, Opening, SendReq
  <2> QED
    BY <1>2, <2>3, <2>4
<1>5. CASE SendData
  <2>1. /\ Sending /\ pc = "senddata" /\ pc' = "getresp" /\ outq' = Append(outq, TheData) /\ cur.kind = "send"
    BY <1>1, <1>5 DEF SendData, Course, TheData, Flow, Place
  <2>2. outq' = << cur, TheData >> \/ (outq' = << TheData >> /\ waiting' = cur.n)
    <3>1. Append(<< >>, TheData) = << TheData >> /\ Append(<< cur >>, TheData) = << cur, TheData >>
      BY <1>3, Tuples
    <3> QED
      BY <1>1, <2>1, <3>1 DEF Sending
  <2>3. Course'
    BY <1>1, <2>1, <2>2 DEF Course, Undone, Sending, TheData
  <2>4. Inside'
    BY <1>1, <2>1, <2>2 DEF Inside, Answered, Opening, Flow, Place
  <2> QED
    BY <1>2, <2>3, <2>4
<1> QED
  BY <1>4, <1>5

(* ptp_usb_getdata finds the refusal of its command, or its own data.                 *)
LEMMA OrderGetData ==
  ASSUME Types, Types', Flow, Order, Results, Faultless', GetData
  PROVE  Order'
<1> USE DEF Order
<1>1. /\ pc = "getdata" /\ cur' = cur /\ cur.kind = "get" /\ ~Opening
      /\ UNCHANGED <<tid, tries, conn, outq, waiting, reply, session, done, scene>>
      /\ ~Fault /\ ~Early /\ ~Abort /\ (TimedOut => ~Busy)
      /\ conn' = conn /\ ~Opening'
  BY Counted DEF GetData, Return, Flow, Place, Opening
<1>2. Inside'
  BY <1>1 DEF Inside, Opening
<1>3. cur \in Orders /\ cur.n \in Nat /\ cur.n > 0
  BY <1>1, CurrentOrder DEF Types, HostTypes, Flow, Place
<1>4. CASE Undone /\ Untaken
  BY <1>1, <1>4, Reading DEF GetData, TakePacket, NoPacket, Untaken, Busy
<1>5. ASSUME NEW code \in Refusals, Undone, Answered(code)
      PROVE  Order'
  <2>1. PICK t \in OneTids : Coming = << Response(cur, t, code) >>
    BY <1>5 DEF Answered
  <2>2. Incoming # << >> => Next1.type = "resp" /\ Next1.n = cur.n
    BY <2>1, Reading DEF Response, Packet
  <2>3. Response(cur, t, code) \in Sound /\ Tail(Coming) = << >>
    <3>1. Coming \in Seq(Sound)
      BY Reading
    <3> QED
      BY <2>1, <3>1, Tuples, ElementOfSeq
  <2>4. Incoming = << >> => Busy
    BY <2>1, Reading DEF Busy
  <2>5. TakePacket(<< >>) /\ Return("DATA_EXPECTED", 0)
    BY <1>1, <2>2, <2>4 DEF GetData, NoPacket
  <2>6. Coming' = << >> /\ outq' = << >>
    BY <1>1, <1>5, <2>3, <2>5, Reading DEF Answered
  <2>7. pc' = "idle" /\ last' = [n |-> cur.n, kind |-> "get", rc |-> "DATA_EXPECTED", resp |-> 0, data |-> 0]
    BY <1>1, <2>5 DEF Return
  <2>8. Course'
    BY <2>6, <2>7 DEF Course
  <2>9. "DATA_EXPECTED" \notin Errors
    BY RefusalAssumption DEF Errors, HostErrors
  <2>10. Told'
    BY <1>1, <1>5, <2>7, <2>9 DEF Told, Undone
  <2> QED
    BY <1>2, <2>8, <2>10
<1>6. CASE WithData
  <2>1. PICK t \in Tids(cur), code \in Codes(cur), f \in Wire : Coming = DataPhase(cur, t, code, f)
    BY <1>6 DEF WithData
  <2> DEFINE r == Response(cur, t, "OK")
             d(rest) == Packet("data", cur, t, code, rest)
  <2>2. Coming = CASE f = "plain" -> << d("none"), r >>
                   [] f = "joined" -> << d("joined") >>
                   [] f = "exact" -> << d("none"), Packet("null", cur, t, code, "none"), r >>
                   [] f = "large" -> << d("payload"), Packet("payload", cur, t, code, "none"), r >>
    BY <2>1 DEF DataPhase
  <2>3. PICK rest \in {"none", "joined", "payload"} : Head(Coming) = d(rest) /\ Coming # << >>
                 /\ rest = CASE f = "joined" -> "joined" [] f = "large" -> "payload" [] OTHER -> "none"
    BY <2>2 DEF Wire
  <2>4. Incoming # << >> => Next1 = d(rest)
    BY <2>3, Reading
  <2>5. Incoming = << >> => Busy
    BY <2>3, Reading DEF Busy
  <2>6. code = cur.op \/ broken
    BY DEF Codes
  <2>7. /\ Incoming # << >> /\ got' = cur.n
        /\ TakePacket(IF rest = "joined" THEN << [d(rest) EXCEPT !.type = "resp", !.code = "OK", !.rest = "none"] >>
                                       ELSE << >>)
        /\ pc' = IF rest = "payload" THEN "getrest" ELSE "getresp"
        /\ last' = last
    <3>1. /\ Incoming # << >> => /\ Next1.type = "data" /\ Next1.code = code /\ Next1.n = cur.n
                                  /\ Next1.rest = rest /\ Next1 = d(rest)
      BY <2>4 DEF Packet
    <3> HIDE DEF d
    <3> QED
      BY <1>1, <2>5, <2>6, <3>1 DEF GetData, NoPacket
  <2>8. Coming \in Seq(Sound)
    BY Reading
  <2>9. Told'
    BY <1>1, <2>7 DEF Told
  <2>10. CASE rest = "joined"
    <3>1. Coming = << d("joined") >>
      BY <2>2, <2>3, <2>10
    <3>2. d("joined") \in Sound /\ Tail(Coming) = << >>
      BY <2>8, <3>1, Tuples, ElementOfSeq
    <3> DEFINE p == [d("joined") EXCEPT !.type = "resp", !.code = "OK", !.rest = "none"]
    <3>3. p \in Sound /\ p.type = "resp" /\ p.n = cur.n /\ p.tid = t /\ p.code = "OK"
      BY <3>2 DEF Sound, Packets, Packet
    <3>4. surplus' = << p >>
      BY <2>7, <2>10 DEF TakePacket
    <3>5. pipe' = << >> /\ reply' = << >>
      <4> DEFINE x == IF rest = "joined" THEN << [d(rest) EXCEPT !.type = "resp", !.code = "OK", !.rest = "none"] >>
                                          ELSE << >>
      <4>1. TakePacket(x)
        BY <2>7
      <4> HIDE DEF x
      <4> QED
        BY <1>1, <3>2, <4>1, Reading
    <3> HIDE DEF p
    <3>6. Coming' = << p >>
      BY <3>3, <3>4, <3>5, ConcatEmptySeq, Tuples DEF Coming, Incoming
    <3>7. AfterHeader'
      BY <1>1, <1>6, <2>7, <2>10, <3>3, <3>6, SameSets DEF AfterHeader, Success, Undone, WithData, Tids, broken
    <3> QED
      BY <1>1, <1>2, <2>7, <2>9, <2>10, <3>7 DEF Course
  <2>11. CASE rest # "joined"
    <3>1. Coming' = Tail(Coming) /\ surplus' = << >>
      BY <1>1, <2>7, <2>11, Reading
    <3>2. /\ \A i \in 1 .. Len(Coming) : Coming[i] \in Sound
          /\ r.type = "resp" /\ r.n = cur.n /\ r.tid = t /\ r.code = "OK"
      BY <2>8, ElementOfSeq DEF Response, Packet
    <3>3. f # "joined" /\ Sound' = Sound /\ Tids(cur)' = Tids(cur)
      BY <1>1, <2>3, <2>11, SameSets DEF Tids, broken
    <3>4. CASE f = "plain"
      <4>1. Coming' = << r >> /\ rest = "none" /\ r \in Sound
        BY <2>2, <2>3, <3>1, <3>2, <3>4
      <4>2. AfterHeader'
        BY <1>1, <1>6, <2>7, <3>2, <3>3, <4>1 DEF AfterHeader, Success, Undone, WithData
      <4> QED
        BY <1>1, <1>2, <2>7, <2>9, <4>1, <4>2 DEF Course
    <3>5. ASSUME NEW q, q.type # "resp", q.n = cur.n, Coming = << d(rest), q, r >>
          PROVE  Order'
      <4>1. Coming' = << q, r >> /\ r \in Sound /\ q \in Sound
        BY <3>1, <3>2, <3>5
      <4>2. AfterHeader'
        BY <1>1, <1>6, <2>7, <3>1, <3>2, <3>3, <3>5, <4>1 DEF AfterHeader, Success, Undone, WithData
      <4> QED
        BY <1>1, <1>2, <2>7, <2>9, <4>2 DEF Course
    <3>6. CASE f = "exact"
      <4>1. Coming = << d(rest), Packet("null", cur, t, code, "none"), r >>
        BY <2>2, <2>3, <3>6
      <4> QED
        BY <3>5, <4>1 DEF Packet
    <3>7. CASE f = "large"
      <4>1. Coming = << d(rest), Packet("payload", cur, t, code, "none"), r >>
        BY <2>2, <2>3, <3>7
      <4> QED
        BY <3>5, <4>1 DEF Packet
    <3> QED
      BY <3>3, <3>4, <3>6, <3>7 DEF Wire
  <2> QED
    BY <2>10, <2>11
<1> QED
  BY <1>1, <1>4, <1>5, <1>6 DEF Course

(* ptp_read_func reads the rest of the data it began.                                 *)
LEMMA OrderGetRest ==
  ASSUME Types, Types', Flow, Order, Faultless', GetRest
  PROVE  Order'
<1> USE DEF Order
<1>1. /\ pc = "getrest" /\ cur' = cur /\ cur.kind = "get" /\ ~Opening
      /\ UNCHANGED <<tid, tries, conn, surplus, outq, waiting, reply, session, done, scene>>
      /\ ~Abort /\ (TimedOut => ~Busy) /\ ~Opening'
  BY Counted DEF GetRest, Return, Flow, Place, Opening
<1>2. Inside'
  BY <1>1 DEF Inside, Opening
<1>3. AfterHeader
  BY <1>1 DEF Course
<1>4. PICK q \in Sound, p \in Sound : Success(p) /\ Coming = << q, p >> /\ surplus = << >>
  BY <1>1, <1>3 DEF AfterHeader
<1>5. pipe # << >>
  <2>1. Incoming = << >> => Busy
    BY <1>4, Reading DEF Busy
  <2>2. pipe = << >> => Incoming = << >>
    BY <1>4, Reading
  <2> QED
    BY <1>1, <2>1, <2>2 DEF GetRest
<1>6. pc' = "getresp" /\ UNCHANGED <<got, last>> /\ TakePacket(<< >>)
  <2>1. Incoming # << >>
    BY <1>5, Reading
  <2> QED
    BY <1>1, <1>4, <1>5, <2>1 DEF GetRest, TakePacket
<1>7. Coming' = << p >>
  <2>1. Coming' = Tail(Coming)
    BY <1>1, <1>6, Reading
  <2>2. Tail(<< q, p >>) = << p >>
    BY <1>4, Tuples
  <2> QED
    BY <1>4, <2>1, <2>2
<1>8. AfterHeader'
  BY <1>1, <1>3, <1>4, <1>6, <1>7, SameSets DEF AfterHeader, Success, Undone, Tids, broken
<1>9. Told'
  BY <1>1, <1>6 DEF Told
<1> QED
  BY <1>1, <1>2, <1>6, <1>8, <1>9 DEF Course

(* The response to the command, alone on its way, is taken for what it is: its id is  *)
(* that of the command, or is not looked at (IGNORE_HEADER_ERRORS, CloseSession).     *)
LEMMA TakesAnswer ==
  ASSUME Types, Types', Flow, Faultless', GetResp, NEW r, Coming = << r >>, r.type = "resp",
         r.n = cur.n, r.tid \in OneTids
  PROVE  /\ Return(r.code, cur.n) /\ r \in Sound
         /\ Coming' = << >> /\ UNCHANGED <<outq, waiting, session, done, scene>>
<1>1. Incoming # << >> /\ Next1 = r /\ r \in Sound /\ Tail(Coming) = << >>
  <2>1. Incoming = << >> => Busy
    BY Reading DEF Busy
  <2>2. Incoming # << >>
    BY <2>1, Counted DEF GetResp, NoPacket, TakePacket
  <2>3. Next1 = Head(Coming) /\ Next1 \in Sound /\ Coming \in Seq(Sound)
    BY <2>2, Reading
  <2>4. Coming[1] \in Sound /\ Len(Coming) = 1
    BY <2>3, ElementOfSeq
  <2> QED
    BY <2>2, <2>3, <2>4, Tuples
<1>2. TakePacket(<< >>) /\ reply' = reply
  BY <1>1 DEF GetResp, NoPacket
<1>3. Coming' = << >>
  BY <1>1, <1>2, Reading
<1>4. cur.tid \in Nat /\ tries \in Nat
  BY DEF Types, HostTypes, Serials
<1>5. r.code = "OK" => ~Old /\ ~Future /\ ~Refused /\ ~Junk
  BY <1>1, <1>4 DEF Old, Future, Refused, Junk, RespTid, OneTids, Tids
<1>6. r.code # "OK" => Refused /\ ~Old /\ ~Future /\ ~Junk
  BY <1>1 DEF Old, Future, Refused, Junk
<1>7. Return(r.code, cur.n)
  BY <1>1, <1>5, <1>6 DEF GetResp, Leftover, NoPacket
<1> QED
  BY <1>1, <1>3, <1>7 DEF GetResp

(* ptp_usb_getresp skips the zero-length packet of its own data and ends with its own *)
(* response.                                                                          *)
LEMMA OrderGetResp ==
  ASSUME Types, Types', Flow, Order, Results, Faultless', GetResp
  PROVE  Order'
<1> USE DEF Order
<1>1. /\ pc = "getresp" /\ cur' = cur /\ cur.n \in Nat /\ cur.n > 0 /\ last.n < cur.n
      /\ UNCHANGED <<outq, waiting, reply, session, done, scene>>
      /\ (TimedOut => ~Busy)
  BY Counted DEF GetResp, Return, Flow, Place, Types, HostTypes, Results
<1>2. outq # << >> => Coming # << >>
  <2> SUFFICES ASSUME outq # << >> PROVE Coming # << >>
    OBVIOUS
  <2>1. Incoming # << >>
    BY <1>1 DEF GetResp, NoPacket, TakePacket, Busy
  <2> QED
    BY <2>1, Reading
<1>3. outq = << >> /\ Coming # << >>
  <2>1. Sending => outq # << >> /\ Coming = << >>
    BY <1>1 DEF Sending
  <2>2. Untaken => outq # << >> /\ Coming = << >>
    BY DEF Untaken
  <2>3. AfterHeader \/ Replied
    BY <1>1, <1>2, <2>1, <2>2 DEF Course
  <2> QED
    BY <2>3 DEF AfterHeader, Replied, Answered
<1>4. (cur.kind = "get" /\ AfterHeader) \/ (cur.kind # "get" /\ Replied)
  BY <1>1, <1>3 DEF Course, Sending, Untaken
<1>5. ASSUME NEW r \in Sound, r.type = "resp", r.n = cur.n, r.tid \in OneTids, Coming = << r >>,
             r.code \in Errors \cup {"OK"}, r.code = "OK" <=> ~Undone,
             cur.kind = "get" => got = cur.n,
             Opening /\ r.code \in {"OK", "AlreadyOpened"} => session
      PROVE  Order'
  <2>1. Return(r.code, cur.n) /\ Coming' = << >>
    BY <1>5, TakesAnswer
  <2>2. /\ last'.n = cur.n /\ last'.kind = cur.kind /\ last'.rc = r.code /\ last'.resp = cur.n
        /\ last'.data = (IF r.code = "OK" THEN got ELSE 0)
        /\ pc' = (IF cur.kind = "open" THEN "opened" ELSE "idle")
        /\ conn' = IF cur.kind = "close" THEN "down" ELSE conn
    BY <2>1 DEF Return
  <2>3. Course'
    BY <1>1, <1>3, <2>1, <2>2 DEF Course
  <2>4. Inside'
    BY <1>1, <1>5, <2>2 DEF Inside, Opening
  <2>5. Told'
    BY <1>1, <1>5, <2>2 DEF Told, Undone
  <2> QED
    BY <2>3, <2>4, <2>5
<1>6. CASE cur.kind = "get" /\ AfterHeader
  <2>1. PICK p \in Sound :
          /\ Success(p)
          /\ Coming = << p >> \/ \E q \in Sound : q.type # "resp" /\ q.n = cur.n /\ Coming = << q, p >>
    BY <1>6 DEF AfterHeader
  <2>2. ~Undone /\ got = cur.n /\ conn = "up" /\ ~Opening
    BY <1>1, <1>6 DEF AfterHeader, Flow, Place, Opening, Types, HostTypes
  <2>3. CASE Coming = << p >>
    BY <1>5, <1>6, <2>1, <2>2, <2>3 DEF Success, OneTids
  <2>4. ASSUME NEW q \in Sound, q.type # "resp", q.n = cur.n, Coming = << q, p >>
        PROVE  Order'
    <3>1. Incoming # << >> /\ Next1 = q
      <4>1. Incoming = << >> => Busy
        BY <2>4, Reading DEF Busy
      <4> QED
        BY <1>1, <2>4, <4>1, Reading DEF GetResp, NoPacket, TakePacket
    <3>2. Junk /\ ~Old /\ ~Future /\ ~Refused /\ ~Leftover
      BY <2>4, <3>1 DEF Junk, Old, Future, Refused, Leftover
    <3>3. TakePacket(<< >>) /\ UNCHANGED <<pc, tid, tries, got, last, conn>>
      BY <3>1, <3>2 DEF GetResp, NoPacket
    <3>4. Coming' = << p >>
      <4>1. Coming' = Tail(Coming)
        BY <1>1, <3>3, Reading
      <4>2. Tail(<< q, p >>) = << p >>
        BY <2>1, <2>4, Tuples
      <4> QED
        BY <2>4, <4>1, <4>2
    <3>5. AfterHeader'
      BY <1>1, <1>6, <2>1, <3>3, <3>4, SameSets DEF AfterHeader, Success, Undone, Tids, broken
    <3>6. Inside' /\ Told'
      BY <1>1, <1>6, <2>2, <3>3 DEF Inside, Told, Opening
    <3> QED
      BY <1>1, <1>6, <3>3, <3>5, <3>6 DEF Course
  <2> QED
    BY <2>1, <2>3, <2>4
<1>7. CASE cur.kind # "get" /\ Replied
  <2>1. PICK code \in Errors \cup {"OK"} : Answered(code) /\ (code = "OK" <=> ~Undone)
    BY <1>7, RefusalAssumption DEF Replied, Errors
  <2>2. PICK t \in OneTids : Coming = << Response(cur, t, code) >>
    BY <2>1 DEF Answered
  <2> DEFINE r == Response(cur, t, code)
  <2>3. r.type = "resp" /\ r.n = cur.n /\ r.tid = t /\ r.code = code
    BY DEF Response, Packet
  <2>4. r \in Sound
    <3>1. Coming = << r >>
      BY <2>2
    <3> HIDE DEF r
    <3> QED
      BY <2>3, <3>1, TakesAnswer
  <2>5. Opening /\ code \in {"OK", "AlreadyOpened"} => session
    BY <1>1, <2>1 DEF Inside
  <2>6. Coming = << r >>
    BY <2>2
  <2> HIDE DEF r
  <2> QED
    BY <1>5, <1>7, <2>1, <2>3, <2>4, <2>5, <2>6
<1> QED
  BY <1>4, <1>6, <1>7

(* A packet that moves from the device to the pipe does not matter.                   *)
LEMMA OrderStays ==
  ASSUME Order, UNCHANGED <<pc, cur, got, last, conn, surplus, outq, waiting, session, scene, done>>,
         Coming' = Coming
  PROVE  Order'
<1>1. Sound' = Sound /\ Refusals' = Refusals /\ Errors' = Errors /\ Tids(cur)' = Tids(cur)
      /\ Codes(cur)' = Codes(cur) /\ OneTids' = OneTids
  BY SameSets DEF Tids, Codes, broken, OneTids
<1>2. (\A code : Answered(code)' = Answered(code)) /\ Undone' = Undone /\ TheData' = TheData
  BY <1>1 DEF Answered, Undone, TheData
<1>3. Sending' = Sending /\ Replied' = Replied /\ WithData' = WithData /\ AfterHeader' = AfterHeader
      /\ Untaken' = Untaken
  BY <1>1, <1>2 DEF Sending, Replied, WithData, AfterHeader, Untaken, Success
<1>4. Course'
  BY <1>2, <1>3 DEF Order, Course
<1>5. Inside'
  BY <1>2 DEF Order, Inside, Opening
<1> QED
  BY <1>4, <1>5 DEF Order, Told

(* The device sends a packet.                                                         *)
LEMMA OrderSendPacket ==
  ASSUME Types, Types', Flow, Order, SendPacket
  PROVE  Order'
<1>1. Coming' = Coming
  <2>1. surplus \in Seq(Sound) /\ pipe \in Seq(Sound) /\ reply \in Seq(Sound)
    BY DEF Types, Wires
  <2>2. (surplus \o Append(pipe, Head(reply))) \o Tail(reply) = (surplus \o pipe) \o reply
    <3>1. /\ Head(reply) \in Sound /\ Tail(reply) \in Seq(Sound) /\ reply = << Head(reply) >> \o Tail(reply)
          /\ << Head(reply) >> \in Seq(Sound)
      BY <2>1, Rebuilt DEF SendPacket
    <3>2. Append(pipe, Head(reply)) = pipe \o << Head(reply) >>
      BY <2>1, <3>1, AppendIsConcat
    <3>3. (surplus \o (pipe \o << Head(reply) >>)) \o Tail(reply)
            = (surplus \o pipe) \o (<< Head(reply) >> \o Tail(reply))
      <4>1. << Head(reply) >> \in Seq(Sound) /\ Tail(reply) \in Seq(Sound)
        BY <3>1
      <4> QED
        BY <2>1, <4>1, Regrouped, SMTT(30)
    <3> QED
      BY <3>1, <3>2, <3>3
  <2>3. surplus' = surplus /\ pipe' = Append(pipe, Head(reply)) /\ reply' = Tail(reply)
    BY DEF SendPacket, host
  <2> QED
    BY <2>2, <2>3 DEF Coming, Incoming
<1> QED
  BY <1>1, OrderStays DEF SendPacket, host

(* A command is begun, and OpenSession ends, with nothing on its way.                 *)
LEMMA OrderBegins ==
  ASSUME Types, Types', Flow, Order, Connect \/ OpenReset \/ OpenRetry \/ Opened \/ \E kind, op : Call(kind, op)
  PROVE  Order'
<1> USE DEF Order
<1>1. outq = << >> /\ Coming = << >> /\ UNCHANGED <<last, done>>
  BY DEF Connect, OpenReset, OpenRetry, Opened, Call, OpenSession, Begin, Course, device
<1>2. outq' = << >> /\ Coming' = << >>
  <2>1. /\ surplus = << >> /\ pipe = << >> /\ reply = << >>
    BY <1>1, Reading
  <2>2. surplus' = << >> /\ pipe' = << >> /\ reply' = << >> /\ outq' = << >>
    BY <1>1, <2>1 DEF Connect, OpenReset, OpenRetry, Opened, Call, OpenSession, device
  <2>3. << >> \o << >> = << >>
    BY ConcatEmptySeq, EmptySeq
  <2>4. Incoming' = << >>
    BY <2>2, <2>3 DEF Incoming
  <2>5. Coming' = << >>
    BY <2>2, <2>3, <2>4 DEF Coming
  <2> QED
    BY <2>2, <2>5
<1>3. Told'
  BY <1>1 DEF Told
<1>4. CASE Opened
  <2>1. Course'
    BY <1>2, <1>4 DEF Course, Opened
  <2>2. Inside'
    BY <1>4 DEF Inside, Opened, Opening, Flow, Place, device
  <2> QED
    BY <1>3, <2>1, <2>2
<1>5. CASE Connect \/ OpenReset \/ OpenRetry \/ \E kind, op : Call(kind, op)
  <2>1. pc' = "sendreq" /\ cur'.n = cur.n + 1
    BY <1>5 DEF Connect, OpenReset, OpenRetry, Call, OpenSession, Begin
  <2>2. Undone'
    <3>1. Range(done) \subseteq 0 .. cur.n /\ cur.n \in Nat
      BY RangeOfDone DEF Types, HostTypes, Serials
    <3> QED
      BY <1>1, <2>1, <3>1 DEF Undone
  <2>3. Course'
    BY <1>2, <2>1, <2>2 DEF Course
  <2>4. Inside'
    <3>1. conn' = "up" => conn = "up" /\ pc = "idle" /\ session' = session
      BY <1>5 DEF Connect, OpenReset, OpenRetry, Call, OpenSession, Begin, device
    <3> QED
      BY <2>1, <3>1 DEF Inside
  <2> QED
    BY <1>3, <2>3, <2>4
<1> QED
  BY <1>4, <1>5

(* The device then has the current command or its data before it, and nothing else.   *)
LEMMA InHand ==
  ASSUME Types, Flow, Order, reply = << >>, outq # << >>
  PROVE  /\ Undone /\ Coming = << >> /\ Incoming = << >> /\ pc \in {"senddata", "getdata", "getresp"}
         /\ \/ outq = << cur >> /\ cur.kind = "send" /\ pc = "senddata" /\ Head(outq) = cur /\ Tail(outq) = << >>
            \/ outq = << cur >> /\ cur.kind = "get" /\ pc = "getdata" /\ Head(outq) = cur /\ Tail(outq) = << >>
            \/ outq = << cur >> /\ cur.kind \in {"open", "close", "nodata"} /\ pc = "getresp"
               /\ Head(outq) = cur /\ Tail(outq) = << >>
            \/ outq = << cur, TheData >> /\ cur.kind = "send" /\ pc = "getresp"
               /\ Head(outq) = cur /\ Tail(outq) = << TheData >>
            \/ outq = << TheData >> /\ waiting = cur.n /\ cur.kind = "send" /\ pc = "getresp"
               /\ Head(outq) = TheData /\ Tail(outq) = << >>
         /\ cur.kind # "data" /\ TheData.kind = "data"
<1>1. cur \in Orders /\ TheData \in Orders /\ pc \in Places /\ cur.kind \in Kinds
  BY CurrentOrder DEF TheData, Types, HostTypes
<1>2. Course
  BY DEF Order
<1>3. /\ Undone /\ Coming = << >> /\ pc \in {"senddata", "getdata", "getresp"}
      /\ \/ outq = << cur >> /\ cur.kind = "send" /\ pc = "senddata"
         \/ outq = << cur >> /\ cur.kind = "get" /\ pc = "getdata"
         \/ outq = << cur >> /\ cur.kind \in {"open", "close", "nodata"} /\ pc = "getresp"
         \/ outq = << cur, TheData >> /\ cur.kind = "send" /\ pc = "getresp"
         \/ outq = << TheData >> /\ waiting = cur.n /\ cur.kind = "send" /\ pc = "getresp"
  <2>1. pc \in {"senddata", "getdata", "getresp"}
    BY <1>1, <1>2 DEF Course, Places, AfterHeader
  <2>2. CASE pc = "senddata"
    BY <1>2, <2>2 DEF Course, Sending, Flow, Place
  <2>3. CASE pc = "getdata"
    BY <1>2, <2>3 DEF Course, Untaken, Answered, WithData, Flow, Place
  <2>4. CASE pc = "getresp"
    BY <1>2, <2>4 DEF Course, Untaken, Sending, AfterHeader, Replied, Answered
  <2> QED
    BY <2>1, <2>2, <2>3, <2>4
<1>4. /\ Tail(<< cur >>) = << >> /\ Tail(<< TheData >>) = << >> /\ Tail(<< cur, TheData >>) = << TheData >>
      /\ Head(<< cur >>) = cur /\ Head(<< TheData >>) = TheData /\ Head(<< cur, TheData >>) = cur
  BY <1>1, Tuples
<1>5. Incoming = << >>
  BY <1>3, Reading
<1>6. cur.kind # "data" /\ TheData.kind = "data"
  BY <1>1, CurrentOrder DEF TheData, Kinds
<1> QED
  BY <1>3, <1>4, <1>5, <1>6

(* What it answers is all there is on its way.                                        *)
LEMMA ReplyComes ==
  ASSUME Types, Types', Flow, Incoming = << >>, UNCHANGED <<surplus, pipe>>
  PROVE  Coming' = reply'
<1>1. Incoming' = << >>
  BY DEF Incoming
<1>2. reply' \in Seq(Sound')
  BY DEF Types, Wires
<1> QED
  BY <1>1, <1>2, ConcatEmptySeq DEF Coming

(* It takes the command, ...                                                          *)
LEMMA OrderTakeCommand ==
  ASSUME Types, Types', Flow, Order, Results, TakeCommand
  PROVE  Order'
<1>1. /\ reply = << >> /\ outq # << >> /\ outq' = Tail(outq) /\ Head(outq).kind # "data"
      /\ UNCHANGED <<pc, cur, tid, tries, surplus, got, last, conn, pipe, scene, spent>>
  BY DEF TakeCommand, host
<1>2. /\ Undone /\ Coming = << >> /\ Incoming = << >> /\ pc \in {"senddata", "getdata", "getresp"}
      /\ last.n < cur.n /\ cur.kind \in Kinds /\ cur \in Orders
  BY <1>1, InHand, CurrentOrder DEF Results, Types, HostTypes
<1>3. Coming' = reply'
  BY <1>1, <1>2, ReplyComes
<1>4. Head(outq) = cur
  BY <1>1, InHand
<1>5. Told'
  BY <1>1, <1>2, <1>4, ToldKept DEF Order, TakeCommand
<1>6. Tids(cur)' = Tids(cur) /\ OneTids' = OneTids /\ Codes(cur)' = Codes(cur) /\ Sound' = Sound /\ Errors' = Errors
      /\ Refusals' = Refusals /\ TheData' = TheData
  BY <1>1, SameSets DEF Tids, Codes, OneTids, broken, TheData
<1>7. "OK" \notin Errors
  BY RefusalAssumption DEF Errors
<1>8. CASE cur.kind = "send"
  <2>1. waiting' = cur.n /\ UNCHANGED <<reply, session, done>>
    BY <1>1, <1>4, <1>8 DEF TakeCommand
  <2>2. Undone' /\ Coming' = << >>
    BY <1>1, <1>2, <1>3, <2>1 DEF Undone
  <2>3. \/ outq' = << >> /\ pc = "senddata"
        \/ outq' = << TheData >> /\ pc = "getresp"
    BY <1>1, <1>8, InHand
  <2>4. Sending'
    BY <1>1, <1>6, <2>1, <2>2, <2>3 DEF Sending
  <2>5. Course'
    BY <1>1, <1>8, <2>3, <2>4 DEF Course
  <2>6. Inside'
    BY <1>1, <1>8, <2>1, <2>3 DEF Inside, Order, Opening, Flow, Place
  <2> QED
    BY <1>5, <2>5, <2>6 DEF Order
<1>9. CASE cur.kind # "send"
  <2>1. /\ reply' \in Answers(cur)
        /\ session' = IF cur.kind = "open" /\ reply'[1].code = "OK" THEN TRUE
                        ELSE IF cur.kind = "close" THEN FALSE ELSE session
        /\ done' = IF reply'[Len(reply')].code \in Errors THEN done ELSE Append(done, cur.n)
    BY <1>1, <1>4, <1>9 DEF TakeCommand
  <2>2. outq' = << >> /\ pc \in {"getdata", "getresp"} /\ (pc = "getdata" <=> cur.kind = "get")
    BY <1>1, <1>9, InHand
  <2>3. Range(Append(done, cur.n)) = Range(done) \cup {cur.n}
    BY RangeOfDone DEF Serials, Types, HostTypes
  <2>4. Undone' <=> reply'[Len(reply')].code \in Errors
    BY <1>1, <1>2, <2>1, <2>3 DEF Undone
  <2>5. ASSUME NEW t \in OneTids, NEW code, reply' = << Response(cur, t, code) >>,
               code \in Errors \cup {"OK"}, cur.kind = "get" => code \in Refusals,
               cur.kind = "close" => code = "OK",
               cur.kind = "open" => code \in IF session THEN {"AlreadyOpened"} ELSE scene.opening
        PROVE  Order'
    <3>1. reply'[Len(reply')].code = code /\ reply'[1].code = code
      BY <2>5 DEF Response, Packet
    <3>2. Answered(code)'
      BY <1>1, <1>3, <1>6, <2>2, <2>5 DEF Answered, Response, Packet
    <3>3. Undone' <=> code \in Errors
      BY <2>4, <3>1
    <3>4. Course'
      <4>1. cur.kind = "get" => pc = "getdata" /\ code \in Refusals /\ Undone' /\ Answered(code)'
        BY <2>2, <2>5, <3>2, <3>3 DEF Errors
      <4>2. cur.kind # "get" => pc = "getresp" /\ Replied'
        BY <1>6, <1>7, <2>2, <2>5, <3>2, <3>3 DEF Replied
      <4> QED
        BY <1>1, <1>6, <2>2, <4>1, <4>2 DEF Course
    <3>5. ASSUME NEW c \in {"OK", "AlreadyOpened"}, Answered(c)'
          PROVE  c = code
      <4>1. PICK u : Coming' = << Response(cur, u, c) >>
        BY <1>1, <1>6, <3>5 DEF Answered, Response, Packet
      <4>2. << Response(cur, u, c) >>[1].code = << Response(cur, t, code) >>[1].code
        BY <1>3, <2>5, <4>1
      <4> QED
        BY <4>2 DEF Response, Packet
    <3>6. cur.kind = "open" /\ code \in {"OK", "AlreadyOpened"} => session'
      <4>1. cur.kind = "open" /\ session => session'
        BY <2>1
      <4>2. scene.opening \subseteq Refusals \cup {"OK", "InvalidTid"} /\ "AlreadyOpened" \notin Refusals
        BY ScenarioAssumption, RefusalAssumption DEF Types, DeviceTypes
      <4> QED
        BY <2>1, <2>5, <3>1, <4>1, <4>2
    <3>7. conn' = "up" => session' \/ (cur'.kind = "close" /\ pc' = "getresp" /\ ~Undone')
      <4>1. conn = "up" => session /\ cur.kind # "open"
        BY <1>2, <2>2 DEF Order, Inside, Flow, Place
      <4>2. cur.kind = "close" => pc = "getresp" /\ ~Undone'
        BY <1>7, <2>2, <2>5, <3>3
      <4> QED
        BY <1>1, <2>1, <4>1, <4>2
    <3>8. Opening' => cur.kind = "open"
      BY <1>1 DEF Opening, Flow, Place
    <3>9. Inside'
      BY <1>1, <1>2, <3>5, <3>6, <3>7, <3>8 DEF Inside
    <3> QED
      BY <1>5, <3>4, <3>9 DEF Order
  <2>6. CASE cur.kind = "get"
    <3>1. \/ \E t \in Tids(cur), code \in Refusals : reply' = << Response(cur, t, code) >>
          \/ \E t \in Tids(cur), code \in Codes(cur), f \in scene.framings : reply' = DataPhase(cur, t, code, f)
      BY <2>1, <2>6 DEF Answers
    <3>2. ASSUME NEW t \in Tids(cur), NEW code \in Codes(cur), NEW f \in scene.framings,
                 reply' = DataPhase(cur, t, code, f)
          PROVE  Order'
      <4>1. f \in Wire
        BY ScenarioAssumption DEF Types, DeviceTypes
      <4>2. reply'[Len(reply')].code \in {code, "OK"}
        BY <3>2, <4>1, DataThenResponse
      <4>3. code \notin Errors
        <5>1. /\ scene.ops \cap (Refusals \cup {"OK", "AlreadyOpened", "InvalidTid", "insane"}) = {}
              /\ cur.op \in scene.ops
          BY <2>6, ScenarioAssumption DEF Types, DeviceTypes, HostTypes
        <5> QED
          BY <5>1, RefusalAssumption DEF Codes, Errors
      <4>4. ~Undone'
        BY <1>7, <2>4, <4>2, <4>3
      <4>5. WithData'
        <5>1. DataPhase(cur, t, code, f)' = DataPhase(cur, t, code, f)
          BY <1>1 DEF DataPhase, Packet, Response
        <5> QED
          BY <1>1, <1>3, <1>6, <2>2, <3>2, <4>1, <4>4, <5>1 DEF WithData
      <4>6. Course'
        BY <1>1, <2>2, <2>6, <4>5 DEF Course
      <4>7. Inside'
        BY <1>1, <2>1, <2>2, <2>6 DEF Inside, Order, Opening, Flow, Place
      <4> QED
        BY <1>5, <4>6, <4>7 DEF Order
    <3> QED
      BY <2>5, <2>6, <3>1, <3>2 DEF OneTids, Errors
  <2>7. CASE cur.kind = "close"
    BY <2>1, <2>5, <2>7 DEF Answers, OneTids
  <2>8. CASE cur.kind = "nodata"
    BY <2>1, <2>5, <2>8 DEF Answers, OneTids, Errors
  <2>9. CASE cur.kind = "open"
    <3>1. scene.opening \subseteq Errors \cup {"OK"} /\ "AlreadyOpened" \in Errors
      BY ScenarioAssumption DEF Types, DeviceTypes, Errors
    <3> QED
      BY <2>1, <2>5, <2>9, <3>1 DEF Answers, OneTids
  <2> QED
    BY <1>2, <1>9, <2>6, <2>7, <2>8, <2>9 DEF Kinds
<1> QED
  BY <1>8, <1>9

(* ... and the data.                                                                  *)
LEMMA OrderTakeData ==
  ASSUME Types, Types', Flow, Order, Results, TakeData
  PROVE  Order'
<1>1. /\ reply = << >> /\ outq # << >> /\ outq' = Tail(outq) /\ Head(outq).kind = "data"
      /\ UNCHANGED <<pc, cur, tid, tries, surplus, got, last, conn, pipe, scene, spent, session>>
  BY DEF TakeData, host
<1>2. /\ Undone /\ Coming = << >> /\ Incoming = << >>
      /\ last.n < cur.n /\ cur.kind \in Kinds /\ cur \in Orders /\ TheData \in Orders
  BY <1>1, InHand, CurrentOrder DEF Results, Types, HostTypes, TheData
<1>3. Coming' = reply'
  BY <1>1, <1>2, ReplyComes
<1>4. outq = << TheData >> /\ Tail(outq) = << >> /\ Head(outq) = TheData /\ waiting = cur.n
      /\ cur.kind = "send" /\ pc = "getresp"
  <2>1. cur.kind # "data" /\ Head(<< cur >>) = cur /\ Head(<< cur, TheData >>) = cur /\ Head(<< TheData >>) = TheData
    BY <1>2, Tuples DEF Kinds
  <2> QED
    BY <1>1, <2>1, InHand
<1>5. TheData.n = cur.n /\ TheData.tid = cur.tid
  BY <1>2, CurrentOrder DEF TheData
<1>6. PICK t \in Tids(TheData), code \in Refusals \cup {"OK"} :
        /\ reply' = << Response(TheData, t, code) >>
        /\ done' = IF code = "OK" THEN Append(done, cur.n) ELSE done
  BY <1>1, <1>4, <1>5 DEF TakeData
<1>7. t \in Tids(cur) /\ Response(TheData, t, code) = Response(cur, t, code)
  BY <1>5, <1>6 DEF Tids, Response, Packet
<1>8. Told'
  BY <1>1, <1>2, <1>6, ToldKept DEF Order
<1>9. Range(Append(done, cur.n)) = Range(done) \cup {cur.n} /\ "OK" \notin Errors /\ "OK" \notin Refusals
  BY RangeOfDone, RefusalAssumption DEF Serials, Types, HostTypes, Errors
<1>10. (Undone' <=> code \in Errors) /\ Answered(code)'
  <2>1. Undone' <=> code \in Errors
    BY <1>1, <1>2, <1>6, <1>9 DEF Undone, Errors
  <2>2. OneTids' = OneTids /\ t \in OneTids /\ outq' = << >> /\ Coming' = << Response(cur, t, code) >>
    BY <1>1, <1>3, <1>4, <1>6, <1>7 DEF OneTids, Tids, broken
  <2> QED
    BY <1>1, <2>1, <2>2 DEF Answered, Response, Packet
<1>11. Course'
  BY <1>1, <1>4, <1>6, <1>9, <1>10 DEF Course, Replied, Errors
<1>12. Inside'
  BY <1>1, <1>4 DEF Inside, Order, Opening, Flow, Place
<1> QED
  BY <1>8, <1>11, <1>12 DEF Order

(* Every step spends at most one of the bounds.                                       *)
LEMMA SpendsOne ==
  ASSUME Types, [Next]_vars
  PROVE  /\ spent' = spent \/ \E what \in {"timeouts", "cancels", "early", "crashes", "connects"} : Spend(what)
         /\ scene' = scene
<1>1. CASE SendReq \/ SendData \/ GetData \/ GetRest \/ GetResp
  BY <1>1 DEF SendReq, SendData, GetData, GetRest, GetResp, Early, Abort, Fault, NoPacket, TimedOut
<1>2. CASE ReadCancel \/ DevStat \/ Drain \/ CancelReq
  BY <1>2, CancelKeeps DEF ReadCancel, DevStat, Drain, CancelReq, Fault, TimedOut, device
<1>3. CASE Connect \/ OpenReset \/ OpenRetry \/ Opened \/ Crash \/ UNCHANGED vars
  BY <1>3 DEF Connect, OpenReset, OpenRetry, Opened, Crash, vars, device
<1>4. CASE Responder
  BY <1>4 DEF Responder, TakeCommand, TakeData, SendPacket
<1>5. CASE \E kind, op : Call(kind, op)
  BY <1>5 DEF Call, device
<1> QED
  BY <1>1, <1>2, <1>3, <1>4, <1>5 DEF Next, Host

(* What went wrong stays so.                                                          *)
LEMMA FaultsStay ==
  ASSUME Types, Types', [Next]_vars
  PROVE  \A what \in {"timeouts", "cancels", "early", "crashes"} :
           /\ spent[what] \in Nat /\ spent'[what] \in Nat
           /\ spent[what] <= spent'[what]
<1> DEFINE All == {"timeouts", "cancels", "early", "crashes", "connects"}
<1>1. \A what \in All : spent[what] \in Nat /\ spent'[what] \in Nat
  BY Counted
<1>2. ASSUME NEW w \in All, Spend(w), NEW what \in All
      PROVE  spent[what] <= spent'[what]
  <2>1. spent'[what] = IF what = w THEN spent[what] + 1 ELSE spent[what]
    BY <1>2 DEF Spend, Types, Limits
  <2> QED
    BY <1>1, <2>1
<1> QED
  BY <1>1, <1>2, SpendsOne

(* Without faults everything stays in order.                                          *)
LEMMA OrderNext ==
  ASSUME Types, Types', Flow, Results, Faultless => Order, Faultless', [Next]_vars
  PROVE  Order'
<1>1. Order
  BY FaultsStay DEF Faultless
<1>2. CASE SendReq \/ SendData \/ GetData \/ GetRest \/ GetResp
  BY <1>1, <1>2, OrderSends, OrderGetData, OrderGetRest, OrderGetResp
<1>3. CASE ReadCancel \/ DevStat \/ Drain \/ CancelReq
  BY <1>1, <1>3 DEF Order, Course, ReadCancel, DevStat, Drain, CancelReq
<1>4. CASE Connect \/ OpenReset \/ OpenRetry \/ Opened \/ \E kind, op : Call(kind, op)
  BY <1>1, <1>4, OrderBegins
<1>5. CASE Crash
  BY <1>5, Counted DEF Crash
<1>6. CASE Responder
  BY <1>1, <1>6, OrderTakeCommand, OrderTakeData, OrderSendPacket DEF Responder
<1>7. CASE UNCHANGED vars
  <2>1. Coming' = Coming
    BY <1>7, SameComing DEF vars, host, device
  <2> QED
    BY <1>1, <1>7, <2>1, OrderStays DEF vars, host, device
<1> QED
  BY <1>2, <1>3, <1>4, <1>5, <1>6, <1>7 DEF Next, Host

Orderly == Faultless => Order

(* Without faults the host finds, at each place of ptp_transaction_new, what the      *)
(* device sent for the current command and nothing else.                              *)
THEOREM OrderAlways == (Spec => [](Results /\ Orderly)) /\ (PortsSpec => [](Results /\ Orderly))
<1>1. Init => Results /\ Orderly
  BY OrderInit DEF Orderly
<1>2. Types /\ Types' /\ Flow /\ Results /\ Orderly /\ [Next]_vars => (Results /\ Orderly)'
  <2> SUFFICES ASSUME Types, Types', Flow, Results, Orderly, [Next]_vars PROVE Results' /\ Orderly'
    OBVIOUS
  <2> QED
    BY OrderNext, ResultsNext DEF Orderly
<1>3. [AnyPort]_vars => [Next]_vars
  BY PortsAreSteps
<1> QED
  BY <1>1, <1>2, <1>3, TypesAlways, FlowAlways, PTL DEF Spec, PortsSpec

(* OwnAnswer: when nothing goes wrong, results and data are those of the caller's own *)
(* command, and success means that the command was carried out.                       *)
THEOREM AnswersAreOwn == (Spec => []OwnAnswer) /\ (PortsSpec => []OwnAnswer)
<1>1. Orderly => OwnAnswer
  BY DEF Orderly, Order, Told, OwnAnswer
<1> QED
  BY <1>1, OrderAlways, PTL

-----------------------------------------------------------------------------
\* The last packet of what answers the current command; a response may be in one
\* packet with the data.
Ends(p) == p.n = cur.n /\ (p.type = "resp" \/ p.rest = "joined")
Ended(s) == \E i \in 1 .. Len(s) : Ends(s[i])
LastOnly(s) == \A i \in 1 .. Len(s) : Ends(s[i]) => i = Len(s)
JustResponses(s) == \A i \in 1 .. Len(s) : s[i].n = cur.n => s[i].type = "resp"
Final ==
  /\ Ended(surplus) => pipe = << >>
  /\ Ended(surplus) \/ Ended(pipe) => ~Busy
  /\ Ended(reply) => outq = << >>
  /\ LastOnly(pipe) /\ LastOnly(reply)
  /\ pc = "senddata" => ~At(surplus) /\ ~At(pipe) /\ ~At(reply)
  /\ cur.kind = "close" => JustResponses(surplus) /\ JustResponses(pipe) /\ JustResponses(reply)

(* At first nothing was answered.                                                     *)
LEMMA FinalInit == Init => Final
BY EmptySeq DEF Init, Final, Ended, LastOnly, JustResponses, At

(* Taking or dropping packets leaves the last one last.                               *)
LEMMA FinalFewer ==
  ASSUME Types, Types', Final, NEW k \in 0 .. Len(outq),
         cur' = cur, pc' # "senddata" \/ pc' = pc,
         pipe' = pipe \/ (pipe # << >> /\ pipe' = Tail(pipe)), reply' \in {reply, << >>},
         outq' = SubSeq(outq, 1, k),
         \/ surplus' \in {surplus, << >>}
         \/ /\ pc' # "senddata" /\ cur.kind # "close"
            /\ Ended(surplus)' => pipe' = << >> /\ ~Busy
  PROVE  Final'
<1>1. /\ Len(pipe') \in Nat /\ Len(pipe') <= Len(pipe) /\ (pipe' # pipe => Len(pipe') = Len(pipe) - 1)
      /\ \/ \A i \in 1 .. Len(pipe') : i \in 1 .. Len(pipe) /\ pipe'[i] = pipe[i]
         \/ \A i \in 1 .. Len(pipe') : i + 1 \in 1 .. Len(pipe) /\ pipe'[i] = pipe[i + 1]
      /\ Len(pipe) \in Nat
  BY FewerPackets, Lengths
<1>2. pipe = << >> => pipe' = << >>
  OBVIOUS
<1>3. outq = << >> => outq' = << >>
  <2>1. Len(outq') <= Len(outq) /\ Len(outq') \in Nat
    BY FewerPackets
  <2>2. outq \in Seq(Orders) /\ outq' \in Seq(Orders')
    BY DEF Types, Wires
  <2> QED
    BY <2>1, <2>2, EmptySeq
<1>4. ~Busy => ~Busy'
  BY <1>3 DEF Busy
<1>5. Len(<< >>) = 0
  BY EmptySeq
<1>6. Ended(pipe)' => Ended(pipe)
  BY <1>1 DEF Ended, Ends
<1>7. LastOnly(pipe)'
  <2>1. CASE pipe' = pipe
    BY <2>1 DEF Final, LastOnly, Ends
  <2>2. CASE pipe' # pipe
    BY <1>1, <2>2 DEF Final, LastOnly, Ends
  <2> QED
    BY <2>1, <2>2
<1>8. (At(pipe)' => At(pipe)) /\ (JustResponses(pipe) => JustResponses(pipe)')
  BY <1>1 DEF At, JustResponses
<1>9. /\ Ended(reply)' => Ended(reply)
      /\ LastOnly(reply)' /\ (At(reply)' => At(reply)) /\ (JustResponses(reply) => JustResponses(reply)')
  BY <1>5 DEF Final, Ended, LastOnly, At, JustResponses, Ends
<1>10. CASE surplus' \in {surplus, << >>}
  <2>1. /\ Ended(surplus)' => Ended(surplus)
        /\ (At(surplus)' => At(surplus)) /\ (JustResponses(surplus) => JustResponses(surplus)')
    BY <1>5, <1>10 DEF Ended, Ends, At, JustResponses
  <2> QED
    BY <1>2, <1>3, <1>4, <1>6, <1>7, <1>8, <1>9, <2>1 DEF Final
<1>11. CASE /\ pc' # "senddata" /\ cur.kind # "close"
            /\ Ended(surplus)' => pipe' = << >> /\ ~Busy
  BY <1>3, <1>4, <1>6, <1>7, <1>9, <1>11 DEF Final
<1> QED
  BY <1>10, <1>11

(* Nothing of the current command is on its way.                                      *)
LEMMA FinalNone ==
  ASSUME ~At(surplus)', ~At(pipe)', ~At(reply)'
  PROVE  Final'
<1>1. \A s : ~At(s)' => ~Ended(s)' /\ LastOnly(s)' /\ JustResponses(s)'
  BY DEF At, Ended, Ends, LastOnly, JustResponses
<1> QED
  BY DEF Final, At, Ended, Ends, LastOnly, JustResponses

(* The host reads; data and response in one packet become the surplus, and were the   *)
(* last.                                                                              *)
LEMMA FinalReads ==
  ASSUME Types, Types', Flow, Final, GetData \/ GetRest \/ GetResp
  PROVE  Final'
<1>1. PICK k \in 0 .. Len(outq) : outq = SubSeq(outq, 1, k)
  BY Whole
<1>2. /\ cur' = cur /\ outq' = outq /\ reply' = reply
      /\ pc' # "senddata"
      /\ GetData => cur.kind # "close"
  BY DEF GetData, GetRest, GetResp, Return, ReadAborted, Flow, Place
<1>3. CASE \/ TakePacket(<< >>)
           \/ UNCHANGED <<surplus, pipe>>
           \/ surplus' = surplus /\ pipe # << >> /\ pipe' = Tail(pipe)
  <2>1. surplus' \in {surplus, << >>} /\ (pipe' = pipe \/ (pipe # << >> /\ pipe' = Tail(pipe)))
    BY <1>3, Taken
  <2> QED
    BY <1>1, <1>2, <2>1, FinalFewer
<1>4. ASSUME GetData, Incoming # << >>, Next1.rest = "joined",
             TakePacket(<< [Next1 EXCEPT !.type = "resp", !.code = "OK", !.rest = "none"] >>)
      PROVE  Final'
  <2>1. /\ \/ surplus = << >> /\ pipe # << >> /\ pipe' = Tail(pipe) /\ Next1 = Head(pipe)
           \/ surplus # << >> /\ pipe' = pipe /\ Next1 = Head(surplus)
        /\ surplus' = << [Next1 EXCEPT !.type = "resp", !.code = "OK", !.rest = "none"] >>
        /\ Next1 \in Sound
    BY <1>4, Taken, Packet1 DEF Flow, TakePacket, Sound, Issued
  <2>2. Len(surplus') = 1 /\ surplus'[1].n = Next1.n
    BY <2>1 DEF Sound, Packets
  <2>3. ASSUME Ended(surplus)' PROVE pipe' = << >> /\ ~Busy
    <3>1. Next1.n = cur.n
      BY <1>2, <2>2, <2>3 DEF Ended, Ends
    <3>2. Ends(Next1)
      BY <1>4, <3>1 DEF Ends
    <3>3. CASE surplus # << >>
      <4>1. Len(surplus) \in Nat \ {0} /\ Head(surplus) = surplus[1]
        BY <3>3, EmptySeq, HeadTailProperties DEF Types, Wires
      <4>2. Ended(surplus)
        BY <2>1, <3>2, <3>3, <4>1 DEF Ended
      <4> QED
        BY <2>1, <3>3, <4>2 DEF Final
    <3>4. CASE surplus = << >>
      <4>1. /\ Len(pipe) \in Nat \ {0} /\ Head(pipe) = pipe[1] /\ pipe' \in Seq(Sound)
            /\ Len(pipe') = Len(pipe) - 1
        <5>1. pipe # << >> /\ pipe \in Seq(Sound) /\ pipe' = Tail(pipe)
          BY <2>1, <3>4 DEF Types, Wires
        <5>2. Len(pipe) \in Nat \ {0}
          BY <5>1, EmptySeq
        <5> QED
          BY <5>1, <5>2, HeadTailProperties
      <4>2. Ended(pipe) /\ Len(pipe) = 1
        BY <2>1, <3>2, <3>4, <4>1 DEF Ended, Final, LastOnly
      <4>3. pipe' = << >>
        BY <4>1, <4>2, EmptySeq
      <4> QED
        BY <4>2, <4>3 DEF Final
    <3> QED
      BY <3>3, <3>4
  <2> QED
    BY <1>1, <1>2, <1>4, <2>1, <2>3, FinalFewer
<1> QED
  BY <1>3, <1>4 DEF GetData, GetRest, GetResp

(* A cancel, a drain and a crash only take packets away.                              *)
LEMMA FinalCancelling ==
  ASSUME Types, Types', Flow, Final, ReadCancel \/ DevStat \/ Drain \/ CancelReq \/ Opened \/ Crash \/ UNCHANGED vars
  PROVE  Final'
<1>1. PICK k \in 0 .. Len(outq) : outq = SubSeq(outq, 1, k)
  BY Whole
<1>2. /\ cur' = cur
      /\ surplus' \in {surplus, << >>}
      /\ pc' # "senddata" \/ pc' = pc
  BY CancelKeeps DEF ReadCancel, DevStat, Drain, CancelReq, Opened, Crash, vars, host, device, Return
<1>3. \E n \in 0 .. Len(outq) :
         /\ outq' = SubSeq(outq, 1, n) /\ reply' \in {reply, << >>}
         /\ pipe' = pipe \/ (pipe # << >> /\ pipe' = Tail(pipe))
  BY <1>1, CancelKeeps DEF ReadCancel, DevStat, Drain, CancelReq, Opened, Crash, vars, host, device, Return
<1> QED
  BY <1>2, <1>3, FinalFewer

(* No answer is on its way before the command, or its data, is sent.                  *)
LEMMA FinalSends ==
  ASSUME Types, Types', Flow, Final, SendReq \/ SendData
  PROVE  Final'
<1>1. cur' = cur /\ UNCHANGED <<surplus, pipe, reply>> /\ pc \in {"sendreq", "senddata"}
  BY DEF SendReq, SendData, Return
<1>2. ~At(surplus) /\ ~At(pipe) /\ ~At(reply)
  <2>1. CASE pc = "sendreq"
    <3>1. \A p \in Issued : p.n # cur.n
      BY <2>1, KnownNumbers DEF Issued
    <3>2. \A s \in Seq(Issued) : ~At(s)
      BY <3>1, ElementOfSeq DEF At
    <3> QED
      BY <3>2 DEF Flow, Traffic
  <2> QED
    BY <1>1, <2>1 DEF Final
<1>3. ~At(surplus)' /\ ~At(pipe)' /\ ~At(reply)'
  BY <1>1, <1>2 DEF At
<1> QED
  BY <1>3, FinalNone

(* None is for a command that was just begun.                                         *)
LEMMA FinalBegins ==
  ASSUME Types, Types', Flow, Connect \/ OpenReset \/ OpenRetry \/ \E kind, op : Call(kind, op)
  PROVE  Final'
<1>1. /\ cur'.n = cur.n + 1 /\ surplus' \in {surplus, << >>} /\ pipe' \in {pipe, << >>} /\ reply' \in {reply, << >>}
  BY DEF Connect, OpenReset, OpenRetry, Call, OpenSession, Begin, device
<1>2. surplus' \in Seq(Sound) /\ pipe' \in Seq(Sound) /\ reply' \in Seq(Sound)
  BY <1>1 DEF Types, Wires
<1>3. \A p \in Sound : p.n # cur'.n
  BY <1>1, KnownNumbers
<1>4. ~At(surplus)' /\ ~At(pipe)' /\ ~At(reply)'
  BY <1>2, <1>3, ElementOfSeq DEF At
<1> QED
  BY <1>4, FinalNone

(* The command, or the data, the device answers is the last it got of the current one. *)
LEMMA NextCommand ==
  ASSUME Types, Flow, outq # << >>, Head(outq).n = cur.n, Head(outq).kind # "send"
  PROVE  Tail(outq) = << >>
<1>1. outq \in Seq(Orders) /\ Len(outq) \in Nat \ {0} /\ Head(outq) = outq[1]
  BY EmptySeq, HeadTailProperties DEF Types, Wires
<1>2. ASSUME Len(outq) # 1 PROVE FALSE
  <2>0. 1 \in 1 .. Len(outq) /\ 2 \in 1 .. Len(outq)
    <3>1. \A m \in Nat \ {0} : m # 1 => 1 \in 1 .. m /\ 2 \in 1 .. m
      OBVIOUS
    <3> QED
      BY <1>1, <1>2, <3>1
  <2>1. outq[2] \in Orders /\ outq[1] \in Orders
    BY <1>1, <2>0, ElementOfSeq
  <2>2. outq[1].n < outq[2].n
    BY <1>1, <2>0 DEF Flow, InOrder
  <2> QED
    BY <1>1, <2>1, <2>2, KnownNumbers
<1>3. Tail(outq) \in Seq(Orders) /\ Len(Tail(outq)) = 0
  BY <1>1, <1>2, HeadTailProperties
<1> QED
  BY <1>3, EmptySeq

(* Only the last packet of an answer ends it, and that of CloseSession is a response. *)
LEMMA AnswerEnds ==
  ASSUME Types, NEW c \in Orders, NEW r \in Answers(c)
  PROVE  /\ \A i \in 1 .. Len(r) : r[i].type = "resp" \/ r[i].rest = "joined" => i = Len(r)
         /\ \A i \in 1 .. Len(r) : r[i].n = c.n
         /\ c.kind = "close" => \A i \in 1 .. Len(r) : r[i].type = "resp"
<1>1. (\A i \in 1 .. Len(r) : r[i].n = c.n) /\ (c.kind = "close" => Len(r) = 1 /\ r[1].type = "resp")
  BY AnswersTo DEF Answering
<1>2. CASE \E t, code : r = << Response(c, t, code) >>
  <2>1. Len(r) = 1
    BY <1>2, OneResponse
  <2> QED
    BY <1>1, <2>1
<1>3. ASSUME NEW t, NEW code, NEW f \in Wire, r = DataPhase(c, t, code, f)
      PROVE  \A i \in 1 .. Len(r) : r[i].type = "resp" \/ r[i].rest = "joined" => i = Len(r)
  <2> DEFINE d(rest) == Packet("data", c, t, code, rest)
             q(type) == Packet(type, c, t, code, "none")
             x == Response(c, t, "OK")
  <2>1. /\ \A rest : d(rest).type = "data" /\ d(rest).rest = rest
        /\ \A type : q(type).type = type /\ q(type).rest = "none"
    BY DEF Packet
  <2>2. r = CASE f = "plain" -> << d("none"), x >> [] f = "joined" -> << d("joined") >>
             [] f = "exact" -> << d("none"), q("null"), x >>
             [] f = "large" -> << d("payload"), q("payload"), x >>
    BY <1>3 DEF DataPhase
  <2> HIDE DEF d, q, x
  <2>3. CASE f = "plain"
    BY <2>1, <2>2, <2>3
  <2>4. CASE f = "joined"
    BY <2>1, <2>2, <2>4
  <2>5. CASE f = "exact"
    BY <2>1, <2>2, <2>5
  <2>6. CASE f = "large"
    BY <2>1, <2>2, <2>6
  <2> QED
    BY <2>3, <2>4, <2>5, <2>6 DEF Wire
<1>4. (\E t, code : r = << Response(c, t, code) >>) \/ (\E t, code : \E f \in Wire : r = DataPhase(c, t, code, f))
  <2>1. scene.framings \subseteq Wire
    BY ScenarioAssumption DEF Types, DeviceTypes
  <2>2. c.kind \in {"open", "close", "nodata", "get"}
    BY DEF Answers
  <2>3. CASE c.kind = "open"
    BY <2>3 DEF Answers
  <2>4. CASE c.kind = "close"
    BY <2>4 DEF Answers
  <2>5. CASE c.kind = "nodata"
    BY <2>5 DEF Answers
  <2>6. CASE c.kind = "get"
    BY <2>1, <2>6 DEF Answers
  <2> QED
    BY <2>2, <2>3, <2>4, <2>5, <2>6
<1> QED
  BY <1>1, <1>2, <1>3, <1>4

(* The device takes a command and answers.                                            *)
LEMMA FinalTakes ==
  ASSUME Types, Types', Flow, Final, UNCHANGED <<pc, cur, surplus, pipe>>,
         outq # << >>, outq' = Tail(outq),
         \/ reply' = << >>
         \/ /\ Head(outq).kind # "send"
            /\ \A i \in 1 .. Len(reply') : reply'[i].n = Head(outq).n
            /\ \A i \in 1 .. Len(reply') :
                 reply'[i].type = "resp" \/ reply'[i].rest = "joined" => i = Len(reply')
            /\ Head(outq).kind = "close" => \A i \in 1 .. Len(reply') : reply'[i].type = "resp"
  PROVE  Final'
<1>1. ~Ended(surplus) /\ ~Ended(pipe)
  BY DEF Final, Busy
<1>2. /\ ~Ended(surplus)' /\ ~Ended(pipe)' /\ LastOnly(pipe)'
      /\ pc' = "senddata" => ~At(surplus)' /\ ~At(pipe)'
      /\ cur'.kind = "close" => JustResponses(surplus)' /\ JustResponses(pipe)'
  BY <1>1 DEF Final, Ended, Ends, LastOnly, At, JustResponses
<1>3. CASE reply' = << >>
  <2>1. ~Ended(reply)' /\ LastOnly(reply)' /\ ~At(reply)' /\ JustResponses(reply)'
    BY <1>3, EmptySeq DEF Ended, LastOnly, At, JustResponses
  <2> QED
    BY <1>2, <2>1 DEF Final
<1>4. CASE reply' # << >>
  <2>1. Head(outq) \in Queued /\ outq \in Seq(Queued)
    <3>1. outq \in Seq(Queued)
      BY DEF Flow, Traffic
    <3> QED
      BY <3>1, HeadTailProperties
  <2>2. LastOnly(reply)'
    BY <1>4 DEF LastOnly, Ends
  <2>3. CASE Head(outq).n = cur.n
    <3>1. outq' = << >>
      BY <1>4, <2>3, NextCommand
    <3>2. Head(outq).kind = cur.kind \/ (Head(outq).kind = "data" /\ cur.kind = "send")
      BY <2>1, <2>3 DEF Queued
    <3>3. pc # "senddata"
      BY <1>4, <2>1, <2>3 DEF Queued
    <3>4. cur'.kind = "close" => JustResponses(reply)'
      BY <1>4, <3>2 DEF JustResponses
    <3> QED
      BY <1>2, <2>2, <3>1, <3>3, <3>4 DEF Final
  <2>4. CASE Head(outq).n # cur.n
    <3>1. ~At(reply)'
      BY <1>4, <2>4 DEF At
    <3>2. ~Ended(reply)' /\ JustResponses(reply)'
      BY <3>1 DEF At, Ended, Ends, JustResponses
    <3> QED
      BY <1>2, <2>2, <3>1, <3>2 DEF Final
  <2> QED
    BY <2>3, <2>4
<1> QED
  BY <1>3, <1>4

(* It takes a command, ...                                                            *)
LEMMA FinalTakeCommand ==
  ASSUME Types, Types', Flow, Final, TakeCommand
  PROVE  Final'
<1>1. /\ UNCHANGED <<pc, cur, surplus, pipe>> /\ reply = << >> /\ outq # << >> /\ outq' = Tail(outq)
      /\ \/ Head(outq).kind # "send" /\ reply' \in Answers(Head(outq))
         \/ reply' = reply
  BY DEF TakeCommand, host
<1>2. Head(outq) \in Orders
  <2>1. outq \in Seq(Orders)
    BY DEF Types, Wires
  <2> QED
    BY <1>1, <2>1, HeadTailProperties
<1>3. CASE reply' = reply
  BY <1>1, <1>3, FinalTakes
<1>4. CASE Head(outq).kind # "send" /\ reply' \in Answers(Head(outq))
  <2>1. /\ \A i \in 1 .. Len(reply') : reply'[i].type = "resp" \/ reply'[i].rest = "joined" => i = Len(reply')
        /\ \A i \in 1 .. Len(reply') : reply'[i].n = Head(outq).n
        /\ Head(outq).kind = "close" => \A i \in 1 .. Len(reply') : reply'[i].type = "resp"
    BY <1>2, <1>4, AnswerEnds
  <2> QED
    BY <1>1, <1>4, <2>1, FinalTakes
<1> QED
  BY <1>1, <1>3, <1>4

(* ... it takes data, ...                                                             *)
LEMMA FinalTakeData ==
  ASSUME Types, Types', Flow, Final, TakeData
  PROVE  Final'
<1>1. /\ UNCHANGED <<pc, cur, surplus, pipe>> /\ reply = << >> /\ outq # << >> /\ outq' = Tail(outq)
      /\ Head(outq).kind = "data"
      /\ \/ \E t, code : reply' = << Response(Head(outq), t, code) >>
         \/ reply' = reply
  BY DEF TakeData, host
<1>2. CASE reply' = reply
  BY <1>1, <1>2, FinalTakes
<1>3. ASSUME NEW t, NEW code, reply' = << Response(Head(outq), t, code) >>
      PROVE  Final'
  <2>1. Len(reply') = 1 /\ \A i \in 1 .. Len(reply') : reply'[i].n = Head(outq).n
    BY <1>3, OneResponse
  <2>2. \A i \in 1 .. Len(reply') : i = Len(reply')
    BY <2>1
  <2> QED
    BY <1>1, <2>1, <2>2, FinalTakes
<1> QED
  BY <1>1, <1>2, <1>3

(* ... and it sends what it answered.                                                 *)
LEMMA FinalSendPacket ==
  ASSUME Types, Types', Flow, Final, SendPacket
  PROVE  Final'
<1>1. /\ UNCHANGED <<pc, cur, surplus, outq>> /\ reply # << >>
      /\ pipe' = Append(pipe, Head(reply)) /\ reply' = Tail(reply)
  BY DEF SendPacket, host
<1>2. pipe \in Seq(Sound) /\ reply \in Seq(Sound)
  BY DEF Types, Wires
<1>3. /\ Len(pipe) \in Nat /\ Len(reply) \in Nat \ {0} /\ Head(reply) = reply[1] /\ Head(reply) \in Sound
      /\ Len(reply') = Len(reply) - 1 /\ \A i \in 1 .. Len(reply') : reply'[i] = reply[i + 1]
      /\ reply' \in Seq(Sound)
  BY <1>1, <1>2, HeadTailProperties, EmptySeq
<1>4. /\ Len(pipe') = Len(pipe) + 1
      /\ \A i \in 1 .. Len(pipe') : pipe'[i] = IF i <= Len(pipe) THEN pipe[i] ELSE Head(reply)
  BY <1>1, <1>2, <1>3, AppendProperties
<1>5. ~Ended(surplus) /\ ~Ended(pipe)
  BY <1>1 DEF Final, Busy
<1>6. ~Ended(surplus)'
  BY <1>1, <1>5 DEF Ended, Ends
<1>7. \A i \in 1 .. Len(pipe') : Ends(pipe'[i]) => i = Len(pipe') /\ Ends(Head(reply))
  BY <1>1, <1>3, <1>4, <1>5 DEF Ended, Ends
<1>8. Ends(Head(reply)) => outq = << >> /\ reply' = << >>
  <2> SUFFICES ASSUME Ends(Head(reply)) PROVE outq = << >> /\ reply' = << >>
    OBVIOUS
  <2>1. Ended(reply) /\ Len(reply) = 1
    BY <1>3 DEF Ended, Final, LastOnly
  <2>2. Len(reply') = 0
    BY <1>3, <2>1
  <2> QED
    BY <1>3, <2>1, <2>2, EmptySeq DEF Final
<1>9. LastOnly(pipe)' /\ (Ended(pipe)' => ~Busy')
  BY <1>1, <1>7, <1>8 DEF LastOnly, Ended, Busy, Ends
<1>10. LastOnly(reply)' /\ (Ended(reply)' => outq' = << >>)
  <2>1. \A i \in 1 .. Len(reply') : Ends(reply'[i]) => i + 1 = Len(reply) /\ Ended(reply)
    <3> SUFFICES ASSUME NEW i \in 1 .. Len(reply'), Ends(reply'[i])
                 PROVE  i + 1 = Len(reply) /\ Ended(reply)
      OBVIOUS
    <3>1. i + 1 \in 1 .. Len(reply) /\ Ends(reply[i + 1])
      BY <1>3
    <3> QED
      BY <3>1 DEF Ended, Final, LastOnly
  <2>2. \A i \in 1 .. Len(reply') : Ends(reply'[i]) => i = Len(reply')
    BY <1>3, <2>1
  <2>3. LastOnly(reply)'
    BY <1>1, <2>2 DEF LastOnly, Ends
  <2>4. Ended(reply)' => Ended(reply)
    BY <1>1, <2>1 DEF Ended, Ends
  <2> QED
    BY <1>1, <2>3, <2>4 DEF Final
<1>11. /\ ~At(pipe) /\ ~At(reply) => ~At(pipe)' /\ ~At(reply)'
       /\ JustResponses(pipe) /\ JustResponses(reply) => JustResponses(pipe)' /\ JustResponses(reply)'
  BY <1>1, <1>3, <1>4 DEF At, JustResponses
<1>12. (~At(surplus) => ~At(surplus)') /\ (JustResponses(surplus) => JustResponses(surplus)')
  BY <1>1 DEF At, JustResponses
<1> QED
  BY <1>1, <1>6, <1>9, <1>10, <1>11, <1>12 DEF Final

(* The last packet stays the last.                                                    *)
LEMMA FinalNext ==
  ASSUME Types, Types', Flow, Final, [Next]_vars
  PROVE  Final'
BY FinalReads, FinalCancelling, FinalSends, FinalBegins, FinalTakeCommand, FinalTakeData, FinalSendPacket
   DEF Next, Host, Responder

-----------------------------------------------------------------------------
\* A success is over when nothing is on its way.
Clean ==
  pc = "idle" /\ last.n = cur.n /\ last.rc = "OK" /\ last.kind \in Work /\ Tame => Quiet

(* So when ptp_transaction_new takes the response to its command nothing else is left, *)
(* and nothing comes until the next one.                                              *)
LEMMA CleanNext ==
  ASSUME Types, Types', Flow, Session, Results, Final, Clean, [Next]_vars
  PROVE  Clean'
<1>1. spent.connects \in Nat /\ spent'.connects \in Nat /\ spent.connects <= spent'.connects /\ scene' = scene
  BY SpentGrows
<1> SUFFICES ASSUME pc' = "idle", last'.n = cur'.n, last'.rc = "OK", last'.kind \in Work, Tame'
             PROVE  Quiet'
  BY DEF Clean
<1>2. Tame
  BY <1>1 DEF Tame, broken
<1>3. CASE SendReq \/ SendData \/ GetData \/ GetRest \/ ReadCancel \/ DevStat \/ Drain \/ CancelReq
  <2>1. pc # "idle" /\ pc # "opened" /\ cur' = cur
    BY <1>3 DEF SendReq, SendData, GetData, GetRest, ReadCancel, DevStat, Drain, CancelReq, Return
  <2>2. last.n < cur.n /\ cur.n \in Nat /\ last.n \in Nat
    BY <2>1 DEF Results, Types, HostTypes, Serials
  <2>3. last' = last
    BY <1>3 DEF SendReq, SendData, GetData, GetRest, ReadCancel, DevStat, Drain, CancelReq, Return, TimeoutCode, Early
  <2> QED
    BY <2>1, <2>2, <2>3
<1>4. CASE GetResp
  <2>1. pc = "getresp" /\ cur' = cur /\ last.n < cur.n /\ cur.n \in Nat /\ last.n \in Nat
        /\ UNCHANGED <<reply, outq>>
    BY <1>4 DEF GetResp, Return, Results, Types, HostTypes, Serials
  <2>2. Incoming # << >> /\ TakePacket(<< >>) /\ ~Junk /\ ~Refused /\ ~Old /\ ~Future /\ cur.kind \in Work
    BY <1>4, <2>1 DEF GetResp, Return, Refused, TakePacket
  <2>3. Ends(Next1) /\ Len(surplus) <= 1
    BY <1>2, <2>1, <2>2, OwnSuccess DEF Ends, Junk, Flow, Place
  <2>4. surplus' = << >>
    BY <2>2 DEF TakePacket
  <2>5. pipe' = << >> /\ ~Busy
    <3>1. \/ surplus = << >> /\ pipe # << >> /\ pipe' = Tail(pipe) /\ Next1 = Head(pipe)
          \/ surplus # << >> /\ pipe' = pipe /\ Next1 = Head(surplus)
      BY <2>2, Packet1, Taken DEF Flow
    <3>2. surplus \in Seq(Sound) /\ pipe \in Seq(Sound)
      BY DEF Types, Wires
    <3>3. CASE surplus # << >>
      <4>1. Len(surplus) \in Nat \ {0} /\ Head(surplus) = surplus[1]
        BY <3>2, <3>3, EmptySeq, HeadTailProperties
      <4>2. Ended(surplus)
        BY <2>3, <3>1, <3>3, <4>1 DEF Ended
      <4> QED
        BY <3>1, <3>3, <4>2 DEF Final
    <3>4. CASE surplus = << >>
      <4>1. pipe # << >> /\ pipe' = Tail(pipe) /\ Next1 = Head(pipe)
        BY <3>1, <3>4
      <4>2. Len(pipe) \in Nat \ {0}
        BY <3>2, <4>1, EmptySeq
      <4>3. Head(pipe) = pipe[1] /\ pipe' \in Seq(Sound) /\ Len(pipe') = Len(pipe) - 1
        BY <3>2, <4>1, <4>2, HeadTailProperties
      <4>4. Ended(pipe) /\ Len(pipe) = 1
        <5>1. 1 \in 1 .. Len(pipe) /\ Ends(pipe[1])
          BY <2>3, <4>1, <4>2, <4>3
        <5> QED
          BY <5>1 DEF Ended, Final, LastOnly
      <4>5. pipe' = << >>
        BY <4>3, <4>4, EmptySeq
      <4> QED
        BY <4>4, <4>5 DEF Final
    <3> QED
      BY <3>3, <3>4
  <2>6. << >> \o << >> = << >>
    BY ConcatEmptySeq, EmptySeq
  <2>7. Incoming' = << >>
    BY <2>4, <2>5, <2>6 DEF Incoming
  <2> QED
    BY <2>1, <2>5, <2>7 DEF Quiet, Busy
<1>5. CASE Connect \/ OpenReset \/ OpenRetry \/ \E kind, op : Call(kind, op)
  BY <1>5 DEF Connect, OpenReset, OpenRetry, Call, OpenSession, Begin
<1>6. CASE Opened
  BY <1>6 DEF Opened, Results, Work
<1>7. CASE Crash
  <2>1. last' = last /\ cur' = cur /\ surplus' = << >> /\ UNCHANGED <<pipe, outq, reply>>
    BY <1>7 DEF Crash, device
  <2>2. pc = "idle"
    <3>1. last.n = cur.n /\ cur.n \in Nat
      BY <2>1 DEF Types, HostTypes
    <3>2. pc # "opened"
      BY <2>1 DEF Results, Work
    <3> QED
      BY <3>1, <3>2 DEF Results
  <2>3. Quiet
    BY <1>2, <2>1, <2>2 DEF Clean
  <2>4. surplus = << >> /\ pipe = << >>
    BY <2>3, Reading DEF Quiet
  <2>5. Incoming' = Incoming
    BY <2>1, <2>4 DEF Incoming
  <2> QED
    BY <2>1, <2>3, <2>5 DEF Quiet, Busy
<1>8. CASE Responder
  <2>1. Busy /\ UNCHANGED <<pc, cur, last>>
    BY <1>8 DEF Responder, TakeCommand, TakeData, SendPacket, Busy, host
  <2> QED
    BY <1>2, <2>1 DEF Clean, Quiet
<1>9. CASE UNCHANGED vars
  BY <1>2, <1>9 DEF Clean, Quiet, Busy, Incoming, vars, host, device
<1> QED
  BY <1>3, <1>4, <1>5, <1>6, <1>7, <1>8, <1>9 DEF Next, Host

-----------------------------------------------------------------------------
\* One cancel, and nothing else, went wrong.
Once == spent.timeouts = 0 /\ spent.early = 0 /\ spent.crashes = 0 /\ spent.cancels = 1
Halting ==
  Once =>
    /\ pc = "readcancel" => outq = << >> /\ \A i \in 1 .. Len(reply) : reply[i].n = cur.n
    /\ pc \in {"devstat", "drain"} => ~Busy
    /\ pc = "cancelreq" /\ cur.kind = "get" /\ scene.port = "usb1" => pipe = << >> /\ ~Busy
    /\ pc = "cancelreq" /\ cur.kind = "send" => pipe = << >> /\ reply = << >> /\ outq \in {<< >>, << cur >>}
    /\ pc = "idle" /\ last.n = cur.n /\ last.rc = "CANCEL" /\ (scene.port = "usb1" \/ last.kind = "send")
         => pipe = << >> /\ ~Busy

(* Before its first cancel a run had no faults, and nothing but that cancel happens.  *)
LEMMA OnceSpends ==
  ASSUME Types, Types', Once'
  PROVE  /\ ~Fault /\ ~Early /\ ~Spend("crashes")
         /\ TimedOut => ~Busy /\ UNCHANGED spent
         /\ Abort => Faultless
         /\ UNCHANGED spent => Once
<1>1. \A what \in {"timeouts", "cancels", "early", "crashes"} : spent[what] \in Nat /\ spent'[what] \in Nat
  BY Counted
<1>2. ASSUME NEW w \in {"timeouts", "cancels", "early", "crashes"}, Spend(w)
      PROVE  w = "cancels" /\ Faultless
  <2>1. \A what \in {"timeouts", "cancels", "early", "crashes"} :
           spent'[what] = IF what = w THEN spent[what] + 1 ELSE spent[what]
    BY <1>2 DEF Spend, Types, Limits
  <2>2. spent'[w] = spent[w] + 1 /\ spent'[w] # 0
    BY <1>1, <1>2, <2>1
  <2>3. w = "cancels"
    BY <1>2, <2>2 DEF Once
  <2>4. spent.cancels = 0 /\ spent.timeouts = 0 /\ spent.early = 0 /\ spent.crashes = 0
    BY <1>1, <2>1, <2>3 DEF Once
  <2> QED
    BY <2>3, <2>4 DEF Faultless
<1>3. UNCHANGED spent => Once
  BY DEF Once
<1> QED
  BY <1>2, <1>3 DEF Fault, Early, TimedOut, Abort

(* When all that is coming is of the current command, so is all the device still has to *)
(* send.                                                                              *)
LEMMA ReplyWithin ==
  ASSUME Types, Flow, \A i \in 1 .. Len(Coming) : Coming[i].n = cur.n
  PROVE  \A i \in 1 .. Len(reply) : reply[i].n = cur.n
<1>1. surplus \in Seq(Sound) /\ pipe \in Seq(Sound) /\ reply \in Seq(Sound)
  BY DEF Types, Wires
<1>2. Incoming \in Seq(Sound) /\ Len(Incoming) \in Nat /\ Len(reply) \in Nat
  BY <1>1, ConcatProperties DEF Incoming
<1>3. /\ Len(Coming) = Len(Incoming) + Len(reply)
      /\ \A i \in 1 .. Len(Incoming) + Len(reply) :
           Coming[i] = IF i <= Len(Incoming) THEN Incoming[i] ELSE reply[i - Len(Incoming)]
  BY <1>1, <1>2, ConcatProperties DEF Coming
<1> SUFFICES ASSUME NEW i \in 1 .. Len(reply) PROVE reply[i].n = cur.n
  OBVIOUS
<1>4. /\ i + Len(Incoming) \in 1 .. Len(Incoming) + Len(reply) /\ ~(i + Len(Incoming) <= Len(Incoming))
      /\ (i + Len(Incoming)) - Len(Incoming) = i
  BY <1>2
<1> QED
  BY <1>3, <1>4

(* Where the first cancel of a transfer finds the device.                             *)
LEMMA HaltingStarts ==
  ASSUME Types, Types', Flow, Order, Once', Abort, SendData \/ GetData \/ GetRest
  PROVE  Halting'
<1> USE DEF Order
<1>1. cur' = cur /\ scene' = scene /\ reply' = reply /\ (~SendData => outq' = outq)
  BY DEF SendData, GetData, GetRest, Return
<1>2. spent' # spent
  <2>1. spent.cancels \in Nat /\ spent'.cancels = spent.cancels + 1
    BY Counted DEF Abort, Spend, Types, Limits
  <2> QED
    BY <2>1
<1>3. CASE SendData
  <2>1. pc = "senddata" /\ cur.kind = "send" /\ ~Fault
    BY <1>3, OnceSpends DEF SendData, Flow, Place
  <2>2. pc' = "cancelreq" /\ UNCHANGED <<outq, pipe, reply>>
    BY <1>2, <1>3, <2>1 DEF SendData
  <2>3. Coming = << >> /\ outq \in {<< >>, << cur >>}
    BY <2>1 DEF Course, Sending
  <2>4. pipe = << >> /\ reply = << >>
    BY <2>3, Reading
  <2> QED
    BY <1>1, <2>1, <2>2, <2>3, <2>4 DEF Halting
<1>4. CASE GetData \/ GetRest
  <2>1. cur.kind = "get" /\ pc \in {"getdata", "getrest"} /\ (pc = "getdata" <=> GetData)
    BY <1>4 DEF GetData, GetRest, Flow, Place
  <2>2. pc' = ReadAborted
    BY <1>2, <1>4, OnceSpends DEF GetData, GetRest, NoPacket, Early
  <2>3. outq = << >> /\ \A i \in 1 .. Len(Coming) : Coming[i].n = cur.n
    <3>1. CASE GetRest
      <4>1. PICK q \in Sound, p \in Sound : Success(p) /\ q.n = cur.n /\ Coming = << q, p >> /\ outq = << >>
        BY <2>1, <3>1 DEF Course, AfterHeader, GetRest
      <4> QED
        BY <4>1 DEF Success
    <3>2. CASE GetData
      <4>1. Incoming # << >> /\ Next1.type = "data"
        BY <1>2, <3>2, OnceSpends DEF GetData, NoPacket, Early
      <4>2. Coming # << >> /\ Head(Coming).type = "data"
        BY <4>1, Reading
      <4>3. \A code : ~Answered(code)
        <5> SUFFICES ASSUME NEW code, Answered(code) PROVE FALSE
          OBVIOUS
        <5>1. PICK t : Coming = << Response(cur, t, code) >>
          BY DEF Answered
        <5>2. Head(Coming).type = "resp"
          BY <5>1 DEF Response, Packet
        <5> QED
          BY <4>2, <5>2
      <4>4. WithData
        BY <2>1, <3>2, <4>2, <4>3 DEF Course, Untaken
      <4>5. PICK t \in Tids(cur), code \in Codes(cur), f \in Wire : Coming = DataPhase(cur, t, code, f)
        BY <4>4 DEF WithData
      <4> QED
        BY <4>4, <4>5, DataThenResponse DEF WithData
    <3> QED
      BY <1>4, <3>1, <3>2
  <2>4. \A i \in 1 .. Len(reply) : reply[i].n = cur.n
    BY <2>3, ReplyWithin
  <2>5. outq' = << >> /\ reply' = reply
    BY <1>1, <1>4, <2>1, <2>3 DEF SendData
  <2> QED
    BY <1>1, <2>1, <2>2, <2>4, <2>5 DEF Halting, ReadAborted
<1> QED
  BY <1>3, <1>4

(* ptp_read_cancel_func and the cancel request of ptp_transaction_new stop the device, *)
(* and drain the pipe.                                                                *)
LEMMA HaltingCancels ==
  ASSUME Types, Types', Flow, Halting, Once', ReadCancel \/ DevStat \/ Drain \/ CancelReq
  PROVE  Halting'
<1>1. cur' = cur /\ scene' = scene /\ UNCHANGED spent /\ Once
  <2>1. UNCHANGED spent
    BY OnceSpends DEF ReadCancel, DevStat, Drain, CancelReq
  <2> QED
    BY <2>1, OnceSpends, CancelKeeps DEF ReadCancel, DevStat, Drain, CancelReq, Return, device
<1>2. CASE ReadCancel
  <2>1. CancelAtDevice /\ pc' = "devstat" /\ outq = << >> /\ \A i \in 1 .. Len(reply) : reply[i].n = cur.n
    BY <1>1, <1>2, OnceSpends DEF ReadCancel, Halting
  <2>2. outq' = << >>
    <3>1. outq' \in Seq(Orders) /\ Len(outq') \in 0 .. Len(outq)
      BY <2>1, CancelKeeps
    <3>2. Len(outq) = 0
      BY <2>1, EmptySeq
    <3> QED
      BY <3>1, <3>2, EmptySeq
  <2>3. reply' = << >>
    <3>1. ASSUME reply # << >> PROVE Head(reply).n = cur.n
      <4>1. Len(reply) \in Nat \ {0} /\ Head(reply) = reply[1]
        BY <3>1, EmptySeq, HeadTailProperties DEF Types, Wires
      <4> QED
        BY <2>1, <4>1
    <3> QED
      BY <2>1, <3>1 DEF CancelAtDevice
  <2> QED
    BY <2>1, <2>2, <2>3 DEF Halting, Busy
<1>3. CASE DevStat
  BY <1>1, <1>3, OnceSpends DEF DevStat, Halting, Busy, device
<1>4. CASE Drain
  BY <1>1, <1>4, OnceSpends DEF Drain, Halting, Busy
<1>5. CASE CancelReq
  <2>1. CancelAtDevice /\ pc = "cancelreq" /\ pc' = "idle" /\ last'.kind = cur.kind /\ pipe' = pipe
        /\ cur.kind \in {"get", "send"}
    BY <1>5, OnceSpends, CancelKeeps DEF CancelReq, Return, Flow, Place
  <2>2. ASSUME scene.port = "usb1" \/ cur.kind = "send"
        PROVE  pipe = << >> /\ reply = << >> /\ outq \in {<< >>, << cur >>}
    BY <1>1, <2>1, <2>2 DEF Halting, Busy
  <2>3. ASSUME scene.port = "usb1" \/ cur.kind = "send"
        PROVE  pipe' = << >> /\ ~Busy'
    <3>1. reply' = << >>
      BY <2>1, <2>2, <2>3, CancelKeeps
    <3>2. /\ outq' \in Seq(Orders) /\ Len(outq') \in 0 .. Len(outq)
          /\ \A i \in 1 .. Len(outq') : outq[i].n # cur.n
      BY <2>1, CancelKeeps
    <3>3. Len(outq') = 0
      <4>1. CASE outq = << >>
        BY <3>2, <4>1, EmptySeq
      <4>2. CASE outq = << cur >>
        BY <3>2, <4>2
      <4> QED
        BY <2>2, <2>3, <4>1, <4>2
    <3> QED
      BY <2>1, <2>2, <2>3, <3>1, <3>2, <3>3, EmptySeq DEF Busy
  <2> QED
    BY <1>1, <2>1, <2>3 DEF Halting
<1> QED
  BY <1>2, <1>3, <1>4, <1>5

(* The device goes on meanwhile.                                                      *)
LEMMA HaltingResponder ==
  ASSUME Types, Types', Flow, Halting, Once', Responder
  PROVE  Halting'
<1>1. /\ UNCHANGED <<pc, cur, last, scene, spent>> /\ Busy /\ Once
  BY OnceSpends DEF Responder, TakeCommand, TakeData, SendPacket, Busy, host
<1>2. pc = "readcancel" => outq' = << >> /\ \A i \in 1 .. Len(reply') : reply'[i].n = cur.n
  <2> SUFFICES ASSUME pc = "readcancel" PROVE outq' = << >> /\ \A i \in 1 .. Len(reply') : reply'[i].n = cur.n
    OBVIOUS
  <2>1. outq = << >> /\ \A i \in 1 .. Len(reply) : reply[i].n = cur.n
    BY <1>1 DEF Halting
  <2>2. reply # << >> /\ reply' = Tail(reply) /\ outq' = outq
    BY <2>1 DEF Responder, TakeCommand, TakeData, SendPacket
  <2>3. Len(reply) \in Nat \ {0} /\ Len(reply') = Len(reply) - 1 /\ \A i \in 1 .. Len(reply') : reply'[i] = reply[i + 1]
    BY <2>2, EmptySeq, HeadTailProperties DEF Types, Wires
  <2> QED
    BY <2>1, <2>2, <2>3
<1>3. pc = "cancelreq" /\ cur.kind = "send" => pipe' = << >> /\ reply' = << >> /\ outq' = << >>
  <2> SUFFICES ASSUME pc = "cancelreq", cur.kind = "send" PROVE pipe' = << >> /\ reply' = << >> /\ outq' = << >>
    OBVIOUS
  <2>1. pipe = << >> /\ reply = << >> /\ outq = << cur >>
    BY <1>1 DEF Halting, Busy
  <2>2. Head(outq) = cur /\ Tail(outq) = << >>
    BY <2>1, CurrentOrder, Tuples
  <2>3. TakeCommand
    BY <2>1, <2>2 DEF Responder, TakeData, SendPacket
  <2> QED
    BY <2>1, <2>2, <2>3 DEF TakeCommand
<1> QED
  BY <1>1, <1>2, <1>3 DEF Halting

(* After the first cancel the device has nothing left to go on with.                  *)
LEMMA HaltingNext ==
  ASSUME Types, Types', Flow, Results, Orderly, Halting, [Next]_vars
  PROVE  Halting'
<1> SUFFICES ASSUME Once' PROVE Halting'
  BY DEF Halting
<1>1. CASE SendReq \/ Connect \/ OpenReset \/ OpenRetry \/ Crash \/ \E kind, op : Call(kind, op)
  BY <1>1, OnceSpends DEF SendReq, Connect, OpenReset, OpenRetry, Crash, Call, OpenSession, Begin, Halting
<1>2. CASE SendData \/ GetData \/ GetRest
  <2>1. CASE Abort
    BY <1>2, <2>1, HaltingStarts, OnceSpends DEF Orderly
  <2>2. CASE ~Abort
    <3>1. \/ pc' \in {"getrest", "getresp"}
          \/ pc' \in {"idle", "opened"} /\ last'.rc # "CANCEL"
      BY <1>2, <2>2, OnceSpends DEF SendData, GetData, GetRest, Return, TimeoutCode
    <3> QED
      BY <3>1 DEF Halting
  <2> QED
    BY <2>1, <2>2
<1>3. CASE GetResp
  <2>1. Incoming # << >> /\ Refused => Next1.code \in Errors
    BY NextPacket DEF Types, Wires, Refused, Junk, Sound
  <2>2. "CANCEL" \notin Errors
    BY RefusalAssumption DEF Errors, HostErrors
  <2>3. pc' = "getresp" \/ (pc' \in {"idle", "opened"} /\ last'.rc # "CANCEL")
    BY <1>3, <2>1, <2>2 DEF GetResp, Return, TakePacket
  <2> QED
    BY <2>3 DEF Halting
<1>4. CASE ReadCancel \/ DevStat \/ Drain \/ CancelReq
  BY <1>4, HaltingCancels
<1>5. CASE Opened
  <2>1. last.kind = "open" /\ last' = last /\ pc' = "idle"
    BY <1>5 DEF Opened, Results
  <2> QED
    BY <2>1 DEF Halting, Results
<1>6. CASE Responder
  BY <1>6, HaltingResponder
<1>7. CASE UNCHANGED vars
  BY <1>7 DEF vars, host, device, Halting, Once, Busy
<1> QED
  BY <1>1, <1>2, <1>3, <1>4, <1>5, <1>6, <1>7 DEF Next, Host

Over == Final /\ Clean /\ Halting

(* The three of them always hold.                                                     *)
THEOREM OverAlways == (Spec => []Over) /\ (PortsSpec => []Over)
<1>1. Init => Over
  <2>1. Init => Clean /\ Halting
    BY DEF Init, NoResult, NoCommand, Clean, Halting, Work
  <2> QED
    BY <2>1, FinalInit DEF Over
<1>2. ASSUME Types, Types', Flow, Session, Results, Orderly, Over, [Next]_vars
      PROVE  Over'
  BY <1>2, FinalNext, CleanNext, HaltingNext DEF Over
<1>3. [AnyPort]_vars => [Next]_vars
  BY PortsAreSteps
<1> QED
  BY <1>1, <1>2, <1>3, TypesAlways, FlowAlways, SessionAlways, OrderAlways, PTL DEF Spec, PortsSpec

(* LeavesNothing, with at most two connections: the pipe is clean when a transaction  *)
(* is over.                                                                           *)
THEOREM NothingIsLeft ==
  ASSUME \A sc \in Scenarios : sc.max.connects <= 2
  PROVE  (Spec => []LeavesNothing) /\ (PortsSpec => []LeavesNothing)
<1>1. ASSUME Types, Flow, Orderly, Over PROVE LeavesNothing
  <2> SUFFICES ASSUME pc = "idle" PROVE LeavesNothing
    BY DEF LeavesNothing
  <2>1. Faultless => Quiet
    <3> SUFFICES ASSUME Faultless PROVE Quiet
      OBVIOUS
    <3>1. outq = << >> /\ Coming = << >>
      BY <1>1 DEF Orderly, Order, Course
    <3> QED
      BY <1>1, <3>1, Reading DEF Quiet, Busy
  <2>2. last.n = cur.n /\ last.rc = "OK" /\ last.kind \in Work /\ ~broken => Quiet
    BY <1>1, TwoConnections DEF Over, Clean, Tame
  <2>3. last.n = cur.n /\ last.rc = "CANCEL" /\ (scene.port = "usb1" \/ last.kind = "send") /\ Once
          => pipe = << >> /\ ~Busy
    BY <1>1 DEF Over, Halting
  <2> QED
    BY <2>1, <2>2, <2>3 DEF LeavesNothing, Once
<1> QED
  BY <1>1, TypesAlways, FlowAlways, OrderAlways, OverAlways, PTL

-----------------------------------------------------------------------------
(* What is left of a sequence when its first packet is gone.                          *)
LEMMA AtTail ==
  ASSUME NEW S, NEW s \in Seq(S), s # << >>
  PROVE  /\ Head(s).n # cur.n /\ At(s) => At(Tail(s))
         /\ At(s) => Head(s).n = cur.n \/ At(Tail(s))
<1>1. /\ Len(s) \in Nat /\ Head(s) = s[1] /\ Len(Tail(s)) = Len(s) - 1
      /\ \A i \in 1 .. Len(Tail(s)) : Tail(s)[i] = s[i + 1]
  BY HeadTailProperties, LenProperties
<1>2. ASSUME NEW i \in 1 .. Len(s), s[i].n = cur.n, Head(s).n # cur.n
      PROVE  At(Tail(s))
  <2>1. i # 1
    BY <1>1, <1>2
  <2>2. i - 1 \in 1 .. Len(Tail(s)) /\ Tail(s)[i - 1] = s[i - 1 + 1] /\ i - 1 + 1 = i
    BY <1>1, <2>1
  <2> QED
    BY <1>2, <2>2 DEF At
<1> QED
  BY <1>2 DEF At

(* A sequence with one packet more.                                                   *)
LEMMA AtAppend ==
  ASSUME NEW S, NEW s \in Seq(S), NEW x \in S
  PROVE  At(s) \/ x.n = cur.n => At(Append(s, x))
<1>1. /\ Len(s) \in Nat /\ Len(Append(s, x)) = Len(s) + 1 /\ Append(s, x)[Len(s) + 1] = x
      /\ \A i \in 1 .. Len(s) : Append(s, x)[i] = s[i]
  BY AppendProperties, LenProperties
<1> QED
  BY <1>1 DEF At

(* The elements of a sequence with one more.                                          *)
LEMMA AppendCases ==
  ASSUME NEW S, NEW s \in Seq(S), NEW x \in S
  PROVE  \A i \in 1 .. Len(Append(s, x)) :
           Append(s, x)[i] = x \/ \E j \in 1 .. Len(s) : Append(s, x)[i] = s[j]
<1>1. /\ Len(s) \in Nat /\ Len(Append(s, x)) = Len(s) + 1 /\ Append(s, x)[Len(s) + 1] = x
      /\ \A i \in 1 .. Len(s) : Append(s, x)[i] = s[i]
  BY AppendProperties, LenProperties
<1>2. \A i \in 1 .. Len(s) + 1 : i \in 1 .. Len(s) \/ i = Len(s) + 1
  BY <1>1
<1> QED
  BY <1>1, <1>2

\* CloseSession, once sent, will be answered.
Closing == cur.kind = "close" /\ pc = "getresp" => At(surplus) \/ At(pipe) \/ At(reply) \/ At(outq)

(* CloseSession, once sent, will be answered: the host takes no packet of its answer  *)
(* without noticing it, and the device loses none.                                    *)
LEMMA ClosingNext ==
  ASSUME Types, Types', Flow, Final, Closing, [Next]_vars
  PROVE  Closing'
<1> SUFFICES ASSUME cur'.kind = "close", pc' = "getresp"
             PROVE  (At(surplus) \/ At(pipe) \/ At(reply) \/ At(outq))'
  BY DEF Closing
<1>1. surplus \in Seq(Sound) /\ pipe \in Seq(Sound) /\ reply \in Seq(Sound) /\ outq \in Seq(Orders)
  BY DEF Types, Wires
<1>2. CASE SendReq
  <2>1. outq' = Append(outq, cur) /\ cur' = cur
    BY <1>2 DEF SendReq, Return
  <2>2. At(Append(outq, cur))
    BY <1>1, CurrentOrder, AtAppend
  <2> QED
    BY <2>1, <2>2 DEF At
<1>3. CASE GetResp
  <2>1. cur.kind = "close" /\ pc = "getresp" /\ TakePacket(<< >>) /\ Junk /\ UNCHANGED <<cur, reply, outq>>
    BY <1>3 DEF GetResp, Return, Old, Leftover
  <2>2. /\ \/ surplus = << >> /\ pipe # << >> /\ Next1 = Head(pipe) /\ pipe' = Tail(pipe)
           \/ surplus # << >> /\ Next1 = Head(surplus) /\ pipe' = pipe
        /\ JustResponses(surplus) /\ JustResponses(pipe) /\ Len(surplus) <= 1
    BY <2>1, Taken, Packet1 DEF Flow, Place, TakePacket, Final
  <2>3. CASE surplus = << >>
    <3>1. Len(pipe) \in Nat \ {0}
      BY <1>1, <2>2, <2>3, EmptySeq
    <3>2. Head(pipe) = pipe[1] /\ 1 \in 1 .. Len(pipe)
      BY <1>1, <2>2, <2>3, <3>1, HeadTailProperties
    <3>3. Head(pipe).n # cur.n
      BY <2>1, <2>2, <2>3, <3>2 DEF JustResponses, Junk
    <3>4. At(pipe) => At(Tail(pipe))
      BY <1>1, <2>2, <2>3, <3>3, AtTail
    <3>5. ~At(surplus)
      BY <2>3, EmptySeq DEF At
    <3> QED
      BY <2>1, <2>2, <2>3, <3>4, <3>5 DEF Closing, At
  <2>4. CASE surplus # << >>
    <3>1. Len(surplus) \in Nat \ {0}
      BY <1>1, <2>4, EmptySeq
    <3>2. Head(surplus) = surplus[1] /\ Len(surplus) = 1
      <4>1. \A m \in Nat \ {0} : m <= 1 => m = 1
        OBVIOUS
      <4>2. Len(surplus) = 1
        BY <2>2, <3>1, <4>1
      <4> QED
        BY <1>1, <2>4, <3>1, <4>2, HeadTailProperties
    <3>3. ~At(surplus)
      BY <2>1, <2>2, <2>4, <3>2 DEF JustResponses, Junk, At
    <3> QED
      BY <2>1, <2>2, <2>4, <3>3 DEF Closing, At
  <2> QED
    BY <2>3, <2>4
<1>4. CASE \/ SendData \/ GetData \/ GetRest \/ ReadCancel \/ DevStat \/ Drain \/ CancelReq
           \/ OpenReset \/ OpenRetry \/ Opened \/ Connect \/ Crash \/ \E kind, op : Call(kind, op)
  BY <1>4 DEF SendData, GetData, GetRest, ReadCancel, DevStat, Drain, CancelReq, OpenReset,
     OpenRetry, OpenSession, Begin, Opened, Connect, Crash, Call, Return, Flow, Place
<1>5. CASE UNCHANGED vars
  BY <1>5 DEF vars, host, device, Closing, At
<1>6. CASE Responder
  <2>1. UNCHANGED <<pc, cur, surplus>> /\ cur.kind = "close" /\ pc = "getresp"
    BY <1>6 DEF Responder, TakeCommand, TakeData, SendPacket, host
  <2>2. At(surplus) \/ At(pipe) \/ At(reply) \/ At(outq)
    BY <2>1 DEF Closing
  <2>3. CASE TakeCommand \/ TakeData
    <3>1. reply = << >> /\ outq # << >> /\ outq' = Tail(outq) /\ pipe' = pipe
      BY <2>3 DEF TakeCommand, TakeData
    <3>2. ~At(reply)
      BY <3>1, EmptySeq DEF At
    <3>3. CASE Head(outq).n # cur.n
      <4>1. At(outq) => At(Tail(outq))
        BY <1>1, <3>1, <3>3, AtTail
      <4> QED
        BY <2>1, <2>2, <3>1, <3>2, <4>1 DEF At
    <3>4. CASE Head(outq).n = cur.n
      <4>1. Head(outq) \in Queued
        <5>1. outq \in Seq(Queued)
          BY DEF Flow, Traffic
        <5> QED
          BY <3>1, <5>1, HeadTailProperties
      <4>2. Head(outq).kind = "close" /\ Head(outq) \in Orders
        BY <2>1, <3>4, <4>1 DEF Queued
      <4>3. reply' \in Answers(Head(outq))
        BY <2>3, <4>2 DEF TakeCommand, TakeData
      <4>4. Answering(Head(outq), reply')
        BY <4>2, <4>3, AnswersTo
      <4>5. Len(reply') = 1 /\ 1 \in 1 .. Len(reply') /\ reply'[1].n = Head(outq).n
        BY <4>2, <4>4 DEF Answering
      <4> QED
        BY <2>1, <3>4, <4>5 DEF At
    <3> QED
      BY <3>3, <3>4
  <2>4. CASE SendPacket
    <3>1. /\ reply # << >> /\ reply' = Tail(reply) /\ pipe' = Append(pipe, Head(reply)) /\ outq' = outq
      BY <2>4 DEF SendPacket
    <3>2. At(reply) => Head(reply).n = cur.n \/ At(Tail(reply))
      BY <1>1, <3>1, AtTail
    <3>3. At(pipe) \/ Head(reply).n = cur.n => At(Append(pipe, Head(reply)))
      <4>1. Head(reply) \in Sound
        BY <1>1, <3>1, HeadTailProperties
      <4> QED
        BY <1>1, <4>1, AtAppend
    <3> QED
      BY <2>1, <2>2, <3>1, <3>2, <3>3 DEF At
  <2> QED
    BY <1>6, <2>3, <2>4 DEF Responder
<1> QED
  BY <1>2, <1>3, <1>4, <1>5, <1>6 DEF Next, Host

-----------------------------------------------------------------------------
\* The device has a session open, or will have once it took the commands sent to it.
ToOpen ==
  /\ \A i \in 1 .. Len(outq) : outq[i].kind = "close" =>
        \E j \in 1 .. Len(outq) : i < j /\ outq[j].kind = "open"
  /\ session \/ \E j \in 1 .. Len(outq) : outq[j].kind = "open"
KeptOpen ==
  spent.timeouts = 0 /\ scene.opening = {"OK"} =>
    ((Opening /\ pc # "sendreq") \/ (conn = "up" /\ (cur.kind = "close" => pc = "sendreq")) => ToOpen)

(* Sending anything but CloseSession.                                                 *)
LEMMA ToOpenSends ==
  ASSUME Types, NEW c \in Orders, c.kind # "close", c.kind = "open" \/ ToOpen,
         outq' = Append(outq, c), session' = session
  PROVE  ToOpen'
<1>1. /\ Len(outq) \in Nat /\ Len(outq') = Len(outq) + 1 /\ outq'[Len(outq) + 1] = c
      /\ \A i \in 1 .. Len(outq) : outq'[i] = outq[i]
  BY AppendProperties, LenProperties DEF Types, Wires
<1>2. \A i \in 1 .. Len(outq') : i \in 1 .. Len(outq) \/ i = Len(outq) + 1
  BY <1>1
<1>3. Len(outq) + 1 \in 1 .. Len(outq') /\ \A i \in 1 .. Len(outq) : i < Len(outq) + 1 /\ i \in 1 .. Len(outq')
  BY <1>1
<1>4. CASE c.kind = "open"
  BY <1>1, <1>2, <1>3, <1>4 DEF ToOpen
<1>5. CASE ToOpen
  BY <1>1, <1>2, <1>3, <1>5 DEF ToOpen
<1> QED
  BY <1>4, <1>5

(* A device that opens a session whenever it has none takes a command.                *)
LEMMA ToOpenTakes ==
  ASSUME Types, Types', ToOpen, scene.opening = {"OK"}, TakeCommand \/ TakeData
  PROVE  ToOpen'
<1> DEFINE c == Head(outq)
<1>1. /\ outq # << >> /\ outq' = Tail(outq)
      /\ session' = IF c.kind = "open" THEN TRUE ELSE IF c.kind = "close" THEN FALSE ELSE session
  <2>1. outq # << >> /\ outq' = Tail(outq)
    BY DEF TakeCommand, TakeData
  <2>2. CASE TakeData
    BY <2>2 DEF TakeData
  <2>3. CASE TakeCommand /\ c.kind = "send"
    BY <2>3 DEF TakeCommand
  <2>4. CASE TakeCommand /\ c.kind # "send"
    <3>1. /\ reply' \in Answers(c)
          /\ session' = IF c.kind = "open" /\ reply'[1].code = "OK" THEN TRUE
                        ELSE IF c.kind = "close" THEN FALSE ELSE session
      BY <2>4 DEF TakeCommand
    <3>2. session \in BOOLEAN
      BY DEF Types, DeviceTypes
    <3>3. c.kind = "open" /\ ~session => reply'[1].code = "OK"
      <4> SUFFICES ASSUME c.kind = "open", ~session PROVE reply'[1].code = "OK"
        OBVIOUS
      <4>1. PICK t : reply' = << Response(c, t, "OK") >>
        BY <3>1 DEF Answers
      <4> QED
        BY <4>1 DEF Response, Packet
    <3> QED
      BY <2>1, <3>1, <3>2, <3>3
  <2> QED
    BY <2>1, <2>2, <2>3, <2>4
<1>2. /\ Len(outq) \in Nat \ {0} /\ c = outq[1] /\ Len(outq') = Len(outq) - 1
      /\ \A i \in 1 .. Len(outq') : outq'[i] = outq[i + 1]
  BY <1>1, EmptySeq, HeadTailProperties DEF Types, Wires
<1> HIDE DEF c
<1>3. /\ \A i \in 1 .. Len(outq') : i + 1 \in 1 .. Len(outq)
      /\ \A j \in 1 .. Len(outq) : j # 1 => j - 1 \in 1 .. Len(outq') /\ outq'[j - 1] = outq[j]
      /\ 1 \in 1 .. Len(outq)
  BY <1>2
<1>4. ASSUME NEW i \in 1 .. Len(outq'), outq'[i].kind = "close"
      PROVE  \E j \in 1 .. Len(outq') : i < j /\ outq'[j].kind = "open"
  <2>1. i + 1 \in 1 .. Len(outq) /\ outq[i + 1].kind = "close"
    BY <1>2, <1>3, <1>4
  <2>2. PICK j \in 1 .. Len(outq) : i + 1 < j /\ outq[j].kind = "open"
    BY <2>1 DEF ToOpen
  <2>3. j # 1 /\ i < j - 1
    BY <2>2
  <2> QED
    BY <1>3, <2>2, <2>3
<1>5. session' \/ \E j \in 1 .. Len(outq') : outq'[j].kind = "open"
  <2>1. CASE c.kind = "open"
    BY <1>1, <2>1
  <2>2. CASE c.kind = "close"
    <3>1. PICK j \in 1 .. Len(outq) : 1 < j /\ outq[j].kind = "open"
      BY <1>2, <1>3, <2>2 DEF ToOpen
    <3> QED
      BY <1>3, <3>1
  <2>3. CASE c.kind \notin {"open", "close"}
    <3>1. CASE session
      BY <1>1, <2>3, <3>1
    <3>2. ASSUME NEW j \in 1 .. Len(outq), outq[j].kind = "open"
          PROVE  \E m \in 1 .. Len(outq') : outq'[m].kind = "open"
      BY <1>2, <1>3, <2>3, <3>2
    <3> QED
      BY <3>1, <3>2 DEF ToOpen
  <2> QED
    BY <2>1, <2>2, <2>3
<1> QED
  BY <1>4, <1>5 DEF ToOpen

(* A cancelled transfer takes no OpenSession with it.                                 *)
LEMMA ToOpenCancelled ==
  ASSUME Types, Types', Flow, ToOpen, CancelAtDevice, cur.kind \in {"get", "send"}
  PROVE  ToOpen'
<1>1. PICK k \in 0 .. Len(outq) :
        /\ \A i \in 1 .. Len(outq) : i <= k <=> outq[i].n # cur.n
        /\ outq' = SubSeq(outq, 1, k) /\ session' = session
  BY DEF CancelAtDevice
<1>2. outq \in Seq(Queued) /\ Len(outq) \in Nat
  BY LenProperties DEF Flow, Traffic
<1>3. Len(outq') = k /\ \A i \in 1 .. k : outq'[i] = outq[i] /\ i \in 1 .. Len(outq)
  <2>1. 1 \in Int /\ k \in Int /\ k <= Len(outq)
    BY <1>2
  <2>2. \A i \in 1 .. k : i \in 1 .. Len(outq)
    BY <1>2
  <2>3. Len(SubSeq(outq, 1, k)) = k /\ \A i \in 1 .. k : SubSeq(outq, 1, k)[i] = outq[i]
    BY <1>2, <2>1, SubSeqProperties
  <2> QED
    BY <1>1, <2>2, <2>3
<1>4. \A j \in 1 .. Len(outq) : outq[j].kind = "open" => j \in 1 .. k
  <2> SUFFICES ASSUME NEW j \in 1 .. Len(outq), outq[j].kind = "open" PROVE j \in 1 .. k
    OBVIOUS
  <2>1. outq[j] \in Queued
    BY <1>2, ElementOfSeq
  <2>2. outq[j].n # cur.n
    BY <2>1 DEF Queued
  <2> QED
    BY <1>1, <2>2
<1> QED
  BY <1>1, <1>3, <1>4 DEF ToOpen

(* A CloseSession that a crashed program left before the device is followed by an     *)
(* OpenSession.                                                                       *)
LEMMA KeptNext ==
  ASSUME Types, Types', Flow, KeptOpen, [Next]_vars
  PROVE  KeptOpen'
<1>1. scene' = scene
  BY SpendsOne
<1> SUFFICES ASSUME spent'.timeouts = 0, scene.opening = {"OK"},
                    (Opening /\ pc # "sendreq")' \/ (conn' = "up" /\ (cur'.kind = "close" => pc' = "sendreq"))
             PROVE  ToOpen'
  BY <1>1 DEF KeptOpen
<1>2. spent.timeouts = 0 /\ ~Fault
  <2>1. spent.timeouts \in Nat /\ spent'.timeouts \in Nat /\ spent.timeouts <= spent'.timeouts
    BY FaultsStay
  <2>2. Spend("timeouts") => spent'.timeouts = spent.timeouts + 1
    BY DEF Spend, Types, Limits
  <2> QED
    BY <2>1, <2>2 DEF Fault
<1>3. (Opening /\ pc # "sendreq") \/ (conn = "up" /\ (cur.kind = "close" => pc = "sendreq")) => ToOpen
  BY <1>2 DEF KeptOpen
<1>4. CASE SendReq
  <2>1. cur' = cur /\ session' = session /\ outq' = Append(outq, cur) /\ pc' # "sendreq" /\ conn' \in {conn, "down"}
    BY <1>2, <1>4 DEF SendReq, Return
  <2>2. cur.kind = "open" \/ (cur.kind # "close" /\ ToOpen)
    BY <1>3, <2>1 DEF Opening, Flow, Place
  <2> QED
    BY <2>1, <2>2, CurrentOrder, ToOpenSends
<1>5. CASE SendData
  <2>1. /\ cur' = cur /\ session' = session /\ cur.kind = "send"
        /\ outq' \in {outq, Append(outq, [cur EXCEPT !.kind = "data"])}
        /\ conn' = conn /\ ~Opening
    BY <1>5 DEF SendData, Return, Flow, Place
  <2>2. ToOpen
    BY <1>3, <2>1 DEF Opening
  <2>3. CASE outq' = outq
    BY <2>1, <2>2, <2>3 DEF ToOpen
  <2>4. CASE outq' = Append(outq, [cur EXCEPT !.kind = "data"])
    BY <2>1, <2>2, <2>4, CurrentOrder, ToOpenSends
  <2> QED
    BY <2>1, <2>3, <2>4
<1>6. CASE GetData \/ GetRest \/ GetResp \/ DevStat \/ Drain
  <2>1. UNCHANGED <<cur, session, outq>> /\ conn' \in {conn, "down"} /\ pc # "sendreq" /\ pc' # "sendreq"
    BY <1>6 DEF GetData, GetRest, GetResp, DevStat, Drain, Return, ReadAborted, device
  <2>2. ToOpen
    BY <1>3, <2>1 DEF Opening
  <2> QED
    BY <2>1, <2>2 DEF ToOpen
<1>7. CASE ReadCancel \/ CancelReq
  <2>1. CancelAtDevice /\ cur.kind \in {"get", "send"} /\ conn = "up"
    BY <1>2, <1>7 DEF ReadCancel, CancelReq, Flow, Place, Opening, Types, HostTypes
  <2> QED
    BY <1>3, <2>1, ToOpenCancelled
<1>8. CASE Connect \/ OpenReset \/ OpenRetry \/ Crash
  BY <1>8 DEF Connect, OpenReset, OpenRetry, OpenSession, Begin, Crash, Opening
<1>9. CASE \E kind, op : Call(kind, op)
  <2>1. conn = "up" /\ pc = "idle" /\ UNCHANGED <<outq, session>> /\ cur.kind # "close"
    BY <1>9 DEF Call, device, Flow, Place
  <2> QED
    BY <1>3, <2>1 DEF ToOpen
<1>10. CASE Opened
  <2>1. Opening /\ pc # "sendreq" /\ UNCHANGED <<outq, session>>
    BY <1>10 DEF Opened, device, Flow, Place
  <2> QED
    BY <1>3, <2>1 DEF ToOpen
<1>11. CASE Responder
  <2>1. UNCHANGED <<pc, conn, cur>>
    BY <1>11 DEF Responder, TakeCommand, TakeData, SendPacket, host
  <2>2. ToOpen
    BY <1>3, <2>1 DEF Opening
  <2>3. CASE SendPacket
    BY <2>2, <2>3 DEF SendPacket, ToOpen
  <2> QED
    BY <1>11, <2>2, <2>3, ToOpenTakes DEF Responder
<1>12. CASE UNCHANGED vars
  BY <1>3, <1>12 DEF vars, host, device, ToOpen, Opening
<1> QED
  BY <1>4, <1>5, <1>6, <1>7, <1>8, <1>9, <1>10, <1>11, <1>12 DEF Next, Host

\* In the first connection there is no older session.
FirstSession ==
  spent.timeouts = 0 /\ spent.connects <= 1 =>
    /\ spent.connects = 0 => conn = "down"
    /\ spent.connects = 0 \/ Opening => Faultless
    /\ conn = "up" /\ (cur.kind = "close" => pc = "sendreq")
         => session /\ \A i \in 1 .. Len(outq) : outq[i].kind \notin {"open", "close"}

(* Until the first session is open no transfer can be cancelled, and only CloseSession *)
(* ends it.                                                                           *)
LEMMA FirstNext ==
  ASSUME Types, Types', Flow, Orderly, FirstSession, [Next]_vars
  PROVE  FirstSession'
<1> SUFFICES ASSUME spent'.timeouts = 0, spent'.connects <= 1
             PROVE  /\ spent'.connects = 0 => conn' = "down"
                    /\ spent'.connects = 0 \/ Opening' => Faultless'
                    /\ conn' = "up" /\ (cur'.kind = "close" => pc' = "sendreq")
                         => session' /\ \A i \in 1 .. Len(outq') : outq'[i].kind \notin {"open", "close"}
  BY DEF FirstSession
<1>1. spent.timeouts = 0 /\ spent.connects <= 1 /\ ~Fault
  <2>1. spent.timeouts \in Nat /\ spent'.timeouts \in Nat /\ spent.timeouts <= spent'.timeouts
    BY FaultsStay
  <2>2. Spend("timeouts") => spent'.timeouts = spent.timeouts + 1
    BY DEF Spend, Types, Limits
  <2>3. spent.connects \in Nat /\ spent'.connects \in Nat /\ spent.connects <= spent'.connects
    BY SpentGrows
  <2> QED
    BY <2>1, <2>2, <2>3 DEF Fault
<1>2. /\ spent.connects = 0 => conn = "down"
      /\ spent.connects = 0 \/ Opening => Faultless
      /\ conn = "up" /\ (cur.kind = "close" => pc = "sendreq")
           => session /\ \A i \in 1 .. Len(outq) : outq[i].kind \notin {"open", "close"}
  BY <1>1 DEF FirstSession
<1>3. spent' = spent => Faultless' = Faultless
  BY DEF Faultless
<1>4. CASE SendReq
  <2>1. /\ cur' = cur /\ session' = session /\ outq' = Append(outq, cur) /\ pc' # "sendreq"
        /\ conn' = conn \/ (conn' = "down" /\ cur.kind = "close")
        /\ spent' = spent \/ cur.kind \in {"get", "send"}
    BY <1>1, <1>4 DEF SendReq, Return, Early
  <2>2. conn # "down" /\ (Opening => cur.kind = "open")
    BY <1>4 DEF SendReq, Flow, Place
  <2>3. conn' = "up" /\ (cur'.kind = "close" => pc' = "sendreq") => cur.kind \notin {"open", "close"} /\ conn = "up"
    BY <1>4, <2>1 DEF SendReq, Flow, Place
  <2>4. spent'.connects # 0
    BY <1>2, <2>2, SpentGrows
  <2>5. \A i \in 1 .. Len(outq') : outq'[i] = cur \/ \E j \in 1 .. Len(outq) : outq'[i] = outq[j]
    BY <2>1, CurrentOrder, AppendCases DEF Types, Wires
  <2> QED
    BY <1>2, <1>3, <2>1, <2>2, <2>3, <2>4, <2>5 DEF Opening
<1>5. CASE SendData
  <2>1. /\ cur' = cur /\ session' = session /\ cur.kind = "send" /\ conn' = conn /\ ~Opening
        /\ outq' \in {outq, Append(outq, [cur EXCEPT !.kind = "data"])} /\ conn # "down"
    BY <1>5 DEF SendData, Return, Flow, Place
  <2>2. \A i \in 1 .. Len(outq') : outq'[i].kind = "data" \/ \E j \in 1 .. Len(outq) : outq'[i] = outq[j]
    <3> DEFINE d == [cur EXCEPT !.kind = "data"]
    <3>1. outq \in Seq(Orders) /\ d \in Orders /\ d.kind = "data"
      BY CurrentOrder DEF Types, Wires
    <3> HIDE DEF d
    <3>2. \A i \in 1 .. Len(Append(outq, d)) :
            Append(outq, d)[i] = d \/ \E j \in 1 .. Len(outq) : Append(outq, d)[i] = outq[j]
      BY <3>1, AppendCases
    <3>3. outq' = outq \/ outq' = Append(outq, d)
      BY <2>1 DEF d
    <3> QED
      BY <3>1, <3>2, <3>3
  <2>3. spent'.connects # 0
    BY <1>2, <2>1, SpentGrows
  <2> QED
    BY <1>2, <2>1, <2>2, <2>3 DEF Opening
<1>6. CASE GetData \/ GetRest \/ DevStat \/ Drain
  <2>1. /\ UNCHANGED <<cur, session, outq>> /\ conn' = conn /\ cur.kind = "get" /\ ~Opening /\ conn # "down"
    BY <1>6 DEF GetData, GetRest, DevStat, Drain, Return, device, Flow, Place
  <2>2. spent'.connects # 0
    BY <1>2, <2>1, SpentGrows
  <2> QED
    BY <1>2, <2>1, <2>2 DEF Opening
<1>7. CASE GetResp
  <2>1. /\ UNCHANGED <<cur, session, outq>> /\ conn' \in {conn, "down"} /\ pc # "sendreq" /\ pc' # "sendreq"
        /\ conn # "down"
    BY <1>7 DEF GetResp, Return, Flow, Place
  <2>2. Opening => spent' = spent
    <3>1. Opening => Faultless
      BY <1>2
    <3>2. TimedOut => spent' = spent \/ Spend("timeouts")
      BY DEF TimedOut
    <3>3. ~Spend("timeouts")
      BY <1>1 DEF Spend, Types, Limits
    <3> QED
      BY <1>7, <3>2, <3>3 DEF GetResp, NoPacket
  <2>3. spent'.connects # 0
    BY <1>2, <2>1, SpentGrows
  <2> QED
    BY <1>2, <1>3, <2>1, <2>2, <2>3 DEF Opening
<1>8. CASE ReadCancel \/ CancelReq
  <2>1. CancelAtDevice /\ cur.kind \in {"get", "send"} /\ conn = "up" /\ cur' = cur /\ conn' = conn
    BY <1>1, <1>8 DEF ReadCancel, CancelReq, Return, Flow, Place, Opening, Types, HostTypes
  <2>2. PICK k \in 0 .. Len(outq) : outq' = SubSeq(outq, 1, k)
    BY <2>1 DEF CancelAtDevice
  <2>3. Len(outq) \in Nat /\ outq \in Seq(Orders) /\ session' = session
    BY <2>1, LenProperties DEF Types, Wires, CancelAtDevice
  <2>4. \A i \in 1 .. Len(outq') : i \in 1 .. Len(outq) /\ outq'[i] = outq[i]
    <3>1. 1 \in Int /\ k \in Int /\ k <= Len(outq) /\ k \in Nat
      BY <2>3
    <3>2. Len(SubSeq(outq, 1, k)) = k /\ \A i \in 1 .. k : SubSeq(outq, 1, k)[i] = outq[i]
      BY <2>3, <3>1, SubSeqProperties
    <3> QED
      BY <2>2, <2>3, <3>1, <3>2
  <2>5. spent'.connects # 0
    BY <1>2, <2>1, SpentGrows
  <2> QED
    BY <1>2, <2>1, <2>3, <2>4, <2>5 DEF Opening
<1>9. CASE Connect
  <2>1. Spend("connects") /\ Opening' /\ pc' = "sendreq" /\ conn' = "first"
    BY <1>9 DEF Connect, OpenSession, Begin, Opening
  <2>2. /\ spent'.connects = spent.connects + 1
        /\ \A what \in {"timeouts", "cancels", "early", "crashes"} : spent'[what] = spent[what]
    BY <2>1 DEF Spend, Types, Limits
  <2>3. spent.connects = 0 /\ spent'.connects = 1
    BY <2>2, SpentGrows
  <2> QED
    BY <1>2, <2>1, <2>2, <2>3 DEF Faultless
<1>10. CASE OpenReset \/ OpenRetry
  <2>1. Opening /\ Opening' /\ conn' # "up" /\ spent' = spent /\ conn # "down"
    BY <1>10 DEF OpenReset, OpenRetry, OpenSession, Opening
  <2> QED
    BY <1>2, <1>3, <2>1
<1>11. CASE Opened
  <2>1. /\ Opening /\ pc = "opened" /\ UNCHANGED <<outq, session, spent, cur>>
        /\ conn' = "up" => last.rc \in {"OK", "AlreadyOpened"}
        /\ ~Opening' /\ conn # "down"
    BY <1>11 DEF Opened, device, Flow, Place, Opening
  <2>2. Order
    BY <1>2, <2>1 DEF Orderly
  <2>3. outq = << >> /\ (conn' = "up" => session)
    BY <2>1, <2>2 DEF Order, Course, Inside
  <2> QED
    BY <1>2, <2>1, <2>3, EmptySeq
<1>12. CASE Crash
  <2>1. conn # "down" /\ conn' = "down"
    BY <1>12 DEF Crash
  <2>2. spent'.connects # 0
    BY <1>2, <2>1, SpentGrows
  <2> QED
    BY <2>1, <2>2 DEF Opening
<1>13. CASE \E kind, op : Call(kind, op)
  <2>1. /\ conn = "up" /\ pc = "idle" /\ UNCHANGED <<outq, session, conn, spent>> /\ cur.kind # "close"
    BY <1>13 DEF Call, device, Flow, Place
  <2> QED
    BY <1>2, <2>1 DEF Opening
<1>14. CASE Responder
  <2>1. UNCHANGED <<pc, conn, cur, spent>>
    BY <1>14 DEF Responder, TakeCommand, TakeData, SendPacket, host
  <2>2. CASE SendPacket
    BY <1>2, <1>3, <2>1, <2>2 DEF SendPacket, Opening
  <2>3. CASE TakeCommand \/ TakeData
    <3>1. outq # << >> /\ outq' = Tail(outq)
      BY <2>3 DEF TakeCommand, TakeData
    <3>2. /\ Len(outq) \in Nat \ {0} /\ Head(outq) = outq[1] /\ Len(outq') = Len(outq) - 1
          /\ \A i \in 1 .. Len(outq') : outq'[i] = outq[i + 1]
      BY <3>1, EmptySeq, HeadTailProperties DEF Types, Wires
    <3>3. 1 \in 1 .. Len(outq) /\ \A i \in 1 .. Len(outq') : i + 1 \in 1 .. Len(outq)
      BY <3>2
    <3>4. Head(outq).kind \notin {"open", "close"} => session' = session
      BY <2>3 DEF TakeCommand, TakeData
    <3> QED
      BY <1>2, <1>3, <2>1, <3>2, <3>3, <3>4 DEF Opening
  <2> QED
    BY <1>14, <2>2, <2>3 DEF Responder
<1>15. CASE UNCHANGED vars
  BY <1>2, <1>3, <1>15 DEF vars, host, device, Opening
<1> QED
  BY <1>4, <1>5, <1>6, <1>7, <1>8, <1>9, <1>10, <1>11, <1>12, <1>13, <1>14, <1>15 DEF Next, Host

(* InSession: while the host holds a session open and nothing is on its way the device *)
(* has one open as well: when nothing went wrong, in the first connection, and on a   *)
(* device that refuses no OpenSession whatever crashed programs left.                 *)
THEOREM SessionIsOpen == (Spec => []InSession) /\ (PortsSpec => []InSession)
<1>1. Init => Closing /\ KeptOpen /\ FirstSession
  BY DEF Init, NoCommand, Closing, KeptOpen, FirstSession, Opening, Faultless
<1>2. ASSUME Types, Flow, Orderly, Closing, KeptOpen, FirstSession PROVE InSession
  <2> SUFFICES ASSUME spent.timeouts = 0, Faultless \/ spent.connects = 1 \/ scene.opening = {"OK"},
                      conn = "up", Quiet
               PROVE  session
    BY DEF InSession
  <2>1. Coming = << >> /\ outq = << >> /\ surplus = << >> /\ pipe = << >> /\ reply = << >>
    BY <1>2, Reading DEF Quiet, Busy
  <2>2. cur.kind = "close" /\ pc # "sendreq" => pc = "getresp"
    BY <1>2 DEF Flow, Place, Opening, Types, HostTypes, Places
  <2>3. CASE Faultless
    BY <1>2, <2>1, <2>3 DEF Orderly, Order, Inside, Course, Untaken, Replied, Answered
  <2>4. cur.kind = "close" => pc = "sendreq"
    <3>1. \A s \in {surplus, pipe, reply, outq} : ~At(s)
      BY <2>1, EmptySeq DEF At
    <3> QED
      BY <1>2, <2>2, <3>1 DEF Closing
  <2>5. CASE spent.connects = 1
    BY <1>2, <2>4, <2>5 DEF FirstSession
  <2>6. CASE scene.opening = {"OK"}
    <3>1. ToOpen
      BY <1>2, <2>4, <2>6 DEF KeptOpen
    <3> QED
      BY <2>1, <3>1, EmptySeq DEF ToOpen
  <2> QED
    BY <2>3, <2>5, <2>6
<1>3. [AnyPort]_vars => [Next]_vars
  BY PortsAreSteps
<1>4. Over => Final
  BY DEF Over
<1> QED
  BY <1>1, <1>2, <1>3, <1>4, TypesAlways, FlowAlways, OrderAlways, OverAlways, ClosingNext, KeptNext,
     FirstNext, PTL DEF Spec, PortsSpec
=============================================================================
