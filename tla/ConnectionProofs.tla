-------------------------- MODULE ConnectionProofs --------------------------
(***************************************************************************)
(* What Connection and ConnectionUsb0 promise of open devices, for any     *)
(* number of devices and addresses, any descriptors and any calls: that a  *)
(* device of the program keeps its handle, interface and session (Owned),  *)
(* that no handle is lost but by an open that fails (LosesNothing), that   *)
(* every event that was asked for is accounted for (EventsAccounted), and  *)
(* that an MTPZ device is in step with the library (Agreed).               *)
(***************************************************************************)
EXTENDS ConnectionUsb0, FiniteSetTheorems, SequenceTheorems, TLAPS

\* No two devices of a list have the same handle, ...
OwnHandles(s) == \A i, j \in DOMAIN s : i # j => s[i].h # s[j].h

\* ... nor do devices of two lists.
Apart(s, t) == \A i \in DOMAIN s, j \in DOMAIN t : s[i].h # t[j].h

\* Every set of numbers that has a member has a least one.  What is defined by
\* recursion on a number is reasoned about with it: a least counterexample has a
\* predecessor that is none.
LEMMA Least ==
  ASSUME NEW T \in SUBSET Nat, T # {}
  PROVE  \E n \in T : \A m \in T : n <= m
<1> DEFINE less == {ss \in Nat \X Nat : ss[1] < ss[2]}
<1>1. IsWellFoundedOn(less, Nat)
  BY NatLessThanWellFounded DEF OpToRel
<1> HIDE DEF less
<1>2. PICK n \in T : \A m \in T : ~(<< m, n >> \in less)
  BY <1>1, WFMin
<1>3. ASSUME NEW m \in T PROVE n <= m
  <2>1. << m, n >> \in Nat \X Nat /\ ~(<< m, n >> \in less)
    BY <1>2
  <2>2. ~(m < n)
    BY <2>1 DEF less
  <2> QED
    BY <2>2
<1> QED
  BY <1>3

\* The function Kept is defined with, as far as n.
Step(s, S, f, i) == IF i = 0 THEN << >> ELSE IF s[i] \in S THEN Append(f[i - 1], s[i]) ELSE f[i - 1]
UpTo(s, S, f, n) == f = [i \in 0 .. n |-> Step(s, S, f, i)]

\* It can be continued by one, ...
LEMMA UpToGrows ==
  ASSUME NEW s, NEW S, NEW n \in Nat \ {0}, NEW f, UpTo(s, S, f, n - 1)
  PROVE  \E g : UpTo(s, S, g, n)
<1>0. PICK g : g = [i \in 0 .. n |-> IF i = n THEN Step(s, S, f, n) ELSE f[i]]
  OBVIOUS
<1>1. ASSUME NEW k \in 0 .. n PROVE g[k] = Step(s, S, g, k)
  <2>1. k # 0 => k - 1 \in 0 .. n - 1 /\ g[k - 1] = f[k - 1]
    BY <1>0
  <2>2. Step(s, S, g, k) = Step(s, S, f, k)
    BY <2>1 DEF Step
  <2>3. k # n => g[k] = f[k] /\ k \in 0 .. n - 1
    BY <1>0
  <2>4. k # n => f[k] = Step(s, S, f, k)
    BY <2>3 DEF UpTo
  <2>5. k = n => g[k] = Step(s, S, f, k)
    BY <1>0
  <2> QED
    BY <2>2, <2>3, <2>4, <2>5
<1>2. UpTo(s, S, g, n)
  BY <1>0, <1>1 DEF UpTo
<1> QED
  BY <1>2

\* ... so it exists for every n.
LEMMA UpToExists ==
  ASSUME NEW s, NEW S, NEW n \in Nat
  PROVE  \E f : UpTo(s, S, f, n)
<1> DEFINE bad == {k \in Nat : ~ \E f : UpTo(s, S, f, k)}
<1> SUFFICES ASSUME bad # {} PROVE FALSE
  OBVIOUS
<1>1. PICK k \in bad : \A m \in bad : k <= m
  BY Least
<1>2. k \in Nat /\ ~ \E f : UpTo(s, S, f, k)
  OBVIOUS
<1>3. k # 0
  <2>1. PICK f : f = [i \in 0 .. 0 |-> IF i = 0 THEN << >> ELSE s]
    OBVIOUS
  <2>2. \A i \in 0 .. 0 : Step(s, S, f, i) = << >>
    BY DEF Step
  <2>3. UpTo(s, S, f, 0)
    BY <2>1, <2>2 DEF UpTo
  <2> QED
    BY <2>3, <1>2
<1>4. k - 1 \in Nat /\ k - 1 \notin bad
  BY <1>1, <1>2, <1>3
<1>5. PICK f : UpTo(s, S, f, k - 1)
  BY <1>4
<1>6. k \in Nat \ {0}
  BY <1>2, <1>3
<1> QED
  BY <1>2, <1>5, <1>6, UpToGrows

\* q has what the first n of s have in S, and no handle more than once if s has not.
Fits(D, s, S, n, q) ==
  /\ q \in Seq(D)
  /\ \A k \in 1 .. Len(q) : \E j \in 1 .. n : q[k] = s[j] /\ s[j] \in S
  /\ \A j \in 1 .. n : s[j] \in S => \E k \in 1 .. Len(q) : q[k] = s[j]
  /\ OwnHandles(s) => OwnHandles(q)

\* What LIBMTP_Release_Device_List takes of the list it is given, and what it
\* leaves: those in S, all of them and no other, with their handles.
LEMMA KeptFacts ==
  ASSUME NEW D, NEW s \in Seq(D), NEW S
  PROVE  /\ Kept(s, S) \in Seq(D)
         /\ \A k \in DOMAIN Kept(s, S) : \E j \in DOMAIN s : Kept(s, S)[k] = s[j] /\ s[j] \in S
         /\ \A j \in DOMAIN s : s[j] \in S => \E k \in DOMAIN Kept(s, S) : Kept(s, S)[k] = s[j]
         /\ OwnHandles(s) => OwnHandles(Kept(s, S))
<1>1. Len(s) \in Nat /\ DOMAIN s = 1 .. Len(s) /\ \A i \in 1 .. Len(s) : s[i] \in D
  OBVIOUS
<1>2. PICK upTo : upTo = [i \in 0 .. Len(s) |-> Step(s, S, upTo, i)] /\ Kept(s, S) = upTo[Len(s)]
  <2> DEFINE u == CHOOSE f : f = [i \in 0 .. Len(s) |-> Step(s, S, f, i)]
  <2>1. UpTo(s, S, u, Len(s))
    BY <1>1, UpToExists DEF UpTo
  <2>2. Kept(s, S) = u[Len(s)]
    BY DEF Kept, Step
  <2> QED
    BY <2>1, <2>2 DEF UpTo
<1>5. upTo[0] = << >> /\ \A i \in 1 .. Len(s) : upTo[i] = IF s[i] \in S THEN Append(upTo[i - 1], s[i]) ELSE upTo[i - 1]
  <2>1. \A i \in 0 .. Len(s) : upTo[i] = Step(s, S, upTo, i)
    BY <1>2
  <2>2. 0 \in 0 .. Len(s) /\ \A i \in 1 .. Len(s) : i \in 0 .. Len(s) /\ i # 0
    BY <1>1
  <2> QED
    BY <2>1, <2>2 DEF Step
<1> DEFINE unfit == {n \in 0 .. Len(s) : ~Fits(D, s, S, n, upTo[n])}
<1>6. unfit = {}
  <2> SUFFICES ASSUME unfit # {} PROVE FALSE
    OBVIOUS
  <2>1. unfit \subseteq Nat
    BY <1>1
  <2>2. PICK n \in unfit : \A m \in unfit : n <= m
    BY <2>1, Least
  <2>3. n \in Nat /\ n <= Len(s) /\ ~Fits(D, s, S, n, upTo[n])
    BY <1>1
  <2>4. n # 0
    <3>1. Fits(D, s, S, 0, << >>)
      BY DEF Fits, OwnHandles
    <3> QED
      BY <3>1, <2>3, <1>5
  <2>5. n - 1 \in 0 .. Len(s) /\ n - 1 \notin unfit
    BY <2>2, <2>3, <2>4, <1>1
  <2>6. Fits(D, s, S, n - 1, upTo[n - 1])
    BY <2>5
  <2> DEFINE q == upTo[n - 1]
  <2>7. n \in 1 .. Len(s) /\ s[n] \in D /\ \A j \in 1 .. n : j = n \/ j \in 1 .. n - 1
    BY <2>3, <2>4, <1>1
  <2>8. CASE s[n] \notin S
    <3>1. upTo[n] = q
      BY <2>8, <2>7, <1>5
    <3>2. \A j \in 1 .. n : s[j] \in S => j \in 1 .. n - 1
      BY <2>7, <2>8
    <3>3. 1 .. n - 1 \subseteq 1 .. n
      BY <2>7
    <3> HIDE DEF q
    <3>4. Fits(D, s, S, n, q)
      BY <2>6, <3>2, <3>3 DEF Fits, q
    <3> QED
      BY <3>1, <3>4, <2>3 DEF q
  <2>9. CASE s[n] \in S
    <3>1. upTo[n] = Append(q, s[n])
      BY <2>9, <2>7, <1>5
    <3>2. Fits(D, s, S, n - 1, q)
      BY <2>6
    <3> HIDE DEF q
    <3> DEFINE r == Append(q, s[n])
    <3>3. q \in Seq(D) /\ Len(q) \in Nat /\ DOMAIN q = 1 .. Len(q)
      BY <3>2 DEF Fits
    <3>4. r \in Seq(D) /\ Len(r) = Len(q) + 1 /\ DOMAIN r = 1 .. Len(r) /\ r[Len(q) + 1] = s[n]
          /\ \A k \in 1 .. Len(q) : r[k] = q[k]
      BY <3>3, <2>7
    <3> HIDE DEF r
    <3>5. \A k \in 1 .. Len(r) : k = Len(q) + 1 \/ k \in 1 .. Len(q)
      BY <3>3, <3>4
    <3>6. Len(q) + 1 \in 1 .. Len(r) /\ 1 .. Len(q) \subseteq 1 .. Len(r)
      BY <3>3, <3>4
    <3>7. n \in 1 .. n /\ 1 .. n - 1 \subseteq 1 .. n
      BY <2>7
    <3>8. ASSUME NEW k \in 1 .. Len(r) PROVE \E j \in 1 .. n : r[k] = s[j] /\ s[j] \in S
      <4>1. CASE k = Len(q) + 1
        BY <4>1, <3>4, <3>7, <2>9
      <4>2. CASE k \in 1 .. Len(q)
        <5>1. PICK j \in 1 .. n - 1 : q[k] = s[j] /\ s[j] \in S
          BY <4>2, <3>2 DEF Fits
        <5> QED
          BY <5>1, <4>2, <3>4, <3>7
      <4> QED
        BY <4>1, <4>2, <3>5
    <3>9. ASSUME NEW j \in 1 .. n, s[j] \in S PROVE \E k \in 1 .. Len(r) : r[k] = s[j]
      <4>1. CASE j = n
        BY <4>1, <3>4, <3>6
      <4>2. CASE j \in 1 .. n - 1
        <5>1. PICK k \in 1 .. Len(q) : q[k] = s[j]
          BY <4>2, <3>2, <3>9 DEF Fits
        <5> QED
          BY <5>1, <3>4, <3>6
      <4> QED
        BY <4>1, <4>2, <2>7
    <3>10. ASSUME OwnHandles(s), NEW k \in 1 .. Len(q) PROVE q[k].h # s[n].h
      <4>1. PICK j \in 1 .. n - 1 : q[k] = s[j]
        BY <3>2 DEF Fits
      <4>2. j # n /\ j \in 1 .. Len(s)
        BY <2>7, <1>1
      <4> QED
        BY <4>1, <4>2, <3>10, <2>7, <1>1 DEF OwnHandles
    <3>11. ASSUME OwnHandles(s) PROVE OwnHandles(r)
      <4>1. OwnHandles(q)
        BY <3>2, <3>11 DEF Fits
      <4>2. ASSUME NEW i \in 1 .. Len(r), NEW k \in 1 .. Len(r), i # k PROVE r[i].h # r[k].h
        BY <4>1, <4>2, <3>3, <3>4, <3>5, <3>10, <3>11 DEF OwnHandles
      <4> QED
        BY <4>2, <3>4 DEF OwnHandles
    <3>12. Fits(D, s, S, n, r)
      BY <3>4, <3>8, <3>9, <3>11 DEF Fits
    <3> QED
      BY <3>1, <3>12, <2>3 DEF r
  <2> QED
    BY <2>8, <2>9
<1>7. Len(s) \notin unfit /\ Len(s) \in 0 .. Len(s)
  BY <1>1, <1>6
<1>8. Fits(D, s, S, Len(s), Kept(s, S))
  BY <1>2, <1>7
<1> HIDE DEF unfit
<1>9. Kept(s, S) \in Seq(D) /\ DOMAIN Kept(s, S) = 1 .. Len(Kept(s, S))
  BY <1>8 DEF Fits
<1> QED
  BY <1>1, <1>8, <1>9 DEF Fits
-----------------------------------------------------------------------------
\* The local variables, and the places of a call: with a handle of the device it
\* opens, probing, closing, waiting for events, and none of these.
Fields == {"todo", "found", "probe", "unit", "gone", "h", "interface", "again", "step", "random", "hash",
           "got", "closing", "broken"}
Opening == {"session", "reset", "increment", "info", "trust", "ready"}
Probing == {"names", "ask"}
Closing == {"close", "closeusb"}
Attending == {"listen", "wait"}
Alone == {"idle", "scan", "probe", "find", "interface", "init"}

\* The variables this is about have these types.
HandleTypes ==
  /\ IsFiniteSet(DOMAIN handles) /\ DOMAIN handles \subseteq Nat \ {0}
  /\ \A h \in DOMAIN handles : /\ DOMAIN handles[h] = {"unit", "claimed", "dead"}
                               /\ handles[h].claimed \in BOOLEAN /\ handles[h].dead \in BOOLEAN
LocalTypes ==
  /\ DOMAIN my = Fields
  /\ my.unit \in Unit \cup {None} /\ my.h \in Nat /\ my.probe \in Nat
  /\ my.got \in Seq(MtpDevice) /\ my.closing \in Seq(MtpDevice)
Types == scene \in Scenarios /\ HandleTypes /\ LocalTypes /\ opened \in Seq(MtpDevice)

\* What a call keeps of its own, step by step.
Locals ==
  /\ pc \in Alone \cup Opening \cup Probing \cup Closing \cup Attending
  /\ my.probe # 0 <=> pc \in Probing
  /\ my.h # 0 <=> pc \in Opening \cup Attending
  /\ my.closing # << >> <=> pc \in Closing
  /\ pc \in Opening \cup {"interface", "init"} => my.unit \in Unit
  /\ pc \in {"idle", "scan", "find"} \cup Closing \cup Attending => my.unit = None
  /\ pc = "idle" => my.got = << >>
  /\ my.unit = None => ~my.gone

\* A device and its handle; the session it has, which libusb-0.1 may lose.
Dead(h) == handles[h].dead
Holds(d) == d.h \in DOMAIN handles /\ handles[d.h].unit = d.unit /\ (Dead(d.h) \/ handles[d.h].claimed)
InSession(u, h) == Dead(h) \/ u \in session \/ scene.port = "usb0"

\* The devices the program holds, and those a call has for it or closes, have
\* handles, no two the same.
Distinct(o, g, c) == /\ OwnHandles(o) /\ OwnHandles(g) /\ OwnHandles(c)
                     /\ Apart(o, g) /\ Apart(o, c) /\ Apart(g, c)

\* The devices the program holds or a call has opened for it are sound, and those
\* being closed are until their sessions are closed.
Good ==
  /\ \A d \in ToSet(opened) \cup ToSet(my.got) : Holds(d) /\ InSession(d.unit, d.h)
  /\ \A d \in ToSet(my.closing) :
       Holds(d) /\ (InSession(d.unit, d.h) \/ (pc = "closeusb" /\ d = Head(my.closing)))
Owners == Good /\ Distinct(opened, my.got, my.closing)

\* The kernel lets one handle have the interface.
OneClaim == \A g, h \in DOMAIN handles :
              g # h /\ handles[g].unit = handles[h].unit => ~(handles[g].claimed /\ handles[h].claimed)

\* The handle the call is at.
Held == {d.h : d \in Mine}
Current ==
  /\ my.gone => \A h \in DOMAIN handles : handles[h].unit = my.unit => Dead(h)
  /\ pc \in Opening => /\ my.h \in DOMAIN handles /\ handles[my.h].unit = my.unit /\ my.h \notin Held
                       /\ Dead(my.h) => my.gone
                       /\ scene.port = "usb1" => Dead(my.h) \/ handles[my.h].claimed
  /\ pc \in {"info", "trust", "ready"} =>
       (Dead(my.h) \/ handles[my.h].claimed) /\ InSession(my.unit, my.h)
  /\ pc \in Probing => my.probe \in DOMAIN handles /\ my.probe \notin Held
  /\ pc \in Attending => my.h \in {d.h : d \in ToSet(opened)}

\* The inductive invariant.  Owned alone is not inductive: an open that fails, a
\* device that is closed, or a reset would take the session from a device of the
\* program, but for what it says of the handle the call is at.
Inv == Types /\ Locals /\ Owners /\ OneClaim /\ Current
-----------------------------------------------------------------------------
\* The members of a list are those at its positions.
LEMMA AllOf ==
  ASSUME NEW s
  PROVE  /\ \A i \in DOMAIN s : s[i] \in ToSet(s)
         /\ \A x \in ToSet(s) : \E i \in DOMAIN s : x = s[i]
BY DEF ToSet

\* A list of what is in S.
LEMMA Within ==
  ASSUME NEW s, NEW S, \A i \in DOMAIN s : s[i] \in S
  PROVE  ToSet(s) \subseteq S
BY DEF ToSet

\* The empty list, ...
LEMMA NoneOf == ToSet(<< >>) = {} /\ \A s : OwnHandles(<< >>) /\ Apart(s, << >>) /\ Apart(<< >>, s)
BY DEF ToSet, OwnHandles, Apart

\* ... and the list of one device.
LEMMA OneOf == \A d : ToSet(<< d >>) = {d} /\ OwnHandles(<< d >>)
BY DEF ToSet, OwnHandles

\* A call that returns adds the devices it opened to those of the program.
LEMMA Joined ==
  ASSUME NEW D, NEW o \in Seq(D), NEW g \in Seq(D), Distinct(o, g, << >>)
  PROVE  /\ o \o g \in Seq(D) /\ ToSet(o \o g) = ToSet(o) \cup ToSet(g)
         /\ Distinct(o \o g, << >>, << >>)
<1> DEFINE r == o \o g
<1>1. /\ Len(o) \in Nat /\ Len(g) \in Nat /\ DOMAIN o = 1 .. Len(o) /\ DOMAIN g = 1 .. Len(g)
      /\ r \in Seq(D) /\ Len(r) = Len(o) + Len(g) /\ DOMAIN r = 1 .. Len(r)
      /\ \A i \in 1 .. Len(o) : r[i] = o[i]
      /\ \A i \in 1 .. Len(g) : r[Len(o) + i] = g[i]
  BY ConcatProperties
<1> HIDE DEF r
<1>2. ASSUME NEW i \in 1 .. Len(r)
      PROVE  \/ i \in 1 .. Len(o) /\ r[i] = o[i]
             \/ \E j \in 1 .. Len(g) : i = Len(o) + j /\ r[i] = g[j]
  <2>1. CASE i \in 1 .. Len(o)
    BY <2>1, <1>1
  <2>2. CASE i \notin 1 .. Len(o)
    <3>1. i - Len(o) \in 1 .. Len(g) /\ i = Len(o) + (i - Len(o))
      BY <2>2, <1>1
    <3> QED
      BY <3>1, <1>1
  <2> QED
    BY <2>1, <2>2
<1>3. ToSet(r) \subseteq ToSet(o) \cup ToSet(g)
  <2>1. ASSUME NEW i \in DOMAIN r PROVE r[i] \in ToSet(o) \cup ToSet(g)
    BY <1>1, <1>2, AllOf
  <2> QED
    BY <2>1, Within
<1>4. ToSet(o) \subseteq ToSet(r)
  <2>1. ASSUME NEW i \in DOMAIN o PROVE o[i] \in ToSet(r)
    <3>1. i \in DOMAIN r /\ o[i] = r[i]
      BY <1>1
    <3> QED
      BY <3>1, AllOf
  <2> QED
    BY <2>1, Within
<1>5. ToSet(g) \subseteq ToSet(r)
  <2>1. ASSUME NEW i \in DOMAIN g PROVE g[i] \in ToSet(r)
    <3>1. Len(o) + i \in DOMAIN r /\ g[i] = r[Len(o) + i]
      BY <1>1
    <3> QED
      BY <3>1, AllOf
  <2> QED
    BY <2>1, Within
<1>6. ASSUME NEW i \in 1 .. Len(r), NEW j \in 1 .. Len(r), i # j PROVE r[i].h # r[j].h
  <2>1. CASE i \in 1 .. Len(o) /\ r[i] = o[i]
    <3>1. CASE j \in 1 .. Len(o) /\ r[j] = o[j]
      BY <2>1, <3>1, <1>1, <1>6 DEF Distinct, OwnHandles
    <3>2. CASE \E k \in 1 .. Len(g) : j = Len(o) + k /\ r[j] = g[k]
      <4>1. PICK k \in 1 .. Len(g) : r[j] = g[k]
        BY <3>2
      <4>2. i \in DOMAIN o /\ k \in DOMAIN g
        BY <2>1, <1>1
      <4> QED
        BY <4>1, <4>2, <2>1 DEF Distinct, Apart
    <3> QED
      BY <3>1, <3>2, <1>2
  <2>2. CASE \E k \in 1 .. Len(g) : i = Len(o) + k /\ r[i] = g[k]
    <3>1. CASE j \in 1 .. Len(o) /\ r[j] = o[j]
      <4>1. PICK k \in 1 .. Len(g) : r[i] = g[k]
        BY <2>2
      <4>2. j \in DOMAIN o /\ k \in DOMAIN g
        BY <3>1, <1>1
      <4> QED
        BY <4>1, <4>2, <3>1 DEF Distinct, Apart
    <3>2. CASE \E k \in 1 .. Len(g) : j = Len(o) + k /\ r[j] = g[k]
      <4>1. PICK k \in 1 .. Len(g) : i = Len(o) + k /\ r[i] = g[k]
        BY <2>2
      <4>2. PICK l \in 1 .. Len(g) : j = Len(o) + l /\ r[j] = g[l]
        BY <3>2
      <4>3. k # l /\ k \in DOMAIN g /\ l \in DOMAIN g
        BY <4>1, <4>2, <1>1, <1>6
      <4> QED
        BY <4>1, <4>2, <4>3 DEF Distinct, OwnHandles
    <3> QED
      BY <3>1, <3>2, <1>2
  <2> QED
    BY <2>1, <2>2, <1>2
<1>7. OwnHandles(r)
  BY <1>1, <1>6 DEF OwnHandles
<1> QED
  BY <1>1, <1>3, <1>4, <1>5, <1>7, NoneOf DEF Distinct, r

\* A list with one more at its end, ...
LEMMA Appended ==
  ASSUME NEW D, NEW g \in Seq(D), NEW d \in D
  PROVE  Append(g, d) \in Seq(D) /\ ToSet(Append(g, d)) = ToSet(g) \cup {d} /\ Len(Append(g, d)) = Len(g) + 1
<1> DEFINE r == Append(g, d)
<1>1. /\ Len(g) \in Nat /\ DOMAIN g = 1 .. Len(g)
      /\ r \in Seq(D) /\ DOMAIN r = 1 .. Len(g) + 1 /\ Len(r) = Len(g) + 1 /\ r[Len(g) + 1] = d
      /\ \A i \in 1 .. Len(g) : r[i] = g[i]
  OBVIOUS
<1> HIDE DEF r
<1>2. /\ \A i \in 1 .. Len(g) + 1 : i = Len(g) + 1 \/ i \in 1 .. Len(g)
      /\ Len(g) + 1 \in 1 .. Len(g) + 1 /\ 1 .. Len(g) \subseteq 1 .. Len(g) + 1
  BY <1>1
<1>3. ToSet(r) = ToSet(g) \cup {d}
  BY <1>1, <1>2 DEF ToSet
<1> QED
  BY <1>1, <1>3 DEF r

\* ... which is a device with a handle of its own.
LEMMA Added ==
  ASSUME NEW D, NEW o \in Seq(D), NEW g \in Seq(D), NEW d \in D, Distinct(o, g, << >>),
         \A x \in ToSet(o) \cup ToSet(g) : x.h # d.h
  PROVE  /\ Append(g, d) \in Seq(D) /\ ToSet(Append(g, d)) = ToSet(g) \cup {d}
         /\ Distinct(o, Append(g, d), << >>)
<1> DEFINE r == Append(g, d)
<1>1. /\ Len(g) \in Nat /\ DOMAIN g = 1 .. Len(g)
      /\ r \in Seq(D) /\ DOMAIN r = 1 .. Len(g) + 1 /\ r[Len(g) + 1] = d
      /\ \A i \in 1 .. Len(g) : r[i] = g[i]
  OBVIOUS
<1> HIDE DEF r
<1>2. \A i \in 1 .. Len(g) + 1 : i = Len(g) + 1 \/ i \in 1 .. Len(g)
  BY <1>1
<1>4. ToSet(r) = ToSet(g) \cup {d}
  BY Appended DEF r
<1>5. \A i \in DOMAIN o : o[i].h # d.h
  BY AllOf
<1>6. \A i \in DOMAIN g : g[i].h # d.h
  BY AllOf
<1>7. OwnHandles(r)
  BY <1>1, <1>2, <1>6 DEF OwnHandles, Distinct
<1>8. Apart(o, r)
  BY <1>1, <1>2, <1>5 DEF Apart, Distinct
<1> QED
  BY <1>1, <1>4, <1>7, <1>8, NoneOf DEF Distinct, r

\* LIBMTP_Release_Device takes a device out of those the program holds.
LEMMA Taken ==
  ASSUME NEW D, NEW o \in Seq(D), OwnHandles(o), NEW n \in DOMAIN o
  PROVE  /\ RemoveAt(o, n) \in Seq(D) /\ ToSet(o) = ToSet(RemoveAt(o, n)) \cup {o[n]}
         /\ Distinct(RemoveAt(o, n), << >>, << o[n] >>)
<1> DEFINE a == SubSeq(o, 1, n - 1)
           b == SubSeq(o, n + 1, Len(o))
           r == a \o b
<1>1. Len(o) \in Nat /\ DOMAIN o = 1 .. Len(o) /\ n \in 1 .. Len(o)
  OBVIOUS
<1>2. a \in Seq(D) /\ Len(a) = n - 1 /\ \A i \in 1 .. n - 1 : a[i] = o[i]
  BY <1>1
<1>3. b \in Seq(D) /\ Len(b) = Len(o) - n /\ \A i \in 1 .. Len(o) - n : b[i] = o[n + i]
  BY <1>1
<1> HIDE DEF a, b
<1>4. /\ r \in Seq(D) /\ Len(r) = Len(o) - 1 /\ DOMAIN r = 1 .. Len(o) - 1
      /\ \A i \in 1 .. n - 1 : r[i] = a[i]
      /\ \A i \in 1 .. Len(o) - n : r[(n - 1) + i] = b[i]
  <2>1. /\ r \in Seq(D) /\ Len(r) = Len(a) + Len(b) /\ DOMAIN r = 1 .. Len(r)
        /\ \A i \in 1 .. Len(a) : r[i] = a[i]
        /\ \A i \in 1 .. Len(b) : r[Len(a) + i] = b[i]
    <3>1. a \in Seq(D) /\ b \in Seq(D)
      BY <1>2, <1>3
    <3>2. /\ r \in Seq(D) /\ Len(r) = Len(a) + Len(b)
          /\ \A i \in 1 .. Len(a) : r[i] = a[i]
          /\ \A i \in 1 .. Len(b) : r[Len(a) + i] = b[i]
      BY <3>1, ConcatProperties
    <3> QED
      BY <3>2
  <2> HIDE DEF r
  <2> QED
    BY <2>1, <1>1, <1>2, <1>3
<1> HIDE DEF r
<1> DEFINE from(i) == IF i < n THEN i ELSE i + 1
<1>5. ASSUME NEW i \in 1 .. Len(o) - 1
      PROVE  from(i) \in 1 .. Len(o) /\ from(i) # n /\ r[i] = o[from(i)]
  <2>1. CASE i < n
    BY <2>1, <1>1, <1>2, <1>4
  <2>2. CASE ~(i < n)
    <3>1. i - (n - 1) \in 1 .. Len(o) - n /\ i = (n - 1) + (i - (n - 1)) /\ n + (i - (n - 1)) = i + 1
      BY <2>2, <1>1
    <3> DEFINE j == i - (n - 1)
    <3>3. j \in 1 .. Len(o) - n /\ r[(n - 1) + j] = b[j] /\ b[j] = o[n + j]
      BY <3>1, <1>3, <1>4
    <3>2. r[i] = o[i + 1]
      BY <3>1, <3>3
    <3> QED
      BY <2>2, <3>2, <1>1
  <2> QED
    BY <2>1, <2>2
<1>6. ASSUME NEW k \in 1 .. Len(o), k # n
      PROVE  \E i \in 1 .. Len(o) - 1 : r[i] = o[k]
  <2>1. CASE k < n
    <3>1. k \in 1 .. Len(o) - 1 /\ from(k) = k
      BY <2>1, <1>1
    <3> QED
      BY <3>1, <1>5
  <2>2. CASE n < k
    <3>1. k - 1 \in 1 .. Len(o) - 1 /\ from(k - 1) = k
      BY <2>2, <1>1
    <3> QED
      BY <3>1, <1>5
  <2> QED
    BY <2>1, <2>2, <1>1, <1>6
<1>7. \A i, j \in 1 .. Len(o) - 1 : i # j => from(i) # from(j)
  BY <1>1
<1> HIDE DEF from
<1>8. ToSet(o) \subseteq ToSet(r) \cup {o[n]}
  <2>1. ASSUME NEW k \in DOMAIN o PROVE o[k] \in ToSet(r) \cup {o[n]}
    BY <1>1, <1>4, <1>6, AllOf
  <2> QED
    BY <2>1, Within
<1>9. ToSet(r) \subseteq ToSet(o) /\ o[n] \in ToSet(o)
  <2>1. ASSUME NEW i \in DOMAIN r PROVE r[i] \in ToSet(o)
    BY <1>1, <1>4, <1>5, AllOf
  <2> QED
    BY <2>1, Within, AllOf
<1>10. OwnHandles(r)
  <2>1. ASSUME NEW i \in 1 .. Len(o) - 1, NEW j \in 1 .. Len(o) - 1, i # j PROVE r[i].h # r[j].h
    <3>1. /\ from(i) \in DOMAIN o /\ from(j) \in DOMAIN o /\ from(i) # from(j)
          /\ r[i] = o[from(i)] /\ r[j] = o[from(j)]
      BY <2>1, <1>1, <1>5, <1>7
    <3> QED
      BY <3>1 DEF OwnHandles
  <2> QED
    BY <2>1, <1>4 DEF OwnHandles
<1>11. Apart(r, << o[n] >>)
  BY <1>1, <1>4, <1>5 DEF OwnHandles, Apart
<1>12. r = RemoveAt(o, n)
  BY DEF r, a, b, RemoveAt
<1> QED
  BY <1>4, <1>8, <1>9, <1>10, <1>11, <1>12, NoneOf, OneOf DEF Distinct

\* LIBMTP_Release_Device_List starts from the tail, ...
LEMMA Turned ==
  ASSUME NEW D, NEW s \in Seq(D)
  PROVE  /\ Reverse(s) \in Seq(D) /\ ToSet(Reverse(s)) = ToSet(s)
         /\ OwnHandles(s) => OwnHandles(Reverse(s))
<1> DEFINE r == Reverse(s)
<1>1. Len(s) \in Nat /\ DOMAIN s = 1 .. Len(s)
  OBVIOUS
<1>2. \A i \in 1 .. Len(s) : (Len(s) - i) + 1 \in 1 .. Len(s) /\ (Len(s) - ((Len(s) - i) + 1)) + 1 = i
  BY <1>1
<1>3. r = [i \in 1 .. Len(s) |-> s[(Len(s) - i) + 1]]
  BY DEF Reverse
<1> HIDE DEF r
<1>4. r \in Seq(D) /\ DOMAIN r = 1 .. Len(s) /\ \A i \in 1 .. Len(s) : r[i] = s[(Len(s) - i) + 1]
  BY <1>1, <1>2, <1>3
<1>5. \A i \in 1 .. Len(s) : s[i] = r[(Len(s) - i) + 1]
  BY <1>2, <1>4
<1>6. ToSet(r) \subseteq ToSet(s)
  BY <1>1, <1>2, <1>4, AllOf
<1>7. ToSet(s) \subseteq ToSet(r)
  BY <1>1, <1>2, <1>4, <1>5, AllOf
<1>8. ASSUME OwnHandles(s), NEW i \in 1 .. Len(s), NEW j \in 1 .. Len(s), i # j PROVE r[i].h # r[j].h
  <2>1. (Len(s) - i) + 1 # (Len(s) - j) + 1
    BY <1>1, <1>8
  <2> QED
    BY <2>1, <1>1, <1>2, <1>4, <1>8 DEF OwnHandles
<1>9. OwnHandles(s) => OwnHandles(r)
  BY <1>4, <1>8 DEF OwnHandles
<1> QED
  BY <1>4, <1>6, <1>7, <1>9 DEF r

\* ... and parts the list it is given from the other devices.
LEMMA Parted ==
  ASSUME NEW D, NEW o \in Seq(D), OwnHandles(o), NEW T
  PROVE  LET k == Kept(o, ToSet(o) \ T)
             c == Reverse(Kept(o, T))
         IN /\ k \in Seq(D) /\ c \in Seq(D) /\ Distinct(k, << >>, c)
            /\ ToSet(o) = ToSet(k) \cup ToSet(c) /\ ToSet(c) = ToSet(o) \cap T
<1> DEFINE k == Kept(o, ToSet(o) \ T)
           l == Kept(o, T)
           c == Reverse(l)
<1>1. /\ k \in Seq(D) /\ OwnHandles(k)
      /\ \A i \in DOMAIN k : \E j \in DOMAIN o : k[i] = o[j] /\ o[j] \in ToSet(o) \ T
      /\ \A j \in DOMAIN o : o[j] \in ToSet(o) \ T => \E i \in DOMAIN k : k[i] = o[j]
  <2> DEFINE S == ToSet(o) \ T
  <2> HIDE DEF S
  <2>1. /\ Kept(o, S) \in Seq(D)
        /\ \A i \in DOMAIN Kept(o, S) : \E j \in DOMAIN o : Kept(o, S)[i] = o[j] /\ o[j] \in S
        /\ \A j \in DOMAIN o : o[j] \in S => \E i \in DOMAIN Kept(o, S) : Kept(o, S)[i] = o[j]
        /\ OwnHandles(Kept(o, S))
    BY KeptFacts
  <2> QED
    BY <2>1 DEF S
<1>2. /\ l \in Seq(D) /\ OwnHandles(l)
      /\ \A i \in DOMAIN l : \E j \in DOMAIN o : l[i] = o[j] /\ o[j] \in T
      /\ \A j \in DOMAIN o : o[j] \in T => \E i \in DOMAIN l : l[i] = o[j]
  BY KeptFacts
<1> HIDE DEF k, l
<1>3. c \in Seq(D) /\ ToSet(c) = ToSet(l) /\ OwnHandles(c)
  BY <1>2, Turned
<1> HIDE DEF c
<1>4. ToSet(l) = ToSet(o) \cap T
  BY <1>2, AllOf
<1>5. ToSet(k) = ToSet(o) \ T
  BY <1>1, AllOf
<1>6. \A x, y \in ToSet(o) : x.h = y.h => x = y
  <2>1. ASSUME NEW x \in ToSet(o), NEW y \in ToSet(o), x.h = y.h PROVE x = y
    <3>1. PICK i \in DOMAIN o : x = o[i]
      BY AllOf
    <3>2. PICK j \in DOMAIN o : y = o[j]
      BY AllOf
    <3> QED
      BY <3>1, <3>2, <2>1 DEF OwnHandles
  <2> QED
    BY <2>1
<1>7. Apart(k, c)
  <2>1. ASSUME NEW i \in DOMAIN k, NEW j \in DOMAIN c PROVE k[i].h # c[j].h
    <3>1. k[i] \in ToSet(o) \ T /\ c[j] \in ToSet(o) \cap T
      BY <1>3, <1>4, <1>5, AllOf
    <3> QED
      BY <3>1, <1>6
  <2> QED
    BY <2>1 DEF Apart
<1>8. Distinct(k, << >>, c)
  BY <1>1, <1>3, <1>7, NoneOf DEF Distinct
<1> QED
  BY <1>1, <1>3, <1>4, <1>5, <1>8 DEF k, l, c

\* The first of the devices to close is closed, and no other has its handle.
LEMMA Shorter ==
  ASSUME NEW D, NEW o \in Seq(D), NEW g \in Seq(D), NEW c \in Seq(D), c # << >>, Distinct(o, g, c)
  PROVE  /\ Tail(c) \in Seq(D) /\ Distinct(o, g, Tail(c)) /\ Head(c) \in D
         /\ ToSet(c) = ToSet(Tail(c)) \cup {Head(c)}
         /\ \A d \in ToSet(o) \cup ToSet(g) \cup ToSet(Tail(c)) : d.h # Head(c).h
<1> DEFINE r == Tail(c)
<1>1. /\ Len(c) \in Nat \ {0} /\ DOMAIN c = 1 .. Len(c) /\ Head(c) = c[1] /\ c[1] \in D
      /\ r \in Seq(D) /\ DOMAIN r = 1 .. Len(c) - 1 /\ \A i \in 1 .. Len(c) - 1 : r[i] = c[i + 1]
  OBVIOUS
<1> HIDE DEF r
<1>2. \A i \in 1 .. Len(c) - 1 : i + 1 \in 1 .. Len(c) /\ i + 1 # 1
  BY <1>1
<1>3. \A i \in 1 .. Len(c) : i = 1 \/ (i - 1 \in 1 .. Len(c) - 1 /\ r[i - 1] = c[i])
  BY <1>1
<1>4. ToSet(c) = ToSet(r) \cup {c[1]}
  <2>1. ASSUME NEW i \in DOMAIN r PROVE r[i] \in ToSet(c)
    BY <1>1, <1>2, AllOf
  <2>2. ASSUME NEW i \in DOMAIN c PROVE c[i] \in ToSet(r) \cup {c[1]}
    BY <1>1, <1>3, AllOf
  <2>3. c[1] \in ToSet(c)
    BY <1>1, AllOf
  <2>4. ToSet(r) \subseteq ToSet(c)
    BY <2>1, Within
  <2>5. ToSet(c) \subseteq ToSet(r) \cup {c[1]}
    BY <2>2, Within
  <2> QED
    BY <2>3, <2>4, <2>5
<1>5. OwnHandles(r)
  <2>1. ASSUME NEW i \in 1 .. Len(c) - 1, NEW j \in 1 .. Len(c) - 1, i # j PROVE r[i].h # r[j].h
    <3>1. /\ i + 1 \in DOMAIN c /\ j + 1 \in DOMAIN c /\ i + 1 # j + 1
          /\ r[i] = c[i + 1] /\ r[j] = c[j + 1]
      BY <2>1, <1>1
    <3> QED
      BY <3>1 DEF Distinct, OwnHandles
  <2> QED
    BY <2>1, <1>1 DEF OwnHandles
<1>6. ASSUME NEW s, Apart(s, c) PROVE Apart(s, r)
  <2>1. ASSUME NEW i \in DOMAIN s, NEW j \in 1 .. Len(c) - 1 PROVE s[i].h # r[j].h
    <3>1. j + 1 \in DOMAIN c /\ r[j] = c[j + 1]
      BY <1>1, <1>2
    <3> QED
      BY <3>1, <1>6 DEF Apart
  <2> QED
    BY <2>1, <1>1 DEF Apart
<1>7. \A d \in ToSet(o) \cup ToSet(g) : d.h # c[1].h
  BY <1>1, AllOf DEF Distinct, Apart
<1>8. \A d \in ToSet(r) : d.h # c[1].h
  <2>1. ASSUME NEW d \in ToSet(r) PROVE d.h # c[1].h
    <3>1. PICK i \in DOMAIN r : d = r[i]
      BY AllOf
    <3>2. i + 1 \in DOMAIN c /\ 1 \in DOMAIN c /\ i + 1 # 1 /\ d = c[i + 1]
      BY <3>1, <1>1
    <3> QED
      BY <3>2 DEF Distinct, OwnHandles
  <2> QED
    BY <2>1
<1> QED
  BY <1>1, <1>4, <1>5, <1>6, <1>7, <1>8 DEF Distinct, r

\* A new handle is none of those there are.
LEMMA FreshFacts ==
  ASSUME IsFiniteSet(DOMAIN handles)
  PROVE  Fresh \in Nat \ {0} /\ Fresh \notin DOMAIN handles
<1> DEFINE n == Cardinality(DOMAIN handles) + 1
<1>1. n \in Nat \ {0} /\ n > Cardinality(DOMAIN handles)
  BY FS_CardinalityType
<1>2. IsFiniteSet(1 .. n) /\ Cardinality(1 .. n) = n
  BY <1>1, FS_Interval
<1>3. ~(1 .. n \subseteq DOMAIN handles)
  <2> HIDE DEF n
  <2> SUFFICES ASSUME 1 .. n \subseteq DOMAIN handles PROVE FALSE
    OBVIOUS
  <2>1. Cardinality(1 .. n) <= Cardinality(DOMAIN handles)
    BY FS_Subset
  <2> QED
    BY <2>1, <1>1, <1>2, FS_CardinalityType
<1>4. \E h \in 1 .. n : h \notin DOMAIN handles
  BY <1>3
<1>5. Fresh \in 1 .. n /\ Fresh \notin DOMAIN handles
  BY <1>4 DEF Fresh
<1> QED
  BY <1>1, <1>5
-----------------------------------------------------------------------------
\* A step that keeps the devices of the program and of the call, the device it is
\* at, or a handle.
SameMine == opened' = opened /\ my'.got = my.got /\ my'.closing = my.closing
SameUnit == my'.unit = my.unit /\ my'.gone = my.gone
Stays(h) == h \in DOMAIN handles' /\ handles'[h] = handles[h]

\* A call starts, and ends, with nothing.
LEMMA LocalFacts ==
  /\ DOMAIN Local = Fields /\ Local.unit = None /\ ~Local.gone /\ Local.h = 0 /\ Local.probe = 0
  /\ Local.got = << >> /\ Local.closing = << >>
BY DEF Local, Fields

\* Opening a handle leaves the others as they are; it has the interface if nobody had.
LEMMA OpenedFacts ==
  ASSUME HandleTypes, NEW u, NEW c \in BOOLEAN, handles' = Opened(u, c)
  PROVE  /\ HandleTypes' /\ Fresh \notin DOMAIN handles /\ Fresh \in DOMAIN handles' /\ Fresh \in Nat \ {0}
         /\ handles'[Fresh].unit = u /\ handles'[Fresh].claimed = c /\ handles'[Fresh].dead = FALSE
         /\ \A h \in DOMAIN handles : Stays(h)
         /\ \A h \in DOMAIN handles' : h = Fresh \/ h \in DOMAIN handles
         /\ OneClaim /\ (c => Free(u)) => OneClaim'
<1> DEFINE new == [unit |-> u, claimed |-> c, dead |-> FALSE]
<1>1. Fresh \notin DOMAIN handles /\ Fresh \in Nat \ {0}
  BY FreshFacts DEF HandleTypes
<1>2. /\ DOMAIN handles' = DOMAIN handles \cup {Fresh} /\ handles'[Fresh] = new
      /\ \A h \in DOMAIN handles : handles'[h] = handles[h]
  BY <1>1 DEF Opened, With
<1>3. IsFiniteSet(DOMAIN handles')
  BY <1>2, FS_AddElement DEF HandleTypes
<1>4. DOMAIN new = {"unit", "claimed", "dead"} /\ new.unit = u /\ new.claimed = c /\ new.dead = FALSE
  OBVIOUS
<1> HIDE DEF new
<1>5. HandleTypes'
  BY <1>1, <1>2, <1>3, <1>4 DEF HandleTypes
<1>6. ASSUME OneClaim, c => Free(u) PROVE OneClaim'
  <2> SUFFICES ASSUME NEW g \in DOMAIN handles', NEW h \in DOMAIN handles',
                      g # h, handles'[g].unit = handles'[h].unit
               PROVE  ~(handles'[g].claimed /\ handles'[h].claimed)
    BY DEF OneClaim
  <2>1. CASE g # Fresh /\ h # Fresh
    BY <2>1, <1>2, <1>6 DEF OneClaim
  <2>2. CASE g = Fresh
    BY <2>2, <1>2, <1>4, <1>6 DEF Free
  <2>3. CASE h = Fresh
    BY <2>3, <1>2, <1>4, <1>6 DEF Free
  <2> QED
    BY <2>1, <2>2, <2>3
<1> QED
  BY <1>1, <1>2, <1>4, <1>5, <1>6 DEF Stays

\* Closing one leaves the others as they are, ...
LEMMA ClosedFacts ==
  ASSUME HandleTypes, NEW x, handles' = Without(handles, x)
  PROVE  /\ HandleTypes' /\ DOMAIN handles' = DOMAIN handles \ {x}
         /\ \A h \in DOMAIN handles : h # x => Stays(h)
         /\ OneClaim => OneClaim'
<1>1. DOMAIN handles' = DOMAIN handles \ {x} /\ \A h \in DOMAIN handles' : handles'[h] = handles[h]
  BY DEF Without
<1>2. IsFiniteSet(DOMAIN handles')
  BY <1>1, FS_RemoveElement DEF HandleTypes
<1>3. HandleTypes'
  BY <1>1, <1>2 DEF HandleTypes
<1>4. OneClaim => OneClaim'
  BY <1>1 DEF OneClaim
<1> QED
  BY <1>1, <1>3, <1>4 DEF Stays

\* ... and so does claiming or releasing the interface of one.
LEMMA ClaimFacts ==
  ASSUME HandleTypes, NEW x \in DOMAIN handles, NEW c \in BOOLEAN, handles' = [handles EXCEPT ![x].claimed = c]
  PROVE  /\ HandleTypes' /\ DOMAIN handles' = DOMAIN handles
         /\ handles'[x].unit = handles[x].unit /\ handles'[x].dead = handles[x].dead /\ handles'[x].claimed = c
         /\ \A h \in DOMAIN handles : h # x => Stays(h)
         /\ OneClaim /\ (c => handles[x].claimed \/ Free(handles[x].unit)) => OneClaim'
<1> DEFINE new == [handles[x] EXCEPT !.claimed = c]
<1>1. /\ DOMAIN handles' = DOMAIN handles /\ handles'[x] = new
      /\ \A h \in DOMAIN handles : h # x => handles'[h] = handles[h]
  OBVIOUS
<1>2. /\ DOMAIN new = {"unit", "claimed", "dead"}
      /\ new.unit = handles[x].unit /\ new.dead = handles[x].dead /\ new.claimed = c
  BY DEF HandleTypes
<1> HIDE DEF new
<1>3. HandleTypes'
  BY <1>1, <1>2 DEF HandleTypes
<1>4. ASSUME OneClaim, c => handles[x].claimed \/ Free(handles[x].unit) PROVE OneClaim'
  <2> SUFFICES ASSUME NEW g \in DOMAIN handles', NEW h \in DOMAIN handles',
                      g # h, handles'[g].unit = handles'[h].unit
               PROVE  ~(handles'[g].claimed /\ handles'[h].claimed)
    BY DEF OneClaim
  <2>1. CASE g # x /\ h # x
    BY <2>1, <1>1, <1>4 DEF OneClaim
  <2>2. CASE g = x
    BY <2>2, <1>1, <1>2, <1>4 DEF Free, OneClaim
  <2>3. CASE h = x
    BY <2>3, <1>1, <1>2, <1>4 DEF Free, OneClaim
  <2> QED
    BY <2>1, <2>2, <2>3
<1> QED
  BY <1>1, <1>2, <1>3, <1>4 DEF Stays

\* A device that is abandoned counts as broken, and the search goes on.
LEMMA AbandonFacts ==
  ASSUME LocalTypes, Abandon
  PROVE  /\ LocalTypes' /\ pc' = "find" /\ my'.unit = None /\ ~my'.gone
         /\ my'.h = 0 /\ my'.probe = my.probe
         /\ my'.got = my.got /\ my'.closing = my.closing
         /\ my.unit # None => my.unit \in my'.broken
<1>1. /\ DOMAIN my' = Fields /\ pc' = "find" /\ my'.unit = None /\ ~my'.gone
      /\ my'.h = 0 /\ my'.probe = my.probe
      /\ my'.got = my.got /\ my'.closing = my.closing
  BY DEF Abandon, Goto, NextDevice, LocalTypes, Fields
<1>2. my'.broken = my.broken \cup ({Head(my.todo).unit, my.unit} \ {None})
  BY DEF Abandon, Goto, NextDevice, LocalTypes, Fields
<1>3. LocalTypes'
  BY <1>1 DEF LocalTypes
<1>4. my.unit # None => my.unit \in my'.broken
  BY <1>2
<1> QED
  BY <1>1, <1>3, <1>4

\* A call that returns leaves the devices it opened to the program.
LEMMA ReturnFacts ==
  ASSUME LocalTypes, NEW value, Return(value)
  PROVE  /\ LocalTypes' /\ pc' = "idle" /\ my'.unit = None /\ ~my'.gone /\ my'.h = 0 /\ my'.probe = 0
         /\ my'.got = << >> /\ my'.closing = << >> /\ opened' = opened \o my.got
<1>1. my' = Local /\ pc' = "idle" /\ opened' = opened \o my.got
  BY DEF Return
<1>2. << >> \in Seq(MtpDevice)
  OBVIOUS
<1>3. LocalTypes'
  BY <1>1, <1>2, LocalFacts DEF LocalTypes
<1> QED
  BY <1>1, <1>3, LocalFacts

\* What comes of probing a device: the scan, or the opening, goes on.
LEMMA IdentifiedFacts ==
  ASSUME LocalTypes, NEW mtp, NEW broken, Identified(mtp, broken)
  PROVE  /\ LocalTypes' /\ SameUnit /\ my'.h = my.h /\ my'.probe = 0 /\ my'.got = my.got /\ my'.closing = my.closing
         /\ (pc' = "scan" /\ my.unit = None) \/ (pc' = "interface" /\ my.unit # None)
<1>1. CASE my.unit = None
  <2>1. pc' = "scan" /\ my' = Next1(mtp, broken)
    BY <1>1 DEF Identified, Goto
  <2> QED
    BY <1>1, <2>1 DEF Next1, LocalTypes, Fields, SameUnit
<1>2. CASE my.unit # None
  <2>1. pc' = "interface" /\ my' = [my EXCEPT !.probe = 0]
    BY <1>2 DEF Identified, Goto
  <2> QED
    BY <1>2, <2>1 DEF LocalTypes, Fields, SameUnit
<1> QED
  BY <1>1, <1>2

\* A step that keeps the handles of the devices keeps them sound, ...
LEMMA GoodKeeps ==
  ASSUME Good, SameMine, scene' = scene, session \subseteq session', pc = "closeusb" => pc' = "closeusb",
         \A h \in Held : h \in DOMAIN handles => Stays(h)
  PROVE  Good'
<1>1. ASSUME NEW d \in Mine, Holds(d) PROVE Holds(d)'
  BY <1>1 DEF Held, Stays, Holds, Dead
<1>2. ASSUME NEW d \in Mine, Holds(d), InSession(d.unit, d.h) PROVE InSession(d.unit, d.h)'
  BY <1>2 DEF Held, Stays, Holds, InSession, Dead
<1> QED
  BY <1>1, <1>2 DEF Good, Mine, SameMine

\* A step inside a call, which keeps what there is of devices.
LEMMA InsideKeeps ==
  ASSUME Inv, SameMine, scene' = scene, session \subseteq session', pc \notin Closing,
         \A h \in Held : h \in DOMAIN handles => Stays(h),
         HandleTypes', LocalTypes', OneClaim'
  PROVE  Types' /\ Owners' /\ Held' = Held
<1>1. Good'
  BY GoodKeeps DEF Inv, Owners, Closing
<1>2. Distinct(opened, my.got, my.closing)'
  BY DEF Inv, Owners, SameMine
<1> QED
  BY <1>1, <1>2 DEF Inv, Types, Owners, Held, Mine, SameMine
-----------------------------------------------------------------------------
\* The handles of the devices held stay as they are.
HeldStay == \A h \in Held : h \in DOMAIN handles => Stays(h)

\* A step that keeps them keeps the invariant, if it is at no handle.
LEMMA AloneInv ==
  ASSUME Inv, SameMine, scene' = scene, session \subseteq session', pc \notin Closing, HeldStay,
         HandleTypes', LocalTypes', OneClaim',
         pc' \in Alone \ {"idle"}, my'.h = 0, my'.probe = 0,
         pc' \in {"interface", "init"} => my'.unit \in Unit,
         pc' \in {"scan", "find"} => my'.unit = None,
         my'.gone => my'.unit # None /\ \A h \in DOMAIN handles' : handles'[h].unit = my'.unit => handles'[h].dead
  PROVE  Inv'
<1>1. Types' /\ Owners' /\ Held' = Held
  BY InsideKeeps DEF HeldStay
<1>2. my'.closing = << >>
  BY DEF SameMine, Inv, Locals
<1>3. Locals'
  BY <1>2 DEF Locals, Alone, Opening, Probing, Closing, Attending
<1>4. Current'
  BY DEF Current, Alone, Opening, Probing, Attending, Dead
<1> QED
  BY <1>1, <1>3, <1>4 DEF Inv

\* Abandoning the device at hand.
LEMMA AbandonInv ==
  ASSUME Inv, Abandon, opened' = opened, scene' = scene, session \subseteq session', pc \notin Closing \cup Probing, HeldStay,
         HandleTypes', OneClaim'
  PROVE  Inv'
<1>1. LocalTypes /\ my.probe = 0
  BY DEF Inv, Types, Locals
<1>2. SameMine /\ LocalTypes' /\ pc' = "find" /\ my'.unit = None /\ ~my'.gone /\ my'.h = 0 /\ my'.probe = 0
  BY <1>1, AbandonFacts DEF SameMine
<1> QED
  BY <1>2, AloneInv DEF Alone

\* A step that leaves the handles alone.
LEMMA Untouched ==
  ASSUME Inv, UNCHANGED handles
  PROVE  HandleTypes' /\ OneClaim' /\ HeldStay
BY DEF Inv, Types, HandleTypes, OneClaim, HeldStay, Stays

\* Every step of the library, and every one of the program and of the devices,
\* keeps the invariant.  Going through the list of the devices: ...
LEMMA ScanInv ==
  ASSUME Inv, Scan
  PROVE  Inv'
<1>1. pc = "scan" /\ UNCHANGED <<scene, session, handles, opened>>
  BY DEF Scan, world, held
<1>2. LocalTypes /\ my.h = 0 /\ my.probe = 0 /\ my.unit = None /\ ~my.gone
  BY <1>1 DEF Inv, Types, Locals, Probing, Opening, Attending
<1>3. /\ pc' \in {"scan", "probe"} /\ DOMAIN my' = Fields /\ my'.unit = my.unit /\ my'.gone = my.gone
      /\ my'.h = my.h /\ my'.probe = 0 /\ my'.got = my.got /\ my'.closing = my.closing
  <2>1. \/ pc' = "probe" /\ my' = my
        \/ pc' = "scan" /\ \E l \in BOOLEAN : my' = Next1(l, {})
    BY DEF Scan, Goto
  <2>2. ASSUME NEW l \in BOOLEAN, my' = Next1(l, {})
        PROVE  /\ DOMAIN my' = Fields /\ my'.unit = my.unit /\ my'.gone = my.gone
               /\ my'.h = my.h /\ my'.probe = 0 /\ my'.got = my.got /\ my'.closing = my.closing
    BY <2>2, <1>2 DEF Next1, LocalTypes, Fields
  <2> QED
    BY <2>1, <2>2, <1>2 DEF LocalTypes
<1>4. LocalTypes' /\ SameMine
  BY <1>1, <1>2, <1>3 DEF LocalTypes, SameMine
<1>5. HandleTypes' /\ OneClaim' /\ HeldStay
  BY <1>1, Untouched
<1> QED
  BY <1>1, <1>2, <1>3, <1>4, <1>5, AloneInv DEF Alone, Closing

\* ... what comes of the probing ...
LEMMA IdentifiedInv ==
  ASSUME Inv, NEW mtp, NEW broken, Identified(mtp, broken), opened' = opened, scene' = scene,
         session' = session, pc \in {"probe", "names", "ask"}, HeldStay, HandleTypes', OneClaim',
         \A h \in DOMAIN handles' : h \in DOMAIN handles /\ handles'[h] = handles[h]
  PROVE  Inv'
<1>1. LocalTypes /\ my.h = 0
  BY DEF Inv, Types, Locals, Probing, Opening, Attending
<1>2. /\ LocalTypes' /\ SameUnit /\ my'.h = 0 /\ my'.probe = 0 /\ SameMine
      /\ (pc' = "scan" /\ my.unit = None) \/ (pc' = "interface" /\ my.unit # None)
  BY <1>1, IdentifiedFacts DEF SameMine
<1>3. my'.gone => my'.unit # None /\ \A h \in DOMAIN handles' : handles'[h].unit = my'.unit => handles'[h].dead
  BY <1>2 DEF SameUnit, Inv, Locals, Current, Dead
<1>4. pc' = "interface" => my'.unit \in Unit
  BY <1>1, <1>2 DEF LocalTypes, SameUnit
<1> QED
  BY <1>2, <1>3, <1>4, AloneInv DEF Alone, Closing, SameUnit

\* ... that opens a handle, not one of the devices held, ...
LEMMA ProbeInv ==
  ASSUME Inv, Probe
  PROVE  Inv'
<1>1. pc = "probe" /\ UNCHANGED <<scene, session, opened>>
  BY DEF Probe, world, held
<1>2. LocalTypes /\ HandleTypes /\ OneClaim /\ my.h = 0 /\ my.probe = 0 /\ my.closing = << >>
  BY <1>1 DEF Inv, Types, Locals, Probing, Opening, Attending, Closing
<1>3. ASSUME NEW broken, Identified(FALSE, broken), UNCHANGED handles PROVE Inv'
  <2>1. HandleTypes' /\ OneClaim' /\ HeldStay
    BY <1>3, Untouched
  <2> QED
    BY <1>1, <1>3, <2>1, IdentifiedInv
<1>4. ASSUME Present, handles' = Opened(Subject, FALSE), Goto("names", [my EXCEPT !.probe = Fresh]) PROVE Inv'
  <2>1. /\ HandleTypes' /\ Fresh \notin DOMAIN handles /\ Fresh \in DOMAIN handles' /\ Fresh \in Nat \ {0}
        /\ handles'[Fresh].unit = Subject
        /\ \A h \in DOMAIN handles : Stays(h)
        /\ \A h \in DOMAIN handles' : h = Fresh \/ h \in DOMAIN handles
        /\ OneClaim'
    BY <1>2, <1>4, OpenedFacts
  <2>2. /\ pc' = "names" /\ DOMAIN my' = Fields /\ SameUnit /\ SameMine /\ my'.h = 0 /\ my'.probe = Fresh
    BY <1>1, <1>2, <1>4 DEF Goto, SameUnit, SameMine, LocalTypes, Fields
  <2>3. LocalTypes'
    BY <1>2, <2>1, <2>2 DEF LocalTypes, SameUnit, SameMine
  <2>4. Types' /\ Owners' /\ Held' = Held
    BY <1>1, <2>1, <2>2, <2>3, InsideKeeps DEF Closing
  <2>5. Locals'
    BY <1>1, <1>2, <2>1, <2>2 DEF Inv, Locals, SameUnit, SameMine, Alone, Opening, Probing, Closing, Attending
  <2>6. Fresh \notin Held
    BY <1>2, <2>1 DEF Inv, Owners, Good, Holds, Held, Mine, SameMine
  <2>7. my'.gone => \A h \in DOMAIN handles' : handles'[h].unit = my'.unit => handles'[h].dead
    <3>1. ~my.gone \/ my.unit = None
      BY <1>4 DEF Present
    <3> QED
      BY <3>1, <2>2 DEF SameUnit, Inv, Locals
  <2>8. Current'
    BY <2>1, <2>2, <2>4, <2>6, <2>7 DEF Current, Opening, Probing, Attending, Dead
  <2> QED
    BY <2>1, <2>4, <2>5, <2>8 DEF Inv
<1> QED
  BY <1>3, <1>4 DEF Probe

\* ... and closes no other, ...
LEMMA ProbeClosed ==
  ASSUME Inv, pc \in Probing, handles' = Closed
  PROVE  /\ HandleTypes' /\ OneClaim' /\ HeldStay
         /\ \A h \in DOMAIN handles' : h \in DOMAIN handles /\ handles'[h] = handles[h]
<1>1. HandleTypes /\ OneClaim /\ my.probe \notin Held
  BY DEF Inv, Types, Current
<1>2. /\ HandleTypes' /\ DOMAIN handles' = DOMAIN handles \ {my.probe} /\ OneClaim'
      /\ \A h \in DOMAIN handles : h # my.probe => Stays(h)
  BY <1>1, ClosedFacts DEF Closed
<1> QED
  BY <1>1, <1>2 DEF HeldStay, Stays

\* A step of the probing that goes on with the same handle.
LEMMA AskInv ==
  ASSUME Inv, pc \in Probing, UNCHANGED <<scene, session, handles, opened>>,
         pc' \in Probing, DOMAIN my' = Fields, SameUnit, SameMine, my'.h = my.h, my'.probe = my.probe
  PROVE  Inv'
<1>1. HandleTypes' /\ OneClaim' /\ HeldStay
  BY Untouched
<1>2. LocalTypes'
  BY DEF Inv, Types, LocalTypes, SameUnit, SameMine
<1>3. Types' /\ Owners' /\ Held' = Held
  BY <1>1, <1>2, InsideKeeps DEF Closing, Probing, HeldStay
<1>4. Locals'
  BY DEF Inv, Locals, SameUnit, SameMine, Alone, Opening, Probing, Closing, Attending
<1>5. Current'
  BY <1>3 DEF Inv, Current, SameUnit, Opening, Probing, Attending, Dead
<1> QED
  BY <1>1, <1>3, <1>4, <1>5 DEF Inv

\* ... having asked for names ...
LEMMA NamesInv ==
  ASSUME Inv, Names
  PROVE  Inv'
<1>1. pc = "names" /\ UNCHANGED <<scene, session, opened>>
  BY DEF Names, world, held
<1>2. LocalTypes
  BY DEF Inv, Types
<1>3. \E broken : \/ /\ Goto("ask", [my EXCEPT !.broken = @ \cup broken]) /\ UNCHANGED handles
                  \/ /\ \E mtp : Identified(mtp, broken)
                     /\ handles' = handles \/ handles' = Closed
  BY DEF Names
<1>4. ASSUME NEW broken, Goto("ask", [my EXCEPT !.broken = @ \cup broken]), UNCHANGED handles PROVE Inv'
  <2>1. pc' = "ask" /\ DOMAIN my' = Fields /\ SameUnit /\ SameMine /\ my'.h = my.h /\ my'.probe = my.probe
    BY <1>1, <1>2, <1>4 DEF Goto, SameUnit, SameMine, LocalTypes, Fields
  <2> QED
    BY <1>1, <1>4, <2>1, AskInv DEF Probing
<1>5. ASSUME NEW broken, NEW mtp, Identified(mtp, broken), handles' = handles \/ handles' = Closed PROVE Inv'
  <2>1. /\ HandleTypes' /\ OneClaim' /\ HeldStay
        /\ \A h \in DOMAIN handles' : h \in DOMAIN handles /\ handles'[h] = handles[h]
    BY <1>1, <1>5, Untouched, ProbeClosed DEF Probing
  <2> QED
    BY <1>1, <1>5, <2>1, IdentifiedInv
<1> QED
  BY <1>3, <1>4, <1>5

\* ... and for the Microsoft descriptor.
LEMMA AskMicrosoftInv ==
  ASSUME Inv, AskMicrosoft
  PROVE  Inv'
<1>1. pc = "ask" /\ UNCHANGED <<scene, session, opened>>
  BY DEF AskMicrosoft, world, held
<1>2. PICK mtp, broken : Identified(mtp, broken) /\ handles' = Closed
  BY DEF AskMicrosoft
<1>3. /\ HandleTypes' /\ OneClaim' /\ HeldStay
      /\ \A h \in DOMAIN handles' : h \in DOMAIN handles /\ handles'[h] = handles[h]
  BY <1>1, <1>2, ProbeClosed DEF Probing
<1> QED
  BY <1>1, <1>2, <1>3, IdentifiedInv
-----------------------------------------------------------------------------
\* A call that ends leaves the devices it has to the program.
LEMMA ReturnInv ==
  ASSUME Inv, NEW value, Return(value), UNCHANGED <<scene, session, handles>>,
         my.closing = << >>
  PROVE  Inv' /\ Held' = Held
<1>1. LocalTypes /\ opened \in Seq(MtpDevice) /\ my.got \in Seq(MtpDevice) /\ Distinct(opened, my.got, << >>)
  BY DEF Inv, Types, LocalTypes, Owners
<1>2. /\ LocalTypes' /\ pc' = "idle" /\ my'.unit = None /\ ~my'.gone /\ my'.h = 0 /\ my'.probe = 0
      /\ my'.got = << >> /\ my'.closing = << >> /\ opened' = opened \o my.got
  BY <1>1, ReturnFacts
<1>3. /\ opened' \in Seq(MtpDevice) /\ ToSet(opened') = ToSet(opened) \cup ToSet(my.got)
      /\ Distinct(opened', << >>, << >>)
  BY <1>1, <1>2, Joined
<1>4. Mine' = Mine
  BY <1>2, <1>3, NoneOf DEF Mine
<1>5. Held' = Held
  BY <1>4 DEF Held
<1>6. Good'
  BY <1>2, <1>3, NoneOf DEF Inv, Owners, Good, Holds, InSession, Dead
<1>7. Owners' /\ Types'
  BY <1>2, <1>3, <1>6 DEF Owners, Inv, Types, HandleTypes
<1>8. OneClaim'
  BY DEF Inv, OneClaim
<1>9. Locals'
  BY <1>2 DEF Locals, Alone, Opening, Probing, Closing, Attending
<1>10. Current'
  BY <1>2 DEF Current, Opening, Probing, Attending
<1> QED
  BY <1>5, <1>7, <1>8, <1>9, <1>10 DEF Inv

\* The scan is done: the call returns or opens what was found.
LEMMA ScannedInv ==
  ASSUME Inv, Scanned
  PROVE  Inv'
<1>1. pc = "scan" /\ UNCHANGED <<scene, session, handles>>
  BY DEF Scanned, world
<1>2. LocalTypes /\ my.closing = << >> /\ my.h = 0 /\ my.probe = 0 /\ my.unit = None /\ ~my.gone
  BY <1>1 DEF Inv, Types, Locals, Probing, Opening, Attending, Closing
<1>3. \/ \E value : Return(value)
      \/ \E todo : Goto("find", [my EXCEPT !.todo = todo]) /\ opened' = opened
  BY DEF Scanned, held
<1>4. ASSUME NEW todo, Goto("find", [my EXCEPT !.todo = todo]), opened' = opened PROVE Inv'
  <2>1. pc' = "find" /\ DOMAIN my' = Fields /\ SameUnit /\ SameMine /\ my'.h = 0 /\ my'.probe = 0
    BY <1>2, <1>4 DEF Goto, SameUnit, SameMine, LocalTypes, Fields
  <2>2. LocalTypes'
    BY <1>2, <2>1 DEF LocalTypes, SameUnit, SameMine
  <2>3. HandleTypes' /\ OneClaim' /\ HeldStay
    BY <1>1, Untouched
  <2> QED
    BY <1>1, <1>2, <2>1, <2>2, <2>3, AloneInv DEF Alone, Closing, SameUnit
<1> QED
  BY <1>1, <1>2, <1>3, <1>4, ReturnInv

\* The last device is opened, ...
LEMMA FoundInv ==
  ASSUME Inv, Found
  PROVE  Inv'
<1>1. pc = "find" /\ UNCHANGED <<scene, session, handles>> /\ Return(my.got)
  BY DEF Found, world
<1>2. my.closing = << >>
  BY <1>1 DEF Inv, Locals, Closing
<1> QED
  BY <1>1, <1>2, ReturnInv

\* ... or the next one looked for on the bus, ...
LEMMA FindInv ==
  ASSUME Inv, Find
  PROVE  Inv'
<1>1. pc = "find" /\ UNCHANGED <<scene, session, handles, opened>>
  BY DEF Find, world, held
<1>2. LocalTypes /\ my.h = 0 /\ my.probe = 0 /\ my.unit = None /\ ~my.gone
  BY <1>1 DEF Inv, Types, Locals, Probing, Opening, Attending
<1>3. HandleTypes' /\ OneClaim' /\ HeldStay
  BY <1>1, Untouched
<1>4. \/ Abandon
      \/ \E u \in Unit, p \in {"probe", "interface"} : Goto(p, [my EXCEPT !.unit = u])
  BY DEF Find, Attached
<1>5. ASSUME NEW u \in Unit, NEW p \in {"probe", "interface"}, Goto(p, [my EXCEPT !.unit = u]) PROVE Inv'
  <2>1. /\ pc' = p /\ DOMAIN my' = Fields /\ my'.unit = u /\ my'.gone = my.gone /\ SameMine
        /\ my'.h = 0 /\ my'.probe = 0
    BY <1>1, <1>2, <1>5 DEF Goto, SameMine, LocalTypes, Fields
  <2>2. LocalTypes'
    BY <1>2, <2>1 DEF LocalTypes, SameMine
  <2> QED
    BY <1>1, <1>2, <1>3, <2>1, <2>2, AloneInv DEF Alone, Closing
<1> QED
  BY <1>1, <1>3, <1>4, <1>5, AbandonInv DEF Closing, Probing

\* ... and its interface chosen.
LEMMA ChooseInterfaceInv ==
  ASSUME Inv, ChooseInterface
  PROVE  Inv'
<1>1. pc = "interface" /\ UNCHANGED <<scene, session, handles, opened>>
  BY DEF ChooseInterface, world, held
<1>2. LocalTypes /\ my.h = 0 /\ my.probe = 0 /\ my.unit \in Unit
  BY <1>1 DEF Inv, Types, Locals, Probing, Opening, Attending
<1>3. HandleTypes' /\ OneClaim' /\ HeldStay
  BY <1>1, Untouched
<1>4. Abandon \/ \E c : Goto("init", [my EXCEPT !.interface = c])
  BY DEF ChooseInterface
<1>5. ASSUME NEW c, Goto("init", [my EXCEPT !.interface = c]) PROVE Inv'
  <2>1. pc' = "init" /\ DOMAIN my' = Fields /\ SameUnit /\ SameMine /\ my'.h = 0 /\ my'.probe = 0
    BY <1>1, <1>2, <1>5 DEF Goto, SameUnit, SameMine, LocalTypes, Fields
  <2>2. LocalTypes'
    BY <1>2, <2>1 DEF LocalTypes, SameUnit, SameMine
  <2>3. my'.gone => my'.unit # None /\ \A h \in DOMAIN handles' : handles'[h].unit = my'.unit => handles'[h].dead
    BY <1>1, <1>2, <2>1, UnitAssumption DEF SameUnit, Inv, Current, Dead
  <2> QED
    BY <1>1, <1>2, <1>3, <2>1, <2>2, <2>3, AloneInv DEF Alone, Closing, SameUnit
<1> QED
  BY <1>1, <1>3, <1>4, <1>5, AbandonInv DEF Closing, Probing

\* The call has a handle of the device it opens.
AtHandle == /\ my.h \in DOMAIN handles /\ handles[my.h].unit = my.unit
            /\ Dead(my.h) => my.gone
            /\ scene.port = "usb1" => Dead(my.h) \/ handles[my.h].claimed
Sound == (Dead(my.h) \/ handles[my.h].claimed) /\ InSession(my.unit, my.h)

\* A step after which the call has such a handle, none of those held.
LEMMA HandleInv ==
  ASSUME Inv, SameMine, scene' = scene, session \subseteq session', pc \notin Closing, HeldStay,
         HandleTypes', LocalTypes', OneClaim',
         pc' \in Opening, my'.h # 0, my'.probe = 0, my'.unit \in Unit, my'.h \notin Held, AtHandle',
         my'.gone => \A h \in DOMAIN handles' : handles'[h].unit = my'.unit => handles'[h].dead,
         pc' \in {"info", "trust", "ready"} => Sound'
  PROVE  Inv'
<1>1. Types' /\ Owners' /\ Held' = Held
  BY InsideKeeps DEF HeldStay
<1>2. my'.closing = << >>
  BY DEF SameMine, Inv, Locals
<1>3. Locals'
  BY <1>2, UnitAssumption DEF Locals, Alone, Opening, Probing, Closing, Attending
<1>4. Current'
  BY <1>1 DEF Current, AtHandle, Sound, Alone, Opening, Probing, Attending, Dead
<1> QED
  BY <1>1, <1>3, <1>4 DEF Inv

\* A handle for the device, which is there.
LEMMA OpenedInv ==
  ASSUME Inv, NEW c \in BOOLEAN, ~my.gone, c => Free(my.unit), scene.port = "usb1" => c,
         handles' = Opened(my.unit, c), Goto("session", [my EXCEPT !.h = Fresh]),
         pc = "init", UNCHANGED <<scene, session, opened>>
  PROVE  Inv'
<1>1. LocalTypes /\ HandleTypes /\ OneClaim /\ my.probe = 0 /\ my.unit \in Unit
  BY DEF Inv, Types, Locals, Probing
<1>2. /\ HandleTypes' /\ Fresh \notin DOMAIN handles /\ Fresh \in DOMAIN handles' /\ Fresh \in Nat \ {0}
      /\ handles'[Fresh].unit = my.unit /\ handles'[Fresh].claimed = c /\ handles'[Fresh].dead = FALSE
      /\ \A h \in DOMAIN handles : Stays(h)
      /\ OneClaim'
  BY <1>1, OpenedFacts
<1>3. pc' = "session" /\ DOMAIN my' = Fields /\ SameUnit /\ SameMine /\ my'.h = Fresh /\ my'.probe = 0
  BY <1>1 DEF Goto, SameUnit, SameMine, LocalTypes, Fields
<1>4. LocalTypes'
  BY <1>1, <1>2, <1>3 DEF LocalTypes, SameUnit, SameMine
<1>5. Fresh \notin Held
  BY <1>2 DEF Inv, Owners, Good, Holds, Held, Mine
<1>6. AtHandle'
  BY <1>2, <1>3 DEF AtHandle, SameUnit, Dead
<1> QED
  BY <1>1, <1>2, <1>3, <1>4, <1>5, <1>6, HandleInv DEF HeldStay, Opening, Closing, SameUnit

\* A handle nobody closes.
LEMMA LeftInv ==
  ASSUME Inv, handles' = Opened(my.unit, FALSE), ~my.gone, Abandon, pc = "init", UNCHANGED <<scene, session, opened>>
  PROVE  Inv'
<1>1. HandleTypes /\ OneClaim
  BY DEF Inv, Types
<1>2. HandleTypes' /\ OneClaim' /\ \A h \in DOMAIN handles : Stays(h)
  BY <1>1, OpenedFacts
<1> QED
  BY <1>2, AbandonInv DEF HeldStay, Closing, Probing

\* init_ptp_usb of libusb1-glue.c claims the interface only if no handle has it, ...
LEMMA InitUsbInv ==
  ASSUME Inv, InitUsb
  PROVE  Inv'
<1>1. pc = "init" /\ UNCHANGED <<scene, session, opened>>
  BY DEF InitUsb, held
<1>2. \/ Abandon /\ UNCHANGED handles
      \/ ~my.gone /\ Abandon /\ handles' = Opened(my.unit, FALSE)
      \/ /\ ~my.gone /\ Free(my.unit) /\ handles' = Opened(my.unit, TRUE)
         /\ Goto("session", [my EXCEPT !.h = Fresh])
  BY DEF InitUsb, Claimable
<1>3. CASE Abandon /\ UNCHANGED handles
  BY <1>1, <1>3, Untouched, AbandonInv DEF Closing, Probing
<1> QED
  BY <1>1, <1>2, <1>3, LeftInv, OpenedInv

\* ... that of libusb-glue.c goes on without.
LEMMA InitUsb0Inv ==
  ASSUME Inv, InitUsb0
  PROVE  Inv'
<1>1. pc = "init" /\ scene.port = "usb0" /\ UNCHANGED <<scene, session, opened>>
  BY DEF InitUsb0, held
<1>2. \/ Abandon /\ UNCHANGED handles
      \/ ~my.gone /\ Abandon /\ handles' = Opened(my.unit, FALSE)
      \/ \E c \in BOOLEAN : /\ ~my.gone /\ c => Free(my.unit)
                            /\ ~my.gone /\ handles' = Opened(my.unit, c)
                            /\ Goto("session", [my EXCEPT !.h = Fresh])
  BY DEF InitUsb0, Claimable, Free
<1>3. CASE Abandon /\ UNCHANGED handles
  BY <1>1, <1>3, Untouched, AbandonInv DEF Closing, Probing
<1>4. CASE \E c \in BOOLEAN : /\ ~my.gone /\ c => Free(my.unit)
                            /\ ~my.gone /\ handles' = Opened(my.unit, c)
                            /\ Goto("session", [my EXCEPT !.h = Fresh])
  BY <1>1, <1>4, OpenedInv
<1> QED
  BY <1>1, <1>2, <1>3, <1>4, LeftInv
-----------------------------------------------------------------------------
\* A step with the same handle, which still is the device's.
LEMMA OnInv ==
  ASSUME Inv, pc \in Opening, pc' \in Opening, UNCHANGED <<scene, session, handles, opened>>,
         DOMAIN my' = Fields, SameUnit, SameMine, my'.h = my.h, my'.probe = my.probe,
         pc' \in {"info", "trust", "ready"} => pc \in {"info", "trust", "ready"}
  PROVE  Inv'
<1>1. HandleTypes' /\ OneClaim' /\ HeldStay
  BY Untouched
<1>2. LocalTypes'
  BY DEF Inv, Types, LocalTypes, SameUnit, SameMine
<1>3. AtHandle' /\ (pc' \in {"info", "trust", "ready"} => Sound')
  BY DEF Inv, Current, AtHandle, Sound, SameUnit, Dead, InSession
<1>4. my'.gone => \A h \in DOMAIN handles' : handles'[h].unit = my'.unit => handles'[h].dead
  BY DEF Inv, Current, SameUnit, Dead
<1>5. my'.h # 0 /\ my'.probe = 0 /\ my'.unit \in Unit /\ my'.h \notin Held
  BY DEF Inv, Current, Locals, SameUnit, Opening, Probing
<1>6. pc \notin Closing
  BY DEF Opening, Closing
<1> QED
  BY <1>1, <1>2, <1>3, <1>4, <1>5, <1>6, HandleInv DEF HeldStay

\* Without device information the device is abandoned.
LEMMA GetDeviceInfoInv ==
  ASSUME Inv, GetDeviceInfo
  PROVE  Inv'
<1>1. pc = "info" /\ UNCHANGED <<scene, session, handles, opened>>
  BY DEF GetDeviceInfo, world, held
<1>2. Abandon \/ Goto("trust", my) \/ Goto("ready", my)
  BY DEF GetDeviceInfo
<1>3. ASSUME NEW p \in {"trust", "ready"}, Goto(p, my) PROVE Inv'
  <2>1. pc' = p /\ my' = my
    BY <1>3 DEF Goto
  <2> QED
    BY <1>1, <2>1, OnInv DEF Opening, SameUnit, SameMine, Inv, Types, LocalTypes
<1>4. CASE Abandon
  BY <1>1, <1>4, Untouched, AbandonInv DEF Closing, Probing
<1> QED
  BY <1>2, <1>3, <1>4

\* What the handshake keeps of the local variables.
Handshakes(m) == /\ DOMAIN m = Fields /\ m.unit = my.unit /\ m.gone = my.gone /\ m.h = my.h /\ m.probe = my.probe
                 /\ m.got = my.got /\ m.closing = my.closing

\* The handshake keeps the handle and goes on or ends, ...
LEMMA HandshakeFacts ==
  ASSUME LocalTypes, Handshake
  PROVE  pc' \in {"trust", "ready"} /\ Handshakes(my')
<1> DEFINE ends == Goto("ready", [my EXCEPT !.step = 0, !.broken = @ \cup {my.unit}])
           goesOn(m) == IF my.step + 1 = Len(Steps) THEN Goto("ready", [m EXCEPT !.step = 0])
                                                    ELSE Goto("trust", [m EXCEPT !.step = @ + 1])
           validates(m, broken) ==
             LET hash == Validated(m, my.random)
             IN IF hash # NoHash THEN goesOn([my EXCEPT !.hash = hash, !.broken = @ \cup broken])
                ELSE Goto("ready", [my EXCEPT !.step = 0, !.broken = @ \cup broken])
           Done == pc' \in {"trust", "ready"} /\ Handshakes(my')
<1>1. DOMAIN my = Fields /\ Handshakes(my)
  BY DEF LocalTypes, Handshakes
<1>2. ends => Done
  BY <1>1 DEF Goto, Handshakes, Fields
<1>3. ASSUME NEW m, Handshakes(m), goesOn(m) PROVE Done
  <2>1. \/ pc' = "ready" /\ my' = [m EXCEPT !.step = 0]
        \/ pc' = "trust" /\ my' = [m EXCEPT !.step = @ + 1]
    BY <1>3 DEF Goto
  <2> QED
    BY <1>3, <2>1 DEF Handshakes, Fields
<1>4. ASSUME NEW m, NEW broken, validates(m, broken) PROVE Done
  <2>1. \/ \E hash : goesOn([my EXCEPT !.hash = hash, !.broken = @ \cup broken])
        \/ Goto("ready", [my EXCEPT !.step = 0, !.broken = @ \cup broken])
    BY <1>4
  <2>2. \A hash : Handshakes([my EXCEPT !.hash = hash, !.broken = @ \cup broken])
    BY <1>1 DEF Handshakes, Fields
  <2>3. Goto("ready", [my EXCEPT !.step = 0, !.broken = @ \cup broken]) => Done
    BY <1>1 DEF Goto, Handshakes, Fields
  <2> HIDE DEF goesOn, Done
  <2> QED
    BY <2>1, <2>2, <2>3, <1>3
<1>5. \A r : Handshakes([my EXCEPT !.random = r])
  BY <1>1 DEF Handshakes, Fields
<1>6. Goto("ready", [my EXCEPT !.step = 0]) => Done
  BY <1>1 DEF Goto, Handshakes, Fields
<1>7. \/ ends \/ Goto("ready", [my EXCEPT !.step = 0])
      \/ goesOn(my) \/ (\E r : goesOn([my EXCEPT !.random = r]))
      \/ \E m, broken : validates(m, broken)
  <2> HIDE DEF ends, goesOn, validates
  <2> QED
    BY DEF Handshake, ends, goesOn, validates
<1> HIDE DEF ends, goesOn, validates, Done
<1>8. Done
  BY <1>1, <1>2, <1>3, <1>4, <1>5, <1>6, <1>7
<1> QED
  BY <1>8 DEF Done

\* ... whatever the device answers.
LEMMA HandshakeInv ==
  ASSUME Inv, Handshake
  PROVE  Inv'
<1>1. pc = "trust" /\ UNCHANGED <<scene, session, handles, opened>>
  BY DEF Handshake, held
<1>2. pc' \in {"trust", "ready"} /\ Handshakes(my')
  BY HandshakeFacts DEF Inv, Types
<1> QED
  BY <1>1, <1>2, OnInv DEF Opening, SameUnit, SameMine, Handshakes

\* What comes of an OpenSession request.
LEMMA AnswerFacts ==
  ASSUME NEW rc, Answer(rc)
  PROVE  /\ session \subseteq session'
         /\ rc \in {"OK", "SessionAlreadyOpened"} =>
              (handles[my.h].claimed \/ Free(my.unit)) /\ my.unit \in session'
<1>1. session \subseteq session'
  BY DEF Answer
<1>2. rc \in {"OK", "SessionAlreadyOpened"} =>
              (handles[my.h].claimed \/ Free(my.unit)) /\ my.unit \in session'
  BY DEF Answer, Takes, Claimable
<1> QED
  BY <1>1, <1>2

\* A session that is open, or was, makes the handle a sound one: the kernel has let it
\* have the interface.
LEMMA InUseInv ==
  ASSUME Inv, pc \in Opening, Goto("info", my), handles' = InUse, UNCHANGED <<scene, opened>>,
         session \subseteq session', handles[my.h].claimed \/ Free(my.unit), my.unit \in session'
  PROVE  Inv'
<1>1. LocalTypes /\ HandleTypes /\ OneClaim /\ my.h \in DOMAIN handles /\ handles[my.h].unit = my.unit /\ my.h \notin Held
  BY DEF Inv, Types, Current
<1>2. /\ HandleTypes' /\ DOMAIN handles' = DOMAIN handles
      /\ handles'[my.h].unit = my.unit /\ handles'[my.h].dead = handles[my.h].dead /\ handles'[my.h].claimed
      /\ \A h \in DOMAIN handles : h # my.h => Stays(h)
      /\ OneClaim'
  BY <1>1, ClaimFacts DEF InUse
<1>3. pc' = "info" /\ my' = my
  BY DEF Goto
<1>4. HeldStay /\ SameMine /\ LocalTypes'
  BY <1>1, <1>2, <1>3 DEF HeldStay, SameMine, LocalTypes
<1>5. AtHandle' /\ Sound'
  BY <1>1, <1>2, <1>3 DEF AtHandle, Sound, InSession, Dead, Inv, Current
<1>6. my'.gone => \A h \in DOMAIN handles' : handles'[h].unit = my'.unit => handles'[h].dead
  BY <1>1, <1>2, <1>3 DEF Inv, Current, Dead, Stays
<1>7. my.h # 0 /\ my.probe = 0 /\ my.unit \in Unit
  BY DEF Inv, Locals, Opening, Probing
<1> QED
  BY <1>1, <1>2, <1>3, <1>4, <1>5, <1>6, <1>7, HandleInv DEF Opening, Closing

\* A session that cannot be opened: the interface is released and the device abandoned.
LEMMA ReleasedInv ==
  ASSUME Inv, pc \in Opening, Abandon, handles' = Released, UNCHANGED <<scene, opened>>, session \subseteq session'
  PROVE  Inv'
<1>1. HandleTypes /\ OneClaim /\ my.h \in DOMAIN handles /\ my.h \notin Held
  BY DEF Inv, Types, Current
<1>2. /\ HandleTypes' /\ OneClaim'
      /\ \A h \in DOMAIN handles : h # my.h => Stays(h)
  BY <1>1, ClaimFacts DEF Released
<1> QED
  BY <1>1, <1>2, AbandonInv DEF HeldStay, Opening, Closing, Probing

\* The request is made again, or the device reset.
LEMMA RetriedInv ==
  ASSUME Inv, pc = "session", NEW p \in {"reset", "increment"}, Goto(p, my),
         UNCHANGED <<scene, handles, opened>>, session \subseteq session'
  PROVE  Inv'
<1>1. pc' = p /\ my' = my
  BY DEF Goto
<1>2. HandleTypes' /\ OneClaim' /\ HeldStay
  BY Untouched
<1>3. LocalTypes' /\ SameMine
  BY <1>1 DEF Inv, Types, LocalTypes, SameMine
<1>4. AtHandle'
  BY <1>1 DEF Inv, Current, AtHandle, Dead, Opening
<1>5. my'.gone => \A h \in DOMAIN handles' : handles'[h].unit = my'.unit => handles'[h].dead
  BY <1>1 DEF Inv, Current, Dead
<1>6. my'.h # 0 /\ my'.probe = 0 /\ my'.unit \in Unit /\ my'.h \notin Held
  BY <1>1 DEF Inv, Current, Locals, Opening, Probing
<1> QED
  BY <1>1, <1>2, <1>3, <1>4, <1>5, <1>6, HandleInv DEF HeldStay, Opening, Closing

\* An OpenSession request, ...
LEMMA OpenSessionInv ==
  ASSUME Inv, OpenSession
  PROVE  Inv'
<1>1. pc = "session" /\ UNCHANGED <<scene, opened>>
  BY DEF OpenSession, held
<1>2. PICK rc \in Codes :
       /\ Answer(rc)
       /\ \/ rc \in {"OK", "SessionAlreadyOpened"} /\ Goto("info", my) /\ handles' = InUse
          \/ (Goto("reset", my) \/ Goto("increment", my)) /\ UNCHANGED handles
          \/ Abandon /\ (UNCHANGED handles \/ handles' = Released)
  BY DEF OpenSession
<1>3. session \subseteq session'
  BY <1>2, AnswerFacts
<1>4. CASE rc \in {"OK", "SessionAlreadyOpened"} /\ Goto("info", my) /\ handles' = InUse
  BY <1>1, <1>2, <1>3, <1>4, AnswerFacts, InUseInv DEF Opening
<1>5. CASE (Goto("reset", my) \/ Goto("increment", my)) /\ UNCHANGED handles
  BY <1>1, <1>3, <1>5, RetriedInv
<1>6. CASE Abandon /\ UNCHANGED handles
  BY <1>1, <1>3, <1>6, Untouched, AbandonInv DEF Closing, Probing
<1>7. CASE Abandon /\ handles' = Released
  BY <1>1, <1>3, <1>7, ReleasedInv DEF Opening
<1> QED
  BY <1>2, <1>4, <1>5, <1>6, <1>7

\* ... and the one with the next transaction id.
LEMMA OpenAgainInv ==
  ASSUME Inv, OpenAgain
  PROVE  Inv'
<1>1. pc = "increment" /\ UNCHANGED <<scene, opened>>
  BY DEF OpenAgain, held
<1>2. PICK rc \in Codes :
       /\ Answer(rc)
       /\ \/ rc \in {"OK", "SessionAlreadyOpened"} /\ Goto("info", my) /\ handles' = InUse
          \/ Abandon /\ handles' = Released
  BY DEF OpenAgain
<1>3. CASE rc \in {"OK", "SessionAlreadyOpened"} /\ Goto("info", my) /\ handles' = InUse
  BY <1>1, <1>2, <1>3, AnswerFacts, InUseInv DEF Opening
<1>4. CASE Abandon /\ handles' = Released
  BY <1>1, <1>2, <1>4, AnswerFacts, ReleasedInv DEF Opening
<1> QED
  BY <1>2, <1>3, <1>4
-----------------------------------------------------------------------------
\* Of the handles of one device all but the one with the interface are dead.
LEMMA Lone ==
  ASSUME Inv, NEW x \in DOMAIN handles, handles[x].claimed, NEW d \in Mine, d.h # x, d.unit = handles[x].unit
  PROVE  Dead(d.h)
<1>1. Holds(d)
  BY DEF Inv, Owners, Good, Mine
<1> QED
  BY <1>1 DEF Holds, Inv, OneClaim

\* The reset of a device takes the session of no other handle: if it had the
\* interface of a unit, those that are held of the same unit are dead.
LEMMA ResetInv ==
  ASSUME Inv, Reset
  PROVE  Inv'
<1>1. /\ pc = "reset" /\ UNCHANGED <<scene, opened>> /\ session \ {my.unit} \subseteq session'
      /\ handles' = Without(handles, my.h) /\ Goto("init", [my EXCEPT !.again = TRUE, !.h = 0])
  BY DEF Reset, held
<1>2. /\ LocalTypes /\ HandleTypes /\ OneClaim /\ my.probe = 0 /\ my.unit \in Unit /\ my.closing = << >>
      /\ my.h \in DOMAIN handles /\ handles[my.h].unit = my.unit /\ my.h \notin Held
  BY <1>1 DEF Inv, Types, Current, Locals, Opening, Probing, Closing
<1>3. /\ HandleTypes' /\ OneClaim' /\ DOMAIN handles' = DOMAIN handles \ {my.h}
      /\ \A h \in DOMAIN handles : h # my.h => Stays(h)
  BY <1>1, <1>2, ClosedFacts
<1>4. pc' = "init" /\ DOMAIN my' = Fields /\ SameUnit /\ SameMine /\ my'.h = 0 /\ my'.probe = 0
  BY <1>1, <1>2 DEF Goto, SameUnit, SameMine, LocalTypes, Fields
<1>5. ASSUME NEW d \in Mine, Holds(d), InSession(d.unit, d.h) PROVE Holds(d)' /\ InSession(d.unit, d.h)'
  <2>1. d.h # my.h /\ Stays(d.h)
    BY <1>2, <1>3, <1>5 DEF Held, Holds
  <2>2. Holds(d)'
    BY <1>5, <2>1 DEF Holds, Stays, Dead
  <2>3. CASE d.unit # my.unit
    <3>1. d.unit \in session => d.unit \in session'
      BY <1>1, <2>3
    <3> QED
      BY <1>1, <1>5, <2>1, <2>2, <3>1 DEF InSession, Stays, Dead
  <2>4. CASE d.unit = my.unit
    <3>1. scene.port = "usb0" \/ Dead(my.h) \/ handles[my.h].claimed
      BY <1>1, ScenarioAssumption DEF Inv, Types, Current, Opening
    <3>2. CASE Dead(my.h)
      <4>1. Dead(d.h)
        BY <1>1, <1>5, <2>4, <3>2 DEF Inv, Current, Opening, Holds
      <4> QED
        BY <4>1, <2>1, <2>2 DEF InSession, Stays, Dead
    <3>3. CASE handles[my.h].claimed
      <4>1. Dead(d.h)
        BY <1>2, <2>1, <2>4, <3>3, Lone
      <4> QED
        BY <4>1, <2>1, <2>2 DEF InSession, Stays, Dead
    <3>4. CASE scene.port = "usb0"
      BY <1>1, <2>2, <3>4 DEF InSession
    <3> QED
      BY <3>1, <3>2, <3>3, <3>4
  <2> QED
    BY <2>2, <2>3, <2>4
<1>6. Good'
  BY <1>1, <1>2, <1>4, <1>5, NoneOf DEF Inv, Owners, Good, Mine, SameMine
<1>7. Owners'
  BY <1>4, <1>6 DEF Inv, Owners, SameMine
<1>8. LocalTypes' /\ Types'
  BY <1>1, <1>2, <1>3, <1>4 DEF LocalTypes, SameUnit, SameMine, Inv, Types
<1>9. Locals'
  BY <1>2, <1>4, UnitAssumption DEF Locals, SameUnit, SameMine, Alone, Opening, Probing, Closing, Attending
<1>10. Current'
  BY <1>1, <1>3, <1>4 DEF Inv, Current, SameUnit, Alone, Opening, Probing, Attending, Dead, Stays
<1> QED
  BY <1>3, <1>7, <1>8, <1>9, <1>10 DEF Inv

\* The device is kept, or closed again.
LEMMA ReadyFacts ==
  ASSUME LocalTypes, Ready
  PROVE  LET d == [unit |-> my.unit, h |-> my.h, listed |-> call.op = "connected"]
         IN /\ DOMAIN my' = Fields /\ my'.unit = None /\ ~my'.gone /\ my'.h = 0 /\ my'.probe = my.probe
            /\ \/ pc' = "find" /\ my'.got = Append(my.got, d) /\ my'.closing = my.closing
               \/ pc' = "close" /\ my'.got = my.got /\ my'.closing = << d >>
<1> DEFINE d == [unit |-> my.unit, h |-> my.h, listed |-> call.op = "connected"]
<1> HIDE DEF d
<1>1. \/ \E todo : Goto("find", [NextDevice(my) EXCEPT !.todo = todo, !.got = Append(@, d)])
      \/ Goto("close", [NextDevice(my) EXCEPT !.todo = Tail(@), !.closing = << d >>])
  BY DEF Ready, Rejected, d
<1>2. /\ DOMAIN NextDevice(my) = Fields /\ NextDevice(my).unit = None /\ ~NextDevice(my).gone
      /\ NextDevice(my).h = 0 /\ NextDevice(my).probe = my.probe
      /\ NextDevice(my).got = my.got /\ NextDevice(my).closing = my.closing
  BY DEF NextDevice, LocalTypes, Fields
<1>3. CASE \E todo : Goto("find", [NextDevice(my) EXCEPT !.todo = todo, !.got = Append(@, d)])
  <2> HIDE DEF NextDevice
  <2> QED
    BY <1>2, <1>3 DEF Goto, Fields, d
<1>4. CASE Goto("close", [NextDevice(my) EXCEPT !.todo = Tail(@), !.closing = << d >>])
  <2> HIDE DEF NextDevice
  <2> QED
    BY <1>2, <1>4 DEF Goto, Fields, d
<1> QED
  BY <1>1, <1>3, <1>4

\* The device that was opened is sound, so the program may have it.
LEMMA ReadyInv ==
  ASSUME Inv, Ready
  PROVE  Inv'
<1> DEFINE d == [unit |-> my.unit, h |-> my.h, listed |-> call.op = "connected"]
<1>1. pc = "ready" /\ UNCHANGED <<scene, session, handles, opened>>
  BY DEF Ready, world, held
<1>2. /\ LocalTypes /\ opened \in Seq(MtpDevice) /\ my.got \in Seq(MtpDevice)
      /\ my.probe = 0 /\ my.unit \in Unit /\ my.closing = << >> /\ my.h \in Nat
      /\ my.h \in DOMAIN handles /\ handles[my.h].unit = my.unit /\ my.h \notin Held
      /\ Dead(my.h) \/ handles[my.h].claimed
      /\ InSession(my.unit, my.h)
  BY <1>1 DEF Inv, Types, LocalTypes, Current, Locals, Opening, Probing, Closing
<1>3. d \in MtpDevice /\ d.h = my.h /\ d.unit = my.unit
  BY <1>2 DEF MtpDevice
<1>4. /\ DOMAIN my' = Fields /\ my'.unit = None /\ ~my'.gone /\ my'.h = 0 /\ my'.probe = 0
      /\ \/ pc' = "find" /\ my'.got = Append(my.got, d) /\ my'.closing = << >>
         \/ pc' = "close" /\ my'.got = my.got /\ my'.closing = << d >>
  BY <1>2, ReadyFacts
<1> HIDE DEF d
<1>5. Holds(d) /\ InSession(d.unit, d.h)
  BY <1>2, <1>3 DEF Holds
<1>6. Distinct(opened, my.got, << >>)
  BY <1>2 DEF Inv, Owners
<1>7. \A x \in ToSet(opened) \cup ToSet(my.got) : x.h # d.h
  BY <1>2, <1>3 DEF Held, Mine
<1>8. CASE pc' = "find" /\ my'.got = Append(my.got, d) /\ my'.closing = << >>
  <2>1. my'.got \in Seq(MtpDevice) /\ ToSet(my'.got) = ToSet(my.got) \cup {d} /\ Distinct(opened, my'.got, << >>)
    BY <1>2, <1>3, <1>6, <1>7, <1>8, Added
  <2>2. Good'
    BY <1>1, <1>5, <1>8, <2>1, NoneOf DEF Inv, Owners, Good, Holds, InSession, Dead
  <2>3. Owners'
    BY <1>1, <1>8, <2>1, <2>2 DEF Owners
  <2>4. << >> \in Seq(MtpDevice)
    OBVIOUS
  <2>5. Types'
    BY <1>1, <1>4, <1>8, <2>1, <2>4 DEF Types, HandleTypes, LocalTypes, Inv
  <2>6. Locals'
    BY <1>4, <1>8 DEF Locals, Alone, Opening, Probing, Closing, Attending
  <2> QED
    BY <1>1, <1>4, <1>8, <2>3, <2>5, <2>6 DEF Inv, OneClaim, Current, Alone, Opening, Probing, Attending
<1>9. CASE pc' = "close" /\ my'.got = my.got /\ my'.closing = << d >>
  <2>1. my'.closing \in Seq(MtpDevice) /\ my'.closing # << >> /\ ToSet(my'.closing) = {d} /\ OwnHandles(my'.closing)
    BY <1>3, <1>9, OneOf
  <2>2. Apart(opened, my'.closing) /\ Apart(my.got, my'.closing)
    BY <1>7, <1>9, AllOf DEF Apart
  <2>3. Good'
    BY <1>1, <1>5, <1>9, <2>1 DEF Inv, Owners, Good, Holds, InSession, Dead
  <2>4. Owners'
    BY <1>1, <1>6, <1>9, <2>1, <2>2, <2>3 DEF Owners, Distinct
  <2>5. Types'
    BY <1>1, <1>2, <1>4, <1>9, <2>1 DEF Types, HandleTypes, LocalTypes, Inv
  <2>6. Locals'
    BY <1>4, <1>9, <2>1 DEF Locals, Alone, Opening, Probing, Closing, Attending
  <2> QED
    BY <1>1, <1>4, <1>9, <2>4, <2>5, <2>6 DEF Inv, OneClaim, Current, Alone, Opening, Probing, Attending
<1> QED
  BY <1>4, <1>8, <1>9

\* The session that is closed is that of no other device held.
LEMMA CloseSessionInv ==
  ASSUME Inv, CloseSession
  PROVE  Inv'
<1> DEFINE d == Head(my.closing)
<1>1. /\ pc = "close" /\ UNCHANGED <<scene, handles, opened>> /\ pc' = "closeusb" /\ my' = my
      /\ session' = session \/ (~Dead(d.h) /\ session' = session \ {d.unit})
  BY DEF CloseSession, held, Goto, Dead
<1>2. my.closing # << >> /\ my.closing \in Seq(MtpDevice) /\ Distinct(opened, my.got, my.closing)
      /\ opened \in Seq(MtpDevice) /\ my.got \in Seq(MtpDevice)
  BY <1>1 DEF Inv, Locals, Types, LocalTypes, Closing, Owners
<1>3. /\ d \in ToSet(my.closing)
      /\ \A e \in ToSet(opened) \cup ToSet(my.got) : e.h # d.h
      /\ \A e \in ToSet(my.closing) : e # d => e.h # d.h
  BY <1>2, Shorter
<1> HIDE DEF d
<1>4. Holds(d)
  BY <1>3 DEF Inv, Owners, Good
<1>5. ASSUME NEW e \in Mine, e.h # d.h, InSession(e.unit, e.h) PROVE InSession(e.unit, e.h)'
  <2>1. CASE e.unit = d.unit /\ ~Dead(d.h)
    <3>1. Dead(e.h)
      BY <1>4, <1>5, <2>1, Lone DEF Holds
    <3> QED
      BY <1>1, <3>1 DEF InSession, Dead
  <2>2. CASE e.unit # d.unit \/ Dead(d.h)
    BY <1>1, <1>5, <2>2 DEF InSession, Dead
  <2> QED
    BY <2>1, <2>2
<1>6. Good'
  BY <1>1, <1>3, <1>5 DEF Inv, Owners, Good, Mine, Holds, Dead, d
<1>7. Owners' /\ Types'
  BY <1>1, <1>2, <1>6 DEF Owners, Inv, Types, HandleTypes, LocalTypes
<1>8. Locals'
  BY <1>1 DEF Inv, Locals, Alone, Opening, Probing, Closing, Attending
<1>9. Current'
  BY <1>1 DEF Inv, Current, Locals, Alone, Opening, Probing, Closing, Attending, Dead
<1> QED
  BY <1>1, <1>7, <1>8, <1>9 DEF Inv, OneClaim

\* The handle goes, and the device with it.
LEMMA CloseUsbFacts ==
  ASSUME Inv, CloseUsb
  PROVE  LET d == Head(my.closing)
         IN /\ UNCHANGED scene /\ d \in ToSet(my.closing) /\ my.h = 0 /\ my.probe = 0 /\ Holds(d)
            /\ handles' = Without(handles, d.h)
            /\ session' = session \/ (~Dead(d.h) /\ session' = session \ {d.unit})
            /\ LocalTypes' /\ my'.unit = None /\ ~my'.gone /\ my'.h = 0 /\ my'.probe = 0
            /\ opened' \in Seq(MtpDevice) /\ Distinct(opened, my.got, my.closing)' /\ Mine = Mine' \cup {d}
            /\ \A e \in Mine' : e.h # d.h
            /\ \A e \in Mine' : e \in ToSet(opened) \cup ToSet(my.got) \/ (e \in ToSet(my.closing) /\ e # d)
            /\ (pc' = "close" /\ my'.closing # << >>) \/ (pc' \in {"find", "idle"} /\ my'.closing = << >>)
            /\ pc' = "idle" => my'.got = << >>
<1> DEFINE d == Head(my.closing)
           rest == Tail(my.closing)
           m == [my EXCEPT !.closing = rest]
<1>1. /\ pc = "closeusb" /\ UNCHANGED scene /\ handles' = Without(handles, d.h)
      /\ session' = session \/ (~Dead(d.h) /\ session' = session \ {d.unit})
      /\ \/ rest # << >> /\ Goto("close", m) /\ opened' = opened
         \/ rest = << >> /\ Goto("find", m) /\ opened' = opened
         \/ rest = << >> /\ Return(<< >>)
  BY DEF CloseUsb, Dead
<1>2. /\ LocalTypes /\ my.closing # << >> /\ my.closing \in Seq(MtpDevice) /\ Distinct(opened, my.got, my.closing)
      /\ opened \in Seq(MtpDevice) /\ my.got \in Seq(MtpDevice)
      /\ my.unit = None /\ ~my.gone /\ my.h = 0 /\ my.probe = 0
  BY <1>1 DEF Inv, Locals, Types, LocalTypes, Closing, Owners, Opening, Probing, Attending
<1>3. /\ rest \in Seq(MtpDevice) /\ Distinct(opened, my.got, rest) /\ d \in MtpDevice
      /\ ToSet(my.closing) = ToSet(rest) \cup {d}
      /\ \A e \in ToSet(opened) \cup ToSet(my.got) \cup ToSet(rest) : e.h # d.h
  BY <1>2, Shorter
<1> HIDE DEF d, rest
<1>4. Holds(d)
  BY <1>3 DEF Inv, Owners, Good
<1>5. Mine = ToSet(opened) \cup ToSet(my.got) \cup ToSet(rest) \cup {d}
  BY <1>3 DEF Mine
<1>6. CASE opened' = opened /\ ((rest # << >> /\ Goto("close", m)) \/ (rest = << >> /\ Goto("find", m)))
  <2>1. /\ DOMAIN my' = Fields /\ my'.unit = None /\ ~my'.gone /\ my'.h = 0 /\ my'.probe = 0
        /\ my'.got = my.got /\ my'.closing = rest
    BY <1>2, <1>6 DEF Goto, LocalTypes, Fields
  <2>2. LocalTypes' /\ Mine' = ToSet(opened) \cup ToSet(my.got) \cup ToSet(rest)
    BY <1>2, <1>3, <1>6, <2>1 DEF LocalTypes, Mine
  <2>3. Distinct(opened, my.got, my.closing)'
    BY <1>3, <1>6, <2>1
  <2>4. (pc' = "close" /\ my'.closing # << >>) \/ (pc' \in {"find", "idle"} /\ my'.closing = << >>)
    <3>1. (rest # << >> /\ pc' = "close") \/ (rest = << >> /\ pc' = "find")
      BY <1>6 DEF Goto
    <3> QED
      BY <3>1, <2>1
  <2>5. pc' # "idle"
    BY <1>6 DEF Goto
  <2> QED
    BY <1>1, <1>2, <1>3, <1>4, <1>5, <1>6, <2>1, <2>2, <2>3, <2>4, <2>5 DEF d, rest
<1>7. CASE rest = << >> /\ Return(<< >>)
  <2>1. /\ LocalTypes' /\ pc' = "idle" /\ my'.unit = None /\ ~my'.gone /\ my'.h = 0 /\ my'.probe = 0
        /\ my'.got = << >> /\ my'.closing = << >> /\ opened' = opened \o my.got
    BY <1>2, <1>7, ReturnFacts
  <2>2. /\ opened' \in Seq(MtpDevice) /\ ToSet(opened') = ToSet(opened) \cup ToSet(my.got)
        /\ Distinct(opened', << >>, << >>)
    BY <1>2, <1>3, <1>7, <2>1, Joined
  <2>3. Mine' = ToSet(opened) \cup ToSet(my.got)
    BY <2>1, <2>2, NoneOf DEF Mine
  <2>4. ToSet(rest) = {}
    BY <1>7, NoneOf
  <2>5. Distinct(opened, my.got, my.closing)'
    BY <2>1, <2>2
  <2> QED
    BY <1>1, <1>2, <1>3, <1>4, <1>5, <2>1, <2>2, <2>3, <2>4, <2>5 DEF d, rest
<1> QED
  BY <1>1, <1>6, <1>7

\* The reset on close takes no session from another device either.
LEMMA CloseUsbInv ==
  ASSUME Inv, CloseUsb
  PROVE  Inv'
<1> DEFINE d == Head(my.closing)
<1>1. /\ UNCHANGED scene /\ d \in ToSet(my.closing) /\ Holds(d)
      /\ handles' = Without(handles, d.h)
      /\ session' = session \/ (~Dead(d.h) /\ session' = session \ {d.unit})
      /\ LocalTypes' /\ my'.unit = None /\ ~my'.gone /\ my'.h = 0 /\ my'.probe = 0
      /\ opened' \in Seq(MtpDevice) /\ Distinct(opened, my.got, my.closing)' /\ Mine = Mine' \cup {d}
      /\ \A e \in Mine' : e.h # d.h
      /\ \A e \in Mine' : e \in ToSet(opened) \cup ToSet(my.got) \/ (e \in ToSet(my.closing) /\ e # d)
      /\ (pc' = "close" /\ my'.closing # << >>) \/ (pc' \in {"find", "idle"} /\ my'.closing = << >>)
      /\ pc' = "idle" => my'.got = << >>
  BY CloseUsbFacts
<1>2. HandleTypes /\ OneClaim
  BY DEF Inv, Types
<1>3. /\ HandleTypes' /\ OneClaim'
      /\ \A h \in DOMAIN handles : h # d.h => Stays(h)
  BY <1>1, <1>2, ClosedFacts
<1>4. ASSUME NEW e \in Mine' PROVE Holds(e)' /\ InSession(e.unit, e.h)'
  <2>1. e \in Mine /\ e.h # d.h /\ (e \in ToSet(opened) \cup ToSet(my.got) \/ (e \in ToSet(my.closing) /\ e # d))
    BY <1>1, <1>4
  <2>2. Holds(e) /\ InSession(e.unit, e.h)
    BY <2>1 DEF Inv, Owners, Good
  <2>3. Stays(e.h)
    BY <1>1, <1>3, <1>4, <2>2 DEF Holds
  <2>4. Holds(e)'
    BY <2>2, <2>3 DEF Holds, Stays, Dead
  <2>5. CASE e.unit = d.unit /\ ~Dead(d.h)
    <3>1. Dead(e.h)
      BY <1>1, <1>4, <2>5, Lone DEF Holds
    <3> QED
      BY <2>3, <2>4, <3>1 DEF InSession, Stays, Dead
  <2>6. CASE e.unit # d.unit \/ Dead(d.h)
    BY <1>1, <2>2, <2>3, <2>4, <2>6 DEF InSession, Stays, Dead
  <2> QED
    BY <2>4, <2>5, <2>6
<1> HIDE DEF d
<1>5. Owners'
  BY <1>1, <1>4 DEF Owners, Good, Mine
<1>6. Types'
  BY <1>1, <1>3 DEF Inv, Types
<1>7. Locals'
  BY <1>1 DEF Locals, Alone, Opening, Probing, Closing, Attending
<1>8. Current'
  BY <1>1 DEF Current, Opening, Probing, Attending
<1> QED
  BY <1>3, <1>5, <1>6, <1>7, <1>8 DEF Inv
-----------------------------------------------------------------------------
\* The calls: those that search have nothing in hand, ...
LEMMA CallFacts ==
  ASSUME Inv, Call
  PROVE  /\ pc = "idle" /\ UNCHANGED <<world, handles, events>>
         /\ pc' \in Attending => call'.op = pc'
         /\ \/ \E todo : /\ my' = [Local EXCEPT !.todo = todo] /\ pc' \in {"scan", "find"} /\ opened' = opened
            \/ \E n \in DOMAIN opened :
                 \/ my' = [Local EXCEPT !.closing = << opened[n] >>] /\ pc' = "close" /\ opened' = RemoveAt(opened, n)
                 \/ my' = [Local EXCEPT !.h = opened[n].h] /\ pc' \in {"listen", "wait"} /\ opened' = opened
            \/ LET linked == {d \in ToSet(opened) : d.listed}
               IN /\ linked # {} /\ my' = [Local EXCEPT !.closing = Reverse(Kept(opened, linked))] /\ pc' = "close"
                  /\ opened' = Kept(opened, ToSet(opened) \ linked)
<1> DEFINE linked == {d \in ToSet(opened) : d.listed}
<1>1. pc = "idle" /\ UNCHANGED <<world, handles, events>>
  BY DEF Call
<1>2. PICK op \in scene.calls, n \in 0 .. Cardinality(Unit), s \in Unit \cup {None} :
        /\ call' = [op |-> op, n |-> n, serial |-> s]
        /\ op = "open" => n \in DOMAIN raw
        /\ op \in {"release", "listen", "wait"} => n \in DOMAIN opened
        /\ CASE op \in {"detect", "get", "serial", "connected"} ->
                  pc' = "scan" /\ my' = [Local EXCEPT !.todo = Bus] /\ UNCHANGED opened
             [] op = "check" ->
                  /\ pc' = "scan" /\ my' = [Local EXCEPT !.todo = SelectSeq(Bus, LAMBDA p : p.addr = n)]
                  /\ UNCHANGED opened
             [] op = "open" ->
                  pc' = "find" /\ my' = [Local EXCEPT !.todo = << raw[n] >>] /\ UNCHANGED opened
             [] op = "release" ->
                  /\ pc' = "close" /\ my' = [Local EXCEPT !.closing = << opened[n] >>]
                  /\ opened' = RemoveAt(opened, n)
             [] op = "releaseList" ->
                  /\ linked # {}
                  /\ pc' = "close" /\ my' = [Local EXCEPT !.closing = Reverse(Kept(opened, linked))]
                  /\ opened' = Kept(opened, ToSet(opened) \ linked)
             [] op \in {"listen", "wait"} ->
                  pc' = op /\ my' = [Local EXCEPT !.h = opened[n].h] /\ UNCHANGED opened
  BY DEF Call
<1>3. op \in CallNames /\ call'.op = op
  BY <1>2, ScenarioAssumption DEF Inv, Types
<1> HIDE DEF linked
<1>4. CASE op \in {"detect", "get", "serial", "connected"}
  BY <1>1, <1>2, <1>4 DEF Attending
<1>5. CASE op = "check"
  BY <1>1, <1>2, <1>5 DEF Attending
<1>6. CASE op = "open"
  BY <1>1, <1>2, <1>6 DEF Attending
<1>7. CASE op = "release"
  BY <1>1, <1>2, <1>7 DEF Attending
<1>8. CASE op = "releaseList"
  BY <1>1, <1>2, <1>8 DEF linked, Attending
<1>9. CASE op \in {"listen", "wait"}
  BY <1>1, <1>2, <1>3, <1>9
<1> QED
  BY <1>3, <1>4, <1>5, <1>6, <1>7, <1>8, <1>9 DEF CallNames

\* ... those that release take their devices from the program, and those that listen
\* are at one of them.
LEMMA CallInv ==
  ASSUME Inv, Call
  PROVE  Inv' /\ Held' = Held
<1>1. /\ pc = "idle" /\ UNCHANGED <<scene, session, handles>>
      /\ \/ \E todo : /\ my' = [Local EXCEPT !.todo = todo] /\ pc' \in {"scan", "find"} /\ opened' = opened
         \/ \E n \in DOMAIN opened :
              \/ my' = [Local EXCEPT !.closing = << opened[n] >>] /\ pc' = "close" /\ opened' = RemoveAt(opened, n)
              \/ my' = [Local EXCEPT !.h = opened[n].h] /\ pc' \in {"listen", "wait"} /\ opened' = opened
         \/ LET linked == {d \in ToSet(opened) : d.listed}
            IN /\ linked # {} /\ my' = [Local EXCEPT !.closing = Reverse(Kept(opened, linked))] /\ pc' = "close"
               /\ opened' = Kept(opened, ToSet(opened) \ linked)
  BY CallFacts DEF world
<1>2. /\ opened \in Seq(MtpDevice) /\ HandleTypes /\ scene \in Scenarios
      /\ my.got = << >> /\ my.closing = << >> /\ Distinct(opened, << >>, << >>)
      /\ \A d \in ToSet(opened) : Holds(d) /\ InSession(d.unit, d.h)
  BY <1>1 DEF Inv, Types, Locals, Closing, Owners, Good
<1>3. Mine = ToSet(opened)
  BY <1>2, NoneOf DEF Mine
<1>4. << >> \in Seq(MtpDevice)
  OBVIOUS
<1>5. ASSUME opened' \in Seq(MtpDevice), DOMAIN my' = Fields, my'.unit = None, ~my'.gone, my'.probe = 0, my'.got = << >>,
             my'.closing \in Seq(MtpDevice), Distinct(opened', << >>, my'.closing),
             ToSet(opened) = ToSet(opened') \cup ToSet(my'.closing),
             \/ my'.h = 0 /\ pc' \in {"scan", "find"} /\ my'.closing = << >>
             \/ my'.h = 0 /\ pc' = "close" /\ my'.closing # << >>
             \/ /\ pc' \in {"listen", "wait"} /\ my'.closing = << >> /\ opened' = opened
                /\ my'.h \in Nat \ {0} /\ my'.h \in {d.h : d \in ToSet(opened)}
      PROVE  Inv' /\ Held' = Held
  <2>1. Mine' = Mine
    BY <1>3, <1>5, NoneOf DEF Mine
  <2>2. Held' = Held
    BY <2>1 DEF Held
  <2>3. Good'
    BY <1>1, <1>2, <1>5, NoneOf DEF Good, Holds, InSession, Dead
  <2>4. Owners'
    BY <1>5, <2>3 DEF Owners
  <2>5. LocalTypes'
    BY <1>4, <1>5 DEF LocalTypes
  <2>6. Types' /\ OneClaim'
    BY <1>1, <1>2, <1>5, <2>5 DEF Types, HandleTypes, Inv, OneClaim
  <2>7. Locals'
    BY <1>5 DEF Locals, Alone, Opening, Probing, Closing, Attending
  <2>8. Current'
    BY <1>5 DEF Current, Opening, Probing, Attending
  <2> QED
    BY <2>2, <2>4, <2>6, <2>7, <2>8 DEF Inv
<1>6. ASSUME NEW todo, my' = [Local EXCEPT !.todo = todo], pc' \in {"scan", "find"}, opened' = opened
      PROVE  Inv' /\ Held' = Held
  <2>1. /\ DOMAIN my' = Fields /\ my'.unit = None /\ ~my'.gone /\ my'.probe = 0 /\ my'.got = << >>
        /\ my'.closing = << >> /\ my'.h = 0
    BY <1>6, LocalFacts DEF Fields
  <2> QED
    BY <1>2, <1>4, <1>5, <1>6, <2>1, NoneOf
<1>7. ASSUME NEW n \in DOMAIN opened, my' = [Local EXCEPT !.closing = << opened[n] >>], pc' = "close",
             opened' = RemoveAt(opened, n)
      PROVE  Inv' /\ Held' = Held
  <2>1. /\ DOMAIN my' = Fields /\ my'.unit = None /\ ~my'.gone /\ my'.probe = 0 /\ my'.got = << >>
        /\ my'.closing = << opened[n] >> /\ my'.h = 0
    BY <1>7, LocalFacts DEF Fields
  <2>2. OwnHandles(opened) /\ opened[n] \in MtpDevice
    BY <1>2 DEF Distinct
  <2>3. my'.closing \in Seq(MtpDevice) /\ my'.closing # << >> /\ ToSet(my'.closing) = {opened[n]}
    BY <2>1, <2>2, OneOf
  <2>4. /\ opened' \in Seq(MtpDevice) /\ ToSet(opened) = ToSet(opened') \cup {opened[n]}
        /\ Distinct(opened', << >>, my'.closing)
    BY <1>2, <1>7, <2>1, <2>2, Taken
  <2> QED
    BY <1>5, <1>7, <2>1, <2>3, <2>4
<1>8. ASSUME NEW n \in DOMAIN opened, my' = [Local EXCEPT !.h = opened[n].h], pc' \in {"listen", "wait"}, opened' = opened
      PROVE  Inv' /\ Held' = Held
  <2>1. /\ DOMAIN my' = Fields /\ my'.unit = None /\ ~my'.gone /\ my'.probe = 0 /\ my'.got = << >>
        /\ my'.closing = << >> /\ my'.h = opened[n].h
    BY <1>8, LocalFacts DEF Fields
  <2>2. opened[n] \in ToSet(opened)
    BY AllOf
  <2>3. my'.h \in Nat \ {0}
    BY <1>2, <2>1, <2>2 DEF Holds, HandleTypes
  <2> QED
    BY <1>2, <1>4, <1>5, <1>8, <2>1, <2>2, <2>3, NoneOf
<1>9. ASSUME LET linked == {d \in ToSet(opened) : d.listed}
             IN /\ linked # {} /\ my' = [Local EXCEPT !.closing = Reverse(Kept(opened, linked))] /\ pc' = "close"
                /\ opened' = Kept(opened, ToSet(opened) \ linked)
      PROVE  Inv' /\ Held' = Held
  <2> DEFINE linked == {d \in ToSet(opened) : d.listed}
  <2>1. linked # {} /\ linked \subseteq ToSet(opened)
    BY <1>9
  <2>2. OwnHandles(opened)
    BY <1>2 DEF Distinct
  <2>3. /\ my' = [Local EXCEPT !.closing = Reverse(Kept(opened, linked))] /\ pc' = "close"
        /\ opened' = Kept(opened, ToSet(opened) \ linked)
    BY <1>9
  <2> HIDE DEF linked
  <2>4. /\ DOMAIN my' = Fields /\ my'.unit = None /\ ~my'.gone /\ my'.probe = 0 /\ my'.got = << >>
        /\ my'.closing = Reverse(Kept(opened, linked)) /\ my'.h = 0
    BY <2>3, LocalFacts DEF Fields
  <2> DEFINE k == Kept(opened, ToSet(opened) \ linked)
             c == Reverse(Kept(opened, linked))
  <2>5. /\ k \in Seq(MtpDevice) /\ c \in Seq(MtpDevice) /\ Distinct(k, << >>, c)
        /\ ToSet(opened) = ToSet(k) \cup ToSet(c) /\ ToSet(c) = ToSet(opened) \cap linked
    BY <1>2, <2>2, Parted
  <2>7. opened' = k /\ my'.closing = c
    BY <2>3, <2>4
  <2> HIDE DEF k, c
  <2>6. my'.closing # << >>
    BY <2>1, <2>5, <2>7, NoneOf
  <2>8. /\ opened' \in Seq(MtpDevice) /\ my'.closing \in Seq(MtpDevice) /\ Distinct(opened', << >>, my'.closing)
        /\ ToSet(opened) = ToSet(opened') \cup ToSet(my'.closing)
    BY <2>5, <2>7
  <2> QED
    BY <1>5, <2>3, <2>4, <2>6, <2>8
<1> QED
  BY <1>1, <1>6, <1>7, <1>8, <1>9

\* LIBMTP_Read_Event_Async returns at once, ...
LEMMA ListenInv ==
  ASSUME Inv, Listen
  PROVE  Inv'
<1>1. pc = "listen" /\ UNCHANGED <<scene, session, handles>>
  BY DEF Listen, world
<1>2. \E value : Return(value)
  BY DEF Listen
<1>3. my.closing = << >>
  BY <1>1 DEF Inv, Locals, Closing
<1> QED
  BY <1>1, <1>2, <1>3, ReturnInv
-----------------------------------------------------------------------------
\* A step that changes nothing of this.
LEMMA IdleInv ==
  ASSUME Inv, UNCHANGED <<scene, session, handles, opened, pc>>, DOMAIN my' = Fields, SameUnit, SameMine,
         my'.h = my.h, my'.probe = my.probe
  PROVE  Inv' /\ Held' = Held
<1>1. Types' /\ Locals' /\ OneClaim'
  BY DEF Inv, Types, HandleTypes, LocalTypes, Locals, OneClaim, SameUnit, SameMine
<1>2. Mine' = Mine
  BY DEF Mine, SameMine
<1>3. Held' = Held
  BY <1>2 DEF Held
<1>4. Owners'
  BY DEF Inv, Owners, Good, Holds, InSession, Dead, SameMine
<1>5. Current'
  BY <1>3 DEF Inv, Current, Dead, InSession, SameUnit
<1> QED
  BY <1>1, <1>3, <1>4, <1>5 DEF Inv

\* LIBMTP_Read_Event reads once more, or returns.
LEMMA WaitInv ==
  ASSUME Inv, Wait
  PROVE  Inv'
<1>1. pc = "wait" /\ UNCHANGED <<scene, session, handles>>
  BY DEF Wait, world
<1>2. (\E value : Return(value)) \/ (Goto("wait", [my EXCEPT !.again = TRUE]) /\ UNCHANGED opened)
  BY DEF Wait
<1>3. my.closing = << >> /\ DOMAIN my = Fields
  BY <1>1 DEF Inv, Locals, Closing, Types, LocalTypes
<1>4. CASE Goto("wait", [my EXCEPT !.again = TRUE]) /\ UNCHANGED opened
  <2>1. pc' = pc /\ DOMAIN my' = Fields /\ SameUnit /\ SameMine /\ my'.h = my.h /\ my'.probe = my.probe
    BY <1>1, <1>3, <1>4 DEF Goto, SameUnit, SameMine, Fields
  <2> QED
    BY <1>1, <1>4, <2>1, IdleInv
<1> QED
  BY <1>1, <1>2, <1>3, <1>4, ReturnInv

\* A callback is run, ...
LEMMA CallbackInv ==
  ASSUME Inv, Callback
  PROVE  Inv'
<1>1. UNCHANGED <<scene, session, handles, opened, pc, my>>
  BY DEF Callback, world, held
<1> QED
  BY <1>1, IdleInv DEF SameUnit, SameMine, Inv, Types, LocalTypes

\* ... a device attached, ...
LEMMA AttachInv ==
  ASSUME Inv, NEW u, NEW a, Attach(u, a)
  PROVE  Inv'
<1>1. UNCHANGED <<scene, session, handles, opened, pc, my>>
  BY DEF Attach, held
<1> QED
  BY <1>1, IdleInv DEF SameUnit, SameMine, Inv, Types, LocalTypes

\* ... or detached: its handles are dead from then on.
LEMMA DetachInv ==
  ASSUME Inv, NEW u \in Unit, Detach(u)
  PROVE  Inv'
<1>1. /\ UNCHANGED <<scene, opened, pc>> /\ session' = session \ {u}
      /\ handles' = [h \in DOMAIN handles |-> IF handles[h].unit = u
                                               THEN [handles[h] EXCEPT !.dead = TRUE, !.claimed = FALSE]
                                               ELSE handles[h]]
      /\ my' = [my EXCEPT !.gone = @ \/ my.unit = u]
  BY DEF Detach, held
<1>2. LocalTypes /\ HandleTypes
  BY DEF Inv, Types
<1>3. /\ DOMAIN my' = Fields /\ my'.unit = my.unit /\ SameMine /\ my'.h = my.h /\ my'.probe = my.probe
      /\ my'.gone <=> (my.gone \/ my.unit = u)
  BY <1>1, <1>2 DEF LocalTypes, Fields, SameMine
<1>4. DOMAIN handles' = DOMAIN handles
  BY <1>1
<1>5. ASSUME NEW h \in DOMAIN handles, handles[h].unit = u
      PROVE  /\ DOMAIN handles'[h] = {"unit", "claimed", "dead"}
             /\ handles'[h].unit = u /\ handles'[h].dead = TRUE /\ handles'[h].claimed = FALSE
  <2>1. handles'[h] = [handles[h] EXCEPT !.dead = TRUE, !.claimed = FALSE]
    BY <1>1, <1>5
  <2>2. DOMAIN handles[h] = {"unit", "claimed", "dead"}
    BY <1>2 DEF HandleTypes
  <2> QED
    BY <2>1, <2>2, <1>5
<1>6. ASSUME NEW h \in DOMAIN handles, handles[h].unit # u PROVE handles'[h] = handles[h]
  BY <1>1, <1>6
<1>7. HandleTypes'
  BY <1>2, <1>4, <1>5, <1>6 DEF HandleTypes
<1>8. OneClaim'
  BY <1>4, <1>5, <1>6 DEF Inv, OneClaim
<1>9. ASSUME NEW h \in DOMAIN handles
      PROVE  /\ handles'[h].unit = handles[h].unit
             /\ (Dead(h) => Dead(h)') /\ (Dead(h) \/ handles[h].claimed => Dead(h)' \/ handles'[h].claimed)
             /\ Dead(h)' => Dead(h) \/ handles[h].unit = u
  BY <1>5, <1>6 DEF Dead
<1>10. ASSUME NEW d, Holds(d) PROVE Holds(d)' /\ (InSession(d.unit, d.h) => InSession(d.unit, d.h)')
  <2>1. Holds(d)'
    BY <1>4, <1>9, <1>10 DEF Holds
  <2>2. CASE d.unit = u
    BY <1>5, <2>1, <2>2, <1>10 DEF Holds, InSession, Dead
  <2>3. CASE d.unit # u
    BY <1>1, <1>6, <2>1, <2>3, <1>10 DEF Holds, InSession, Dead
  <2> QED
    BY <2>1, <2>2, <2>3
<1>11. Owners'
  BY <1>1, <1>3, <1>10 DEF Inv, Owners, Good, SameMine
<1>12. Held' = Held
  BY <1>1, <1>3 DEF Held, Mine, SameMine
<1>13. Types' /\ Locals'
  BY <1>1, <1>2, <1>3, <1>7, UnitAssumption DEF Inv, Types, LocalTypes, Locals, SameMine
<1>14. my'.gone => \A h \in DOMAIN handles' : handles'[h].unit = my'.unit => Dead(h)'
  BY <1>3, <1>4, <1>5, <1>9 DEF Inv, Current, Dead
<1>15. pc' \in Opening => AtHandle'
  BY <1>1, <1>3, <1>4, <1>9 DEF Inv, Current, AtHandle
<1>16. pc' \in {"info", "trust", "ready"} => Sound'
  <2> SUFFICES ASSUME pc \in {"info", "trust", "ready"} PROVE Sound'
    BY <1>1
  <2>1. my.h \in DOMAIN handles /\ handles[my.h].unit = my.unit /\ (Dead(my.h) \/ handles[my.h].claimed)
        /\ InSession(my.unit, my.h)
    BY DEF Inv, Current, Opening
  <2>2. CASE my.unit = u
    BY <1>3, <1>5, <2>1, <2>2 DEF Sound, InSession, Dead
  <2>3. CASE my.unit # u
    <3>1. handles'[my.h] = handles[my.h] /\ my'.h = my.h /\ my'.unit = my.unit /\ scene' = scene
      BY <1>1, <1>3, <1>6, <2>1, <2>3
    <3>2. my.unit \in session => my.unit \in session'
      BY <1>1, <2>3
    <3> QED
      BY <2>1, <3>1, <3>2 DEF Sound, InSession, Dead
  <2> QED
    BY <2>2, <2>3
<1>18. pc' \in Probing => my'.probe \in DOMAIN handles' /\ my'.probe \notin Held'
  <2>1. pc' = pc /\ my'.probe = my.probe /\ DOMAIN handles' = DOMAIN handles
    BY <1>1, <1>3, <1>4
  <2>2. pc \in Probing => my.probe \in DOMAIN handles /\ my.probe \notin Held
    BY DEF Inv, Current
  <2> QED
    BY <2>1, <2>2, <1>12
<1>19. pc' \in Attending => my'.h \in {d.h : d \in ToSet(opened')}
  BY <1>1, <1>3 DEF Inv, Current
<1>20. pc' \in Opening => my'.h \notin Held'
  <2>1. pc' = pc /\ my'.h = my.h
    BY <1>1, <1>3
  <2>2. pc \in Opening => my.h \notin Held
    BY DEF Inv, Current
  <2> QED
    BY <2>1, <2>2, <1>12
<1>17. Current'
  BY <1>14, <1>15, <1>16, <1>18, <1>19, <1>20 DEF Current, AtHandle, Sound
<1> QED
  BY <1>8, <1>11, <1>13, <1>17 DEF Inv
-----------------------------------------------------------------------------
\* At first there is nothing to hold.
LEMMA InitInv == Init => Inv
<1> SUFFICES ASSUME Init PROVE Inv
  OBVIOUS
<1>1. /\ scene \in Scenarios /\ handles = [h \in {} |-> 0] /\ opened = << >> /\ pc = "idle" /\ my = Local
  BY DEF Init
<1>2. DOMAIN handles = {} /\ IsFiniteSet({})
  BY <1>1, FS_EmptySet
<1>3. << >> \in Seq(MtpDevice)
  OBVIOUS
<1>4. Types
  BY <1>1, <1>2, <1>3, LocalFacts DEF Types, HandleTypes, LocalTypes
<1>5. Owners
  BY <1>1, NoneOf, LocalFacts DEF Owners, Good, Distinct
<1>6. Locals /\ OneClaim /\ Current
  BY <1>1, <1>2, LocalFacts DEF Locals, OneClaim, Current, Alone, Opening, Probing, Closing, Attending
<1> QED
  BY <1>4, <1>5, <1>6 DEF Inv

\* Every step keeps the invariant.
LEMMA StepInv ==
  ASSUME Inv, [AnyNext]_vars
  PROVE  Inv'
<1>1. CASE Library
  BY <1>1, ScanInv, ProbeInv, NamesInv, AskMicrosoftInv, ScannedInv, FindInv, FoundInv, ChooseInterfaceInv, InitUsbInv,
     OpenSessionInv, ResetInv, OpenAgainInv, GetDeviceInfoInv, HandshakeInv, ReadyInv, CloseSessionInv, CloseUsbInv,
     ListenInv, WaitInv DEF Library
<1>2. CASE Library0
  BY <1>2, ScanInv, ProbeInv, NamesInv, AskMicrosoftInv, ScannedInv, FindInv, FoundInv, ChooseInterfaceInv, InitUsb0Inv,
     OpenSessionInv, ResetInv, OpenAgainInv, GetDeviceInfoInv, HandshakeInv, ReadyInv, CloseSessionInv, CloseUsbInv,
     ListenInv, WaitInv
  DEF Library0, Usb0, probe_device_descriptor, probe_os_descriptor, get_mtp_usb_device_list, Detect_Raw_Devices,
      find_interface, configure_usb_device, close_usb, event_async, event, Above
<1>3. CASE UNCHANGED vars
  BY <1>3, IdleInv DEF vars, world, held, SameUnit, SameMine, Inv, Types, LocalTypes
<1> QED
  BY <1>1, <1>2, <1>3, CallInv, CallbackInv, DetachInv, AttachInv DEF AnyNext, Usb1

\* The inductive invariant holds whatever the devices, the descriptors, the
\* faults and the calls are, of both ports of the library: libusb1-glue.c and libusb-glue.c.
THEOREM InvAlways == PortsSpec => []Inv
<1>1. Inv /\ [AnyNext]_vars => Inv'
  BY StepInv
<1> QED
  BY <1>1, InitInv, PTL DEF PortsSpec

\* Owned, always: a device the program holds has an open handle of its own, and
\* while it is attached the interface and, with libusb-1.0, the session, whatever
\* opens, resets, closes and probes there were, of this unit and of others.
THEOREM OwnedAlways == PortsSpec => []Owned
<1>1. Inv => Owned
  <2> SUFFICES ASSUME Inv, NEW i \in DOMAIN opened
               PROVE  LET d == opened[i]
                      IN /\ d.h \in DOMAIN handles /\ handles[d.h].unit = d.unit
                         /\ \A j \in DOMAIN opened : j # i => opened[j].h # d.h
                         /\ ~handles[d.h].dead => handles[d.h].claimed /\ (d.unit \in session \/ scene.port = "usb0")
                         /\ \A h \in DOMAIN handles \ {d.h} :
                              handles[h].unit = d.unit /\ handles[d.h].claimed => ~handles[h].claimed
    BY DEF Owned
  <2>1. Holds(opened[i]) /\ InSession(opened[i].unit, opened[i].h)
    BY AllOf DEF Inv, Owners, Good
  <2>2. \A j \in DOMAIN opened : j # i => opened[j].h # opened[i].h
    BY DEF Inv, Owners, Distinct, OwnHandles
  <2> QED
    BY <2>1, <2>2 DEF Holds, InSession, Dead, Inv, OneClaim
<1> QED
  BY <1>1, InvAlways, PTL
-----------------------------------------------------------------------------
\* What LosesNothing says of a step.
Sheds == \/ Lost' \subseteq Lost
         \/ my.unit # None /\ my.unit \in my'.broken
         \/ Names /\ scene.port = "usb0"

\* No step but the close of a device takes a handle from the program and the calls.
Keeps == Held \subseteq Held' /\ Sheds

\* A step that opens no handle but the one it is at then, and forgets none that
\* it was at, loses none.
LEMMA KeepsAll ==
  ASSUME Held \subseteq Held',
         \A h \in DOMAIN handles' : h \in DOMAIN handles \/ h \in {my'.h, my'.probe},
         \A h \in DOMAIN handles' : h \in {my.h, my.probe} => h \in Held' \cup {my'.h, my'.probe}
  PROVE  Keeps
<1>1. Lost = DOMAIN handles \ (Held \cup {my.h, my.probe})
  BY DEF Lost, Held
<1>2. Lost' = DOMAIN handles' \ (Held' \cup {my'.h, my'.probe})
  BY DEF Lost, Held
<1> QED
  BY <1>1, <1>2 DEF Keeps, Sheds

\* The devices held are the same if the lists are.
LEMMA SameHeld == SameMine => Held' = Held
BY DEF SameMine, Held, Mine

\* A step that opens no handle and keeps those that it has at hand.
LEMMA SameKeeps ==
  ASSUME Inv, SameMine, UNCHANGED handles \/ DOMAIN handles' = DOMAIN handles,
         my.h = my'.h \/ my.h = 0, my.probe = my'.probe \/ my.probe = 0
  PROVE  Keeps
<1>1. Held' = Held /\ DOMAIN handles' = DOMAIN handles /\ 0 \notin DOMAIN handles
  BY SameHeld DEF Inv, Types, HandleTypes
<1> QED
  BY <1>1, KeepsAll

\* An abandoned device is broken, so it may leave its handle.
LEMMA AbandonKeeps ==
  ASSUME Inv, Abandon, opened' = opened,
         my.unit # None \/ (UNCHANGED handles /\ my.h = 0)
  PROVE  Keeps
<1>1. LocalTypes
  BY DEF Inv, Types
<1>2. /\ my'.h = 0 /\ my'.probe = my.probe /\ SameMine
      /\ my.unit # None => my.unit \in my'.broken
  BY <1>1, AbandonFacts DEF SameMine
<1>3. CASE my.unit # None
  BY <1>2, <1>3, SameHeld DEF Keeps, Sheds
<1>4. CASE UNCHANGED handles /\ my.h = 0
  BY <1>2, <1>4, SameKeeps
<1> QED
  BY <1>3, <1>4

\* A call that returns was at no handle, or at one of the program's.
LEMMA ReturnKeeps ==
  ASSUME Inv, NEW value, Return(value), UNCHANGED <<scene, session, handles>>, my.closing = << >>,
         my.h = 0 \/ pc \in Attending, my.probe = 0
  PROVE  Keeps
<1>1. Held' = Held
  BY ReturnInv
<1>2. 0 \notin DOMAIN handles
  BY DEF Inv, Types, HandleTypes
<1>3. pc \in Attending => my.h \in Held
  BY DEF Inv, Current, Held, Mine
<1> QED
  BY <1>1, <1>2, <1>3, KeepsAll

\* The handle of the probing is closed, ...
LEMMA IdentifiedKeeps ==
  ASSUME Inv, NEW mtp, NEW broken, Identified(mtp, broken), opened' = opened,
         (handles' = handles /\ my.probe = 0) \/ handles' = Closed
  PROVE  Keeps
<1>1. LocalTypes /\ 0 \notin DOMAIN handles
  BY DEF Inv, Types, HandleTypes
<1>2. SameMine /\ my'.h = my.h /\ my'.probe = 0
  BY <1>1, IdentifiedFacts DEF SameMine
<1>3. Held' = Held
  BY <1>2, SameHeld
<1>4. CASE handles' = handles /\ my.probe = 0
  BY <1>1, <1>2, <1>3, <1>4, KeepsAll
<1>5. CASE handles' = Closed
  <2>1. DOMAIN handles' = DOMAIN handles \ {my.probe}
    BY <1>5 DEF Closed, Without
  <2> QED
    BY <1>2, <1>3, <2>1, KeepsAll
<1> QED
  BY <1>4, <1>5

\* ... and a new one is at hand.
LEMMA OpenedKeeps ==
  ASSUME Inv, NEW u, NEW c \in BOOLEAN, handles' = Opened(u, c), SameMine, my.h = 0, my.probe = 0,
         Fresh \in {my'.h, my'.probe}
  PROVE  Keeps
<1>1. HandleTypes /\ 0 \notin DOMAIN handles
  BY DEF Inv, Types, HandleTypes
<1>2. /\ \A h \in DOMAIN handles' : h = Fresh \/ h \in DOMAIN handles
      /\ Fresh \in Nat \ {0}
  BY <1>1, OpenedFacts
<1> QED
  BY <1>1, <1>2, SameHeld, KeepsAll

\* Neither the detection nor the search loses a handle, but for that of
\* libusb-glue.c, ...
LEMMA SearchKeeps ==
  ASSUME Inv, Scan \/ Probe \/ Names \/ AskMicrosoft \/ Scanned \/ Find \/ Found
  PROVE  Keeps
<1>1. LocalTypes
  BY DEF Inv, Types
<1>2. CASE Scan
  <2>1. /\ pc = "scan" /\ UNCHANGED <<handles, opened>>
        /\ (my' = my \/ \E l \in BOOLEAN : my' = Next1(l, {}))
    BY <1>2 DEF Scan, Goto, held
  <2>2. my.h = 0 /\ my.probe = 0
    BY <2>1 DEF Inv, Locals, Probing, Opening, Attending
  <2>3. ASSUME NEW l, my' = Next1(l, {}) PROVE my'.h = my.h /\ my'.got = my.got /\ my'.closing = my.closing
    BY <2>3, <1>1 DEF Next1, LocalTypes, Fields
  <2> QED
    BY <2>1, <2>2, <2>3, SameKeeps DEF SameMine
<1>3. CASE Probe
  <2>1. pc = "probe" /\ UNCHANGED opened
    BY <1>3 DEF Probe, held
  <2>2. my.h = 0 /\ my.probe = 0
    BY <2>1 DEF Inv, Locals, Probing, Opening, Attending, Alone
  <2>3. \/ UNCHANGED handles /\ \E broken : Identified(FALSE, broken)
        \/ handles' = Opened(Subject, FALSE) /\ my' = [my EXCEPT !.probe = Fresh]
    BY <1>3 DEF Probe, Goto
  <2>4. CASE handles' = Opened(Subject, FALSE) /\ my' = [my EXCEPT !.probe = Fresh]
    <3>1. my'.probe = Fresh /\ SameMine
      BY <2>1, <2>4, <1>1 DEF LocalTypes, Fields, SameMine
    <3> QED
      BY <2>2, <2>4, <3>1, OpenedKeeps
  <2>5. CASE UNCHANGED handles /\ \E broken : Identified(FALSE, broken)
    BY <2>1, <2>2, <2>5, IdentifiedKeeps
  <2> QED
    BY <2>3, <2>4, <2>5
<1>4. CASE Names
  <2>1. UNCHANGED opened
    BY <1>4 DEF Names, held
  <2>2. \/ \E broken : my' = [my EXCEPT !.broken = @ \cup broken] /\ UNCHANGED handles
        \/ \E mtp, broken : Identified(mtp, broken) /\ handles' = Closed
        \/ \E mtp, broken : Identified(mtp, broken) /\ handles' = handles /\ scene.port = "usb0"
    BY <1>4 DEF Names, Goto
  <2>3. ASSUME NEW broken, my' = [my EXCEPT !.broken = @ \cup broken], UNCHANGED handles PROVE Keeps
    <3>1. my'.h = my.h /\ my'.probe = my.probe /\ SameMine
      BY <2>1, <2>3, <1>1 DEF LocalTypes, Fields, SameMine
    <3> QED
      BY <2>3, <3>1, SameKeeps
  <2>4. ASSUME NEW mtp, NEW broken, Identified(mtp, broken), scene.port = "usb0" PROVE Keeps
    <3>1. SameMine
      BY <1>1, <2>1, <2>4, IdentifiedFacts DEF SameMine
    <3> QED
      BY <1>4, <2>4, <3>1, SameHeld DEF Keeps, Sheds
  <2>5. ASSUME NEW mtp, NEW broken, Identified(mtp, broken), handles' = Closed PROVE Keeps
    BY <2>1, <2>5, IdentifiedKeeps
  <2> QED
    BY <2>2, <2>3, <2>4, <2>5
<1>5. CASE AskMicrosoft
  <2>1. UNCHANGED opened /\ \E mtp, broken : Identified(mtp, broken) /\ handles' = Closed
    BY <1>5 DEF AskMicrosoft, held
  <2> QED
    BY <2>1, IdentifiedKeeps
<1>6. CASE Scanned \/ Found
  <2>1. /\ pc \in {"scan", "find"} /\ UNCHANGED <<scene, session, handles>>
        /\ \/ \E value : Return(value)
           \/ \E todo : my' = [my EXCEPT !.todo = todo] /\ opened' = opened
    BY <1>6 DEF Scanned, Found, world, held, Goto
  <2>2. my.h = 0 /\ my.probe = 0 /\ my.closing = << >>
    BY <2>1 DEF Inv, Locals, Probing, Opening, Attending, Closing
  <2>3. ASSUME NEW todo, my' = [my EXCEPT !.todo = todo], opened' = opened PROVE my'.h = my.h /\ SameMine
    BY <2>3, <1>1 DEF LocalTypes, Fields, SameMine
  <2> QED
    BY <2>1, <2>2, <2>3, ReturnKeeps, SameKeeps
<1>7. CASE Find
  <2>1. /\ pc = "find" /\ UNCHANGED <<handles, opened>>
        /\ Abandon \/ \E u : my' = [my EXCEPT !.unit = u]
    BY <1>7 DEF Find, held, Goto
  <2>2. my.h = 0 /\ my.probe = 0
    BY <2>1 DEF Inv, Locals, Probing, Opening, Attending
  <2>3. ASSUME NEW u, my' = [my EXCEPT !.unit = u] PROVE SameMine
    BY <2>1, <2>3, <1>1 DEF LocalTypes, Fields, SameMine
  <2> QED
    BY <2>1, <2>2, <2>3, AbandonKeeps, SameKeeps
<1> QED
  BY <1>2, <1>3, <1>4, <1>5, <1>6, <1>7

\* ... nor an open that succeeds, or goes on; a reset closes the one it had, ...
LEMMA OpenKeeps ==
  ASSUME Inv, ChooseInterface \/ InitUsb \/ InitUsb0 \/ OpenSession \/ Reset \/ OpenAgain \/ GetDeviceInfo \/ Handshake
  PROVE  Keeps
<1>1. /\ pc \in {"interface", "init"} \cup Opening /\ UNCHANGED opened
  BY DEF ChooseInterface, InitUsb, InitUsb0, OpenSession, Reset, OpenAgain, GetDeviceInfo, Handshake, held, Opening
<1>2. LocalTypes /\ my.unit \in Unit /\ my.unit # None /\ my.probe = 0
  BY <1>1, UnitAssumption DEF Inv, Types, Locals, Opening, Probing
<1>3. ASSUME Abandon PROVE Keeps
  BY <1>1, <1>2, <1>3, AbandonKeeps
<1>4. ASSUME NEW p, Goto(p, my), DOMAIN handles' = DOMAIN handles PROVE Keeps
  BY <1>1, <1>4, SameKeeps DEF Goto, SameMine
<1>5. CASE ChooseInterface
  <2>1. /\ UNCHANGED handles
        /\ Abandon \/ \E number : my' = [my EXCEPT !.interface = number]
    BY <1>5 DEF ChooseInterface, Goto
  <2>2. ASSUME NEW number, my' = [my EXCEPT !.interface = number]
        PROVE  my'.h = my.h /\ my'.probe = my.probe /\ SameMine
    BY <2>2, <1>1, <1>2 DEF LocalTypes, Fields, SameMine
  <2> QED
    BY <2>1, <2>2, <1>3, SameKeeps
<1>6. CASE InitUsb \/ InitUsb0
  <2>1. pc = "init" /\ (Abandon \/ \E c \in BOOLEAN : handles' = Opened(my.unit, c) /\ my' = [my EXCEPT !.h = Fresh])
    BY <1>6 DEF InitUsb, InitUsb0, Goto, Claimable, Free
  <2>2. my.h = 0
    BY <2>1 DEF Inv, Locals, Opening, Attending
  <2>3. ASSUME my' = [my EXCEPT !.h = Fresh]
        PROVE  my'.h = Fresh /\ SameMine
    BY <2>3, <1>1, <1>2 DEF LocalTypes, Fields, SameMine
  <2> QED
    BY <2>1, <2>2, <2>3, <1>2, <1>3, OpenedKeeps
<1>7. CASE OpenSession \/ OpenAgain
  <2>1. Abandon \/ ((\E p : Goto(p, my)) /\ (handles' = handles \/ handles' = InUse))
    BY <1>7 DEF OpenSession, OpenAgain
  <2>2. handles' = InUse => DOMAIN handles' = DOMAIN handles
    BY DEF InUse
  <2> QED
    BY <2>1, <2>2, <1>3, <1>4
<1>8. CASE Reset
  <2>1. handles' = Without(handles, my.h) /\ my' = [my EXCEPT !.again = TRUE, !.h = 0]
    BY <1>8 DEF Reset, Goto
  <2>2. SameMine /\ my'.probe = my.probe
    BY <2>1, <1>1, <1>2 DEF LocalTypes, Fields, SameMine
  <2>3. DOMAIN handles' = DOMAIN handles \ {my.h}
    BY <2>1 DEF Without
  <2>4. Held' = Held
    BY <2>2, SameHeld
  <2> QED
    BY <2>2, <2>3, <2>4, KeepsAll
<1>9. CASE GetDeviceInfo
  <2>1. UNCHANGED handles /\ (Abandon \/ \E p : Goto(p, my))
    BY <1>9 DEF GetDeviceInfo
  <2> QED
    BY <2>1, <1>3, <1>4
<1>10. CASE Handshake
  <2>1. UNCHANGED handles
    BY <1>10 DEF Handshake
  <2>2. Handshakes(my')
    BY <1>2, <1>10, HandshakeFacts
  <2>3. my'.h = my.h /\ my'.probe = my.probe /\ SameMine
    BY <1>1, <2>2 DEF Handshakes, SameMine
  <2> QED
    BY <2>1, <2>3, SameKeeps
<1> QED
  BY <1>5, <1>6, <1>7, <1>8, <1>9, <1>10

\* ... the device that was opened takes the handle over, ...
LEMMA ReadyKeeps ==
  ASSUME Inv, Ready
  PROVE  Keeps /\ Held' = Held \cup {my.h}
<1> DEFINE d == [unit |-> my.unit, h |-> my.h, listed |-> call.op = "connected"]
<1>1. LocalTypes /\ pc = "ready" /\ UNCHANGED <<handles, opened>> /\ d.h = my.h
  BY DEF Ready, held, Inv, Types
<1>8. d \in MtpDevice
  BY <1>1 DEF MtpDevice, Inv, Locals, Opening, LocalTypes
<1>2. /\ my'.h = 0 /\ my'.probe = my.probe
      /\ \/ my'.got = Append(my.got, d) /\ my'.closing = my.closing
         \/ my'.got = my.got /\ my'.closing = << d >>
  BY <1>1, ReadyFacts
<1> HIDE DEF d
<1>3. my.got \in Seq(MtpDevice) /\ my.closing = << >>
  BY <1>1 DEF LocalTypes, Inv, Locals, Closing
<1>4. ToSet(Append(my.got, d)) = ToSet(my.got) \cup {d}
  BY <1>3, <1>8, Appended
<1>5. Mine' = Mine \cup {d}
  BY <1>1, <1>2, <1>3, <1>4, OneOf, NoneOf DEF Mine
<1>6. Held' = Held \cup {my.h}
  BY <1>1, <1>5 DEF Held
<1>7. Keeps
  BY <1>1, <1>2, <1>6, KeepsAll
<1> QED
  BY <1>6, <1>7

\* ... and the handles of the devices that are listened to stay with them.
LEMMA HeardKeeps ==
  ASSUME Inv, CloseSession \/ Listen \/ Wait
  PROVE  Keeps
<1>1. CASE CloseSession
  BY <1>1, SameKeeps DEF CloseSession, Goto, held, SameMine
<1>2. CASE Listen
  <2>1. pc = "listen" /\ UNCHANGED <<scene, session, handles>> /\ \E value : Return(value)
    BY <1>2 DEF Listen, world
  <2>2. my.closing = << >> /\ my.probe = 0
    BY <2>1 DEF Inv, Locals, Closing, Probing
  <2> QED
    BY <2>1, <2>2, ReturnKeeps DEF Attending
<1>3. CASE Wait
  <2>1. /\ pc = "wait" /\ UNCHANGED <<scene, session, handles>>
        /\ (\E value : Return(value)) \/ (my' = [my EXCEPT !.again = TRUE] /\ UNCHANGED opened)
    BY <1>3 DEF Wait, world, Goto
  <2>2. my.closing = << >> /\ my.probe = 0 /\ LocalTypes
    BY <2>1 DEF Inv, Locals, Closing, Probing, Types
  <2>3. ASSUME my' = [my EXCEPT !.again = TRUE], UNCHANGED opened PROVE my'.h = my.h /\ my'.probe = my.probe /\ SameMine
    BY <2>3, <2>2 DEF LocalTypes, Fields, SameMine
  <2> QED
    BY <2>1, <2>2, <2>3, ReturnKeeps, SameKeeps DEF Attending
<1> QED
  BY <1>1, <1>2, <1>3

\* A device that is closed takes its handle along and no other.
LEMMA CloseUsbSheds ==
  ASSUME Inv, CloseUsb
  PROVE  Lost' \subseteq Lost /\ Held' = Held \ {Head(my.closing).h}
<1> DEFINE d == Head(my.closing)
<1>1. /\ my.h = 0 /\ my.probe = 0 /\ handles' = Without(handles, d.h) /\ my'.h = 0 /\ my'.probe = 0
      /\ Mine = Mine' \cup {d} /\ \A e \in Mine' : e.h # d.h
  BY CloseUsbFacts
<1> HIDE DEF d
<1>2. Held' = Held \ {d.h}
  BY <1>1 DEF Held
<1>3. DOMAIN handles' = DOMAIN handles \ {d.h}
  BY <1>1 DEF Without
<1> QED
  BY <1>1, <1>2, <1>3 DEF Lost, Held, d

\* What the program calls, and where the devices go, loses no handle.
LEMMA OutsideKeeps ==
  ASSUME Inv, Call \/ Callback \/ \E u \in Unit : Detach(u) \/ \E a \in Address : Attach(u, a)
  PROVE  Keeps
<1>1. CASE Call
  <2>1. Held' = Held /\ pc = "idle" /\ UNCHANGED handles
    BY <1>1, CallInv, CallFacts
  <2>2. my.h = 0 /\ my.probe = 0 /\ 0 \notin DOMAIN handles
    BY <2>1 DEF Inv, Locals, Opening, Attending, Probing, Types, HandleTypes
  <2> QED
    BY <2>1, <2>2, KeepsAll
<1>2. CASE Callback
  BY <1>2, SameKeeps DEF Callback, held, SameMine
<1>3. ASSUME NEW u \in Unit, Detach(u) PROVE Keeps
  <2>1. DOMAIN handles' = DOMAIN handles /\ UNCHANGED opened /\ my' = [my EXCEPT !.gone = @ \/ my.unit = u]
    BY <1>3 DEF Detach, held
  <2>2. my'.h = my.h /\ my'.probe = my.probe /\ SameMine
    BY <2>1 DEF Inv, Types, LocalTypes, Fields, SameMine
  <2> QED
    BY <2>1, <2>2, SameKeeps
<1>4. ASSUME NEW u \in Unit, NEW a \in Address, Attach(u, a) PROVE Keeps
  BY <1>4, SameKeeps DEF Attach, held, SameMine
<1> QED
  BY <1>1, <1>2, <1>3, <1>4

\* So only a close takes handles away, and no step loses one.
LEMMA StepKeeps ==
  ASSUME Inv, [AnyNext]_vars
  PROVE  Sheds /\ (Held \subseteq Held' \/ CloseUsb)
<1>1. CASE UNCHANGED vars
  <2>1. UNCHANGED handles /\ SameMine /\ my' = my
    BY <1>1 DEF vars, held, SameMine
  <2>2. Keeps
    BY <2>1, SameKeeps
  <2> QED
    BY <2>2 DEF Keeps
<1>2. CASE CloseUsb
  BY <1>2, CloseUsbSheds DEF Sheds
<1>3. CASE Library /\ ~CloseUsb
  <2>1. Keeps
    BY <1>3, SearchKeeps, OpenKeeps, ReadyKeeps, HeardKeeps DEF Library
  <2> QED
    BY <2>1 DEF Keeps
<1>4. CASE Library0 /\ ~CloseUsb
  <2>1. Keeps
    BY <1>4, SearchKeeps, OpenKeeps, ReadyKeeps, HeardKeeps
    DEF Library0, Usb0, probe_device_descriptor, probe_os_descriptor, get_mtp_usb_device_list, Detect_Raw_Devices,
        find_interface, configure_usb_device, close_usb, event_async, event, Above
  <2> QED
    BY <2>1 DEF Keeps
<1>5. CASE Call \/ Callback \/ \E u \in Unit : Detach(u) \/ \E a \in Address : Attach(u, a)
  BY <1>5, OutsideKeeps DEF Keeps
<1> QED
  BY <1>1, <1>2, <1>3, <1>4, <1>5 DEF AnyNext, Usb1

\* LosesNothing: only an open that fails leaves a handle that nobody closes, with
\* any number of devices, serial numbers that do not fit, and lists released in part.
THEOREM LosesNothingAlways == PortsSpec => LosesNothing
<1>1. Inv /\ [AnyNext]_vars => [\/ Lost' \subseteq Lost
                                \/ my.unit # None /\ my.unit \in my'.broken
                                \/ Names /\ scene.port = "usb0"]_vars
  BY StepKeeps DEF Sheds
<1>2. Inv /\ [AnyNext]_vars => Inv'
  BY StepInv
<1> QED
  BY <1>1, <1>2, InitInv, PTL DEF PortsSpec, LosesNothing
-----------------------------------------------------------------------------
\* What is heard; the numbers of the transfers under way, and of the callbacks run.
Told == [id : Nat, handler : {"OK", "ERROR"}, event : {"ObjectAdded", "NONE"}]
Waiting == {t.id : t \in transfers}
Ran == {e.id : e \in ToSet(heard)}
EventTypes ==
  /\ registered.n \in Nat /\ DOMAIN registered = {"n", "dropped"}
  /\ heard \in Seq(Told)
  /\ \A x, y \in transfers : x.id = y.id => x = y
Numbered ==
  /\ Ran \cup Waiting \cup registered.dropped = 1 .. registered.n
  /\ Cardinality(Ran) = Len(heard)
  /\ Ran \cap (Waiting \cup registered.dropped) = {} /\ Waiting \cap registered.dropped = {}
EventInv == EventTypes /\ Numbered /\ {t.h : t \in transfers} \subseteq Held

\* A step that has nothing to do with events, ...
LEMMA QuietEvents ==
  ASSUME EventInv, UNCHANGED <<registered, heard, transfers>>, Held \subseteq Held'
  PROVE  EventInv'
BY DEF EventInv, EventTypes, Numbered, Ran, Waiting

\* ... LIBMTP_Read_Event_Async, which counts a transfer only if it was submitted, ...
LEMMA ListenEvents ==
  ASSUME Inv, EventInv, Listen
  PROVE  EventInv'
<1>1. pc = "listen" /\ UNCHANGED <<scene, session, handles, heard>> /\ \E value : Return(value)
  BY DEF Listen, world
<1>2. my.closing = << >> /\ my.h \in Held
  BY <1>1 DEF Inv, Locals, Closing, Current, Attending, Held, Mine
<1>3. Held' = Held
  BY <1>1, <1>2, ReturnInv
<1>4. \/ UNCHANGED <<registered, transfers>>
      \/ /\ registered' = [registered EXCEPT !.n = @ + 1]
         /\ transfers' = transfers \cup {[id |-> registered.n + 1, h |-> my.h]}
  BY DEF Listen, Submitted
<1>5. ASSUME registered' = [registered EXCEPT !.n = @ + 1],
             transfers' = transfers \cup {[id |-> registered.n + 1, h |-> my.h]}
      PROVE  EventInv'
  <2> DEFINE n == registered.n
             t == [id |-> n + 1, h |-> my.h]
  <2>1. n \in Nat /\ registered'.n = n + 1 /\ registered'.dropped = registered.dropped /\ DOMAIN registered' = {"n", "dropped"}
    BY <1>5 DEF EventInv, EventTypes
  <2>2. transfers' = transfers \cup {t} /\ t.id = n + 1 /\ t.h = my.h
    BY <1>5
  <2> HIDE DEF n, t
  <2>3. Waiting' = Waiting \cup {n + 1} /\ Ran' = Ran
    BY <1>1, <2>2 DEF Waiting, Ran
  <2>4. Ran \cup Waiting \cup registered.dropped = 1 .. n
    BY DEF EventInv, Numbered, n
  <2>5. n + 1 \notin 1 .. n /\ 1 .. n + 1 = (1 .. n) \cup {n + 1}
    BY <2>1
  <2>6. \A x \in transfers : x.id # n + 1
    BY <2>4, <2>5 DEF Waiting
  <2>7. EventTypes'
    BY <1>1, <2>1, <2>2, <2>6 DEF EventInv, EventTypes
  <2>8. Numbered'
    BY <1>1, <2>1, <2>3, <2>4, <2>5 DEF EventInv, Numbered
  <2>9. {x.h : x \in transfers'} \subseteq Held'
    BY <1>2, <1>3, <2>2 DEF EventInv
  <2> QED
    BY <2>7, <2>8, <2>9 DEF EventInv
<1> QED
  BY <1>1, <1>3, <1>4, <1>5, QuietEvents

\* ... a callback, which is run once for its transfer, ...
LEMMA CallbackEvents ==
  ASSUME EventInv, Callback
  PROVE  EventInv'
<1>1. PICK t \in transfers, handler \in {"OK", "ERROR"}, what \in {"ObjectAdded", "NONE"} :
        /\ transfers' = transfers \ {t} /\ UNCHANGED <<registered, opened, my>>
        /\ heard' = Append(heard, [id |-> t.id, handler |-> handler, event |-> what])
  <2>1. PICK t \in transfers :
          /\ transfers' = transfers \ {t} /\ UNCHANGED <<registered, opened, my>>
          /\ \/ \E code \in {"ObjectAdded", "ObjectInfoChanged"} : Heard(t, "OK", EventOf(code))
             \/ Heard(t, "ERROR", "NONE")
    BY DEF Callback, held
  <2>2. \A code \in {"ObjectAdded", "ObjectInfoChanged"} : EventOf(code) \in {"ObjectAdded", "NONE"}
    BY DEF EventOf
  <2> QED
    BY <2>1, <2>2 DEF Heard
<1> DEFINE e == [id |-> t.id, handler |-> handler, event |-> what]
           n == registered.n
<1>2. n \in Nat /\ heard \in Seq(Told) /\ Ran \cup Waiting \cup registered.dropped = 1 .. n
  BY DEF EventInv, EventTypes, Numbered
<1>3. t.id \in Waiting
  BY DEF Waiting
<1>4. e \in Told /\ e.id = t.id
  BY <1>2, <1>3 DEF Told
<1>5. heard' = Append(heard, e)
  BY <1>1
<1> HIDE DEF e, n
<1>6. /\ heard' \in Seq(Told) /\ ToSet(heard') = ToSet(heard) \cup {e} /\ Len(heard') = Len(heard) + 1
  BY <1>2, <1>4, <1>5, Appended
<1>7. Ran' = Ran \cup {t.id}
  BY <1>4, <1>6 DEF Ran
<1>8. Waiting' = Waiting \ {t.id}
  BY <1>1 DEF Waiting, EventInv, EventTypes
<1>9. IsFiniteSet(Ran)
  <2>1. IsFiniteSet(1 .. n)
    <3>1. 1 \in Int /\ n \in Int
      BY <1>2
    <3> QED
      BY <3>1, FS_Interval
  <2> QED
    BY <1>2, <2>1, FS_Subset
<1>10. Cardinality(Ran') = Cardinality(Ran) + 1
  BY <1>3, <1>7, <1>9, FS_AddElement DEF EventInv, Numbered
<1>11. Numbered'
  BY <1>1, <1>3, <1>6, <1>7, <1>8, <1>10 DEF EventInv, Numbered
<1>12. EventTypes'
  BY <1>1, <1>6 DEF EventInv, EventTypes
<1>13. Held' = Held
  BY <1>1 DEF Held, Mine
<1> QED
  BY <1>1, <1>11, <1>12, <1>13 DEF EventInv

\* ... and the close of a device, whose transfers are dropped with its handle.
LEMMA CloseUsbEvents ==
  ASSUME Inv, EventInv, CloseUsb
  PROVE  EventInv'
<1> DEFINE d == Head(my.closing)
           ended == {t.id : t \in transfers \ transfers'}
<1>1. /\ transfers' = {t \in transfers : t.h # d.h} /\ heard' = heard
      /\ registered' = [registered EXCEPT !.dropped = @ \cup ended]
  BY DEF CloseUsb
<1>2. Held' = Held \ {d.h}
  BY CloseUsbSheds
<1> HIDE DEF d, ended
<1>3. /\ registered'.n = registered.n /\ DOMAIN registered' = {"n", "dropped"}
      /\ registered'.dropped = registered.dropped \cup ended
  BY <1>1 DEF EventInv, EventTypes
<1>4. Ran' = Ran
  BY <1>1 DEF Ran
<1>5. Waiting = Waiting' \cup ended /\ Waiting' \cap ended = {}
  BY <1>1 DEF Waiting, ended, EventInv, EventTypes
<1>6. Numbered'
  BY <1>1, <1>3, <1>4, <1>5 DEF EventInv, Numbered
<1>7. EventTypes'
  BY <1>1, <1>3 DEF EventInv, EventTypes
<1>8. {t.h : t \in transfers'} \subseteq Held'
  BY <1>1, <1>2 DEF EventInv
<1> QED
  BY <1>6, <1>7, <1>8 DEF EventInv

\* At first nothing was asked for.
LEMMA InitEvents == Init => EventInv
<1> SUFFICES ASSUME Init PROVE EventInv
  OBVIOUS
<1>1. transfers = {} /\ heard = << >> /\ registered = [n |-> 0, dropped |-> {}]
  BY DEF Init
<1>2. Ran = {} /\ Waiting = {}
  BY <1>1, NoneOf DEF Ran, Waiting
<1>3. Cardinality(Ran) = Len(heard)
  BY <1>1, <1>2, FS_EmptySet
<1>4. 1 .. 0 = {} /\ registered.n = 0 /\ registered.dropped = {} /\ DOMAIN registered = {"n", "dropped"}
  BY <1>1
<1>5. heard \in Seq(Told)
  BY <1>1
<1> QED
  BY <1>1, <1>2, <1>3, <1>4, <1>5 DEF EventInv, EventTypes, Numbered

\* Every step keeps the count.
LEMMA StepEvents ==
  ASSUME Inv, EventInv, [AnyNext]_vars
  PROVE  EventInv'
<1>1. Held \subseteq Held' \/ CloseUsb
  BY StepKeeps
<1>2. UNCHANGED events \/ CloseUsb \/ Callback \/ Listen
  <2>1. CASE Library
    BY <2>1 DEF Library, Scan, Probe, Names, AskMicrosoft, Scanned, Find, Found, ChooseInterface, InitUsb, OpenSession, Reset,
       OpenAgain, GetDeviceInfo, Handshake, Ready, CloseSession, Wait
  <2>2. CASE Library0
    BY <2>2 DEF Library0, Usb0, probe_device_descriptor, probe_os_descriptor, get_mtp_usb_device_list, Detect_Raw_Devices,
       find_interface, configure_usb_device, close_usb, event_async, event, Above,
       Scan, Probe, Names, AskMicrosoft, Scanned, Find, Found, ChooseInterface, InitUsb0, OpenSession, Reset,
       OpenAgain, GetDeviceInfo, Handshake, Ready, CloseSession, Wait
  <2>3. CASE Call \/ \E u \in Unit : Detach(u) \/ \E a \in Address : Attach(u, a)
    BY <2>3 DEF Call, Detach, Attach
  <2> QED
    BY <2>1, <2>2, <2>3 DEF AnyNext, Usb1, vars
<1> QED
  BY <1>1, <1>2, QuietEvents, ListenEvents, CallbackEvents, CloseUsbEvents DEF events

\* EventsAccounted, always: every LIBMTP_Read_Event_Async that returned 0 has its
\* callback run once, waits, or was dropped with its device, and waits only at a
\* device that is held: no callback comes to one that was released.
THEOREM EventsAlways == PortsSpec => []EventsAccounted
<1>1. EventInv => EventsAccounted
  BY DEF EventInv, Numbered, EventsAccounted, Ran, Waiting, Held
<1>2. Inv /\ EventInv /\ [AnyNext]_vars => Inv' /\ EventInv'
  BY StepInv, StepEvents
<1> QED
  BY <1>1, <1>2, InitInv, InitEvents, PTL DEF PortsSpec
-----------------------------------------------------------------------------
\* What the program is promised of a device of an open: if nothing failed for it,
\* the handshake succeeded.
Openers == {"open", "get", "serial", "connected"}
InStep(d, broken) ==
  Has(d.unit, "mtpz") /\ Genuine(scene.file) /\ d.unit \notin broken /\ ~Dead(d.h)
    => trust[d.unit].stage = "trusted"
Promised ==
  /\ pc = "ready" => InStep(my, my.broken)
  /\ \A d \in ToSet(my.got) : InStep(d, my.broken)
  /\ pc = "idle" /\ result.op \in Openers =>
       ToSet(result.value) \subseteq ToSet(opened) /\ \A d \in ToSet(result.value) : InStep(d, result.broken)

\* The handshake under way: where the device is in it when the library has made
\* m.step of its steps, and whose hash the library has.
Meets(m, t) ==
  /\ m.step >= 2 => t.stage = Stages[m.step]
  /\ m.step >= 3 => t.random = m.random
  /\ m.step <= 3 => m.hash = NoHash
  /\ m.step >= 4 => m.hash = t.made \/ (m.unit \in m.broken /\ t.before = t.random)
Underway ==
  /\ pc \notin {"trust", "ready"} => my.hash = NoHash
  /\ pc # "trust" => my.step = 0
  /\ pc = "trust" => my.step \in 0 .. 5 /\ (~my.gone => Meets(my, trust[my.unit]))
TrustTypes == /\ DOMAIN trust = Unit
              /\ \A u \in Unit : DOMAIN trust[u] = DOMAIN Stranger /\ trust[u].made \in Nat

\* The inductive invariant of Agreed: that a call that opened devices kept what it
\* promises rests on every device it has so far, and on every message of the handshake.
TrustInv == TrustTypes /\ Underway /\ Promised /\ (pc \in Attending => call.op = pc)

\* A handle that is dead remains so.
DeadStay == \A h \in DOMAIN handles : h \in DOMAIN handles' /\ Dead(h) => Dead(h)'

\* No step brings a handle back: one that is dead is closed, or remains so.
LEMMA DeadStays ==
  ASSUME Inv, [AnyNext]_vars
  PROVE  DeadStay
<1>1. HandleTypes
  BY DEF Inv, Types
<1>2. ASSUME UNCHANGED handles PROVE DeadStay
  BY <1>2 DEF DeadStay, Dead
<1>3. ASSUME NEW u, NEW c, handles' = Opened(u, c) PROVE DeadStay
  <2>1. Fresh \notin DOMAIN handles
    BY <1>1, FreshFacts DEF HandleTypes
  <2> QED
    BY <1>3, <2>1 DEF DeadStay, Dead, Opened, With
<1>4. ASSUME NEW h, handles' = Without(handles, h) PROVE DeadStay
  BY <1>4 DEF DeadStay, Dead, Without
<1>5. ASSUME handles' \in {InUse, Released} PROVE DeadStay
  <2> SUFFICES ASSUME NEW h \in DOMAIN handles PROVE handles'[h].dead = handles[h].dead
    BY DEF DeadStay, Dead
  <2>1. DOMAIN handles[h] = {"unit", "claimed", "dead"}
    BY <1>1 DEF HandleTypes
  <2>2. handles'[h] = handles[h] \/ \E c \in BOOLEAN : handles'[h] = [handles[h] EXCEPT !.claimed = c]
    BY <1>5 DEF InUse, Released
  <2> QED
    BY <2>1, <2>2
<1>6. ASSUME NEW u, Detach(u) PROVE DeadStay
  <2> SUFFICES ASSUME NEW h \in DOMAIN handles, handles[h].dead PROVE handles'[h].dead
    BY DEF DeadStay, Dead
  <2>1. DOMAIN handles[h] = {"unit", "claimed", "dead"}
    BY <1>1 DEF HandleTypes
  <2>2. handles'[h] = handles[h] \/ handles'[h] = [handles[h] EXCEPT !.dead = TRUE, !.claimed = FALSE]
    BY <1>6 DEF Detach
  <2> QED
    BY <2>1, <2>2
<1>7. CASE Library \/ Library0
  <2>1. CASE Scan \/ Scanned \/ Find \/ Found \/ ChooseInterface \/ GetDeviceInfo \/ Handshake \/ Ready \/ CloseSession \/ Listen \/ Wait
    BY <2>1, <1>2 DEF Scan, Scanned, Find, Found, ChooseInterface, GetDeviceInfo, Handshake, Ready, CloseSession, Listen, Wait
  <2>2. CASE Probe
    BY <2>2, <1>2, <1>3 DEF Probe
  <2>3. CASE Names
    BY <2>3, <1>2, <1>4 DEF Names, Closed
  <2>4. CASE AskMicrosoft
    BY <2>4, <1>4 DEF AskMicrosoft, Closed
  <2>5. CASE InitUsb \/ InitUsb0
    BY <2>5, <1>2, <1>3 DEF InitUsb, InitUsb0
  <2>6. CASE OpenSession \/ OpenAgain
    BY <2>6, <1>2, <1>5 DEF OpenSession, OpenAgain
  <2>7. CASE Reset \/ CloseUsb
    BY <2>7, <1>4 DEF Reset, CloseUsb
  <2> QED
    BY <1>7, <2>1, <2>2, <2>3, <2>4, <2>5, <2>6, <2>7
    DEF Library, Library0, Usb0, probe_device_descriptor, probe_os_descriptor, get_mtp_usb_device_list, Detect_Raw_Devices,
        find_interface, configure_usb_device, close_usb, event_async, event, Above
<1>8. CASE Call \/ Callback \/ (\E u \in Unit, a \in Address : Attach(u, a)) \/ UNCHANGED vars
  <2>1. UNCHANGED handles
    BY <1>8 DEF Call, Callback, Attach, vars
  <2> QED
    BY <2>1, <1>2
<1> QED
  BY <1>6, <1>7, <1>8 DEF AnyNext, Usb1

\* A promise is kept by a step that leaves the handshake of every device alone.
LEMMA PromiseKept ==
  ASSUME NEW d, NEW b, NEW c, Holds(d), Holds(d)', InStep(d, b), b \subseteq c, UNCHANGED <<scene, trust>>, DeadStay
  PROVE  InStep(d, c)'
<1>1. Dead(d.h) => Dead(d.h)'
  BY DEF Holds, DeadStay
<1> QED
  BY <1>1 DEF InStep, Has

\* A step of a call that goes on, and one that ends it.
Onward == /\ pc' \notin {"idle", "trust", "ready"} /\ my'.step = 0 /\ my'.hash = NoHash
          /\ my'.got = my.got /\ my.broken \subseteq my'.broken
          /\ pc' \in Attending => pc' = pc /\ call' = call
Over == \E value : Return(value) /\ (call.op \in Openers => value = << >> \/ value = my.got)

\* Neither breaks a promise.
LEMMA OnwardTrust ==
  ASSUME Inv, Inv', TrustInv, UNCHANGED <<scene, trust>>, DeadStay, Onward
  PROVE  TrustInv'
<1>1. TrustTypes'
  BY DEF TrustInv, TrustTypes
<1>2. Underway'
  BY DEF Onward, Underway
<1>3. ASSUME NEW d \in ToSet(my'.got) PROVE InStep(d, my.broken)'
  <2>1. d \in ToSet(my.got) /\ my.broken \subseteq my'.broken
    BY <1>3 DEF Onward
  <2>2. Holds(d) /\ Holds(d)'
    BY <1>3, <2>1 DEF Inv, Owners, Good
  <2>3. InStep(d, my.broken)
    BY <2>1 DEF TrustInv, Promised
  <2> QED
    BY <2>1, <2>2, <2>3, PromiseKept
<1>4. Promised'
  BY <1>3 DEF Promised, Onward
<1>5. pc' \in Attending => call'.op = pc'
  BY DEF Onward, TrustInv
<1> QED
  BY <1>1, <1>2, <1>4, <1>5 DEF TrustInv

\* The devices of a call that ends are the program's, with what they were promised.
LEMMA OverTrust ==
  ASSUME Inv, Inv', TrustInv, UNCHANGED <<scene, trust>>, DeadStay, Over
  PROVE  TrustInv'
<1>1. TrustTypes'
  BY DEF TrustInv, TrustTypes
<1>2. PICK value : Return(value) /\ (call.op \in Openers => value = << >> \/ value = my.got)
  BY DEF Over
<1>3. /\ pc' = "idle" /\ my' = Local /\ opened' = opened \o my.got
      /\ result'.op = call.op /\ result'.value = value /\ result'.broken = my.broken
  BY <1>2 DEF Return
<1>4. my'.step = 0 /\ my'.hash = NoHash /\ my'.got = << >>
  BY <1>3 DEF Local
<1>5. opened \in Seq(MtpDevice) /\ my.got \in Seq(MtpDevice) /\ Distinct(opened, my.got, << >>)
  <2>1. my.closing \in Seq(MtpDevice) /\ Distinct(opened, my.got, my.closing)
        /\ opened \in Seq(MtpDevice) /\ my.got \in Seq(MtpDevice)
    BY DEF Inv, Types, LocalTypes, Owners
  <2> QED
    BY <2>1, NoneOf DEF Distinct
<1>6. ToSet(opened') = ToSet(opened) \cup ToSet(my.got)
  BY <1>3, <1>5, Joined
<1>7. ASSUME call.op \in Openers, NEW d \in ToSet(value) PROVE d \in ToSet(opened') /\ InStep(d, result.broken)'
  <2>1. d \in ToSet(my.got) /\ d \in ToSet(opened')
    BY <1>2, <1>6, <1>7, NoneOf
  <2>2. Holds(d) /\ Holds(d)'
    BY <2>1 DEF Inv, Owners, Good
  <2>3. InStep(d, my.broken)
    BY <2>1 DEF TrustInv, Promised
  <2> QED
    BY <1>3, <2>1, <2>2, <2>3, PromiseKept
<1>8. Promised'
  BY <1>3, <1>4, <1>7, NoneOf DEF Promised
<1>9. Underway'
  BY <1>3, <1>4 DEF Underway
<1> QED
  BY <1>1, <1>3, <1>8, <1>9 DEF TrustInv, Attending
-----------------------------------------------------------------------------
\* The search goes on to the next device, ...
LEMMA AbandonOn ==
  ASSUME LocalTypes, Abandon
  PROVE  Onward
<1>1. my' = [NextDevice(my) EXCEPT !.todo = Others, !.broken = @ \cup ({Head(my.todo).unit, my.unit} \ {None})] /\ pc' = "find"
  BY DEF Abandon, Goto
<1>2. /\ DOMAIN NextDevice(my) = Fields /\ NextDevice(my).step = 0 /\ NextDevice(my).hash = NoHash
      /\ NextDevice(my).got = my.got /\ NextDevice(my).broken = my.broken
  BY DEF NextDevice, LocalTypes, Fields
<1> HIDE DEF NextDevice
<1>3. my'.step = 0 /\ my'.hash = NoHash /\ my'.got = my.got /\ my.broken \subseteq my'.broken
  BY <1>1, <1>2 DEF Fields
<1> QED
  BY <1>1, <1>3 DEF Onward, Attending

\* ... as it does after the probing.
LEMMA IdentifiedOn ==
  ASSUME LocalTypes, my.step = 0, my.hash = NoHash, NEW mtp, NEW broken, Identified(mtp, broken)
  PROVE  Onward
<1>1. CASE my.unit = None
  <2>1. pc' = "scan" /\ my' = Next1(mtp, broken)
    BY <1>1 DEF Identified, Goto
  <2>2. my'.step = 0 /\ my'.hash = NoHash /\ my'.got = my.got /\ my.broken \subseteq my'.broken
    BY <2>1 DEF Next1, LocalTypes, Fields
  <2> QED
    BY <2>1, <2>2 DEF Onward, Attending
<1>2. CASE my.unit # None
  <2>1. pc' = "interface" /\ my' = [my EXCEPT !.probe = 0]
    BY <1>2 DEF Identified, Goto
  <2>2. my'.step = 0 /\ my'.hash = NoHash /\ my'.got = my.got /\ my'.broken = my.broken
    BY <2>1 DEF LocalTypes, Fields
  <2> QED
    BY <2>1, <2>2 DEF Onward, Attending
<1> QED
  BY <1>1, <1>2

\* What a step of a call changes of its own, that the handshake has nothing to do with.
Elsewhere(m) == m.step = my.step /\ m.hash = my.hash /\ m.got = my.got /\ my.broken \subseteq m.broken

\* Edits of the other local variables.
LEMMA Edits ==
  ASSUME LocalTypes
  PROVE  /\ Elsewhere(my)
         /\ \A x : /\ Elsewhere([my EXCEPT !.todo = x]) /\ Elsewhere([my EXCEPT !.probe = x])
                   /\ Elsewhere([my EXCEPT !.unit = x]) /\ Elsewhere([my EXCEPT !.interface = x])
                   /\ Elsewhere([my EXCEPT !.h = x]) /\ Elsewhere([my EXCEPT !.closing = x])
                   /\ Elsewhere([my EXCEPT !.again = TRUE, !.h = x]) /\ Elsewhere([my EXCEPT !.again = TRUE])
                   /\ Elsewhere([my EXCEPT !.broken = @ \cup x])
                   /\ \A l : Elsewhere(Next1(l, x))
<1>1. Elsewhere(my)
  BY DEF Elsewhere
<1>2. ASSUME NEW x
      PROVE  /\ Elsewhere([my EXCEPT !.todo = x]) /\ Elsewhere([my EXCEPT !.probe = x])
             /\ Elsewhere([my EXCEPT !.unit = x]) /\ Elsewhere([my EXCEPT !.interface = x])
             /\ Elsewhere([my EXCEPT !.h = x]) /\ Elsewhere([my EXCEPT !.closing = x])
  BY DEF Elsewhere, LocalTypes, Fields
<1>3. ASSUME NEW x
      PROVE  Elsewhere([my EXCEPT !.again = TRUE, !.h = x]) /\ Elsewhere([my EXCEPT !.again = TRUE])
             /\ Elsewhere([my EXCEPT !.broken = @ \cup x])
  BY DEF Elsewhere, LocalTypes, Fields
<1>4. ASSUME NEW x, NEW l PROVE Elsewhere(Next1(l, x))
  BY DEF Elsewhere, Next1, LocalTypes, Fields
<1> QED
  BY <1>1, <1>2, <1>3, <1>4

\* Such a step goes on, unless it is one of the handshake.
LEMMA GoesOn ==
  ASSUME my.step = 0, my.hash = NoHash, NEW p, p \notin {"idle", "trust", "ready"}, p \in Attending => p = pc,
         NEW m, Goto(p, m), Elsewhere(m)
  PROVE  Onward
BY DEF Goto, Elsewhere, Onward

\* A call is at the handshake only in Handshake and Ready.
LEMMA Outside ==
  ASSUME Inv, TrustInv, pc \notin {"trust", "ready"}
  PROVE  LocalTypes /\ my.step = 0 /\ my.hash = NoHash
BY DEF Inv, Types, TrustInv, Underway

\* So the search of devices ...
LEMMA SearchOn ==
  ASSUME Inv, TrustInv, Scan \/ Probe \/ Names \/ AskMicrosoft \/ Scanned \/ Find \/ Found
  PROVE  Onward \/ Over
<1>1. pc \in {"scan", "probe", "names", "ask", "find"}
  BY DEF Scan, Probe, Names, AskMicrosoft, Scanned, Find, Found
<1>2. LocalTypes /\ my.step = 0 /\ my.hash = NoHash
  BY <1>1, Outside
<1>3. ASSUME NEW p \in {"scan", "probe", "names", "ask", "find", "interface"}, NEW m, Goto(p, m), Elsewhere(m) PROVE Onward
  BY <1>2, <1>3, GoesOn DEF Attending
<1>4. ASSUME NEW mtp, NEW broken, Identified(mtp, broken) PROVE Onward
  BY <1>2, <1>4, IdentifiedOn
<1>5. Abandon => Onward
  BY <1>2, AbandonOn
<1>6. CASE Scan
  <2>1. \/ Goto("probe", my)
        \/ \E l \in BOOLEAN : Goto("scan", Next1(l, {}))
    BY <1>6 DEF Scan
  <2> QED
    BY <2>1, <1>2, <1>3, Edits
<1>7. CASE Probe
  <2>1. (\E broken : Identified(FALSE, broken)) \/ Goto("names", [my EXCEPT !.probe = Fresh])
    BY <1>7 DEF Probe
  <2> QED
    BY <2>1, <1>2, <1>3, <1>4, Edits
<1>8. CASE Names
  <2>1. \/ \E broken : Goto("ask", [my EXCEPT !.broken = @ \cup broken])
        \/ \E mtp, broken : Identified(mtp, broken)
    BY <1>8 DEF Names
  <2> QED
    BY <2>1, <1>2, <1>3, <1>4, Edits
<1>9. CASE AskMicrosoft
  BY <1>9, <1>4 DEF AskMicrosoft
<1>10. CASE Scanned
  <2>1. \/ call.op \notin Openers /\ Return(my.found)
        \/ \E todo : Goto("find", [my EXCEPT !.todo = todo])
        \/ Return(<< >>)
    BY <1>10 DEF Scanned, Openers
  <2> QED
    BY <2>1, <1>2, <1>3, Edits DEF Over
<1>11. CASE Find
  <2>1. Abandon \/ \E u : Goto("probe", [my EXCEPT !.unit = u]) \/ Goto("interface", [my EXCEPT !.unit = u])
    BY <1>11 DEF Find
  <2> QED
    BY <2>1, <1>2, <1>3, <1>5, Edits
<1>12. CASE Found
  BY <1>12 DEF Found, Over
<1> QED
  BY <1>6, <1>7, <1>8, <1>9, <1>10, <1>11, <1>12

\* ... the opening before the handshake, ...
LEMMA OpenOn ==
  ASSUME Inv, TrustInv, ChooseInterface \/ InitUsb \/ InitUsb0 \/ OpenSession \/ Reset \/ OpenAgain
  PROVE  Onward
<1>1. pc \notin {"trust", "ready"}
  BY DEF ChooseInterface, InitUsb, InitUsb0, OpenSession, Reset, OpenAgain
<1>2. LocalTypes /\ my.step = 0 /\ my.hash = NoHash
  BY <1>1, Outside
<1>3. ASSUME NEW p \in {"init", "session", "info", "reset", "increment"}, NEW m, Goto(p, m), Elsewhere(m) PROVE Onward
  BY <1>2, <1>3, GoesOn DEF Attending
<1>4. Abandon => Onward
  BY <1>2, AbandonOn
<1>5. \/ Abandon \/ \E number : Goto("init", [my EXCEPT !.interface = number])
      \/ Goto("session", [my EXCEPT !.h = Fresh]) \/ Goto("init", [my EXCEPT !.again = TRUE, !.h = 0])
      \/ \E p \in {"info", "reset", "increment"} : Goto(p, my)
  BY DEF ChooseInterface, InitUsb, InitUsb0, OpenSession, Reset, OpenAgain
<1> QED
  BY <1>2, <1>3, <1>4, <1>5, Edits

\* ... and the calls on an open device do.
LEMMA AttendOn ==
  ASSUME Inv, TrustInv, CloseSession \/ CloseUsb \/ Listen \/ Wait
  PROVE  Onward \/ Over
<1>1. pc \in Closing \cup Attending
  BY DEF CloseSession, CloseUsb, Listen, Wait, Closing, Attending
<1>2. LocalTypes /\ my.step = 0 /\ my.hash = NoHash
  BY <1>1, Outside DEF Closing, Attending
<1>3. CASE CloseSession
  BY <1>2, <1>3, GoesOn, Edits DEF CloseSession, Attending
<1>4. CASE CloseUsb
  <2>1. Return(<< >>) \/ \E p \in {"close", "find"} : \E rest : Goto(p, [my EXCEPT !.closing = rest])
    BY <1>4 DEF CloseUsb
  <2> QED
    BY <2>1, <1>2, GoesOn, Edits DEF Over, Attending
<1>5. CASE Listen \/ Wait
  <2>1. pc \in Attending
    BY <1>5 DEF Listen, Wait, Attending
  <2>2. call.op \notin Openers
    BY <2>1 DEF TrustInv, Attending, Openers
  <2>3. (\E value : Return(value)) \/ (pc = "wait" /\ Goto("wait", [my EXCEPT !.again = TRUE]))
    BY <1>5 DEF Listen, Wait
  <2> QED
    BY <2>2, <2>3, <1>2, GoesOn, Edits DEF Over
<1> QED
  BY <1>3, <1>4, <1>5
-----------------------------------------------------------------------------
\* What a device does with the steps of the handshake.
LEMMA AfterFacts ==
  ASSUME NEW t, DOMAIN t = DOMAIN Stranger, t.made \in Nat, NEW step
  PROVE  LET x == After(t, step)
         IN /\ DOMAIN x = DOMAIN Stranger /\ x.made \in Nat
            /\ step # "response" => x.made = t.made
            /\ step \notin {"reset", "request"} => x.random = t.random /\ x.before = t.before
            /\ step # "initiator" => x.stage = step
            /\ step = "request" => x.random = my.random
            /\ step = "response" => x.made = t.made + 1
<1> DEFINE x == After(t, step)
<1>1. DOMAIN t = {"stage", "random", "made", "answered", "before"}
  BY DEF Stranger
<1>2. CASE step = "initiator"
  <2>1. x = t
    BY <1>2 DEF After
  <2> QED
    BY <1>2, <2>1
<1>3. CASE step = "reset"
  <2>1. x = [t EXCEPT !.stage = "reset", !.random = 0]
    BY <1>3 DEF After
  <2> HIDE DEF x
  <2> QED
    BY <1>1, <1>3, <2>1 DEF x
<1>4. CASE step = "request"
  <2>1. x = [t EXCEPT !.stage = "request", !.random = my.random, !.before = t.answered]
    BY <1>4 DEF After
  <2> HIDE DEF x
  <2> QED
    BY <1>1, <1>4, <2>1 DEF x
<1>5. CASE step = "response"
  <2>1. x = [t EXCEPT !.stage = "response", !.made = @ + 1, !.answered = t.random]
    BY <1>5 DEF After
  <2> HIDE DEF x
  <2>2. /\ DOMAIN x = DOMAIN t /\ x.stage = "response" /\ x.made = t.made + 1
        /\ x.random = t.random /\ x.before = t.before
    BY <1>1, <2>1
  <2>3. x.made \in Nat
    BY <2>2
  <2> QED
    BY <1>5, <2>2, <2>3 DEF x
<1>6. CASE step \notin {"initiator", "reset", "request", "response"}
  <2>1. x = [t EXCEPT !.stage = step]
    BY <1>6 DEF After
  <2> HIDE DEF x
  <2> QED
    BY <1>1, <1>6, <2>1 DEF x
<1> QED
  BY <1>2, <1>3, <1>4, <1>5, <1>6

\* ptp_mtpz_validatehandshakeresponse takes a response only if it is whole and to
\* the request of the handshake.
LEMMA ValidatedFacts ==
  ASSUME NEW n, NEW before, NEW r
  PROVE  /\ Validated(Response(before, n), r) = IF before = r THEN n ELSE NoHash
         /\ Validated(Garbled(Response(before, n)), r) = NoHash
BY DEF Validated, Response, Garbled, Echoes, Decrypt, Unmask, Mask, Encrypt

\* The steps of the handshake by their numbers.
StepAt(k) == Steps[k + 1]

\* Which step a number is; all but the first end in the stage of the same name.
LEMMA StepNames ==
  ASSUME NEW k \in 0 .. 5
  PROVE  /\ k = 0 <=> StepAt(k) = "initiator"
         /\ k = 1 <=> StepAt(k) = "reset"
         /\ k = 2 <=> StepAt(k) = "request"
         /\ k = 3 <=> StepAt(k) = "response"
         /\ k = 4 <=> StepAt(k) = "confirm"
         /\ k = 5 <=> StepAt(k) = "trusted"
         /\ StepAt(k) = Stages[k + 1] \/ k = 0
         /\ Len(Steps) = 6
BY DEF StepAt, Steps, Stages

\* Why a device does not accept a step: it is not at the one before, the signature
\* is not a genuine one, or the hash is not that of its response.
LEMMA AcceptsFacts ==
  ASSUME NEW t, NEW k \in 0 .. 5, ~Accepts(t, StepAt(k))
  PROVE  \/ k >= 2 /\ t.stage # Stages[k]
         \/ ~Genuine(scene.file)
         \/ k >= 4 /\ my.hash # t.made
<1>1. CASE ~InOrder(t, StepAt(k))
  <2>1. k >= 2
    BY <1>1, StepNames DEF InOrder
  <2>2. k + 1 \in 2 .. Len(Stages) /\ Stages[k + 1] = StepAt(k) /\ k + 1 - 1 = k
    BY <2>1, StepNames DEF Stages
  <2>3. t.stage # Stages[k]
    BY <1>1, <2>2 DEF InOrder
  <2> QED
    BY <2>1, <2>3
<1>2. CASE StepAt(k) = "request" /\ ~Request(scene.file, my.random).signature.genuine
  BY <1>2 DEF Request, Sign
<1>3. CASE StepAt(k) \in {"confirm", "trusted"} /\ my.hash # t.made
  <2>1. k >= 4
    BY <1>3, StepNames
  <2> QED
    BY <1>3, <2>1
<1>4. my.hash = t.made => Confirmation(my.hash) = Confirmation(t.made) /\ SecureSession(my.hash) = SecureSession(t.made)
  OBVIOUS
<1> QED
  BY <1>1, <1>2, <1>3, <1>4 DEF Accepts

\* What comes of a step: the device took it, and the library goes on, or ends;
\* the device did not accept it; or something failed.
Stepped(step) == trust' = [trust EXCEPT ![my.unit] = After(trust[my.unit], step)]
Ends == pc' = "ready" /\ my'.step = 0
Moves == IF my.step = 5 THEN Ends ELSE pc' = "trust" /\ my'.step = my.step + 1
Failed(step) == Ends /\ my'.broken = my.broken \cup {my.unit} /\ (UNCHANGED trust \/ (~my.gone /\ Stepped(step)))
Refused(step) == Ends /\ ~my.gone /\ my'.broken = my.broken /\ UNCHANGED trust /\ ~Accepts(trust[my.unit], step)
Sent(step) ==
  /\ step # "response" /\ ~my.gone /\ Stepped(step) /\ Moves
  /\ my'.hash = my.hash /\ my'.broken = my.broken /\ Accepts(trust[my.unit], step)
  /\ step # "reset" => my'.random = my.random
Answered(step) ==
  LET t == trust[my.unit]
  IN /\ step = "response" /\ ~my.gone /\ Stepped(step) /\ my.broken \subseteq my'.broken
     /\ \E m \in Answers(t) \cup BadAnswers(t) :
          /\ m \notin Answers(t) => my.unit \in my'.broken
          /\ \/ Validated(m, my.random) = NoHash /\ Ends
             \/ Validated(m, my.random) # NoHash /\ Moves /\ my'.random = my.random /\ my'.hash = Validated(m, my.random)

\* There is nothing else a step of ptp_mtpz_handshake comes to.
LEMMA HandshakeParts ==
  ASSUME LocalTypes, my.step \in 0 .. 5, Handshake
  PROVE  LET step == StepAt(my.step)
         IN Failed(step) \/ Refused(step) \/ Sent(step) \/ Answered(step)
<1> DEFINE t == trust[my.unit]
           step == StepAt(my.step)
           ends == Goto("ready", [my EXCEPT !.step = 0, !.broken = @ \cup {my.unit}])
           stops == Goto("ready", [my EXCEPT !.step = 0])
           goesOn(m) == IF my.step + 1 = Len(Steps) THEN Goto("ready", [m EXCEPT !.step = 0])
                                                    ELSE Goto("trust", [m EXCEPT !.step = @ + 1])
           hashed(hash, broken) == [my EXCEPT !.hash = hash, !.broken = @ \cup broken]
           validates(m, broken) ==
             LET hash == Validated(m, my.random)
             IN IF hash # NoHash THEN goesOn(hashed(hash, broken))
                ELSE Goto("ready", [my EXCEPT !.step = 0, !.broken = @ \cup broken])
<1> SUFFICES Failed(step) \/ Refused(step) \/ Sent(step) \/ Answered(step)
  OBVIOUS
<1>1. DOMAIN my = Fields
  BY DEF LocalTypes
<1>2. ends => Ends /\ my'.broken = my.broken \cup {my.unit}
  BY <1>1 DEF Goto, Fields, Ends
<1>3. stops => Ends /\ my'.broken = my.broken
  BY <1>1 DEF Goto, Fields, Ends
<1>4. ASSUME NEW m, DOMAIN m = Fields, m.step = my.step, goesOn(m)
      PROVE  Moves /\ my'.hash = m.hash /\ my'.random = m.random /\ my'.broken = m.broken
  <2>1. my.step + 1 = Len(Steps) <=> my.step = 5
    BY StepNames
  <2>2. CASE my.step = 5
    <3>1. pc' = "ready" /\ my' = [m EXCEPT !.step = 0]
      BY <1>4, <2>1, <2>2 DEF Goto
    <3> QED
      BY <1>4, <2>2, <3>1 DEF Moves, Ends, Fields
  <2>3. CASE my.step # 5
    <3>1. pc' = "trust" /\ my' = [m EXCEPT !.step = @ + 1]
      BY <1>4, <2>1, <2>3 DEF Goto
    <3> QED
      BY <1>4, <2>3, <3>1 DEF Moves, Fields
  <2> QED
    BY <2>2, <2>3
<1>5. ASSUME NEW hash, NEW broken
      PROVE  LET m == hashed(hash, broken)
             IN DOMAIN m = Fields /\ m.step = my.step /\ m.hash = hash /\ m.random = my.random
                /\ m.broken = my.broken \cup broken
  BY <1>1 DEF Fields
<1>6. ASSUME NEW r
      PROVE  LET m == [my EXCEPT !.random = r]
             IN DOMAIN m = Fields /\ m.step = my.step /\ m.hash = my.hash /\ m.broken = my.broken
  BY <1>1 DEF Fields
<1>7. ASSUME NEW m, NEW broken, validates(m, broken)
      PROVE  /\ my'.broken = my.broken \cup broken
             /\ \/ Validated(m, my.random) = NoHash /\ Ends
                \/ Validated(m, my.random) # NoHash /\ Moves /\ my'.random = my.random /\ my'.hash = Validated(m, my.random)
  <2> HIDE DEF goesOn, hashed
  <2>1. CASE Validated(m, my.random) # NoHash
    <3>1. goesOn(hashed(Validated(m, my.random), broken))
      BY <1>7, <2>1
    <3>2. /\ my'.hash = Validated(m, my.random) /\ my'.random = my.random
          /\ my'.broken = my.broken \cup broken /\ Moves
      BY <3>1, <1>4, <1>5
    <3> QED
      BY <2>1, <3>2
  <2>2. CASE Validated(m, my.random) = NoHash
    <3>1. pc' = "ready" /\ my' = [my EXCEPT !.step = 0, !.broken = @ \cup broken]
      BY <1>7, <2>2 DEF Goto
    <3> QED
      BY <1>1, <2>2, <3>1 DEF Ends, Fields
  <2> QED
    BY <2>1, <2>2
<1>8. \/ /\ ~my.gone /\ Accepts(t, step) /\ Stepped(step)
         /\ \/ step = "reset" /\ \E r \in Seconds : goesOn([my EXCEPT !.random = r])
            \/ step = "response" /\ \E m \in Answers(t) : validates(m, {})
            \/ step \notin {"reset", "response"} /\ goesOn(my)
      \/ /\ ~my.gone /\ step = "response" /\ Stepped(step)
         /\ \E m \in BadAnswers(t) : validates(m, {my.unit})
      \/ ~my.gone /\ ~Accepts(t, step) /\ UNCHANGED trust /\ stops
      \/ my.gone /\ UNCHANGED trust /\ ends
      \/ ~my.gone /\ (Stepped(step) \/ UNCHANGED trust) /\ ends
  <2> HIDE DEF ends, stops, goesOn, validates
  <2> QED
    BY DEF Handshake, Stepped, StepAt, ends, stops, goesOn, hashed, validates
<1> HIDE DEF ends, stops, goesOn, hashed, validates, step, t
<1>9. CASE ~my.gone /\ Accepts(t, step) /\ Stepped(step) /\ step = "reset" /\ \E r \in Seconds : goesOn([my EXCEPT !.random = r])
  BY <1>9, <1>4, <1>6 DEF Sent, t
<1>10. CASE ~my.gone /\ Accepts(t, step) /\ Stepped(step) /\ step \notin {"reset", "response"} /\ goesOn(my)
  BY <1>10, <1>1, <1>4 DEF Sent, t
<1>11. CASE ~my.gone /\ Stepped(step) /\ step = "response" /\ \E m \in Answers(t) : validates(m, {})
  BY <1>11, <1>7 DEF Answered, t
<1>12. CASE ~my.gone /\ Stepped(step) /\ step = "response" /\ \E m \in BadAnswers(t) : validates(m, {my.unit})
  BY <1>12, <1>7 DEF Answered, t
<1>13. CASE ~my.gone /\ ~Accepts(t, step) /\ UNCHANGED trust /\ stops
  BY <1>13, <1>3 DEF Refused, t
<1>14. CASE ends /\ (UNCHANGED trust \/ (~my.gone /\ Stepped(step)))
  BY <1>14, <1>2 DEF Failed
<1> QED
  BY <1>8, <1>9, <1>10, <1>11, <1>12, <1>13, <1>14
\* The other devices of the call are other units, or were detached: what the device
\* does in the handshake breaks no promise of theirs.
LEMMA OthersKept ==
  ASSUME Inv, TrustInv, pc = "trust", ~my.gone, NEW d \in ToSet(my.got)
  PROVE  d.unit # my.unit \/ Dead(d.h)
<1>1. my.h \in DOMAIN handles /\ handles[my.h].unit = my.unit /\ my.h \notin Held /\ handles[my.h].claimed
  BY DEF Inv, Current, Opening
<1>2. Holds(d) /\ d.h # my.h
  BY <1>1 DEF Inv, Owners, Good, Held, Mine
<1> QED
  BY <1>1, <1>2 DEF Holds, Inv, OneClaim

\* Every step of the handshake keeps the library and the device together, unless
\* something failed for it.
LEMMA HandshakeTrust ==
  ASSUME Inv, Inv', TrustInv, Handshake
  PROVE  TrustInv'
<1> DEFINE t == trust[my.unit]
           k == my.step
           step == StepAt(my.step)
<1>1. pc = "trust" /\ UNCHANGED <<scene, handles, opened>>
  BY DEF Handshake, held
<1>2. LocalTypes /\ my.unit \in Unit
  BY <1>1 DEF Inv, Types, Locals, Opening
<1>3. pc' \in {"trust", "ready"} /\ my'.unit = my.unit /\ my'.gone = my.gone /\ my'.h = my.h /\ my'.got = my.got
  BY <1>2, HandshakeFacts DEF Handshakes
<1>4. TrustTypes /\ k \in 0 .. 5 /\ (~my.gone => Meets(my, t))
  BY <1>1 DEF TrustInv, Underway
<1>5. DOMAIN t = DOMAIN Stranger /\ t.made \in Nat
  BY <1>2, <1>4 DEF TrustTypes
<1>6. Failed(step) \/ Refused(step) \/ Sent(step) \/ Answered(step)
  BY <1>2, <1>4, HandshakeParts
<1>7. my.broken \subseteq my'.broken
  BY <1>6 DEF Failed, Refused, Sent, Answered
<1>8. UNCHANGED trust \/ (~my.gone /\ Stepped(step))
  BY <1>6 DEF Failed, Refused, Sent, Answered
<1> DEFINE x == After(t, step)
<1>9. /\ DOMAIN x = DOMAIN Stranger /\ x.made \in Nat
      /\ step # "response" => x.made = t.made
      /\ step \notin {"reset", "request"} => x.random = t.random /\ x.before = t.before
      /\ step # "initiator" => x.stage = step
      /\ step = "request" => x.random = my.random
      /\ step = "response" => x.made = t.made + 1
  BY <1>5, AfterFacts
<1>10. Stepped(step) => /\ DOMAIN trust' = Unit /\ trust'[my.unit] = x
                        /\ \A u \in Unit : u # my.unit => trust'[u] = trust[u]
  BY <1>2, <1>4 DEF Stepped, TrustTypes
<1>11. /\ k = 0 <=> step = "initiator"
       /\ k = 1 <=> step = "reset"
       /\ k = 2 <=> step = "request"
       /\ k = 3 <=> step = "response"
       /\ k = 4 <=> step = "confirm"
       /\ k = 5 <=> step = "trusted"
       /\ step = Stages[k + 1] \/ k = 0
  BY <1>4, StepNames
<1> HIDE DEF x, t, k, step
<1>12. TrustTypes'
  BY <1>4, <1>8, <1>9, <1>10 DEF TrustTypes
<1>13. ASSUME NEW d \in ToSet(my'.got) PROVE InStep(d, my.broken)'
  <2>1. d \in ToSet(my.got) /\ InStep(d, my.broken) /\ Holds(d) /\ Holds(d)' /\ d.unit \in Unit
    <3>1. my.got \in Seq(MtpDevice) /\ d \in ToSet(my.got)
      BY <1>2, <1>3 DEF LocalTypes
    <3>2. d \in MtpDevice
      BY <3>1, AllOf
    <3> QED
      BY <1>3, <3>1, <3>2 DEF TrustInv, Promised, Inv, Owners, Good, MtpDevice
  <2>2. DeadStay
    BY <1>1 DEF DeadStay, Dead
  <2>3. CASE UNCHANGED trust
    BY <1>1, <1>7, <2>1, <2>2, <2>3, PromiseKept
  <2>4. CASE ~my.gone /\ Stepped(step)
    <3>1. CASE Dead(d.h)
      BY <1>1, <3>1 DEF InStep, Dead
    <3>2. CASE d.unit # my.unit
      BY <1>1, <1>7, <1>10, <2>1, <2>4, <3>2 DEF InStep, Dead, Has
    <3> QED
      BY <1>1, <2>1, <2>4, <3>1, <3>2, OthersKept
  <2> QED
    BY <1>8, <2>3, <2>4
<1>14. ASSUME Ends, InStep(my, my.broken)' PROVE TrustInv'
  <2>1. Underway'
    BY <1>14 DEF Ends, Underway
  <2>2. Promised'
    BY <1>13, <1>14 DEF Ends, Promised
  <2> QED
    BY <1>12, <1>14, <2>1, <2>2 DEF TrustInv, Ends, Attending
<1>15. ASSUME pc' = "trust", my'.step = k + 1, k # 5, Meets(my, trust[my.unit])' PROVE TrustInv'
  <2>1. my'.step \in 0 .. 5
    BY <1>4, <1>15 DEF k
  <2>2. Underway'
    BY <1>15, <2>1 DEF Underway
  <2>3. Promised'
    BY <1>13, <1>15 DEF Promised
  <2> QED
    BY <1>12, <1>15, <2>2, <2>3 DEF TrustInv, Attending
<1>16. CASE Failed(step)
  BY <1>3, <1>14, <1>16 DEF Failed, InStep
<1>17. CASE Refused(step)
  <2>1. \/ k >= 2 /\ t.stage # Stages[k]
        \/ ~Genuine(scene.file)
        \/ k >= 4 /\ my.hash # t.made
    BY <1>4, <1>17, AcceptsFacts DEF Refused, t, k, step
  <2>2. k >= 2 => t.stage = Stages[k]
    BY <1>4, <1>17 DEF Refused, Meets, k
  <2>3. k >= 4 => my.hash = t.made \/ my.unit \in my.broken
    BY <1>4, <1>17 DEF Refused, Meets, k
  <2>4. InStep(my, my.broken)'
    BY <1>1, <1>3, <1>17, <2>1, <2>2, <2>3 DEF Refused, InStep
  <2> QED
    BY <1>14, <1>17, <2>4 DEF Refused
<1>18. CASE Sent(step)
  <2>1. /\ ~my.gone /\ Meets(my, t) /\ trust'[my.unit] = x /\ step # "response" /\ Moves
        /\ my'.hash = my.hash /\ my'.broken = my.broken /\ (step # "reset" => my'.random = my.random)
    BY <1>4, <1>10, <1>18 DEF Sent
  <2>2. CASE k = 5
    <3>1. x.stage = "trusted" /\ Ends
      BY <1>9, <1>11, <2>1, <2>2 DEF Moves, k
    <3>2. InStep(my, my.broken)'
      BY <1>3, <2>1, <3>1 DEF InStep
    <3> QED
      BY <1>14, <3>1, <3>2
  <2>3. CASE k # 5
    <3>1. pc' = "trust" /\ my'.step = k + 1 /\ k # 3
      BY <1>11, <2>1, <2>3 DEF Moves, k
    <3>2. k + 1 >= 2 => x.stage = Stages[k + 1]
      BY <1>4, <1>9, <1>11
    <3>3. k + 1 >= 3 => x.random = my'.random
      BY <1>4, <1>9, <1>11, <2>1, <3>1 DEF Meets, k
    <3>4. k + 1 <= 3 => my'.hash = NoHash
      BY <1>4, <2>1 DEF Meets, k
    <3>5. k + 1 >= 4 => my'.hash = x.made \/ (my'.unit \in my'.broken /\ x.before = x.random)
      <4>1. k + 1 >= 4 => k = 4
        BY <1>4, <2>3, <3>1
      <4> QED
        BY <4>1, <1>3, <1>9, <1>11, <2>1 DEF Meets, k
    <3>6. Meets(my, trust[my.unit])'
      BY <1>3, <2>1, <3>1, <3>2, <3>3, <3>4, <3>5 DEF Meets
    <3> QED
      BY <1>15, <2>3, <3>1, <3>6
  <2> QED
    BY <2>2, <2>3
<1>19. CASE Answered(step)
  <2>1. PICK m \in Answers(t) \cup BadAnswers(t) :
          /\ m \notin Answers(t) => my.unit \in my'.broken
          /\ \/ Validated(m, my.random) = NoHash /\ Ends
             \/ Validated(m, my.random) # NoHash /\ Moves /\ my'.random = my.random /\ my'.hash = Validated(m, my.random)
    BY <1>19 DEF Answered, t
  <2>2. /\ ~my.gone /\ Meets(my, t) /\ trust'[my.unit] = x /\ step = "response" /\ k = 3
    BY <1>4, <1>10, <1>11, <1>19 DEF Answered
  <2>3. t.random = my.random /\ x.made = t.made + 1 /\ x.random = t.random /\ x.before = t.before /\ x.stage = "response"
    BY <1>9, <2>2 DEF Meets, k
  <2>4. \/ m \in Answers(t) /\ Validated(m, my.random) = x.made
        \/ my.unit \in my'.broken /\ (Validated(m, my.random) = NoHash \/ x.before = x.random)
    <3>1. CASE m \in Answers(t)
      <4>1. m = Response(t.random, t.made + 1)
        BY <3>1 DEF Answers
      <4> QED
        BY <2>3, <3>1, <4>1, ValidatedFacts
    <3>2. CASE m \notin Answers(t) /\ m \in BadAnswers(t)
      <4>1. m = Garbled(Response(t.random, t.made + 1)) \/ m = Response(t.before, t.made)
        BY <3>2 DEF BadAnswers
      <4>2. Validated(m, my.random) = NoHash \/ t.before = my.random
        BY <4>1, ValidatedFacts
      <4> QED
        BY <2>1, <2>3, <3>2, <4>2
    <3> QED
      BY <2>1, <3>1, <3>2
  <2>5. x.made # NoHash
    BY <1>5, <2>3 DEF NoHash
  <2>6. CASE Validated(m, my.random) = NoHash /\ Ends
    <3>1. my.unit \in my'.broken
      BY <2>4, <2>5, <2>6
    <3> QED
      BY <1>3, <1>14, <2>6, <3>1 DEF InStep
  <2>7. CASE Validated(m, my.random) # NoHash /\ Moves /\ my'.random = my.random /\ my'.hash = Validated(m, my.random)
    <3>1. pc' = "trust" /\ my'.step = 4
      BY <2>2, <2>7 DEF Moves, k
    <3>2. my'.hash = x.made \/ (my.unit \in my'.broken /\ x.before = x.random)
      BY <2>4, <2>7
    <3>3. x.stage = Stages[4]
      BY <2>3 DEF Stages
    <3>4. Meets(my, trust[my.unit])'
      BY <1>3, <2>2, <2>3, <2>7, <3>1, <3>2, <3>3 DEF Meets
    <3> QED
      BY <1>15, <2>2, <3>1, <3>4
  <2> QED
    BY <2>1, <2>6, <2>7
<1> QED
  BY <1>6, <1>16, <1>17, <1>18, <1>19

\* A device that is not authenticated is one that need not be, or for which there is
\* no key: a file with five lines from a device is one mtpz_loaddata reads.
LEMMA GetDeviceInfoTrust ==
  ASSUME Inv, Inv', TrustInv, DeadStay, GetDeviceInfo
  PROVE  TrustInv'
<1>1. pc = "info" /\ UNCHANGED <<scene, trust, handles, opened>>
  BY DEF GetDeviceInfo, world, held
<1>2. LocalTypes /\ my.step = 0 /\ my.hash = NoHash
  BY <1>1, Outside
<1>3. Genuine(scene.file) => Loads(scene.file)
  <2>1. DOMAIN scene.file = 1 .. 5
    BY ScenarioAssumption DEF Inv, Types
  <2> QED
    BY <2>1 DEF Genuine, Loads
<1>4. CASE Abandon
  BY <1>1, <1>2, <1>4, AbandonOn, OnwardTrust
<1>5. ASSUME my' = my, pc' \in {"trust", "ready"}, pc' = "ready" => ~(Has(my.unit, "mtpz") /\ Genuine(scene.file))
      PROVE  TrustInv'
  <2>1. TrustTypes'
    BY <1>1 DEF TrustInv, TrustTypes
  <2>2. Underway'
    BY <1>2, <1>5 DEF Underway, Meets
  <2>3. ASSUME NEW d \in ToSet(my.got) PROVE InStep(d, my.broken)'
    <3>1. InStep(d, my.broken) /\ Holds(d) /\ Holds(d)'
      BY <1>5, <2>3 DEF TrustInv, Promised, Inv, Owners, Good
    <3> QED
      BY <1>1, <1>5, <3>1, PromiseKept
  <2>4. pc' = "ready" => InStep(my, my.broken)'
    BY <1>1, <1>5 DEF InStep, Has
  <2>5. Promised'
    BY <1>5, <2>3, <2>4 DEF Promised
  <2> QED
    BY <1>5, <2>1, <2>2, <2>5 DEF TrustInv, Attending
<1>6. \/ Abandon
      \/ Goto("trust", my)
      \/ Goto("ready", my) /\ ~(Has(my.unit, "mtpz") /\ Loads(scene.file))
  BY DEF GetDeviceInfo
<1> QED
  BY <1>3, <1>4, <1>5, <1>6 DEF Goto

\* The device that was opened is one of the call's from then on, with its promise.
LEMMA ReadyTrust ==
  ASSUME Inv, Inv', TrustInv, DeadStay, Ready
  PROVE  TrustInv'
<1> DEFINE d == [unit |-> my.unit, h |-> my.h, listed |-> call.op = "connected"]
<1>1. pc = "ready" /\ UNCHANGED <<scene, trust, handles, opened>> /\ d.h = my.h /\ d.unit = my.unit
  BY DEF Ready, world, held
<1>2. /\ LocalTypes /\ my.got \in Seq(MtpDevice) /\ my.unit \in Unit /\ my.h \in Nat
      /\ my.h \in DOMAIN handles /\ handles[my.h].unit = my.unit
  BY <1>1 DEF Inv, Types, LocalTypes, Locals, Current, Opening
<1>3. d \in MtpDevice /\ InStep(d, my.broken)
  BY <1>1, <1>2 DEF MtpDevice, TrustInv, Promised, InStep
<1> HIDE DEF d
<1>4. \/ \E todo : Goto("find", [NextDevice(my) EXCEPT !.todo = todo, !.got = Append(@, d)])
      \/ Goto("close", [NextDevice(my) EXCEPT !.todo = Tail(@), !.closing = << d >>])
  BY DEF Ready, Rejected, d
<1>5. /\ DOMAIN NextDevice(my) = Fields /\ NextDevice(my).step = 0 /\ NextDevice(my).hash = NoHash
      /\ NextDevice(my).got = my.got /\ NextDevice(my).broken = my.broken
  BY <1>2 DEF NextDevice, LocalTypes, Fields
<1> HIDE DEF NextDevice
<1>6. CASE Goto("close", [NextDevice(my) EXCEPT !.todo = Tail(@), !.closing = << d >>])
  <2>1. Onward
    BY <1>5, <1>6 DEF Goto, Onward, Fields, Attending
  <2> QED
    BY <1>1, <2>1, OnwardTrust
<1>7. CASE \E todo : Goto("find", [NextDevice(my) EXCEPT !.todo = todo, !.got = Append(@, d)])
  <2>1. /\ pc' = "find" /\ my'.step = 0 /\ my'.hash = NoHash /\ my'.got = Append(my.got, d) /\ my'.broken = my.broken
    BY <1>5, <1>7 DEF Goto, Fields
  <2>2. ToSet(my'.got) = ToSet(my.got) \cup {d}
    BY <1>2, <1>3, <2>1, Appended
  <2>3. ASSUME NEW e \in ToSet(my'.got) PROVE InStep(e, my.broken)'
    <3>1. InStep(e, my.broken) /\ Holds(e)'
      BY <1>3, <2>2, <2>3 DEF TrustInv, Promised, Inv, Owners, Good
    <3> QED
      BY <1>1, <2>1, <3>1 DEF InStep, Has, Dead
  <2>4. Promised'
    BY <2>1, <2>3 DEF Promised
  <2>5. TrustTypes' /\ Underway'
    BY <1>1, <2>1 DEF TrustInv, TrustTypes, Underway
  <2> QED
    BY <2>1, <2>4, <2>5 DEF TrustInv, Attending
<1> QED
  BY <1>4, <1>6, <1>7

\* A call starts with no device and no handshake, ...
LEMMA CallTrust ==
  ASSUME Inv, TrustInv, Call
  PROVE  TrustInv'
<1>1. UNCHANGED <<scene, trust>>
  BY DEF Call, world
<1>2. /\ pc' \in {"scan", "find", "close", "listen", "wait"}
      /\ pc' \in Attending => call'.op = pc'
      /\ \/ \E todo : my' = [Local EXCEPT !.todo = todo]
         \/ \E closing : my' = [Local EXCEPT !.closing = closing]
         \/ \E h : my' = [Local EXCEPT !.h = h]
  BY CallFacts
<1>3. my'.step = 0 /\ my'.hash = NoHash /\ my'.got = << >>
  BY <1>2 DEF Local
<1>4. TrustTypes' /\ Underway'
  BY <1>1, <1>2, <1>3 DEF TrustInv, TrustTypes, Underway
<1>5. Promised'
  BY <1>2, <1>3, NoneOf DEF Promised
<1> QED
  BY <1>2, <1>4, <1>5 DEF TrustInv

\* ... nothing of it changes when a callback is run or a device is attached, ...
LEMMA StillTrust ==
  ASSUME TrustInv, UNCHANGED <<scene, trust, handles, opened, pc, my, result>>, pc \in Attending => call' = call
  PROVE  TrustInv'
<1>1. TrustTypes' /\ Underway'
  BY DEF TrustInv, TrustTypes, Underway
<1>2. Promised'
  BY DEF TrustInv, Promised, InStep, Has, Dead
<1> QED
  BY <1>1, <1>2 DEF TrustInv

\* ... and a device that is detached is promised nothing.
LEMMA DetachTrust ==
  ASSUME Inv, Inv', TrustInv, DeadStay, NEW u \in Unit, Detach(u)
  PROVE  TrustInv'
<1>1. /\ UNCHANGED <<scene, opened, pc, call, result>> /\ trust' = [trust EXCEPT ![u] = Stranger]
      /\ handles' = [h \in DOMAIN handles |-> IF handles[h].unit = u
                                               THEN [handles[h] EXCEPT !.dead = TRUE, !.claimed = FALSE]
                                               ELSE handles[h]]
      /\ my' = [my EXCEPT !.gone = @ \/ my.unit = u]
  BY DEF Detach, held
<1>2. DOMAIN my = Fields /\ HandleTypes
  BY DEF Inv, Types, LocalTypes
<1>3. /\ \A f \in Fields \ {"gone"} : my'[f] = my[f]
      /\ my'.gone <=> (my.gone \/ my.unit = u)
  BY <1>1, <1>2 DEF Fields
<1>4. /\ my'.step = my.step /\ my'.hash = my.hash /\ my'.got = my.got /\ my'.broken = my.broken /\ my'.unit = my.unit
      /\ my'.h = my.h /\ my'.random = my.random
  BY <1>3 DEF Fields
<1>5. /\ DOMAIN trust' = Unit /\ trust'[u] = Stranger
      /\ \A v \in Unit : v # u => trust'[v] = trust[v]
  BY <1>1 DEF TrustInv, TrustTypes
<1>6. TrustTypes'
  BY <1>5 DEF TrustInv, TrustTypes, Stranger
<1>7. ASSUME NEW d, NEW b, d.h \in DOMAIN handles, handles[d.h].unit = d.unit, d.unit \in Unit, InStep(d, b)
      PROVE  InStep(d, b)'
  <2>1. CASE d.unit = u
    <3>1. handles'[d.h] = [handles[d.h] EXCEPT !.dead = TRUE, !.claimed = FALSE] /\ DOMAIN handles[d.h] = {"unit", "claimed", "dead"}
      BY <1>1, <1>2, <1>7, <2>1 DEF HandleTypes
    <3>2. handles'[d.h].dead = TRUE
      BY <3>1
    <3> QED
      BY <3>2 DEF InStep, Dead
  <2>2. CASE d.unit # u
    BY <1>1, <1>5, <1>7, <2>2 DEF InStep, Dead, Has
  <2> QED
    BY <2>1, <2>2
<1>8. ASSUME NEW d \in ToSet(opened) \cup ToSet(my.got), NEW b, InStep(d, b) PROVE InStep(d, b)'
  <2>1. opened \in Seq(MtpDevice) /\ my.got \in Seq(MtpDevice)
    BY DEF Inv, Types, LocalTypes
  <2>2. d \in MtpDevice /\ Holds(d)
    BY <2>1, <1>8, AllOf DEF Inv, Owners, Good
  <2> QED
    BY <1>7, <1>8, <2>2 DEF Holds, MtpDevice
<1>9. pc = "ready" => InStep(my, my.broken)'
  <2> SUFFICES ASSUME pc = "ready" PROVE InStep(my, my.broken)'
    OBVIOUS
  <2>1. my.h \in DOMAIN handles /\ handles[my.h].unit = my.unit /\ my.unit \in Unit /\ InStep(my, my.broken)
    BY DEF Inv, Current, Locals, Opening, TrustInv, Promised
  <2>2. PICK d : d = [unit |-> my.unit, h |-> my.h]
    OBVIOUS
  <2>3. PICK b : b = my.broken
    OBVIOUS
  <2>4. d.h = my'.h /\ d.unit = my'.unit /\ b = my'.broken
    BY <1>4, <2>2, <2>3
  <2>5. InStep(d, b)
    BY <2>1, <2>2, <2>3 DEF InStep
  <2>6. InStep(d, b)'
    BY <1>7, <2>1, <2>2, <2>5
  <2> QED
    BY <2>4, <2>6 DEF InStep
<1>10. Promised'
  BY <1>1, <1>4, <1>8, <1>9 DEF TrustInv, Promised
<1>11. Underway'
  <2>1. pc = "trust" => my.unit \in Unit
    BY DEF Inv, Locals, Opening
  <2>2. pc = "trust" /\ ~my'.gone => Meets(my, trust[my.unit])'
    BY <1>3, <1>4, <1>5, <2>1 DEF TrustInv, Underway, Meets
  <2> QED
    BY <1>1, <1>4, <2>2 DEF TrustInv, Underway
<1> QED
  BY <1>1, <1>6, <1>10, <1>11 DEF TrustInv

\* At first no device has been in a handshake.
LEMMA InitTrust == Init => TrustInv
<1> SUFFICES ASSUME Init PROVE TrustInv
  OBVIOUS
<1>1. /\ trust = [u \in Unit |-> Stranger] /\ pc = "idle" /\ my = Local /\ result.op = "none"
  BY DEF Init
<1>2. my.step = 0 /\ my.hash = NoHash /\ my.got = << >>
  BY <1>1 DEF Local
<1>3. TrustTypes
  BY <1>1 DEF TrustTypes, Stranger
<1>4. Underway
  BY <1>1, <1>2 DEF Underway
<1>5. Promised
  BY <1>1, <1>2, NoneOf DEF Promised, Openers
<1> QED
  BY <1>1, <1>3, <1>4, <1>5 DEF TrustInv, Attending

\* Every step keeps the library and the devices together.
LEMMA StepTrust ==
  ASSUME Inv, Inv', TrustInv, [AnyNext]_vars
  PROVE  TrustInv'
<1>1. DeadStay
  BY DeadStays
<1>2. CASE Scan \/ Probe \/ Names \/ AskMicrosoft \/ Scanned \/ Find \/ Found
  <2>1. UNCHANGED <<scene, trust>>
    BY <1>2 DEF Scan, Probe, Names, AskMicrosoft, Scanned, Find, Found, world
  <2> QED
    BY <1>1, <1>2, <2>1, SearchOn, OnwardTrust, OverTrust
<1>3. CASE ChooseInterface \/ InitUsb \/ InitUsb0 \/ OpenSession \/ Reset \/ OpenAgain
  <2>1. UNCHANGED <<scene, trust>>
    BY <1>3 DEF ChooseInterface, InitUsb, InitUsb0, OpenSession, Reset, OpenAgain, world
  <2> QED
    BY <1>1, <1>3, <2>1, OpenOn, OnwardTrust
<1>4. CASE CloseSession \/ CloseUsb \/ Listen \/ Wait
  <2>1. UNCHANGED <<scene, trust>>
    BY <1>4 DEF CloseSession, CloseUsb, Listen, Wait, world
  <2> QED
    BY <1>1, <1>4, <2>1, AttendOn, OnwardTrust, OverTrust
<1>5. CASE Callback \/ (\E u \in Unit, a \in Address : Attach(u, a)) \/ UNCHANGED vars
  <2>1. UNCHANGED <<scene, trust, handles, opened, pc, my, result>> /\ call' = call
    BY <1>5 DEF Callback, Attach, vars, world, held
  <2> QED
    BY <2>1, StillTrust
<1>6. CASE Library
  BY <1>1, <1>2, <1>3, <1>4, <1>6, GetDeviceInfoTrust, HandshakeTrust, ReadyTrust DEF Library
<1>7. CASE Library0
  BY <1>1, <1>2, <1>3, <1>4, <1>7, GetDeviceInfoTrust, HandshakeTrust, ReadyTrust
  DEF Library0, Usb0, probe_device_descriptor, probe_os_descriptor, get_mtp_usb_device_list, Detect_Raw_Devices,
      find_interface, configure_usb_device, close_usb, event_async, event, Above
<1> QED
  BY <1>1, <1>5, <1>6, <1>7, CallTrust, DetachTrust DEF AnyNext, Usb1

\* Agreed, always: whatever devices, files of keys, faults and detachments there are,
\* an MTPZ device that an open returns is one whose handshake succeeded if nothing
\* failed for it, however far an earlier handshake got, and the hash the library
\* goes on with is that of the device's answer to it.
THEOREM AgreedAlways == PortsSpec => []Agreed
<1>1. Inv /\ TrustInv => Agreed
  <2> SUFFICES ASSUME TrustInv PROVE Agreed
    OBVIOUS
  <2>1. pc = "trust" /\ ~my.gone /\ my.hash # NoHash =>
          my.hash = trust[my.unit].made \/ trust[my.unit].before = trust[my.unit].random
    BY DEF TrustInv, Underway, Meets
  <2> QED
    BY <2>1 DEF TrustInv, Promised, InStep, Dead, Openers, Agreed
<1>2. Inv /\ TrustInv /\ [AnyNext]_vars => Inv' /\ TrustInv'
  BY StepInv, StepTrust
<1> QED
  BY <1>1, <1>2, InitInv, InitTrust, PTL DEF PortsSpec
=============================================================================
