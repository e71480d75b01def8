----------------------------- MODULE CameraProps -----------------------------
(***************************************************************************)
(* The descriptions of the properties of a camera that                     *)
(* ptp_generic_getdevicepropdesc (src/src/ptp.c) keeps for cachetime       *)
(* seconds in params->dpd_cache.  Where one comes from depends on the      *)
(* vendor: Sony sends all of them in one answer, of an EOS camera the      *)
(* library has them in canon_props (CameraEvents), others are asked for    *)
(* one.  Meanwhile time passes, and the user turns the dials.              *)
(***************************************************************************)
EXTENDS CameraEvents

CONSTANT cachetime   \* params->cachetime, in seconds
ASSUME CacheTimeAssumption == cachetime \in Nat

VARIABLES
  cache,      \* params->dpd_cache
  camera,     \* the values of the properties, in the camera
  now,        \* time()
  until,      \* for each property and value, when it was the right one last
  turned      \* how often a dial was turned

propVars == <<cache, camera, now, until, turned>>
Untouched == UNCHANGED <<scene, ocs64, seen, news, canon, events, checking, told, due, within, crowded>>

Turnable == scene.turns
Settings == {1, 2}
Start == cachetime + 1
\* The values the library goes by: of an EOS camera those it has heard of.
Source(props, values, p) == IF scene.vendor = "eos" THEN Entry(props, p).cur ELSE values[p]

-----------------------------------------------------------------------------
\* Sony: ptp_unpack_Sony_DPD.  The codes of properties begin where the numbers of
\* values end (0x200), which tells a second list of values from the next property.
FirstCode == 8
SonyNames == << "ISOSpeed", "MeteringMode", "FlashMode", "FocusMode", "ShutterRelease" >>
SonyName(c) == IF c - FirstCode + 1 \in DOMAIN SonyNames THEN SonyNames[c - FirstCode + 1] ELSE "Unknown"
SonyCode(p) == FirstCode - 1 + CHOOSE i \in DOMAIN SonyNames : SonyNames[i] = p

\* What can be set, before 2020 (mode 2) and since.  The byte has a bit for controls.
Control(getset) == getset >= 2
Settable(p, getset, enabled) ==
  IF scene.mode # 2 THEN enabled = 1 /\ getset = 1
  ELSE \/ Control(getset)
       \/ enabled = 1
       \/ enabled >= 2 /\ (p \in {"FocusMode", "MeteringMode"} \/ getset = 1)
       \/ p = "FlashMode"

\* A list of values, or a second one in its place; the last values may be missing.
AsList(n, values, room) == IF room < 2 \/ (n > 0 /\ values.vs = << >>) THEN Short ELSE Is(values.vs, values.at)
SonyList(d, at, t) ==
  AsList(Number(d, at, 2), UnpackFields(d, at + 2, [i \in 1 .. Number(d, at, 2) |-> t]), Len(d) - at)
AsRange(range) == IF Len(range.vs) < 3 THEN Short ELSE Is(range.vs, range.at)
SonyForm(d, at, flag, t) ==
  CASE flag = Range3 -> AsRange(UnpackFields(d, at, << t, t, t >>))
    [] flag = Enum -> SonyList(d, at, t)
    [] OTHER -> Is(<< >>, at)
More(d, at, flag) == flag = Enum /\ Len(d) >= at + 2 /\ Number(d, at, 2) < FirstCode
Latest(d, flag, form, t) == IF form.ok /\ More(d, form.at, flag) THEN SonyList(d, form.at, t) ELSE form
\* What follows the values: nothing, or a form and perhaps a second list.
Rest(d, at, t) ==
  IF at + 1 > Len(d) THEN [flag |-> None, form |-> Is(<< >>, at)]
  ELSE [flag |-> At(d, at + 1), form |-> Latest(d, At(d, at + 1), SonyForm(d, at + 1, At(d, at + 1), t), t)]
SonyDesc(d, t, two, rest) ==
  [prop |-> SonyName(Number(d, 0, 2)), type |-> t, cur |-> IF Len(two.vs) = 1 THEN 0 ELSE two.vs[2],
   flag |-> rest.flag, values |-> rest.form.v, GetSet |-> Settable(SonyName(Number(d, 0, 2)), At(d, 5), At(d, 6))]
\* A string may be the last there is of a description.
SonyWith(d, t, two, rest) ==
  IF Len(d) < 6 \/ two.vs = << >> \/ (Len(two.vs) = 1 /\ ~(t = "str" /\ two.at = Len(d))) \/ ~rest.form.ok THEN Short
  ELSE Is(SonyDesc(d, t, two, rest), rest.form.at)
SonyFrom(d, t, two) == SonyWith(d, t, two, Rest(d, two.at, t))
UnpackSony(d) == SonyFrom(d, DataType(d), UnpackFields(d, 6, << DataType(d), DataType(d) >>))
\* All of them, up to one that cannot be read: each begins where the one before ended.
ReadSony(st, d, one) ==
  IF one.ok THEN [at |-> st.at + one.at, descs |-> Append(st.descs, one.v)] ELSE [st EXCEPT !.at = Len(d)]
SonyDescs(d) ==
  LET step(st, i) == IF st.at >= Len(d) THEN st ELSE ReadSony(st, d, UnpackSony(SubSeq(d, st.at + 1, Len(d))))
  IN FoldLeft(step, [at |-> 8, descs |-> << >>], d).descs

-----------------------------------------------------------------------------
\* params->dpd_cache, with the time each entry was fetched

Vacant == [prop |-> "", type |-> "undef", cur |-> 0, flag |-> None, values |-> << >>, GetSet |-> FALSE, at |-> 0]
Of(c, p) == {i \in DOMAIN c : c[i].prop = p}
\* ptp_find_dpd_in_cache: the first one, or 0.
InCache(c, p) == IF Of(c, p) = {} THEN 0 ELSE CHOOSE i \in Of(c, p) : \A j \in Of(c, p) : i <= j
\* In the place of the entry i, or after all others.
Enter(c, i, x) ==
  IF i = 0 THEN [cache |-> Append(c, x), i |-> Len(c) + 1] ELSE [cache |-> [c EXCEPT ![i] = x], i |-> i]
Timed(x, t) == [prop |-> x.prop, type |-> x.type, cur |-> x.cur, flag |-> x.flag, values |-> x.values,
                GetSet |-> x.GetSet, at |-> t]
\* _ptp_sony_getalldevicepropdesc, once it has an answer.
Absorbed(c, xs) == FoldLeft(LAMBDA acc, x : Enter(acc, InCache(acc, x.prop), Timed(x, now)).cache, c, xs)

\* An entry that is too old is freed and forgotten: a new one will be added behind it.
Valid(x) == x.type # "undef" /\ x.at + cachetime > now
Opened(p) == Enter(cache, InCache(cache, p), IF InCache(cache, p) = 0 THEN Vacant ELSE cache[InCache(cache, p)])
Freed(l) == IF l.cache[l.i].type = "undef" THEN l
            ELSE [cache |-> [l.cache EXCEPT ![l.i].type = "undef", ![l.i].flag = None], i |-> 0]
Controls == {"ShutterRelease"}

\* What becomes of the cache and of the entry, whose place is 0 when there is none.
Failed(c) == [cache |-> c, i |-> 0]
FromSony(c, p, answered) ==
  LET i == InCache(c, p)
  IN IF ~answered THEN Failed(c)
     ELSE IF i # 0 THEN [cache |-> c, i |-> i]
     ELSE IF scene.mode = 3 /\ p \in Controls
       THEN Enter(c, 0, [Vacant EXCEPT !.prop = p, !.type = "u16", !.GetSet = TRUE, !.flag = Enum])
     ELSE Failed(c)
FromCanon(l, p) ==
  IF Known(canon, p) THEN Enter(l.cache, l.i, Timed(Entry(canon, p), 0)) ELSE Failed(l.cache)
FromCamera(l, p, x) == IF x.ok THEN Enter(l.cache, l.i, Timed(x.v, 0)) ELSE Failed(l.cache)

-----------------------------------------------------------------------------
\* The camera.  A Sony camera may send a second list, of the same values and more.
PackSony(p) ==
  LET t == TypeOf[Kind[p]]
      list(n) == Little(n, 2) \o FlattenSeq([i \in 1 .. n |-> Pack(i, t)])
  IN Little(SonyCode(p), 2) \o Little(CodeOf(t), 2) \o << 1, 1 >> \o Pack(1, t) \o Pack(camera[p], t)
       \o << Enum >> \o list(1) \o (IF scene.second THEN list(2) ELSE << >>)
SonyAnswer == Zeros(8) \o FlattenSeq([i \in DOMAIN scene.order |-> PackSony(scene.order[i])])
\* The answer of another one to GetDevicePropDesc.
Asked(p) ==
  LET t == TypeOf[Kind[p]]
      x == [type |-> t, default |-> camera[p], flag |-> Enum, values |-> << 1, 2 >>, swaps |-> FALSE]
      read == UnpackDeviceProp(DeviceDesc(x, "deviceprop"))
  IN Is([prop |-> p, type |-> t, cur |-> read.v[1], flag |-> read.v[2], values |-> read.v[3], GetSet |-> TRUE], 0)

-----------------------------------------------------------------------------
PropInit ==
  /\ Init /\ CameraInit
  /\ cache = << >> /\ now = Start /\ turned = 0
  /\ camera = [p \in scene.turns |-> 1]
  /\ until = [p \in scene.turns |-> [v \in Settings |-> 0]]

\* The values that were right less than cachetime ago.
Recently(p) == {v \in Settings : Source(canon, camera, p) = v \/ until[p][v] + cachetime > now}
\* Whenever a value stops being the right one.
Left == [p \in Turnable |-> [v \in Settings |->
           IF Source(canon, camera, p) = v /\ Source(canon', camera', p) # v THEN now ELSE until[p][v]]]
Calling == ~checking /\ calls < scene.calls /\ calls' = calls + 1
Answers(op, p, d) ==
  /\ cache' = IF d.i = 0 THEN d.cache ELSE [d.cache EXCEPT ![d.i].at = now]
  /\ result' = [op |-> op, sent |-> << >>, of |-> p, read |-> Recently(p),
                made |-> IF d.i = 0 THEN Short ELSE Is(d.cache[d.i], 0)]
  /\ UNCHANGED <<camera, now, until, turned>> /\ Untouched

\* ptp_generic_getdevicepropdesc
Held(p) == LET i == InCache(cache, p) IN i # 0 /\ Valid(cache[i])
GetCached(p) ==
  /\ Calling /\ Held(p)
  /\ result' = [op |-> "desc", sent |-> << >>, of |-> p, read |-> Recently(p), made |-> Is(cache[InCache(cache, p)], 0)]
  /\ UNCHANGED propVars /\ Untouched
Missed(p) == Calling /\ ~Held(p)
GetFromSony(p) ==
  /\ scene.vendor = "sony" /\ Missed(p)
  /\ \E sent \in {SonyAnswer}, l \in {Freed(Opened(p))} :
       \E n \in {0} \cup (IF scene.cuts THEN 8 .. Len(sent) ELSE {Len(sent)}) :
         \E c \in {IF n <= 8 THEN l.cache ELSE Absorbed(l.cache, SonyDescs(SubSeq(sent, 1, n)))} :
           \E d \in {FromSony(c, p, n > 8)} : Answers("desc", p, d)
GetFromCanon(p) ==
  /\ scene.vendor = "eos" /\ Missed(p)
  /\ \E l \in {Freed(Opened(p))} : \E d \in {FromCanon(l, p)} : Answers("desc", p, d)
GetFromCamera(p) ==
  /\ scene.vendor = "other" /\ Missed(p)
  /\ \E x \in {Asked(p), Short}, l \in {Freed(Opened(p))} :
       \E d \in {FromCamera(l, p, x)} : Answers("desc", p, d)
\* ptp_sony_getalldevicepropdesc
GetAll ==
  /\ scene.vendor = "sony" /\ Calling
  /\ \E sent \in {SonyAnswer} : cache' = Absorbed(cache, SonyDescs(sent))
  /\ UNCHANGED <<result, camera, now, until, turned>> /\ Untouched

\* ptp_generic_setdevicepropvalue, which the camera may refuse.
\* Mutant: the entry keeps its time.
Outdated_Never(c, p) == c
Outdated(c, p) == IF InCache(c, p) = 0 THEN c ELSE [c EXCEPT ![InCache(c, p)].at = 0]
Report(p, v) == [event |-> "PropValueChanged", prop |-> p, v |-> v, means |-> v]
SetProp(p, v) ==
  /\ Calling /\ cache' = Outdated(cache, p)
  /\ \E accepted \in BOOLEAN :
       /\ camera' = IF accepted THEN [camera EXCEPT ![p] = v] ELSE camera
       /\ news' = IF accepted /\ scene.vendor = "eos" THEN Append(news, Report(p, v)) ELSE news
       /\ until' = IF accepted /\ scene.vendor # "eos" THEN [until EXCEPT ![p] = [w \in Settings |-> 0]] ELSE until
  /\ UNCHANGED <<scene, ocs64, seen, result, canon, events, checking, told, due, within, crowded, now, turned>>
\* ptp_canon_eos_setdevicepropvalue, for a property canon_props has.
SetCanonProp(p, v) ==
  /\ scene.vendor = "eos" /\ Calling /\ Known(canon, p)
  /\ camera' = [camera EXCEPT ![p] = v]
  /\ news' = Append(news, Report(p, v))
  /\ canon' = Put(canon, [Entry(canon, p) EXCEPT !.cur = v])
  /\ told' = [told EXCEPT ![p].cur = v]
  /\ UNCHANGED <<scene, ocs64, seen, result, events, checking, due, within, crowded, cache, now, turned>>
  /\ until' = Left

\* The user turns a dial; an EOS camera will report it.
Turn(p) ==
  \E v \in Settings \ {camera[p]} :
    /\ turned < scene.dials /\ turned' = turned + 1
    /\ camera' = [camera EXCEPT ![p] = v]
    /\ news' = IF scene.vendor = "eos" THEN Append(news, Report(p, v)) ELSE news
    /\ UNCHANGED <<scene, ocs64, seen, result, calls, canon, events, checking, told, due, within, crowded, cache, now>>
    /\ until' = Left
Tick ==
  /\ now < scene.end /\ now' = now + 1
  /\ UNCHANGED <<calls, result, cache, camera, until, turned>> /\ Untouched

PropNext ==
  \/ CameraNext /\ UNCHANGED <<cache, camera, now, turned>> /\ until' = Left
  \/ \E p \in Turnable : \/ GetCached(p) \/ GetFromSony(p) \/ GetFromCanon(p) \/ GetFromCamera(p)
                         \/ Turn(p) \/ \E v \in Settings : SetProp(p, v) \/ SetCanonProp(p, v)
  \/ GetAll \/ Tick
Properties == PropInit /\ [][PropNext]_<<vars, cameraVars, propVars>>

-----------------------------------------------------------------------------
\* A description has a value that was right less than cachetime ago (of an EOS camera,
\* one the library had heard of), and after the program set the property none from
\* before that; it has all the values the camera listed, and can be set if the camera
\* says so.  A control (sony_mode3_controls) has no value; a description without a type is
\* what the library makes of a property a Sony camera did not send any more.
Recent ==
  result.op = "desc" /\ result.made.ok /\ result.made.v.type # "undef" =>
    /\ result.made.v.prop = result.of
    /\ result.made.v.cur \in result.read \/ (scene.mode = 3 /\ result.of \in Controls)
    /\ scene.vendor = "sony" /\ ~scene.cuts /\ result.of \notin Controls =>
         result.made.v.values = (IF scene.second THEN << 1, 2 >> ELSE << 1 >>) /\ result.made.v.GetSet

=============================================================================
