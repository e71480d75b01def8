-------------------------------- MODULE Values --------------------------------
(***************************************************************************)
(* What libmtp.c makes of the description of an object property: the       *)
(* values it tells the program to be allowed, and the value it stores in   *)
(* place of the one the program asked for.  Descriptions come from         *)
(* Datasets and may have been cut short, which no caller of                *)
(* ptp_mtp_getobjectpropdesc notices.                                      *)
(***************************************************************************)
EXTENDS Datasets

\* ptp_mtp_getobjectpropdesc with whatever ptp_unpack_OPD read before it gave up: numbers
\* that did not arrive are 0.  A list whose first value did not arrive is freed, but its
\* number of values and the pointer to it stay.
Blank == [GetSet |-> FALSE, flag |-> None, values |-> << >>, freed |-> FALSE]
Sized(s, n) == [i \in 1 .. n |-> IF i \in DOMAIN s THEN s[i] ELSE 0]
\* The values of a form, n of them when they all fit.
FormCount(d, at, flag) ==
  IF flag = Range3 THEN 3 ELSE IF flag # Enum \/ Len(d) - at < 2 THEN 0 ELSE Number(d, at, 2)
FormValues(d, at, n, t) == UnpackFields(d, at, [i \in 1 .. n |-> t]).vs
FormLeft(flag, n, read) ==
  LET freed == flag = Enum /\ n > 0 /\ read = << >>
  IN [GetSet |-> TRUE, flag |-> flag, freed |-> freed,
      values |-> IF flag = Range3 \/ freed THEN Sized(read, n) ELSE read]
FormRead(d, at, flag, t) ==
  LET n == FormCount(d, at, flag)
  IN FormLeft(flag, n, FormValues(d, IF flag = Enum THEN at + 2 ELSE at, n, t))
Described(d) ==
  LET t == DataType(d)
      fields == UnpackFields(d, 5, << t, "u32", "u8" >>)
  IN IF Len(d) < 5 THEN Blank
     ELSE IF Len(fields.vs) < 3 THEN [Blank EXCEPT !.GetSet = TRUE]
     ELSE FormRead(d, fields.at, fields.vs[3], t)
\* What its caller reads: of a freed list whatever is there now, where the allocator
\* has put its own words (the first value) and behind them.
Leftovers(n) == {[i \in 1 .. n |-> IF i = 1 THEN x ELSE y] : x, y \in scene.heap}
Readings(opd) == IF opd.freed THEN {[opd EXCEPT !.values = vs] : vs \in Leftovers(Len(opd.values))} ELSE {opd}
\* In the end the caller frees the list once more, which may end the program.
MayEnd(opd) == IF opd.freed THEN BOOLEAN ELSE {FALSE}

\* adjust_u16, adjust_u32.  A step of 0 divides by zero, and of a list without values
\* the first one is read all the same: then there is no answer.  Mutant: rounds up, too.
Rounded_Nearest(val, step) == ((val + step \div 2) \div step) * step
Rounded(val, step) == val - (val % step)
InRange(val, min, max, step) ==
  CASE val < min -> Is(min, 0)
    [] val > max -> Is(max, 0)
    [] min <= val /\ val <= max /\ step = 0 -> Short
    [] OTHER -> Is(Rounded(val, step), 0)
\* The last one that is smaller, "rough guess of best fit", or else the first one.
BestFit(val, values) ==
  LET smaller == {i \in DOMAIN values : values[i] < val}
  IN IF values = << >> THEN Short
     ELSE IF val \in ToSet(values) THEN Is(val, 0)
     ELSE IF smaller = {} THEN Is(values[1], 0)
     ELSE Is(values[CHOOSE i \in smaller : \A j \in smaller : j <= i], 0)
Adjusted(val, opd) ==
  CASE opd.flag = Range3 -> InRange(val, opd.values[1], opd.values[2], opd.values[3])
    [] opd.flag = Enum -> BestFit(val, opd.values)
    [] OTHER -> Is(val, 0)

\* LIBMTP_Get_Allowed_Property_Values: of numbers, and there must be some restriction.
Allowed(opd) ==
  IF opd.flag \in {Range3, Enum} THEN Is([is_range |-> opd.flag = Range3, values |-> opd.values], 0) ELSE Short

-----------------------------------------------------------------------------
\* LIBMTP_Update_Track_Metadata: a property that can be set gets the value, adjusted.
Numbers == {x \in scene.descs : x.type \in {"u16", "u32"}}
Sent(x, n) == Cut(DeviceDesc(x, "objectprop"), n)
UpdateNumber ==
  \E x \in Numbers, val \in scene.numbers :
    \E n \in 0 .. Len(DeviceDesc(x, "objectprop")) :
      \E opd \in Readings(Described(Sent(x, n))) :
        /\ opd.GetSet
        /\ \E ends \in MayEnd(opd) :
             Made("update", Sent(x, n), x, val, IF ends THEN Short ELSE Adjusted(val, opd))
        /\ UNCHANGED <<scene, ocs64, seen>>
GetAllowed ==
  \E x \in Numbers :
    \E n \in 0 .. Len(DeviceDesc(x, "objectprop")) :
      \E opd \in Readings(Described(Sent(x, n))) :
        /\ \E ends \in MayEnd(opd) :
             Made("allowed", Sent(x, n), x, << >>, IF ends THEN Short ELSE Allowed(opd))
        /\ UNCHANGED <<scene, ocs64, seen>>

Program == Init /\ [][Next \/ UpdateNumber \/ GetAllowed]_vars

-----------------------------------------------------------------------------
\* The values x allows, if it allows any; its range must begin at a multiple of its
\* step, because a value is rounded to a multiple of the step.
Sane(x) == CASE x.flag = Range3 -> x.values[3] # 0 /\ x.values[1] % x.values[3] = 0 /\ x.values[1] <= x.values[2]
             [] x.flag = Enum -> x.values # << >>
             [] OTHER -> TRUE
AllowedBy(x, val) ==
  CASE x.flag = Range3 -> /\ x.values[1] <= val /\ val <= x.values[2]
                          /\ val = x.values[2] \/ (val - x.values[1]) % x.values[3] = 0
    [] x.flag = Enum -> val \in ToSet(x.values)
    [] OTHER -> TRUE
\* The value LIBMTP_Update_Track_Metadata stores is one the device allows, and the
\* program's own if that is allowed and not the top of a range between two steps;
\* also when the device swaps the number of values, or the list of values is cut
\* short behind its first one.  What LIBMTP_Get_Allowed_Property_Values says are the
\* values the device allows, all of them when the description is whole.  Nothing is
\* claimed of a list cut before its first value, which the code reads after it was
\* freed, of a range that was cut, whose missing ends and step are 0 to the code, or
\* of a range with a step of 0 (Sane), by which it divides.
StoresAllowed ==
  LET x == result.of
      whole == result.sent = DeviceDesc(x, "objectprop")
      kept == x.flag = Range3 => result.read % x.values[3] = 0
      first == DeviceDesc([x EXCEPT !.values = SubSeq(@, 1, 1)], "objectprop")
      listed == x.flag = Enum /\ x.values # << >> /\ Len(result.sent) >= Len(first)
  IN /\ result.op = "update" /\ Sane(x) /\ (whole \/ listed) =>
          /\ result.made.ok /\ AllowedBy(x, result.made.v)
          /\ whole /\ AllowedBy(x, result.read) /\ kept => result.made.v = result.read
     /\ result.op = "allowed" /\ result.made.ok /\ (whole \/ listed) =>
          /\ IsPrefix(result.made.v.values, x.values)
          /\ whole => result.made.v = [is_range |-> x.flag = Range3, values |-> x.values]
=============================================================================
