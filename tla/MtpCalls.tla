------------------------------ MODULE MtpCalls ------------------------------
(***************************************************************************)
(* What a caller of ptp_transaction_new (src/src/ptp.c) may rely on,       *)
(* whatever the bus does: commands are numbered as they are issued, the    *)
(* device carries each out at most once and in that order, and when the    *)
(* call reports success the command it was made for has been carried out.  *)
(* After any other result the command may be carried out or not, even      *)
(* after the next one was issued.                                          *)
(***************************************************************************)
EXTENDS Naturals, Sequences, Functions

VARIABLES issued,   \* the number of commands issued; the last one's number
          done,     \* the numbers of the commands carried out, in that order
          result    \* what the last call to return reported

TypeOK == /\ issued \in Nat
          /\ done \in Seq(1 .. issued)
          /\ result \in [n : 0 .. issued, ok : BOOLEAN]

Init == issued = 0 /\ done = << >> /\ result = [n |-> 0, ok |-> FALSE]

Issue == issued' = issued + 1 /\ UNCHANGED <<done, result>>

\* Commands are skipped, never repeated or swapped.
CarryOut ==
  /\ \E n \in 1 .. issued : (\A m \in Range(done) : m < n) /\ done' = Append(done, n)
  /\ UNCHANGED <<issued, result>>

Report ==
  /\ \/ issued \in Range(done) /\ result' = [n |-> issued, ok |-> TRUE]
     \/ result' = [n |-> issued, ok |-> FALSE]
  /\ UNCHANGED <<issued, done>>

\* A program that dies never sees the result of its last call.
Next == Issue \/ CarryOut \/ Report

Spec == Init /\ [][Next]_<<issued, done, result>>
=============================================================================
