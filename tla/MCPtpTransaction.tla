-------------------------- MODULE MCPtpTransaction --------------------------
\* Responders of every framing with good or broken headers, and one that may
\* refuse the first transaction id and is late twice.
EXTENDS PtpPorts

Max(c, t, a, e, n, d) ==
  [calls |-> c, timeouts |-> t, cancels |-> a, early |-> e, connects |-> n, crashes |-> d]
Responder1(b, port, max) ==
  [broken |-> b, ops |-> {"op1"}, framings |-> Wire, opening |-> {"OK"}, port |-> port, max |-> max]

\* One timeout, one cancel, one crash and two connections.
Faulty == {Responder1(b, "usb1", Max(5, 1, 1, 0, 2, 1)) : b \in BOOLEAN}
\* One cancel before the data, and a second connection after a crash.
EarlyCancel == {Responder1(FALSE, "usb1", Max(4, 0, 0, 1, 2, 1))}
\* The other libraries, with one timeout and one cancel.
Ported == {[Responder1(FALSE, p, Max(4, 1, 1, 0, 1, 0)) EXCEPT !.opening = {"OK", "InvalidTid"}] :
             p \in {"usb0", "openusb"}}
\* Two timeouts, two operations.
Late == [broken |-> FALSE, ops |-> {"op1", "op2"}, framings |-> Wire,
         opening |-> {"OK", "InvalidTid"}, port |-> "usb1", max |-> Max(5, 2, 0, 0, 1, 0)]
All == Faulty \cup EarlyCancel \cup Ported \cup {Late}
\* One timeout, a single operation, and data in one packet.
Simple == {[broken |-> FALSE, ops |-> {"op1"}, framings |-> {"plain"}, opening |-> {"OK"},
            port |-> "usb1", max |-> Max(4, 1, 0, 0, 1, 0)]}
=============================================================================
