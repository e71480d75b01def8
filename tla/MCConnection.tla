---------------------------- MODULE MCConnection ----------------------------
\* Two devices, the second of a model the table may not know, and a third place
\* to attach them at.
EXTENDS ConnectionUsb0

Alt(number, string, class, eps, name, driver) ==
  [number |-> number, string |-> string, class |-> class, eps |-> eps, name |-> name, driver |-> driver]
Three == << "in", "out", "int" >>
Usb(class, configs, os) == [class |-> class, configs |-> configs, os |-> os]
Os(d, a) == [descriptor |-> d, answer |-> a]
NoOs == Os("none", "none")
Mtp == Os("MSFT", "MTP")

\* A player; a telephone with another interface first, whose MTP interface has a
\* name or must be asked for; a disk with a driver; what is not to be touched.
Player == Usb("interface", << << << Alt(1, 1, "still", Three, "none", FALSE) >> >> >>, NoOs)
Phone(name, os) ==
  Usb("interface", << << << Alt(1, 1, "storage", << "in", "out" >>, "other", TRUE) >>,
                        << Alt(2, 2, "vendor", << "in", "in", "int" >>, name, FALSE),
                           Alt(2, 2, "vendor", Three, name, FALSE) >> >> >>, os)
TwoConfigs == Usb("interface", << << << Alt(1, 1, "storage", << "in", "out" >>, "other", FALSE) >> >>,
                                 << << Alt(1, 1, "vendor", Three, "MTP", FALSE) >> >> >>, NoOs)
Driven(class) == Usb("vendor", << << << Alt(1, 1, class, Three, "other", TRUE) >> >> >>, Mtp)
Hub == Usb("hub", << >>, NoOs)
Printer == Usb("other", << << << Alt(1, 1, "still", Three, "none", FALSE) >> >> >>, NoOs)
Kinds == {Player, Phone("MTP", NoOs), Phone("other", Mtp), Phone("other", Os("MSFT", "Janus")), TwoConfigs,
          Driven("storage"), Driven("still"), Hub, Printer}

Most(c, f, m) == [calls |-> c, faults |-> f, moves |-> m]
Scene(model, flags, usb, at0, left, calls, max) ==
  [model |-> model, flags |-> flags, usb |-> usb, at |-> at0, session |-> left, calls |-> calls, max |-> max, port |-> "usb1",
   file |-> [i \in 1 .. 5 |-> "right"]]
Of(x, y) == [one |-> x, two |-> y]
Same == Of("m", "m")
Both == Of(Player, Player)
Known == Of({"known"}, {"known"})
Probed == Of({"known"}, {"reset"})
Zune == Of({"known", "mtpz"}, {"known"})

\* Everything attached is opened: any failures.
Searches == {Scene(Same, f, Of(Player, Phone("MTP", NoOs)), a, l, {"get", "serial", "connected", "release", "releaseList"},
                   Most(2, 2, 0)) :
               f \in {Known, Probed}, a \in {Of(1, 2), Of(2, 1)}, l \in {{}, {"one"}}}
\* One device of every kind, known to the table or not.
Kind == {Scene(Same, Of({"known"}, f), Of(Player, k), Of(1, 2), {}, {"detect", "check", "connected", "open"}, Most(2, 2, 0)) :
           f \in {{}, {"known"}, {"known", "unload"}, {"known", "massage"}}, k \in Kinds}
\* Devices move between detecting, opening and releasing them.
Moving == {Scene(m, Probed, Of(Player, Phone("other", Mtp)), Of(1, 2), {}, {"detect", "open", "release", "connected"},
                 Most(3, 0, 3)) :
             m \in {Same, Of("m", "n")}}
\* A device is opened, and released, after an open that failed.
Again == {Scene(Same, Zune, Both, Of(1, 0), {}, {"get", "release"}, Most(5, 2, 0)),
          [Scene(Same, Zune, Both, Of(1, 0), {}, {"get", "release"}, Most(1, 1, 1))
             EXCEPT !.file = << "right", "right", "missing", "right", "right" >>],
          [Scene(Same, Zune, Both, Of(1, 0), {}, {"get", "release"}, Most(1, 1, 1))
             EXCEPT !.file = << "right", "right", "right", "wrong", "right" >>]}
\* Events.
Listening == {Scene(Same, Known, Both, Of(1, 0), {}, {"get", "release", "listen", "wait"}, Most(5, 1, 1))}
\* The same with libusb-0.1, and a device opened twice.
On0(scs) == {[sc EXCEPT !.port = "usb0"] : sc \in scs}
Ported == On0({Scene(Same, Of({"known"}, f), Of(Player, k), Of(1, 2), {}, {"detect", "check", "connected", "open"}, Most(2, 1, 0)) :
                f \in {{}, {"known", "unload"}, {"known", "massage"}}, k \in Kinds}
              \cup {Scene(Same, f, Of(Player, Phone("MTP", NoOs)), Of(1, 2), {}, {"get", "serial", "connected", "release", "releaseList"},
                         Most(2, 1, 0)) : f \in {Known, Probed}}
              \cup {Scene(Same, Zune, Both, Of(1, 0), {}, {"get", "release", "listen", "wait"}, Most(4, 1, 1))})
MCScenarios == Ported \cup Searches \cup Kind \cup Moving \cup Again \cup Listening
=============================================================================
