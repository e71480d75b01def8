----------------------------- MODULE Interfaces -----------------------------
(***************************************************************************)
(* The descriptors of a USB device as libusb1-glue.c reads them: what      *)
(* makes it an MTP device when the table of devices does not know it       *)
(* (probe_device_descriptor), and which interface and endpoints it is used *)
(* through (find_interface_and_endpoints).                                 *)
(***************************************************************************)
EXTENDS Naturals, Sequences, SequencesExt

\* An altsetting: the number of its interface and of its name's string, its
\* class, its endpoints, what its name says, whether a kernel driver has the
\* interface.  A configuration is a sequence of interfaces, each of altsettings.
Endpoints == {"in", "out", "int"}

\* What is left of the configurations when those of skipped cannot be read.
Readable(configs, skipped) ==
  [c \in DOMAIN configs |-> IF c \in skipped THEN << >> ELSE configs[c]]
Altsettings(interfaces) == FlattenSeq(interfaces)
AllAltsettings(configs) == FlattenSeq([c \in DOMAIN configs |-> Altsettings(configs[c])])
IsThree(alt) == Len(alt.eps) = 3

\* The driver of which interface is asked for: the one with the number of the
\* string that names this one.
DriverActive(alts, alt) == \E i \in DOMAIN alts : alts[i].number = alt.string /\ alts[i].driver

\* The names of the interfaces with three endpoints, in their order, until one
\* says MTP or has a driver that is not for mass storage.  Then the Microsoft
\* descriptor is read if the device, or one of them, is of the vendor's class.
\* mute: those whose name the device does not send.
Tells(alts, mute) == {i \in DOMAIN alts \ mute : IsThree(alts[i]) /\ alts[i].name # "none"}
\* libusb-glue.c asks for the name of that driver, which is usb-storage for the
\* interfaces of that class, where libusb1-glue.c looks at the class of this one.
Foreign(alts) == {i \in DOMAIN alts : DriverActive(alts, alts[i]) /\ alts[i].class # "storage"}
ForeignByName(alts) ==
  {i \in DOMAIN alts : \E j \in DOMAIN alts :
     alts[j].number = alts[i].string /\ alts[j].driver /\ alts[j].class # "storage"}
Deciding(alts, mute, foreign) == {i \in Tells(alts, mute) : alts[i].name = "MTP" \/ i \in foreign}
FirstOf(S) == CHOOSE i \in S : \A j \in S : i <= j
Vendors(class, alts) == class = "vendor" \/ \E i \in DOMAIN alts : IsThree(alts[i]) /\ alts[i].class = "vendor"
Named(class, alts, deciding) ==
  IF deciding # {} THEN IF alts[FirstOf(deciding)].name = "MTP" THEN "mtp" ELSE "avoid"
  ELSE IF Vendors(class, alts) THEN "ask" ELSE "no"

\* The Microsoft descriptor must be one, and the answer to the request it names
\* say MTP; the answer to the second request does not matter.
Microsoft(os) == os.descriptor = "MSFT" /\ os.answer = "MTP"

-----------------------------------------------------------------------------
\* find_interface_and_endpoints: the first altsetting of three endpoints by which
\* its interface has shown all three kinds.
Shown(interface, k) == UNION {ToSet(interface[j].eps) : j \in {i \in 1 .. k : IsThree(interface[i])}}
Usable(interface) == {k \in DOMAIN interface : IsThree(interface[k]) /\ Endpoints \subseteq Shown(interface, k)}
Chosen(configs) ==
  LET good == {x \in UNION {{c} \X DOMAIN configs[c] : c \in DOMAIN configs} : Usable(configs[x[1]][x[2]]) # {}}
      first == CHOOSE x \in good : \A y \in good : x[1] < y[1] \/ (x[1] = y[1] /\ x[2] <= y[2])
      interface == configs[first[1]][first[2]]
  IN IF good = {} THEN 0 ELSE interface[FirstOf(Usable(interface))].number
=============================================================================
