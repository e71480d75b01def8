--------------------------- MODULE ConnectionUsb0 ---------------------------
(***************************************************************************)
(* Finding and opening devices when the library is built on libusb-0.1     *)
(* (libusb-glue.c), and on libusb-1.0.  The steps are the same, on the     *)
(* descriptors libusb-0.1 keeps, but for what Connection says of port      *)
(* "usb0", and for init_ptp_usb.                                           *)
(***************************************************************************)
EXTENDS Connection

Usb1(steps) == scene.port = "usb1" /\ steps
Usb0(steps) == scene.port = "usb0" /\ steps

\* A driver that cannot be detached ends it, with the handle open.  That the
\* interface cannot be claimed does not; if another handle has it, as that of the
\* same device opened before, its OpenSession fails, and the reset that follows
\* takes the session from that device.
InitUsb0 ==
  /\ pc = "init" /\ scene.port = "usb0"
  /\ LET driver == Has(my.unit, "unload") /\ HasDriver(my.unit, my.interface) /\ my.unit \in driven
         opens(claimed) == handles' = Opened(my.unit, claimed) /\ Goto("session", [my EXCEPT !.h = Fresh])
     IN \/ my.gone /\ Fine /\ Abandon /\ UNCHANGED <<handles, driven>>
        \/ ~my.gone /\ Fault /\ Abandon /\ UNCHANGED <<handles, driven>>
        \/ ~my.gone /\ driver /\ Fault /\ Abandon /\ handles' = Opened(my.unit, FALSE) /\ UNCHANGED driven
        \/ ~my.gone /\ Fine /\ opens(Claimable(my.unit, Unloaded)) /\ driven' = Unloaded
        \/ ~my.gone /\ Fault /\ opens(FALSE) /\ driven' = Unloaded
  /\ UNCHANGED <<scene, at, session, trust, events, held>>

probe_device_descriptor == Usb0(Probe \/ Names)
probe_os_descriptor == Usb0(AskMicrosoft)
get_mtp_usb_device_list == Usb0(Scan)
Detect_Raw_Devices == Usb0(Scanned)
find_interface == Usb0(ChooseInterface)
configure_usb_device == Usb0(Find \/ OpenSession \/ Reset \/ OpenAgain)
close_usb == Usb0(CloseSession \/ CloseUsb)
event_async == Usb0(Listen)
event == Usb0(Wait)
\* libmtp.c and mtpz.c.
Above == Usb0(Found \/ GetDeviceInfo \/ Handshake \/ Ready)

Library0 == \/ probe_device_descriptor \/ probe_os_descriptor
            \/ get_mtp_usb_device_list \/ Detect_Raw_Devices \/ find_interface \/ InitUsb0 \/ configure_usb_device \/ close_usb
            \/ event_async \/ event \/ Above
AnyNext == \/ Call \/ Usb1(Library) \/ Callback \/ Library0
           \/ \E u \in Unit : Detach(u) \/ \E a \in Address : Attach(u, a)
PortsSpec == Init /\ [][AnyNext]_vars
=============================================================================
