------------------------------ MODULE UsbPorts ------------------------------
(***************************************************************************)
(* The bulk transport when the library is built on libusb-0.1              *)
(* (src/src/libusb-glue.c) or written for OpenUSB (libopenusb1-glue.c).    *)
(* Their functions take the steps of those of libusb1-glue.c, in the same  *)
(* order and on the same conditions, each on top of another library; a     *)
(* read that times out is PTP_ERROR_IO (TimeoutCode).  What the callback   *)
(* of a transfer cancels is in PtpTransaction.                             *)
(***************************************************************************)
EXTENDS UsbBulk

Usb1(steps) == dev.port = "usb1" /\ steps
Usb0(steps) == dev.port = "usb0" /\ steps
OpenUsb(steps) == dev.port = "openusb" /\ steps

\* libusb-glue.c: ptp_usb_getdata, ptp_read_func, ptp_usb_getresp,
\* ptp_usb_senddata and ptp_write_func.
getdata_usb0 == Usb0(GetData \/ Stream \/ ReadExtra)
read_usb0 == Usb0(ReadSized \/ ReadZero)
getresp_usb0 == Usb0(GetResp)
senddata_usb0 == \E n \in Sizes : Usb0(Send(n))
write_usb0 == Usb0(Fill \/ Put \/ PutDone \/ Wrote)

\* libopenusb1-glue.c
getdata_openusb == OpenUsb(GetData \/ Stream \/ ReadExtra)
read_openusb == OpenUsb(ReadSized \/ ReadZero)
getresp_openusb == OpenUsb(GetResp)
senddata_openusb == \E n \in Sizes : OpenUsb(Send(n))
write_openusb == OpenUsb(Fill \/ Put \/ PutDone \/ Wrote)

Ports == \/ getdata_usb0 \/ read_usb0 \/ getresp_usb0 \/ write_usb0
         \/ getdata_openusb \/ read_openusb \/ getresp_openusb \/ write_openusb
AnyPort == \/ \E n \in Sizes : Get(n) \/ Usb1(Send(n))
           \/ Answer \/ Usb1(Host) \/ senddata_usb0 \/ senddata_openusb \/ Ports

PortsSpec == Init /\ [][AnyPort]_vars /\ WF_vars(Usb1(Host) \/ Ports \/ Answer)
=============================================================================
