------------------------------ MODULE PtpPorts ------------------------------
(***************************************************************************)
(* Transactions when the library is built on libusb-0.1 (src/src/          *)
(* libusb-glue.c) or written for OpenUSB (libopenusb1-glue.c).  Requests,  *)
(* packets and the opening of the session take the steps of those of       *)
(* libusb1-glue.c on top of another library; what differs is that no       *)
(* ptp_read_cancel_func drains a cancelled read (ReadAborted) and that a   *)
(* read that times out is PTP_ERROR_IO (TimeoutCode).                      *)
(***************************************************************************)
EXTENDS PtpTransaction

On(port, steps) == scene.port = port /\ steps

Usb1Host == On("usb1", Host)

\* libusb-glue.c
sendreq_usb0 == On("usb0", SendReq)
senddata_usb0 == On("usb0", SendData)
getdata_usb0 == On("usb0", GetData \/ GetRest)
getresp_usb0 == On("usb0", GetResp)
cancel_usb0 == On("usb0", CancelReq)
open_usb0 == On("usb0", OpenReset \/ OpenRetry \/ Opened)

\* libopenusb1-glue.c
sendreq_openusb == On("openusb", SendReq)
senddata_openusb == On("openusb", SendData)
getdata_openusb == On("openusb", GetData \/ GetRest)
getresp_openusb == On("openusb", GetResp)
cancel_openusb == On("openusb", CancelReq)
open_openusb == On("openusb", OpenReset \/ OpenRetry \/ Opened)

AnyHost == \/ Usb1Host
           \/ sendreq_usb0 \/ senddata_usb0 \/ getdata_usb0 \/ getresp_usb0
           \/ cancel_usb0 \/ open_usb0
           \/ sendreq_openusb \/ senddata_openusb \/ getdata_openusb \/ getresp_openusb
           \/ cancel_openusb \/ open_openusb

AnyPort == \/ \E k \in {"nodata", "send", "close"} : Call(k, k)
           \/ \E op \in scene.ops : Call("get", op)
           \/ Connect \/ AnyHost \/ Responder \/ Crash

PortsSpec == Init /\ [][AnyPort]_vars /\ WF_vars(AnyHost) /\ WF_vars(Responder)
=============================================================================
