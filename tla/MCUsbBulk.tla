----------------------------- MODULE MCUsbBulk -----------------------------
\* Packets of 5 bytes, blocks of 3 packets, headers of 2 bytes; sizes beyond
\* two blocks.
EXTENDS UsbPorts

MCSizes == 0 .. 34
\* Around every boundary: of a packet, of the first write, of blocks.
MCEdges == {0, 1, 3, 8, 13, 15, 23, 28, 30}
Plain == [split |-> FALSE, noZeroReads |-> FALSE, tail |-> "none", port |-> "usb1"]
MCDevices == {d \in Device : d.port = "usb1" \/ d.tail = "joined"}
PlainOnly == {Plain}
ExtraByte == {[Plain EXCEPT !.noZeroReads = TRUE]}
=============================================================================
