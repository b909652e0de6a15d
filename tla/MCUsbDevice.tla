---------------------------- MODULE MCUsbDevice ----------------------------
(* Requests for TLC: objects of one, two and three packets, wLength      *)
(* below, at and above the length of the object.                            *)
EXTENDS UsbDevice

R(kind, n, len) == [kind |-> kind, n |-> n, len |-> len]

AllRequests ==
  {R("descriptor", DescriptorLength.device, 64),
   R("descriptor", DescriptorLength.configuration, 9), R("read", 10, 10), R("write", 16, 16),
   R("setReport", 1, 2), R("setReport", 2, 3), R("getReport", 1, 2), R("vendorOut", 0, 0),
   R("vendorIn", 1, 1), R("clearHalt", 0, 0), R("setHalt", 0, 0)}

ResetRequests == {R("setConfiguration", 0, 0), R("clearHaltOut", 0, 0)}
=============================================================================
