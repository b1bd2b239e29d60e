----------------------------- MODULE DeviceTransfer -----------------------------
(***************************************************************************)
(* The lengths of a data transfer to a device that DeviceBuilder has built.*)
(* createUsbEndpointImp gives every endpoint a pipe of the class of its    *)
(* type; pipe_request, dcp_request and the helper for the type set up the  *)
(* URB, and the helper that completes it tells the request how much was    *)
(* transferred and whether it failed.  A control transfer's buffer begins  *)
(* with the 8 bytes of its setup packet, which usbdevfs does not count; a  *)
(* request to the default control pipe has its data apart, and a copy with *)
(* the setup packet in front is what is transferred.                       *)
(*                                                                         *)
(* One transfer at a time: LinuxRequestProxy.tla has the concurrency, this *)
(* module what each type does with lengths and errors.                     *)
(***************************************************************************)
EXTENDS DeviceBuilder

CONSTANT Lengths  \* the lengths of irps' buffers and of what is transferred

ASSUME LengthsAssumption == Lengths \subseteq Nat

VARIABLES
  phase,       \* "idle", "submitted", "reaped", "completed", "refused"
  pipe,        \* the type of the pipe, "dcp" for the default control pipe
  dataLength,  \* what the irp or request has as the length of its data
  urb,         \* the URB that is submitted or reaped
  outcome,     \* history: how many bytes of data were transferred, and whether it failed
  error        \* whether the irp or request has a UsbException

transferVars == <<phase, pipe, dataLength, urb, outcome, error>>
allVars == <<builderVars, transferVars>>

Setup == 8  \* bytes of a setup packet

Error == -1  \* any error number

\* iso_frame_desc[0], the one packet of an isochronous URB
NoPacket == [length |-> 0, actual_length |-> 0, status |-> 0]
NoUrb == [type |-> "", buffer_length |-> 0, actual_length |-> 0, status |-> 0,
          packet |-> NoPacket]

NoTransfer == [bytes |-> 0, fails |-> TRUE]

TransferInit ==
  /\ BuilderInit
  /\ phase = "idle" /\ pipe = "dcp" /\ dataLength = 0
  /\ urb = NoUrb /\ outcome = NoTransfer /\ error = FALSE

\* createUsbEndpointImp has a class of pipe for each of these, and throws at others.
EndpointTypes == {"control", "bulk", "interrupt", "isochronous"}

\* The pipes of the device: the default control pipe, and one for each endpoint;
\* any, if its descriptors were read astray.
PipeTypes ==
  IF stage = "astray" THEN {"dcp"} \cup EndpointTypes ELSE
  {"dcp"} \cup (EndpointTypes \cap
    {file[e[2]].kind : e \in {b \in built : file[b[2]].type = "endpoint"}})

\* checkControlHeader: only the length of the header is looked at.
checkControlHeader(t, n) == t = "control" => n >= Setup

\* What the helper for each type sets in the URB.
control_pipe_request(u) == [u EXCEPT !.type = "CONTROL"]
bulk_pipe_request(u) == [u EXCEPT !.type = "BULK"]
interrupt_pipe_request(u) == [u EXCEPT !.type = "BULK"]  \* INTERRUPT_USES_BULK
isochronous_pipe_request(u) == [u EXCEPT !.type = "ISO", !.packet.length = u.buffer_length]

\* The URB that pipe_request and dcp_request submit for n bytes.
pipe_request(t, n) ==
  LET u == [NoUrb EXCEPT !.buffer_length = n]
  IN  CASE t = "control" -> control_pipe_request(u)
        [] t = "bulk" -> bulk_pipe_request(u)
        [] t = "interrupt" -> interrupt_pipe_request(u)
        [] t = "isochronous" -> isochronous_pipe_request(u)

dcp_request(n) == control_pipe_request([NoUrb EXCEPT !.buffer_length = n + Setup])

UrbFor(t, n) == IF t = "dcp" THEN dcp_request(n) ELSE pipe_request(t, n)

Call(t, n) == phase = "idle" /\ reported /\ t \in PipeTypes /\ n \in Lengths

\* A control pipe throws, and nothing is submitted.
Refused(t, n) ==
  /\ Call(t, n) /\ ~ checkControlHeader(t, n)
  /\ phase' = "refused" /\ pipe' = t /\ dataLength' = n
  /\ UNCHANGED <<urb, outcome, error, builderVars>>

\* asyncSubmit, pipe_request or dcp_request, and SUBMITURB
Submitted(t, n) ==
  /\ Call(t, n) /\ checkControlHeader(t, n)
  /\ phase' = "submitted" /\ pipe' = t /\ dataLength' = n
  /\ urb' = UrbFor(t, n)
  /\ UNCHANGED <<outcome, error, builderVars>>

\* SUBMITURB fails, or malloc: submitRequest sets the error and completes; for a
\* dcp request setCompleted copies dataLength bytes back all the same.
SubmissionFails ==
  /\ phase = "submitted"
  /\ phase' = "completed" /\ error' = TRUE
  /\ UNCHANGED <<pipe, dataLength, urb, outcome, builderVars>>

\* The kernel goes by the type of the URB.  How much data it has room for:
Room == IF urb.type = "ISO" THEN urb.packet.length
        ELSE urb.buffer_length - (IF urb.type = "CONTROL" THEN Setup ELSE 0)

\* n bytes of data were transferred, with or without an error.  Of an isochronous
\* transfer the kernel is taken to say so in the packet.
UrbCompletes(n, fails) ==
  /\ phase = "submitted" /\ n <= Room
  /\ phase' = "reaped"
  /\ outcome' = [bytes |-> n, fails |-> fails]
  /\ LET status == IF fails THEN Error ELSE 0
     IN  urb' = IF urb.type = "ISO"
                THEN [urb EXCEPT !.packet.actual_length = n, !.packet.status = status]
                ELSE [urb EXCEPT !.actual_length = n, !.status = status]
  /\ UNCHANGED <<pipe, dataLength, error, builderVars>>

\* What the helper for each type passes to setDataLength, and returns.
complete_control_pipe_request(u) == [length |-> u.actual_length + Setup, ret |-> u.status]
complete_bulk_pipe_request(u) == [length |-> u.actual_length, ret |-> u.status]
complete_interrupt_pipe_request(u) == [length |-> u.actual_length, ret |-> u.status]
complete_isochronous_pipe_request(u) ==
  [length |-> u.packet.actual_length, ret |-> u.packet.status]
complete_dcp_request(u) == [length |-> u.actual_length + Setup, ret |-> u.status]

complete_request(t, u) ==
  CASE t = "dcp" -> complete_dcp_request(u)
    [] t = "control" -> complete_control_pipe_request(u)
    [] t = "bulk" -> complete_bulk_pipe_request(u)
    [] t = "interrupt" -> complete_interrupt_pipe_request(u)
    [] t = "isochronous" -> complete_isochronous_pipe_request(u)

\* Mutant: the request to the default control pipe keeps the setup packet's length.
setDataLengthUncut(t, n) == n

\* LinuxPipeRequest.setDataLength, LinuxDcpRequest.setDataLength
setDataLength(t, n) == IF t = "dcp" THEN n - Setup ELSE n

\* complete_pipe_request or complete_dcp_request, setError, setCompleted
CompleteUrb ==
  /\ phase = "reaped"
  /\ phase' = "completed"
  /\ dataLength' = setDataLength(pipe, complete_request(pipe, urb).length)
  /\ error' = (complete_request(pipe, urb).ret # 0)
  /\ UNCHANGED <<pipe, urb, outcome, builderVars>>

\* The build goes on as DeviceBuilder.tla says; transfers come after it.
TransferNext ==
  \/ BuilderNext /\ UNCHANGED transferVars
  \/ \E t \in PipeTypes, n \in Lengths : Refused(t, n) \/ Submitted(t, n)
  \/ SubmissionFails
  \/ \E n \in Lengths, fails \in BOOLEAN : UrbCompletes(n, fails)
  \/ CompleteUrb

TransferSpec == TransferInit /\ [][TransferNext]_allVars

(***************************************************************************)
(* Properties.                                                             *)
(***************************************************************************)
\* What the caller is told is what happened, for every type of pipe: an error
\* if the transfer failed, and else the number of bytes transferred, with the
\* setup packet where it is in the caller's buffer.  And however the request
\* ended, the bytes copied back are within the buffer that was transferred.
LengthTruthful ==
  phase = "completed" =>
    /\ error = outcome.fails
    /\ ~ error => dataLength = outcome.bytes + (IF pipe = "control" THEN Setup ELSE 0)
    /\ dataLength + (IF pipe = "dcp" THEN Setup ELSE 0) <= urb.buffer_length

\* The inductive invariant: what each phase knows of the URB.
TransferInv ==
  /\ phase \in {"idle", "submitted", "reaped", "completed", "refused"}
  /\ pipe \in EndpointTypes \cup {"dcp"}
  /\ phase = "submitted" =>
       /\ dataLength \in Nat /\ checkControlHeader(pipe, dataLength)
       /\ urb = UrbFor(pipe, dataLength)
       /\ outcome = NoTransfer
  /\ phase = "reaped" =>
       /\ outcome.bytes \in Nat /\ outcome.fails \in BOOLEAN
       /\ LET done == complete_request(pipe, urb)
          IN  /\ done.length =
                    outcome.bytes + (IF pipe \in {"control", "dcp"} THEN Setup ELSE 0)
              /\ done.length <= urb.buffer_length
              /\ (done.ret # 0) = outcome.fails
  /\ phase = "idle" => outcome = NoTransfer
  /\ LengthTruthful

\* A device and its transfers: the build is as it was, and a transfer begins
\* only on a device that has been reported, on a pipe that it has.
DeviceTransferInv ==
  /\ BuilderInv /\ TransferInv
  /\ phase # "idle" => reported /\ pipe \in PipeTypes
================================================================================
