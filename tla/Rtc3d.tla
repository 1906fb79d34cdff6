------------------------------- MODULE Rtc3d --------------------------------
(***************************************************************************)
(* The RTC3D protocol (librtc3d/rtc3d.cc): packets in a byte stream.  A    *)
(* packet is four bytes of length, which count themselves, four bytes of   *)
(* type and the rest.  read_handler takes the bytes of one read in a loop, *)
(* during which nothing else happens; here it takes in one step as many as *)
(* fall in the same branch of the loop.                                    *)
(*                                                                         *)
(* No length is checked.  A packet has the length its first four bytes     *)
(* say, and the number of bytes that were sent, size; they may differ.     *)
(***************************************************************************)
EXTENDS NetServer

SizeBytes == 4
TypeBytes == 4

CONSTANTS
    ByteValues,     \* of data_left, a uint8_t: 256
    Lengths         \* what four bytes say that are not the first of a packet

ASSUME ByteAssumption == ByteValues \in Nat \ {0}
ASSUME LengthAssumption == Lengths \subseteq Nat /\ Lengths # {}

VARIABLES
    conn,       \* rtc3d_connection_t: size_left, size, data_left, data
    reading,    \* the client whose read is being handled, {} or {c}
    buf,        \* bytes of that read still to be handled
    unfit       \* history: clients that sent a packet that does not fit

rtcVars == <<conn, reading, buf, unfit>>

(***************************************************************************)
(* connect_handler.  data is "own" if type and text of the packet will be  *)
(* in the buffer, and "any" if other bytes, or none at all, are put there. *)
(***************************************************************************)
Fresh == [size_left |-> SizeBytes, size |-> 0, data_left |-> 0, data |-> "any"]

RtcInit == /\ conn = [c \in Clients |-> Fresh]
           /\ reading = {} /\ buf = 0 /\ unfit = {}

\* The loop of events runs the next handler.
Idle == Running /\ reading = {}

Accept(c) == /\ Idle /\ NetAccept(c)
             /\ conn' = [conn EXCEPT ![c] = Fresh]
             /\ UNCHANGED <<reading, buf, unfit>>

\* net_on_read gets n bytes and calls read_handler.
OnRead(c) ==
    /\ Idle /\ link[c] = "open" /\ stream[c] # <<>>
    /\ \E n \in ReadSizes(c) : buf' = n
    /\ reading' = {c}
    /\ UNCHANGED <<netVars, conn, unfit>>

-----------------------------------------------------------------------------
\* read_handler: k bytes are dealt with.
Consumed(c, k) ==
    /\ buf' = buf - k
    /\ reading' = IF buf = k THEN {} ELSE reading

InHeader(c)  == c \in reading /\ conn[c].size_left > 0
InPayload(c) == c \in reading /\ conn[c].size_left = 0 /\ conn[c].data_left > 0

HeaderChunk(c)  == Min({buf, conn[c].size_left, Left(c)})
PayloadChunk(c) == Min({buf, conn[c].data_left, Left(c)})

\* Fault: the four bytes of the length are counted among the data.
HeaderCountsItself(r, k, length, own) ==
    IF r.size_left = k
    THEN [size_left |-> 0, size |-> length, data_left |-> length % ByteValues,
          data |-> "own"]
    ELSE [r EXCEPT !.size_left = @ - k]

(***************************************************************************)
(* The length is complete when size_left is 0.  size is a uint32_t: where  *)
(* it is negative here, it is 2^32 more there, and so is the offset of the *)
(* data.  At 256 and more the data is put behind the start of the buffer,  *)
(* below four not all of the type is written.                              *)
(***************************************************************************)
AfterHeader(r, k, length, own) ==
    IF r.size_left = k
    THEN LET size == length - SizeBytes
         IN  [size_left |-> 0, size |-> size, data_left |-> size % ByteValues,
              data |-> IF own /\ size \in TypeBytes..(ByteValues - 1) THEN "own"
                                                                    ELSE "any"]
    ELSE [r EXCEPT !.size_left = @ - k]

\* The bytes of the length are the first ones of a packet.
OwnHeader(c) == taken[c] = SizeBytes - conn[c].size_left

ReadHeader(c) ==
    /\ Running /\ InHeader(c)
    /\ LET k   == HeaderChunk(c)
           own == OwnHeader(c) /\ Head(stream[c]).length = Head(stream[c]).size
       IN  /\ Consumed(c, k) /\ Take(c, k)
           /\ \E length \in IF OwnHeader(c) THEN {Head(stream[c]).length} ELSE Lengths :
                 conn' = [conn EXCEPT ![c] = AfterHeader(@, k, length, own)]
    /\ UNCHANGED <<link, peer, out, status, blame, connects, unfit>>

\* Data, but not the last of it.
ReadData(c) ==
    /\ Running /\ InPayload(c) /\ PayloadChunk(c) < conn[c].data_left
    /\ LET k == PayloadChunk(c)
       IN  /\ Consumed(c, k) /\ Take(c, k)
           /\ conn' = [conn EXCEPT ![c].data_left = @ - k]
    /\ UNCHANGED <<link, peer, out, status, blame, connects, unfit>>

(***************************************************************************)
(* A length below four: the byte is written 2^32 - 256 bytes behind a      *)
(* buffer that malloc may not have had so much memory for.                 *)
(***************************************************************************)
Overrun(c) ==
    /\ Running /\ InPayload(c) /\ conn[c].size < 0
    /\ Die("length")
    /\ UNCHANGED <<link, peer, stream, taken, out, connects, rtcVars>>

\* The data is complete: packet_handler runs, then the next packet begins.
Complete(c) == Running /\ InPayload(c) /\ PayloadChunk(c) = conn[c].data_left

AfterPacket(c) ==
    /\ Consumed(c, PayloadChunk(c)) /\ Take(c, PayloadChunk(c))
    /\ conn' = [conn EXCEPT ![c] = Fresh]
    /\ UNCHANGED unfit

\* Neither: four more than a multiple of 256 left no data to wait for.
Ignore(c) ==
    /\ Running /\ c \in reading /\ ~InHeader(c) /\ ~InPayload(c)
    /\ LET k == Min({buf, Left(c)}) IN Consumed(c, k) /\ Take(c, k)
    /\ UNCHANGED <<link, peer, out, status, blame, connects, conn, unfit>>

\* disconnect_handler: what is left of the connection, outside a read.
Closed(c) == /\ NetDisconnect(c)
             /\ conn' = [conn EXCEPT ![c] = Fresh]
             /\ unfit' = unfit \ {c}

-----------------------------------------------------------------------------
\* The reader can keep step with a packet: it says how many bytes it has, and
\* data_left can count them.
Fit(packet) == /\ packet.length = packet.size
               /\ packet.size - SizeBytes \in 1..(ByteValues - 1)

(***************************************************************************)
(* The reader is in step with the packets: however the stream is cut, it   *)
(* knows which byte of which packet comes next.  Not so for a client that  *)
(* sent one that does not fit, which read_handler does not check: a length *)
(* that is not the number of bytes sent, one of four or less, or one that  *)
(* counts more than 255 bytes of data.                                     *)
(***************************************************************************)
InStep ==
    \A c \in Clients \ unfit :
        link[c] = "open" =>
            IF taken[c] < SizeBytes
            THEN conn[c].size_left = SizeBytes - taken[c]
            ELSE /\ conn[c].size_left = 0
                 /\ conn[c].size = Head(stream[c]).size - SizeBytes
                 /\ conn[c].data_left = Head(stream[c]).size - taken[c]
=============================================================================
