----------------------------- MODULE NetServer ------------------------------
(***************************************************************************)
(* The TCP server (librtc3d/server.cc): one thread, one event loop, one    *)
(* connection per client.  What the kernel and libevent do is modelled     *)
(* from how the server uses them:                                          *)
(*   - main.cc asks for a libevent backend that takes any descriptor       *)
(*     (EV_FEATURE_FDS), which on Linux is poll and never epoll.  It does  *)
(*     not know EV_ET: a handler that reads or accepts once is called      *)
(*     again as long as something is left;                                 *)
(*   - what net_send is given waits in the buffer event until the loop     *)
(*     finds the socket writable, and is dropped with the buffer event.    *)
(*                                                                         *)
(* A packet is a record with its length on the wire, size, and what it     *)
(* says.  Reads are not aligned with packets.                              *)
(***************************************************************************)
EXTENDS Integers, Sequences, FiniteSets, SequencesExt

CONSTANTS
    Clients,
    BufferSize,     \* BUFFER_SIZE: the most bytes one read takes
    Backlog,        \* the argument of listen()
    Cuts,           \* where a read may end, in bytes from the start of a packet
    MaxConnects     \* bound: connections, in all

ASSUME NetAssumption == /\ BufferSize \in Nat \ {0} /\ Backlog \in Nat
                        /\ Cuts \subseteq Nat \ {0} /\ MaxConnects \in Nat

VARIABLES
    link,       \* the server's end: "away", "queued" (for accept), "open"
    peer,       \* the client's end: "up"; "closed" (it sent FIN); "reset" (RST);
                \* "broken" (RST, in answer to data sent after its FIN)
    stream,     \* the packets sent and not yet taken by the server,
    taken,      \* and how many bytes of the first one it has taken
    out,        \* conn->buffer_event: what waits to be written
    status,     \* the process: "running" or "dead"
    blame,      \* history: what the process died of
    connects    \* bound: connections so far

netVars == <<link, peer, stream, taken, out, status, blame, connects>>

Running == status = "running"

Queued == {c \in Clients : link[c] = "queued"}

NetInit ==
    /\ link = [c \in Clients |-> "away"] /\ peer = [c \in Clients |-> "up"]
    /\ stream = [c \in Clients |-> <<>>] /\ taken = [c \in Clients |-> 0]
    /\ out = [c \in Clients |-> <<>>]
    /\ status = "running" /\ blame = {}
    /\ connects = 0

-----------------------------------------------------------------------------
\* The clients and the network

\* The handshake completes only if the queue of the listening socket has room.
Connect(c) ==
    /\ Running /\ link[c] = "away" /\ connects < MaxConnects
    /\ Cardinality(Queued) <= Backlog
    /\ link' = [link EXCEPT ![c] = "queued"]
    /\ peer' = [peer EXCEPT ![c] = "up"]
    /\ connects' = connects + 1
    /\ UNCHANGED <<stream, taken, out, status, blame>>

Send(c, packet) ==
    /\ Running /\ link[c] # "away" /\ peer[c] = "up"
    /\ stream' = [stream EXCEPT ![c] = Append(@, packet)]
    /\ UNCHANGED <<link, peer, taken, out, status, blame, connects>>

\* A client closes its socket; with data unread in it, that is a reset.
Leave(c) ==
    /\ Running /\ link[c] # "away" /\ peer[c] = "up"
    /\ \E how \in {"closed", "reset"} : peer' = [peer EXCEPT ![c] = how]
    /\ UNCHANGED <<link, stream, taken, out, status, blame, connects>>

-----------------------------------------------------------------------------
\* The server

\* net_on_new_connection.  One that fails leaves the client in the queue.
NetAccept(c) ==
    /\ Running /\ link[c] = "queued"
    /\ link' = [link EXCEPT ![c] = "open"]
    /\ UNCHANGED <<peer, stream, taken, out, status, blame, connects>>

\* net_disconnect: what was not written, and what was not read, is lost.
NetDisconnect(c) ==
    /\ link' = [link EXCEPT ![c] = "away"]
    /\ peer' = [peer EXCEPT ![c] = "up"]
    /\ stream' = [stream EXCEPT ![c] = <<>>]
    /\ taken' = [taken EXCEPT ![c] = 0]
    /\ out' = [out EXCEPT ![c] = <<>>]

Die(why) == status' = "dead" /\ blame' = blame \cup {why}

Bytes(s)  == FoldLeft(LAMBDA n, packet : n + packet.size, 0, s)
Unread(c) == Bytes(stream[c]) - taken[c]

Left(c) == Head(stream[c]).size - taken[c]

\* Fault: nothing is read until as many bytes as a packet has are there.
WaitForPacket(c) ==
    IF Unread(c) >= Head(stream[c]).size
    THEN {Unread(c)} \cup {x \in Cuts : x < Unread(c)} ELSE {}

(***************************************************************************)
(* net_on_read: what read() may return, all there is or less, but not 0    *)
(* if there is something.                                                  *)
(***************************************************************************)
ReadSizes(c) ==
    LET most == Min({Unread(c), BufferSize})
    IN  {n \in {most} \cup {x - taken[c] : x \in Cuts} \cup {Left(c) + x : x \in Cuts} :
            n \in 1..most}

\* The packet at hand is used up to its last byte at once, never further.
Take(c, k) ==
    IF k = Left(c)
    THEN stream' = [stream EXCEPT ![c] = Tail(@)] /\ taken' = [taken EXCEPT ![c] = 0]
    ELSE taken' = [taken EXCEPT ![c] = @ + k] /\ UNCHANGED stream

\* net_on_read gets nothing from a client that has left.
AtEnd(c) == link[c] = "open" /\ peer[c] # "up" /\ stream[c] = <<>>

(***************************************************************************)
(* The buffer event writes.  Data for a client that closed its socket is   *)
(* answered by a reset, unless it only closed its own direction; the write *)
(* after that raises SIGPIPE, which nothing handles.                       *)
(***************************************************************************)
NetFlush(c) ==
    /\ Running /\ link[c] = "open" /\ out[c] # <<>>
    /\ \/ /\ peer[c] \in {"up", "closed"}
          /\ out' = [out EXCEPT ![c] = <<>>]
          /\ \/ UNCHANGED peer
             \/ peer[c] = "closed" /\ peer' = [peer EXCEPT ![c] = "broken"]
          /\ UNCHANGED <<status, blame>>
       \/ /\ peer[c] = "broken"
          /\ Die("left")
          /\ UNCHANGED <<out, peer>>
    /\ UNCHANGED <<link, stream, taken, connects>>

\* The write fails: net_on_client_event disconnects.
WriteFails(c) == link[c] = "open" /\ out[c] # <<>> /\ peer[c] = "reset"
=============================================================================
