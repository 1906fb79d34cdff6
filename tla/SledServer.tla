----------------------------- MODULE SledServer -----------------------------
(***************************************************************************)
(* The command server (src/server.cc, with the parser of parser.yac and    *)
(* scanner.lex): what a packet makes the server do and answer, the list of *)
(* clients that get frames, and the numbers clients give to profiles.      *)
(*                                                                         *)
(* A packet is the command its text stands for; "syntax" stands for a text *)
(* that is none, "badstatus" for setinternalstatus without its argument,   *)
(* and "nocommand" for a packet that is no command.  A position is as far  *)
(* as the bounds check tells it apart, with the rest of the target and the *)
(* table.  Whether the sled takes a motion is decided in other modules and *)
(* left open here.                                                         *)
(***************************************************************************)
EXTENDS Rtc3d

CONSTANTS
    Packets,        \* what clients send
    Delays,         \* values next_delay may have
    NProfiles,      \* MAX_PROFILES
    NBuiltIn,       \* profiles sled_create makes for its own use
    MaxPackets,     \* bound: packets sent, in all
    MaxOut          \* bound: answers waiting when a frame is sent

ASSUME ServerAssumption ==
    /\ NProfiles \in Nat /\ NBuiltIn \in 0..NProfiles
    /\ MaxPackets \in Nat /\ MaxOut \in Nat /\ Delays \subseteq Nat
    /\ \A p \in Packets : p.size \in Nat \ {0} /\ p.length \in Nat

VARIABLES
    stream_clients,     \* how often each connection is in ctx->stream_clients
    profile_tlate,      \* ctx->profile_tlate
    profiles,           \* the clients' profiles in sled->profiles
    asked,              \* history: what "profile set" last asked of each profile
    packets             \* bound: packets sent

ctxVars == <<stream_clients, profile_tlate, profiles, asked>>
vars    == <<netVars, rtcVars, ctxVars, packets>>

Handles == NBuiltIn..(NProfiles - 1)

\* As sled_profile_create makes it.
NewProfile == [position |-> "in", next_profile |-> -1, delay |-> 0]

\* setup_sled_server_context.
Init ==
    /\ NetInit /\ RtcInit
    /\ stream_clients = [c \in Clients |-> 0] /\ profile_tlate = <<>>
    /\ profiles = [h \in Handles |-> NewProfile]
    /\ asked = [h \in Handles |-> NewProfile]
    /\ packets = 0

-----------------------------------------------------------------------------
(***************************************************************************)
(* parser_parse_string.  The command is not cleared first: "next" without  *)
(* "after" and "blend" leaves next_delay as it was in memory (-1 here),    *)
(* and the error of a setinternalstatus without argument is taken back by  *)
(* the grammar, which leaves all of the command as it was.  (With a wrong  *)
(* argument the error comes back, and is a syntax error.)                  *)
(***************************************************************************)
CommandTypes ==
    {"cmd_setbyteorder", "cmd_sendcurrentframe", "cmd_sendstatus", "cmd_streamframes",
     "cmd_profile_execute", "cmd_profile_set", "cmd_sinusoid", "cmd_rsinusoid",
     "cmd_lights", "cmd_bye", "cmd_home", "cmd_clearfault", "cmd_setinternalstatus",
     "cmd_sendinternalstatus"}

Defined(text) ==
    IF text.next_profile >= 0 /\ text.next_delay = -1
    THEN {[text EXCEPT !.next_delay = d] : d \in Delays} ELSE {text}

Parsed(text) ==
    IF text.type = "badstatus"
    THEN UNION {Defined(p) : p \in {q \in Packets : q.type \in CommandTypes}}
    ELSE Defined(text)

InUse(tlate) == {tlate[n] : n \in DOMAIN tlate} \ {-1}

\* Fault: one profile more than there are.
CreateOneMore(tlate) == LET free == (NBuiltIn..NProfiles) \ InUse(tlate)
                        IN  IF free = {} THEN -1 ELSE Min(free)

\* sled_profile_create: the lowest profile that is free, or -1.
Create(tlate) == LET free == Handles \ InUse(tlate)
                 IN  IF free = {} THEN -1 ELSE Min(free)

\* Fault: the profile made for a number is not remembered.
NotRemembered(tlate, n) == [i \in {n} |-> Create(tlate)]

\* tlate_profile_id: the table after the number n was looked up in it.
tlate_profile_id(tlate, n) ==
    [i \in DOMAIN tlate \cup {n} |-> IF i \in DOMAIN tlate THEN tlate[i]
                                                         ELSE Create(tlate)]

-----------------------------------------------------------------------------
\* rtc3d_command_handler

Answer(c, replies) == out' = [out EXCEPT ![c] = @ \o replies]

\* std::list's remove and push_back; the order of the list is left out.
Without(c) == [stream_clients EXCEPT ![c] = 0]
WithOneMore(list, c) == [list EXCEPT ![c] = @ + 1]

StreamFrames(c, cmd) ==
    /\ cmd.type = "cmd_streamframes"
    /\ stream_clients' = IF cmd.boolean THEN WithOneMore(Without(c), c) ELSE Without(c)
    /\ Answer(c, <<"ok">>)
    /\ UNCHANGED <<profile_tlate, profiles, asked>>

ProfileExecute(c, cmd) ==
    /\ cmd.type = "cmd_profile_execute"
    /\ profile_tlate' = tlate_profile_id(profile_tlate, cmd.profile)
    /\ \/ profile_tlate'[cmd.profile] >= 0 /\ Answer(c, <<"ok">>)
       \/ Answer(c, <<"err">>)
    /\ UNCHANGED <<stream_clients, profiles, asked>>

\* Fault: the link of an earlier definition is kept if there is none.
KeepOldNext(h, cmd, next) ==
    [position |-> cmd.position,
     next_profile |-> IF next >= 0 THEN next ELSE profiles[h].next_profile,
     delay |-> cmd.next_delay]

Definition(h, cmd, next) ==
    [position |-> cmd.position, next_profile |-> next,
     delay |-> IF next >= 0 THEN cmd.next_delay ELSE 0]

(***************************************************************************)
(* A position out of bounds is answered with an error and then set.  The   *)
(* target is set before the next profile is looked up, and stays if there  *)
(* is no room for it.                                                      *)
(***************************************************************************)
ProfileSet(c, cmd) ==
    /\ cmd.type = "cmd_profile_set"
    /\ LET own  == tlate_profile_id(profile_tlate, cmd.profile)
           h    == own[cmd.profile]
           both == IF cmd.next_profile >= 0
                   THEN tlate_profile_id(own, cmd.next_profile) ELSE own
           next == IF cmd.next_profile >= 0 THEN both[cmd.next_profile] ELSE -1
           said == IF cmd.position = "out" THEN <<"err">> ELSE <<>>
       IN  \/ /\ h < 0
              /\ profile_tlate' = own
              /\ Answer(c, <<"err">>)
              /\ UNCHANGED <<profiles, asked>>
           \/ /\ h >= 0 /\ cmd.next_profile >= 0 /\ next < 0
              /\ profile_tlate' = both
              /\ profiles' = [profiles EXCEPT ![h].position = cmd.position]
              /\ Answer(c, said \o <<"err">>)
              /\ asked' = [asked EXCEPT ![h].position = cmd.position]
           \/ /\ h >= 0 /\ (cmd.next_profile >= 0 => next >= 0)
              /\ profile_tlate' = both
              /\ profiles' = [profiles EXCEPT ![h] = Definition(h, cmd, next)]
              /\ Answer(c, said \o <<"ok">>)
              /\ asked' = [asked EXCEPT ![h] =
                              [position |-> cmd.position, next_profile |-> cmd.next_profile,
                               delay |-> IF cmd.next_profile >= 0 THEN cmd.next_delay ELSE 0]]
    /\ UNCHANGED stream_clients

(***************************************************************************)
(* Commands that change nothing here, and what they may be answered: the   *)
(* sled takes a motion or refuses it; home, clearfault and sendstatus are  *)
(* not answered at all.                                                    *)
(***************************************************************************)
Replies(type) ==
    CASE type \in {"cmd_sinusoid", "cmd_rsinusoid", "cmd_lights",
                   "cmd_sendcurrentframe"}                        -> {<<"ok">>, <<"err">>}
      [] type = "cmd_setbyteorder"                                -> {<<"ok">>}
      [] type \in {"cmd_home", "cmd_clearfault", "cmd_sendstatus"} -> {<<>>}
      [] type \in {"cmd_setinternalstatus", "cmd_sendinternalstatus",
                   "syntax"}                                      -> {<<"err">>}
      [] type = "nocommand"                                       -> {<<>>}
      [] OTHER                                                    -> {}

OnlyAnswered(c, cmd) == /\ \E replies \in Replies(cmd.type) : Answer(c, replies)
                        /\ UNCHANGED ctxVars

Execute(c, cmd) == \/ StreamFrames(c, cmd) \/ ProfileExecute(c, cmd)
                   \/ ProfileSet(c, cmd) \/ OnlyAnswered(c, cmd)

-----------------------------------------------------------------------------
\* The commands of a packet; memory that was not written may hold any.
Said(c) ==
    IF conn[c].data = "own" THEN Parsed(Head(stream[c]))
    ELSE UNION {Parsed(p) : p \in Packets} \cup {[type |-> "nocommand"]}

\* packet_handler, in read_handler: the connection stays.
OnPacket(c) ==
    /\ Complete(c)
    /\ \E cmd \in Said(c) : Execute(c, cmd)
    /\ AfterPacket(c)
    /\ UNCHANGED <<link, peer, status, blame, connects, packets>>

\* Fault: a client that has gone stays in the list.
StreamsKept(c) == stream_clients' = stream_clients

\* rtc3d_disconnect_handler.
StreamsAfter(c) == stream_clients' = Without(c)

(***************************************************************************)
(* bye: the answer is dropped with the connection.  read_handler goes on   *)
(* with the connection that was freed: it frees its buffer and resets its  *)
(* counters, which may take the process with it.  What it had read beyond  *)
(* the packet is lost: it is put in freed memory, and a command in it has  *)
(* no connection to be executed for.                                       *)
(***************************************************************************)
Bye(c) ==
    /\ Complete(c)
    /\ \E cmd \in Said(c) : cmd.type = "cmd_bye"
    /\ Closed(c) /\ StreamsAfter(c)
    /\ reading' = {} /\ buf' = 0
    /\ UNCHANGED <<status, blame>> \/ Die("bye")
    /\ UNCHANGED <<connects, profile_tlate, profiles, asked, packets>>

\* The client has left: read() returns nothing, or a write fails.
Disconnect(c) ==
    /\ Idle /\ (AtEnd(c) \/ WriteFails(c))
    /\ Closed(c) /\ StreamsAfter(c)
    /\ UNCHANGED <<status, blame, connects, reading, buf, profile_tlate, profiles,
                   asked, packets>>

\* on_timeout: a frame for every entry of the list.
Frames(c) == [i \in 1..stream_clients[c] |-> "frame"]

OnTimeout ==
    /\ Idle /\ \A c \in Clients : stream_clients[c] > 0 => Len(out[c]) < MaxOut
    /\ out' = [c \in Clients |-> out[c] \o Frames(c)]
    /\ UNCHANGED <<link, peer, stream, taken, status, blame, connects, rtcVars,
                   ctxVars, packets>>

-----------------------------------------------------------------------------
\* A handler sees nothing of what clients do while it runs.
ClientConnects(c) == Idle /\ Connect(c) /\ UNCHANGED <<rtcVars, ctxVars, packets>>

ClientSends(c) ==
    /\ Idle /\ packets < MaxPackets /\ packets' = packets + 1
    /\ \E p \in Packets :
          /\ Send(c, p)
          /\ unfit' = IF Fit(p) THEN unfit ELSE unfit \cup {c}
    /\ UNCHANGED <<conn, reading, buf, ctxVars>>

ClientLeaves(c) == Idle /\ Leave(c) /\ UNCHANGED <<rtcVars, ctxVars, packets>>

ServerAccepts(c) == Accept(c) /\ UNCHANGED <<ctxVars, packets>>
ServerReads(c)   == OnRead(c) /\ UNCHANGED <<ctxVars, packets>>
ServerFlushes(c) == Idle /\ NetFlush(c) /\ UNCHANGED <<rtcVars, ctxVars, packets>>

ReadHandler(c) ==
    \/ (ReadHeader(c) \/ ReadData(c) \/ Overrun(c) \/ Ignore(c))
       /\ UNCHANGED <<ctxVars, packets>>
    \/ OnPacket(c)
    \/ Bye(c)

Serve(c) == ServerAccepts(c) \/ ServerReads(c) \/ ReadHandler(c) \/ Disconnect(c)

Next == \/ \E c \in Clients : \/ ClientConnects(c) \/ ClientSends(c) \/ ClientLeaves(c)
                             \/ Serve(c) \/ ServerFlushes(c)
        \/ OnTimeout

(***************************************************************************)
(* The event loop runs the handler of a descriptor that stays ready, and   *)
(* the handler comes to its end.  Nobody has to send, read or leave, and   *)
(* no answer has to be written.                                            *)
(***************************************************************************)
Fairness == \A c \in Clients : WF_vars(Serve(c))

Spec == Init /\ [][Next]_vars /\ Fairness

-----------------------------------------------------------------------------
(***************************************************************************)
(* Type invariant.                                                         *)
(***************************************************************************)
ServerTypeOK ==
    /\ link \in [Clients -> {"away", "queued", "open"}]
    /\ peer \in [Clients -> {"up", "closed", "reset", "broken"}]
    /\ stream \in [Clients -> Seq(Packets)] /\ taken \in [Clients -> Nat]
    /\ out \in [Clients -> Seq({"ok", "err", "frame"})]
    /\ conn \in [Clients -> [size_left : 0..SizeBytes, size : Int,
                             data_left : 0..(ByteValues - 1), data : {"own", "any"}]]
    /\ reading \subseteq Clients /\ Cardinality(reading) <= 1
    /\ buf \in 0..BufferSize /\ (reading = {} <=> buf = 0)
    /\ stream_clients \in [Clients -> Nat]
    /\ \A n \in DOMAIN profile_tlate : profile_tlate[n] \in Handles \cup {-1}

(***************************************************************************)
(* Frames go to connections that exist, and once to each: on_timeout goes  *)
(* through pointers that net_disconnect frees, whichever way a connection  *)
(* ends: bye, the end of the stream, or a failed write.                    *)
(***************************************************************************)
StreamsAreConnected ==
    \A c \in Clients : /\ stream_clients[c] > 0 => link[c] = "open"
                       /\ stream_clients[c] <= 1

(***************************************************************************)
(* The profiles of different numbers are different profiles, and follow    *)
(* only profiles that a number stands for, however many clients define     *)
(* them and however few the sled has.  The built-in profiles of the        *)
(* sinusoid commands are never among them (Handles).                       *)
(***************************************************************************)
ProfilesApart ==
    /\ \A m, n \in DOMAIN profile_tlate :
          profile_tlate[m] = profile_tlate[n] /\ m # n => profile_tlate[m] = -1
    /\ \A h \in Handles : profiles[h].next_profile \in InUse(profile_tlate) \cup {-1}

(***************************************************************************)
(* A profile is as the last "profile set" that was answered with ok says,  *)
(* all of it: nothing of an older definition, of this client or another,   *)
(* is left.  A set that fails for want of a next profile has changed the   *)
(* position by then, and that is all that it has changed.                  *)
(***************************************************************************)
SetIsWhole ==
    \A h \in Handles :
        /\ profiles[h].position = asked[h].position
        /\ profiles[h].delay = asked[h].delay
        /\ profiles[h].next_profile =
               IF asked[h].next_profile >= 0 THEN profile_tlate[asked[h].next_profile]
                                             ELSE -1

(***************************************************************************)
(* Every packet is dealt with: what a client sends is read to the end, if  *)
(* the process lives, though a read may return any part of it, and other   *)
(* clients send, leave, and are sent frames meanwhile.                     *)
(***************************************************************************)
Served == \A c \in Clients : stream[c] # <<>> ~> (stream[c] = <<>> \/ ~Running)

-----------------------------------------------------------------------------
(***************************************************************************)
(* "Check position..." (src/server.cc, 137): no profile has a position     *)
(* that the check calls out of bounds.                                     *)
(***************************************************************************)
BoundsRespected == \A h \in Handles : profiles[h].position # "out"
=============================================================================
