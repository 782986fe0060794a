---------------------------- MODULE NetworkInterface ----------------------------
(***************************************************************************)
(* ssr::Server and its Connections: one network thread runs the handlers   *)
(* of an io_service, one after the other.  A Connection is kept alive by   *)
(* the handlers that are bound to it (shared_from_this()): of a read that  *)
(* is always pending, of a timer that sends the levels of the sources, and *)
(* of each write that is not complete.  When the last one is gone its      *)
(* destructor unsubscribes it.  Messages are written by the network thread *)
(* and by whatever thread publishes something.                             *)
(*                                                                         *)
(* Of the library (asio) is used: a handler is called once, after its      *)
(* operation has completed; a cancelled wait completes with an error, but  *)
(* one that has completed before cannot be cancelled; a write sends what   *)
(* the socket takes, and queues up again for the rest.                     *)
(***************************************************************************)
EXTENDS Integers, FiniteSets, Sequences, SequencesExt

CONSTANTS Hosts,        \* each connects once
          Talkers,      \* those that send requests, and are sent more than the scene
          MaxPackets,   \* bound: requests each of them sends
          MaxMessages,  \* bound: messages written to each of them
          Parts         \* of a message, each is sent as a whole

ASSUME TalkersAssumption == Talkers \subseteq Hosts
ASSUME PartsAssumption == Parts \in Nat \ {0}

Terminator == 0         \* a packet n is sent as n, Terminator

VARIABLES
  server,       \* "running", or "stopped" when ~Server() has returned
  accepting,    \* an asynchronous accept is pending
  failed,       \* history: an accept has failed
  peer,         \* what the client does: "away", "connecting", "open", "closed"
  sent,         \* how many packets the client has sent
  incoming,     \* what is to be read from the socket
  _streambuf,   \* what was read and is not parsed yet
  parsed,       \* packets that were given to the CommandParser
  reading,      \* an asynchronous read is pending
  timer,        \* "off", "waiting", "expired" or "cancelled": the handler will be called
  late,         \* history: the timer had expired when it was to be cancelled
  written,      \* how many messages were written
  writes,       \* writes that are not complete: the message, and the parts left
  arrived       \* what the client has received, message by message

network == <<server, accepting, failed, peer, sent, incoming, _streambuf, parsed,
          reading, timer, late, written, writes, arrived>>

acceptor == <<server, accepting, failed>>
input == <<sent, incoming, _streambuf, parsed>>
output == <<written, writes, arrived>>

\* Server::run() starts the first accept.
NetworkInit ==
  /\ server = "running" /\ accepting = TRUE /\ failed = FALSE
  /\ peer = [c \in Hosts |-> "away"]
  /\ sent = [c \in Hosts |-> 0]
  /\ incoming = [c \in Hosts |-> <<>>]
  /\ _streambuf = [c \in Hosts |-> <<>>]
  /\ parsed = [c \in Hosts |-> <<>>]
  /\ reading = [c \in Hosts |-> FALSE]
  /\ timer = [c \in Hosts |-> "off"]
  /\ late = [c \in Hosts |-> FALSE]
  /\ written = [c \in Hosts |-> 0]
  /\ writes = [c \in Hosts |-> <<>>]
  /\ arrived = [c \in Hosts |-> <<>>]

\* The Connection exists, and is subscribed, as long as a handler refers to it.
Exists(c) == reading[c] \/ timer[c] # "off" \/ writes[c] # <<>>

------------------------------------------------------------------------------
(* The client                                                              *)

Open(c) ==
  /\ peer[c] = "away"
  /\ peer' = [peer EXCEPT ![c] = "connecting"]
  /\ UNCHANGED <<acceptor, input, reading, timer, late, output>>

Send(c) ==
  /\ peer[c] \in {"connecting", "open"}
  /\ c \in Talkers /\ sent[c] < MaxPackets
  /\ sent' = [sent EXCEPT ![c] = @ + 1]
  /\ incoming' = [incoming EXCEPT ![c] = @ \o <<sent[c] + 1, Terminator>>]
  /\ UNCHANGED <<acceptor, peer, _streambuf, parsed, reading, timer, late, output>>

Close(c) ==
  /\ peer[c] = "open"
  /\ peer' = [peer EXCEPT ![c] = "closed"]
  /\ UNCHANGED <<acceptor, input, reading, timer, late, output>>

------------------------------------------------------------------------------
(* Writing                                                                 *)

\* Mutant: the text to be sent is kept in one place.
Mutant_write(c) ==
  /\ written' = [written EXCEPT ![c] = @ + 1]
  /\ writes' = [writes EXCEPT ![c] = <<[message |-> written[c] + 1, left |-> Parts]>>]
  /\ UNCHANGED arrived

\* Connection::write() starts a write, whatever else is being written; the handler
\* keeps the text.
write(c) ==
  /\ written' = [written EXCEPT ![c] = @ + 1]
  /\ writes' = [writes EXCEPT ![c] = Append(@, [message |-> written[c] + 1, left |-> Parts])]
  /\ UNCHANGED arrived

MayWrite(c) == written[c] < IF c \in Talkers THEN MaxMessages ELSE 1

\* A thread that publishes an event.
Publish(c) ==
  /\ server = "running"
  /\ Exists(c) /\ MayWrite(c)
  /\ write(c)
  /\ UNCHANGED <<acceptor, peer, input, reading, timer, late>>

\* The socket takes some parts; what is left is queued again.
WriteSome(c) ==
  /\ server = "running"
  /\ peer[c] = "open" /\ writes[c] # <<>>
  /\ LET w == Head(writes[c])
     IN  \E k \in 1 .. w.left :
           /\ arrived' = [arrived EXCEPT ![c] = @ \o [i \in 1 .. k |-> w.message]]
           /\ writes' = [writes EXCEPT ![c] =
                IF k = w.left THEN Tail(@)
                ELSE Append(Tail(@), [w EXCEPT !.left = @ - k])]
  /\ UNCHANGED <<acceptor, peer, input, reading, timer, late, written>>

\* write_handler() does nothing, neither with an error.
WriteFails(c) ==
  /\ server = "running"
  /\ peer[c] = "closed" /\ writes[c] # <<>>
  /\ writes' = [writes EXCEPT ![c] = Tail(@)]
  /\ UNCHANGED <<acceptor, peer, input, reading, timer, late, written, arrived>>

------------------------------------------------------------------------------
(* Handlers                                                                *)

\* Mutant: the next accept is not started.
Mutant_handle_accept(c) ==
  /\ server = "running" /\ accepting
  /\ peer[c] = "connecting"
  /\ peer' = [peer EXCEPT ![c] = "open"]
  /\ write(c)
  /\ reading' = [reading EXCEPT ![c] = TRUE]
  /\ timer' = [timer EXCEPT ![c] = "waiting"]
  /\ accepting' = FALSE
  /\ UNCHANGED <<server, failed, input, late>>

\* handle_accept(): start(), which writes the whole scene, starts to read and sets
\* the timer; the next accept is started.
handle_accept(c) ==
  /\ server = "running" /\ accepting
  /\ peer[c] = "connecting"
  /\ peer' = [peer EXCEPT ![c] = "open"]
  /\ write(c)
  /\ reading' = [reading EXCEPT ![c] = TRUE]
  /\ timer' = [timer EXCEPT ![c] = "waiting"]
  /\ UNCHANGED <<acceptor, input, late>>

\* With an error, no further accept is started.
handle_accept_error ==
  /\ server = "running" /\ accepting
  /\ accepting' = FALSE
  /\ failed' = TRUE
  /\ UNCHANGED <<server, peer, input, reading, timer, late, output>>

HasPacket(c) == Terminator \in ToSet(_streambuf[c])

\* async_read_until() reads what there is, as long as the buffer has no packet.
Receive(c) ==
  /\ server = "running"
  /\ reading[c] /\ ~ HasPacket(c)
  /\ \E n \in 1 .. Len(incoming[c]) :
       /\ _streambuf' = [_streambuf EXCEPT ![c] = @ \o SubSeq(incoming[c], 1, n)]
       /\ incoming' = [incoming EXCEPT ![c] = SubSeq(@, n + 1, Len(@))]
  /\ UNCHANGED <<acceptor, peer, sent, parsed, reading, timer, late, output>>

\* The first packet of the buffer is parsed, the rest stays there for the next read.
read_handler(c) ==
  /\ server = "running"
  /\ reading[c] /\ HasPacket(c)
  /\ LET end == SelectInSeq(_streambuf[c], LAMBDA x : x = Terminator)
     IN  /\ parsed' = [parsed EXCEPT ![c] = @ \o SubSeq(_streambuf[c], 1, end - 1)]
         /\ _streambuf' = [_streambuf EXCEPT ![c] = SubSeq(@, end + 1, Len(@))]
  /\ UNCHANGED <<acceptor, peer, sent, incoming, reading, timer, late, output>>

\* The client has closed the connection: nothing is read any more, and the timer is
\* cancelled, if it has not expired yet.
read_handler_error(c) ==
  /\ server = "running"
  /\ reading[c] /\ ~ HasPacket(c)
  /\ peer[c] = "closed" /\ incoming[c] = <<>>
  /\ reading' = [reading EXCEPT ![c] = FALSE]
  /\ timer' = [timer EXCEPT ![c] = IF @ = "waiting" THEN "cancelled" ELSE @]
  /\ late' = [late EXCEPT ![c] = timer[c] = "expired"]
  /\ UNCHANGED <<acceptor, peer, input, output>>

Expire(c) ==
  /\ server = "running"
  /\ timer[c] = "waiting"
  /\ timer' = [timer EXCEPT ![c] = "expired"]
  /\ UNCHANGED <<acceptor, peer, input, reading, late, output>>

\* Mutant: the error is ignored.
Mutant_timeout_handler(c) ==
  /\ server = "running"
  /\ timer[c] \in {"cancelled", "expired"}
  /\ timer' = [timer EXCEPT ![c] = "waiting"]
  /\ IF MayWrite(c) THEN write(c) ELSE UNCHANGED output
  /\ UNCHANGED <<acceptor, peer, input, reading, late>>

\* timeout_handler(): send_levels() and set the timer again, or nothing if it was
\* cancelled.  Beyond the bound the levels are left out, the timer goes on.
timeout_handler(c) ==
  /\ server = "running"
  /\ \/ /\ timer[c] = "cancelled"
        /\ timer' = [timer EXCEPT ![c] = "off"]
        /\ UNCHANGED output
     \/ /\ timer[c] = "expired"
        /\ timer' = [timer EXCEPT ![c] = "waiting"]
        /\ \/ MayWrite(c) /\ write(c)
           \/ ~ MayWrite(c) /\ UNCHANGED output
  /\ UNCHANGED <<acceptor, peer, input, reading, late>>

\* Server::stop(): no handler is called any more, the network thread ends and is
\* joined; then the io_service destroys the handlers it has.
stop ==
  /\ server = "running"
  /\ server' = "stopped"
  /\ accepting' = FALSE
  /\ reading' = [c \in Hosts |-> FALSE]
  /\ timer' = [c \in Hosts |-> "off"]
  /\ writes' = [c \in Hosts |-> <<>>]
  /\ UNCHANGED <<failed, peer, input, late, written, arrived>>

NetworkNext ==
  \/ \E c \in Hosts :
       \/ Open(c) \/ Send(c) \/ Close(c)
       \/ Publish(c) \/ WriteSome(c) \/ WriteFails(c)
       \/ handle_accept(c) \/ Receive(c) \/ read_handler(c) \/ read_handler_error(c)
       \/ Expire(c) \/ timeout_handler(c)
  \/ handle_accept_error \/ stop

\* The io_service calls the handlers of what has completed in that order, so that
\* each has its turn.  The socket of a client that is open may take nothing.
Fairness ==
  \A c \in Hosts :
    /\ WF_network(handle_accept(c))
    /\ WF_network(Receive(c))
    /\ WF_network(read_handler(c))
    /\ WF_network(read_handler_error(c))
    /\ WF_network(timeout_handler(c))
    /\ WF_network(WriteFails(c))

NetworkSpec == NetworkInit /\ [][NetworkNext]_network /\ Fairness

------------------------------------------------------------------------------
(* Properties                                                              *)

\* What a client has sent is parsed completely, once and in order, however it was
\* cut into pieces on the way: at any time it is parsed, or still there, in the buffer
\* or to be read.
InputConserved ==
  \A c \in Hosts :
    LET p == Len(parsed[c])
        rest == _streambuf[c] \o incoming[c]
    IN  /\ parsed[c] = [n \in 1 .. p |-> n]
        /\ Len(rest) = 2 * (sent[c] - p)
        /\ \A n \in 1 .. sent[c] - p : rest[2 * n - 1] = p + n /\ rest[2 * n] = Terminator

\* How much of message n has arrived.
Received(c, n) == Cardinality({ i \in DOMAIN arrived[c] : arrived[c][i] = n })

\* While a client is connected each part of each message has either arrived, once,
\* or is kept for one of the writes that are not complete, however many there are
\* at a time; and the messages begin to arrive in the order they were written in.
\* (What arrives is a sequence of whole messages only as long as they do not overlap.)
MessagesKept ==
  server = "running" =>
    \A c \in Hosts : peer[c] # "closed" =>
      \A n \in 1 .. written[c] :
        /\ Received(c, n) + Cardinality(UNION
             { {i} \X (1 .. writes[c][i].left) :
                 i \in { j \in DOMAIN writes[c] : writes[c][j].message = n } }) = Parts
        /\ Received(c, n) > 0 => \A k \in 1 .. n : Received(c, k) > 0

\* Every packet is parsed at last, also of a client that has already closed its
\* connection, unless an accept has failed or the server is stopped.
EverythingParsed ==
  \A c \in Hosts : \A n \in 1 .. MaxPackets :
    sent[c] = n ~> Len(parsed[c]) >= n \/ failed \/ server = "stopped"

\* The Connection of a client that is gone ceases to exist, and to be subscribed,
\* unless the timer had expired just before it was cancelled: it is set again then,
\* and for ever.
ConnectionEnds ==
  \A c \in Hosts : peer[c] = "closed" ~> ~ Exists(c) \/ late[c]
==============================================================================
