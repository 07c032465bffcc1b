-------------------------------- MODULE MTCP --------------------------------
(***************************************************************************)
(* The MTCP convergence layer: single threaded hosts that either send one  *)
(* message over a connection of its own or poll the connections others     *)
(* have opened to them, over TCP connections with little room.  Peers with *)
(* another implementation send several messages over a connection, stop in *)
(* the middle of one, or send what is no message.                          *)
(***************************************************************************)
EXTENDS Integers, FiniteSets, Sequences, SequencesExt

CONSTANTS
    None,           \* Python's None
    Hosts,          \* the nodes that run dtn7zero
    MicroPython,    \* those of them that run on MicroPython
    Peers,          \* the nodes with another implementation
    Connections,    \* bound: the connections opened in a behaviour, 1 .. n
    Messages,       \* the messages
    Bundles,        \* those of them that hosts send
    Size,           \* the number of units of each: a header unit and its bytes
    Invalid,        \* those that do not begin with the header of a byte string
    Scripts,        \* what peers send over one connection
    Capacity,       \* the units a connection holds between its two ends
    MaxWaiting,     \* MAX_CONNECTIONS_STATE_WAITING
    MaxOpen         \* MAX_CONNECTIONS_STATE_OPEN_RECEIVE

ASSUME MTCPAssumption ==
    /\ MicroPython \subseteq Hosts
    /\ Hosts \cap Peers = {}
    /\ Size \in [Messages -> Nat \ {0}]
    /\ Invalid \subseteq Messages
    /\ Bundles \subseteq {m \in Messages \ Invalid : Size[m] > 1}
    /\ Scripts \subseteq Seq(Messages)
    /\ Capacity \in Nat \ {0}
    /\ MaxWaiting \in Nat \ {0}
    /\ MaxOpen \in Nat \ {0}

VARIABLES
    link,        \* the two ends of each connection, None before it is made
    offered,     \* the messages sent over it
    outcome,     \* what its sender knows: pending, succeeded or failed (closed)
    upcoming,    \* the unit to be written next
    buffer,      \* the units written and not yet read
    taken,       \* the messages read from it
    expired,     \* nothing came for TIMEOUT_MILLISECONDS_INACTIVE_RECEIVE
    waiting,     \* each host's queue of connections to accept
    open,        \* open_receive_connections, in the order of the dict
    graceful,    \* gracefully_shutdown_connections
    closed,      \* the connections the receiving end has closed or never knew
    reset,       \* those the sending end has broken off
    task         \* what each host is in the middle of

vars == <<link, offered, outcome, upcoming, buffer, taken, expired,
          waiting, open, graceful, closed, reset, task>>

(* A unit has its place in the connection: <<i, j>> is the j-th unit of the *)
(* i-th message.  The first unit of a message tells how many belong to it. *)
Units == Nat \X Nat

Message(c, unit) == offered[c][unit[1]]

After(c, unit) ==
    IF unit[2] < Size[Message(c, unit)] THEN <<unit[1], unit[2] + 1>> ELSE <<unit[1] + 1, 1>>

AllWritten(c) == upcoming[c][1] > Len(offered[c])

(* What a host can be in the middle of. *)
Doing(op, connection, todo) ==
    [op |-> op, connection |-> connection, todo |-> todo, partial |-> << >>]

Idle == Doing("idle", None, << >>)

(* op: idle between calls, send in _send_message, open and graceful in the *)
(* two loops of poll() with the connections still to look at.  partial: the*)
(* units read so far of a message, in _receive_exactly_n_bytes.            *)
Tasks == [op : {"idle", "send", "open", "graceful"},
          connection : Connections \union {None},
          todo : Seq(Connections), partial : Seq(Units)]

TypeOK ==
    /\ link \in [Connections -> {None} \union ((Hosts \union Peers) \X Hosts)]
    /\ offered \in [Connections -> Seq(Messages)]
    /\ outcome \in [Connections -> {"unused", "pending", "succeeded", "failed"}]
    /\ upcoming \in [Connections -> Units]
    /\ buffer \in [Connections -> Seq(Units)]
    /\ \A c \in Connections : Len(buffer[c]) <= Capacity
    /\ taken \in [Connections -> Seq(Messages)]
    /\ expired \in [Connections -> BOOLEAN]
    /\ waiting \in [Hosts -> Seq(Connections)]
    /\ open \in [Hosts -> Seq(Connections)]
    /\ \A n \in Hosts : Len(waiting[n]) <= MaxWaiting /\ Len(open[n]) <= MaxOpen
    /\ graceful \in [Hosts -> Seq(Connections)]
    /\ closed \subseteq Connections
    /\ reset \subseteq Connections
    /\ task \in [Hosts -> Tasks]

Init ==
    /\ link = [c \in Connections |-> None]
    /\ offered = [c \in Connections |-> << >>]
    /\ outcome = [c \in Connections |-> "unused"]
    /\ upcoming = [c \in Connections |-> <<1, 1>>]
    /\ buffer = [c \in Connections |-> << >>]
    /\ taken = [c \in Connections |-> << >>]
    /\ expired = [c \in Connections |-> FALSE]
    /\ waiting = [n \in Hosts |-> << >>]
    /\ open = [n \in Hosts |-> << >>]
    /\ graceful = [n \in Hosts |-> << >>]
    /\ closed = {}
    /\ reset = {}
    /\ task = [n \in Hosts |-> Idle]

-----------------------------------------------------------------------------
(* The sending end.                                                        *)

Fresh(c) == outcome[c] = "unused" /\ \A b \in Connections : b < c => outcome[b] # "unused"

(* The connections a host has in its queue and its two tables. *)
Held(n) == ToSet(waiting[n]) \union ToSet(open[n]) \union ToSet(graceful[n])

Established(c) == \E n \in Hosts : c \in Held(n)

Connect(c, from, to, messages) ==
    /\ Fresh(c)
    /\ link' = [link EXCEPT ![c] = <<from, to>>]
    /\ offered' = [offered EXCEPT ![c] = messages]
    /\ outcome' = [outcome EXCEPT ![c] = "pending"]
    /\ UNCHANGED <<upcoming, buffer, taken, expired, waiting, open, graceful, closed, reset>>

(* send_to up to the loop of _send_message. *)
SendTo(n, c, to, message) ==
    /\ task[n] = Idle
    /\ to # n
    /\ Connect(c, n, to, <<message>>)
    /\ task' = [task EXCEPT ![n] = Doing("send", c, << >>)]

(* Bound: a peer opens one connection. *)
PeerConnects(p, c, to, script) ==
    /\ \A b \in Connections : link[b] # None => link[b][1] # p
    /\ Connect(c, p, to, script)
    /\ UNCHANGED task

(* The operating system completes the connection if the queue has room.    *)
Establish(c) ==
    /\ outcome[c] = "pending" /\ c \notin closed
    /\ ~ Established(c)
    /\ LET n == link[c][2]
       IN  /\ Len(waiting[n]) < MaxWaiting
           /\ waiting' = [waiting EXCEPT ![n] = Append(@, c)]
    /\ UNCHANGED <<link, offered, outcome, upcoming, buffer, taken, expired,
                   open, graceful, closed, reset, task>>

(* One send that takes one unit (a send of several is several steps).      *)
Write(c) ==
    /\ outcome[c] = "pending"
    /\ ~ AllWritten(c)
    /\ upcoming' = [upcoming EXCEPT ![c] = After(c, @)]
    /\ UNCHANGED <<link, offered, outcome, taken, expired, waiting, open,
                   graceful, closed, reset, task>>

WriteToReceiver(c) ==
    /\ Write(c)
    /\ Established(c)
    /\ Len(buffer[c]) < Capacity
    /\ buffer' = [buffer EXCEPT ![c] = Append(@, upcoming[c])]

(* The receiver has closed the connection and the sender does not know yet.*)
WriteInVain(c) == Write(c) /\ c \in closed /\ UNCHANGED buffer

Settle(c, result) ==
    /\ outcome[c] = "pending"
    /\ outcome' = [outcome EXCEPT ![c] = result]
    /\ closed' = IF Established(c) THEN closed ELSE closed \union {c}
    /\ UNCHANGED <<link, offered, upcoming, taken, expired, waiting, open, graceful>>

(* The loop of _send_message ends: everything is written, or nothing could *)
(* be for TIMEOUT_MILLISECONDS_STALLED_SEND.                               *)
SendSucceeds(n) ==
    /\ task[n].op = "send"
    /\ AllWritten(task[n].connection)
    /\ Settle(task[n].connection, "succeeded")
    /\ UNCHANGED <<buffer, reset>>
    /\ task' = [task EXCEPT ![n] = Idle]

SendStalls(n) ==
    /\ task[n].op = "send"
    /\ ~ AllWritten(task[n].connection)
    /\ Settle(task[n].connection, "failed")
    /\ UNCHANGED <<buffer, reset>>
    /\ task' = [task EXCEPT ![n] = Idle]

Closing(c) ==
    /\ link[c] # None /\ link[c][1] \in Peers
    /\ Settle(c, IF AllWritten(c) THEN "succeeded" ELSE "failed")
    /\ UNCHANGED task

(* In good order, or with a reset that loses what was not yet read.        *)
PeerCloses(c) == Closing(c) /\ UNCHANGED <<buffer, reset>>

PeerResets(c) ==
    /\ Closing(c)
    /\ buffer' = [buffer EXCEPT ![c] = << >>]
    /\ reset' = reset \union {c}

-----------------------------------------------------------------------------
(* The receiving end: poll().                                              *)

(* With a bug: the gracefully shut down connections are never polled. *)
InLoopOfOpenOnly(op, todo, shut_down) ==
    IF todo # << >> THEN Doing(op, None, todo) ELSE Idle

(* A loop at its end: from the open connections to those shut down         *)
(* gracefully, and from those out of poll().                               *)
InLoop(op, todo, shut_down) ==
    IF todo # << >> THEN Doing(op, None, todo)
    ELSE IF op = "open" /\ shut_down # << >>
         THEN Doing("graceful", None, shut_down)
         ELSE Idle

(* With a bug: one more than the limit. *)
MayAcceptOneMore(n) == waiting[n] # << >> /\ Len(open[n]) <= MaxOpen

MayAccept(n) == waiting[n] # << >> /\ Len(open[n]) < MaxOpen

(* Accept at most one connection, then begin with the open ones.           *)
Poll(n) ==
    LET accepts == MayAccept(n)
    IN  /\ task[n] = Idle
        /\ open' = IF accepts THEN [open EXCEPT ![n] = Append(@, Head(waiting[n]))]
                              ELSE open
        /\ waiting' = IF accepts THEN [waiting EXCEPT ![n] = Tail(@)] ELSE waiting
        /\ task' = [task EXCEPT ![n] = InLoop("open", open'[n], graceful[n])]
        /\ UNCHANGED <<link, offered, outcome, upcoming, buffer, taken, expired,
                       graceful, closed, reset>>

(* The loop that looks at a connection is at the beginning of a message.   *)
LooksAt(n, c) ==
    /\ task[n].op \in {"open", "graceful"}
    /\ task[n].todo # << >> /\ c = Head(task[n].todo)

GoOn(n) ==
    task' = [task EXCEPT ![n] = InLoop(@.op, Tail(@.todo), graceful'[n])]

(* A connection is at most once in a table. *)
Without(s, c) ==
    IF c \in ToSet(s) THEN RemoveAt(s, CHOOSE i \in DOMAIN s : s[i] = c) ELSE s

(* With a bug: the connection is deleted from the wrong table. *)
DiscardOpen(n, c) ==
    /\ open' = [open EXCEPT ![n] = Without(@, c)]
    /\ closed' = closed \union {c}
    /\ buffer' = [buffer EXCEPT ![c] = << >>]
    /\ expired' = [expired EXCEPT ![c] = FALSE]
    /\ UNCHANGED <<link, offered, outcome, upcoming, taken, waiting, graceful, reset>>

Discard(n, c) ==
    /\ open' = [open EXCEPT ![n] = Without(@, c)]
    /\ graceful' = [graceful EXCEPT ![n] = Without(@, c)]
    /\ closed' = closed \union {c}
    /\ buffer' = [buffer EXCEPT ![c] = << >>]
    /\ expired' = [expired EXCEPT ![c] = FALSE]
    /\ UNCHANGED <<link, offered, outcome, upcoming, taken, waiting, reset>>

(* CPython first shuts down what it closes, which fails after a reset.     *)
ShutdownRaises(n, c) == task[n].op = "open" /\ n \notin MicroPython /\ c \in reset

(* With a bug: the connection that is shut down stays among the open ones. *)
NothingYetKept(n, c) ==
    /\ LooksAt(n, c) /\ task[n].partial = << >>
    /\ IF task[n].op = "open" /\ expired[c] /\ n \notin MicroPython /\ c \notin ToSet(graceful[n])
       THEN graceful' = [graceful EXCEPT ![n] = Append(@, c)]
       ELSE UNCHANGED graceful
    /\ UNCHANGED <<link, offered, outcome, upcoming, buffer, taken, expired,
                   waiting, open, closed, reset>>
    /\ GoOn(n)

(* With a bug: an open connection that has expired is closed altogether. *)
NothingYetClosing(n, c) ==
    /\ LooksAt(n, c) /\ task[n].partial = << >>
    /\ IF task[n].op = "open" /\ expired[c] /\ ~ ShutdownRaises(n, c)
       THEN Discard(n, c)
       ELSE UNCHANGED <<link, offered, outcome, upcoming, buffer, taken, expired,
                        waiting, open, graceful, closed, reset>>
    /\ GoOn(n)

(* recv has nothing yet, though something may be on its way.  An open      *)
(* connection that has expired is closed: for writing only, or altogether  *)
(* on MicroPython, which cannot do the former.                             *)
NothingYet(n, c) ==
    /\ LooksAt(n, c) /\ task[n].partial = << >>
    /\ \/ /\ task[n].op = "graceful" \/ ~ expired[c]
          /\ UNCHANGED <<link, offered, outcome, upcoming, buffer, taken, expired,
                         waiting, open, graceful, closed, reset>>
       \/ /\ task[n].op = "open" /\ expired[c] /\ ~ ShutdownRaises(n, c)
          /\ n \notin MicroPython
          /\ open' = [open EXCEPT ![n] = Without(@, c)]
          /\ graceful' = [graceful EXCEPT ![n] = Append(@, c)]
          /\ expired' = [expired EXCEPT ![c] = FALSE]
          /\ UNCHANGED <<link, offered, outcome, upcoming, buffer, taken,
                         waiting, closed, reset>>
       \/ /\ task[n].op = "open" /\ expired[c] /\ n \in MicroPython
          /\ Discard(n, c)
    /\ GoOn(n)

(* With a bug: within a message it reads on when there are no bytes. *)
RemoteClosedBetween(n, c) ==
    /\ LooksAt(n, c)
    /\ buffer[c] = << >> /\ outcome[c] \in {"succeeded", "failed"}
    /\ ~ ShutdownRaises(n, c)
    /\ IF task[n].partial = << >> THEN Discard(n, c) /\ GoOn(n) ELSE UNCHANGED vars

(* With a bug: what there is of a message is returned at the end. *)
RemoteClosedKeeping(n, c) ==
    /\ LooksAt(n, c)
    /\ buffer[c] = << >> /\ outcome[c] \in {"succeeded", "failed"}
    /\ ~ ShutdownRaises(n, c)
    /\ open' = [open EXCEPT ![n] = Without(@, c)]
    /\ graceful' = [graceful EXCEPT ![n] = Without(@, c)]
    /\ closed' = closed \union {c}
    /\ taken' = IF task[n].partial = << >> THEN taken
                ELSE [taken EXCEPT ![c] = Append(@, Message(c, Head(task[n].partial)))]
    /\ expired' = [expired EXCEPT ![c] = FALSE]
    /\ UNCHANGED <<link, offered, outcome, upcoming, buffer, waiting, reset>>
    /\ GoOn(n)

(* recv returns no bytes: the sender has closed the connection, also in    *)
(* the middle of a message.                                                *)
RemoteClosed(n, c) ==
    /\ LooksAt(n, c)
    /\ buffer[c] = << >> /\ outcome[c] \in {"succeeded", "failed"}
    /\ ~ ShutdownRaises(n, c)
    /\ Discard(n, c)
    /\ GoOn(n)

(* The exception leaves poll(), and the connection stays in the table.     *)
PollRaises(n, c) ==
    /\ LooksAt(n, c)
    /\ ShutdownRaises(n, c)
    /\ task' = [task EXCEPT ![n] = Idle]
    /\ UNCHANGED <<link, offered, outcome, upcoming, buffer, taken, expired,
                   waiting, open, graceful, closed, reset>>

Header(n, c) == LooksAt(n, c) /\ task[n].partial = << >> /\ buffer[c] # << >>

ValidHeader(c, unit) == Message(c, unit) \notin Invalid /\ unit[2] = 1

(* No header of a byte string, or that of an empty one, of which recv(0)   *)
(* then reads no bytes: taken for a closed connection.                     *)
HeaderRefused(n, c) ==
    /\ Header(n, c)
    /\ ~ ValidHeader(c, Head(buffer[c])) \/ Size[Message(c, Head(buffer[c]))] = 1
    /\ Discard(n, c)
    /\ GoOn(n)

HeaderRead(n, c) ==
    /\ Header(n, c)
    /\ ValidHeader(c, Head(buffer[c])) /\ Size[Message(c, Head(buffer[c]))] > 1
    /\ buffer' = [buffer EXCEPT ![c] = Tail(@)]
    /\ task' = [task EXCEPT ![n].partial = <<Head(buffer[c])>>]
    /\ UNCHANGED <<link, offered, outcome, upcoming, taken, expired, waiting,
                   open, graceful, closed, reset>>

(* The loop of _receive_exactly_n_bytes, which only ends with the message  *)
(* or the connection; with the message, poll() returns.  The poll begins   *)
(* anew with the next call.                                                *)
Complete(c, partial) == Len(partial) = Size[Message(c, Head(partial))]

Assembled(c, partial) ==
    IF partial = [j \in 1 .. Len(partial) |-> <<Head(partial)[1], j>>]
    THEN Message(c, Head(partial)) ELSE None

Receive(n, c) ==
    /\ LooksAt(n, c) /\ task[n].partial # << >> /\ buffer[c] # << >>
    /\ buffer' = [buffer EXCEPT ![c] = Tail(@)]
    /\ LET partial == Append(task[n].partial, Head(buffer[c]))
       IN  IF Complete(c, partial)
           THEN /\ taken' = [taken EXCEPT ![c] = Append(@, Assembled(c, partial))]
                /\ expired' = [expired EXCEPT ![c] = FALSE]
                /\ task' = [task EXCEPT ![n] = Idle]
           ELSE /\ task' = [task EXCEPT ![n].partial = partial]
                /\ UNCHANGED <<taken, expired>>
    /\ UNCHANGED <<link, offered, outcome, upcoming, waiting, open, graceful, closed, reset>>

Expire(c) ==
    /\ \E n \in Hosts : c \in ToSet(open[n])
    /\ ~ expired[c]
    /\ expired' = [expired EXCEPT ![c] = TRUE]
    /\ UNCHANGED <<link, offered, outcome, upcoming, buffer, taken, waiting,
                   open, graceful, closed, reset, task>>

-----------------------------------------------------------------------------
PollStep(n) ==
    \E c \in Connections : \/ NothingYet(n, c) \/ RemoteClosed(n, c)
                           \/ PollRaises(n, c)
                           \/ HeaderRefused(n, c) \/ HeaderRead(n, c)
                           \/ Receive(n, c)

Next ==
    \/ \E n \in Hosts :
         \/ Poll(n) \/ PollStep(n) \/ SendSucceeds(n) \/ SendStalls(n)
         \/ \E c \in Connections, to \in Hosts, m \in Bundles : SendTo(n, c, to, m)
    \/ \E c \in Connections :
         \/ Establish(c) \/ WriteToReceiver(c) \/ WriteInVain(c)
         \/ PeerCloses(c) \/ PeerResets(c) \/ Expire(c)
         \/ \E p \in Peers, to \in Hosts, s \in Scripts : PeerConnects(p, c, to, s)

Spec == Init /\ [][Next]_vars

(* update() is called for ever, so the thread of a host never stops; time  *)
(* passes; what was written, and the end of a connection, arrive some time.*)
(* Nothing is assumed of peers.                                            *)
ThreadStep(n) == Poll(n) \/ PollStep(n) \/ SendSucceeds(n) \/ SendStalls(n)

Arrival(c) ==
    \E n \in Hosts : \/ RemoteClosed(n, c) \/ PollRaises(n, c)
                    \/ HeaderRefused(n, c) \/ HeaderRead(n, c)

Fairness ==
    /\ \A n \in Hosts : WF_vars(ThreadStep(n))
    /\ \A c \in Connections : SF_vars(Arrival(c)) /\ WF_vars(Expire(c))

FairSpec == Spec /\ Fairness

-----------------------------------------------------------------------------
(* Properties.                                                             *)

(* The layer keeps the promise of Transfer: whole messages, in order, each *)
(* once; and a send reports failure only if the bundle can not have been   *)
(* received, so that sending it again makes no second copy.                *)
Handed(c) == upcoming[c][1] - 1

Promise == INSTANCE Transfer WITH handed <- [c \in Connections |-> Handed(c)]

TransferKept == Promise!Spec

(* A connection is in one table only, so that no two loops read from it,   *)
(* and in none when it is closed.                                          *)
OnePlace ==
    \A n \in Hosts :
        LET all == waiting[n] \o open[n] \o graceful[n]
        IN  /\ \A i, j \in DOMAIN all : all[i] = all[j] => i = j
            /\ ToSet(all) \intersect closed = {}

(* What a host has sent with success to one that runs on CPython is        *)
(* received, or its connection is still in the receiver's hands, whatever  *)
(* has expired and been shut down meanwhile: the receiver keeps reading a  *)
(* connection that it has shut down gracefully.                            *)
SuccessNotLost ==
    \A c \in Connections, n \in Hosts \ MicroPython :
        link[c] \in Hosts \X {n} /\ outcome[c] = "succeeded"
            => taken[c] = offered[c] \/ c \in Held(n)

(* In the middle of a message of a peer, who need not go on.               *)
Blocked(n) ==
    task[n].partial # << >> /\ link[Head(task[n].todo)][1] \in Peers

(* A reset connection in the table, at which every poll() ends.            *)
Wedged(n) == \E c \in ToSet(open[n]) : c \in reset /\ n \notin MicroPython

(* A bundle whose sending succeeded is received, unless the receiver runs  *)
(* on MicroPython, which may close an inactive connection with the bundle  *)
(* still on its way, or a peer blocks it or has wedged it: the inactivity  *)
(* timeout, the limit of open connections and other connections that are   *)
(* served first do not lose it.                                            *)
SentIsReceived ==
    \A c \in Connections, n \in Hosts \ MicroPython :
        link[c] \in Hosts \X {n} /\ outcome[c] = "succeeded"
            ~> taken[c] = offered[c] \/ Blocked(n) \/ Wedged(n)

(* Two hosts never wait on each other: send_to() and poll() end, because a *)
(* stalled send gives up and the end of its connection ends the poll that  *)
(* waits for the rest.  Only a peer can keep it, by stopping in a message. *)
PollReturns == \A n \in Hosts : []<>(task[n] = Idle \/ Blocked(n))

(* A connection its sender has closed is released.                         *)
Released ==
    \A c \in Connections :
        outcome[c] \in {"succeeded", "failed"}
            ~> \A n \in Hosts : c \notin Held(n) \/ Blocked(n) \/ Wedged(n)
=============================================================================
