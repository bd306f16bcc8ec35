------------------------------- MODULE Broker -------------------------------
(***************************************************************************)
(* Broker and the handler of /api/events: scans publish under the read     *)
(* lock to channels of bounded capacity, streams come and go under the     *)
(* write lock.  sync.RWMutex lets one goroutine ask for the write lock at  *)
(* a time, keeps new readers out while it waits, and lets those that       *)
(* waited in before the next writer.  A critical section under the write   *)
(* lock is one step.                                                       *)
(***************************************************************************)
EXTENDS Naturals, Sequences, FiniteSets

CONSTANTS
  Publishers, \* goroutines of scans
  Streams,    \* connections to /api/events
  Capacity,   \* of a channel (16)
  MaxEvents   \* bound on the events of one scan

VARIABLES
  clients, \* streams whose channel is in the map
  channel, \* per stream: the events in it
  closed,  \* streams whose channel was closed
  said,    \* streams that were told "ready"
  leaving, \* streams whose request is over
  locking, \* the stream that waits for the write lock, if any
  waiting, \* publishers that wait behind it for the read lock
  readers, \* publishers that hold the read lock
  todo,    \* per publisher: channels it has yet to send to
  sent,    \* per publisher: events published so far
  due,     \* history: event and stream, told ready before the event was published
  taken,   \* history: event and stream it was put in the channel of
  full,    \* history: event and stream whose channel had no room
  panicked \* history: a send on a closed channel

history == <<due, taken, full, panicked>>
lock == <<locking, waiting, readers>>
vars == <<clients, channel, closed, said, leaving, lock, todo, sent, history>>

Event(p) == <<p, sent[p]>>

Init ==
  /\ clients = {}
  /\ channel = [s \in Streams |-> <<>>]
  /\ closed = {}
  /\ said = {}
  /\ leaving = {}
  /\ locking = {}
  /\ waiting = {}
  /\ readers = {}
  /\ todo = [p \in Publishers |-> {}]
  /\ sent = [p \in Publishers |-> 0]
  /\ due = {}
  /\ taken = {}
  /\ full = {}
  /\ panicked = FALSE

\* Publishers ps get the read lock while the map is cs: they range over it, and what they
\* publish is due to the clients that were told "ready".
Acquire(ps, cs) ==
  /\ readers' = readers \cup ps
  /\ todo' = [p \in Publishers |-> IF p \in ps THEN cs ELSE todo[p]]
  /\ due' = due \cup {<<<<p, sent'[p]>>, s>> : p \in ps, s \in said \ (leaving \cup closed)}

\* Lock, by a stream that begins or one that is over.
Lock(s) ==
  /\ locking = {}
  /\ s \notin clients \cup closed \/ s \in clients \cap leaving
  /\ locking' = {s}
  /\ UNCHANGED <<clients, channel, closed, said, leaving, waiting, readers, todo, sent, history>>

\* Unlock lets in those that waited.
Unlock ==
  /\ UNCHANGED sent
  /\ locking' = {}
  /\ waiting' = {}
  /\ Acquire(waiting, clients')

Subscribe(s) ==
  /\ s \in locking \ clients
  /\ readers = {}
  /\ clients' = clients \cup {s}
  /\ Unlock
  /\ UNCHANGED <<channel, closed, said, leaving, taken, full, panicked>>

Ready(s) ==
  /\ s \in clients \ said
  /\ said' = said \cup {s}
  /\ UNCHANGED <<clients, channel, closed, leaving, lock, todo, sent, history>>

\* The loop of the handler: an event is written to the client ...
Forward(s) ==
  /\ s \in (clients \cap said) \ leaving
  /\ channel[s] # <<>>
  /\ channel' = [channel EXCEPT ![s] = Tail(@)]
  /\ UNCHANGED <<clients, closed, said, leaving, lock, todo, sent, history>>

\* ... or the client is gone, or the 75 s of a request are over.
Leave(s) ==
  /\ s \in (clients \cap said) \ leaving
  /\ leaving' = leaving \cup {s}
  /\ UNCHANGED <<clients, channel, closed, said, lock, todo, sent, history>>

\* Seeded fault: the channel is closed without the write lock.
UnsubscribeUnlocked(s) ==
  /\ s \in clients \cap leaving
  /\ clients' = clients \ {s}
  /\ closed' = closed \cup {s}
  /\ UNCHANGED <<channel, said, leaving, lock, todo, sent, history>>
Unsubscribe(s) ==
  /\ s \in locking \cap clients
  /\ readers = {}
  /\ clients' = clients \ {s}
  /\ closed' = closed \cup {s}
  /\ Unlock
  /\ UNCHANGED <<channel, said, leaving, taken, full, panicked>>

Publishing(p) == p \in readers \cup waiting

Publish(p) ==
  /\ ~Publishing(p)
  /\ sent[p] < MaxEvents
  /\ sent' = [sent EXCEPT ![p] = @ + 1]
  /\ IF locking = {}
     THEN Acquire({p}, clients) /\ UNCHANGED waiting
     ELSE waiting' = waiting \cup {p} /\ UNCHANGED <<readers, todo, due>>
  /\ UNCHANGED <<clients, channel, closed, said, leaving, locking, taken, full, panicked>>

\* The range over the map, in no particular order; default skips a full channel.
\* Seeded fault: no default.
SendWaits(p, s) ==
  /\ s \in todo[p]
  /\ Len(channel[s]) < Capacity
  /\ todo' = [todo EXCEPT ![p] = @ \ {s}]
  /\ channel' = [channel EXCEPT ![s] = Append(@, Event(p))]
  /\ taken' = taken \cup {<<Event(p), s>>}
  /\ UNCHANGED <<clients, closed, said, leaving, lock, sent, due, full, panicked>>
Send(p, s) ==
  /\ s \in todo[p]
  /\ todo' = [todo EXCEPT ![p] = @ \ {s}]
  /\ panicked' = (panicked \/ s \in closed)
  /\ IF Len(channel[s]) < Capacity
     THEN /\ channel' = [channel EXCEPT ![s] = Append(@, Event(p))]
          /\ taken' = taken \cup {<<Event(p), s>>}
          /\ UNCHANGED full
     ELSE /\ full' = full \cup {<<Event(p), s>>}
          /\ UNCHANGED <<channel, taken>>
  /\ UNCHANGED <<clients, closed, said, leaving, lock, sent, due>>

Published(p) ==
  /\ p \in readers
  /\ todo[p] = {}
  /\ readers' = readers \ {p}
  /\ UNCHANGED <<clients, channel, closed, said, leaving, locking, waiting, todo, sent, history>>

Next ==
  \/ \E s \in Streams :
       Lock(s) \/ Subscribe(s) \/ Ready(s) \/ Forward(s) \/ Leave(s) \/ Unsubscribe(s)
  \/ \E p \in Publishers : Publish(p) \/ Published(p) \/ \E s \in Streams : Send(p, s)

\* Whoever has the lock, or is next, goes on.  Nobody need publish, come or go, and no
\* client need read.
Spec ==
  /\ Init /\ [][Next]_vars
  /\ \A s \in Streams : WF_vars(Subscribe(s) \/ Unsubscribe(s))
  /\ \A p \in Publishers : WF_vars(Published(p) \/ \E s \in Streams : Send(p, s))

-----------------------------------------------------------------------------

\* Subscribe's cancel function closes the channel: nobody is about to send on it, or
\* the process would go down.
NoSendOnClosed ==
  /\ ~panicked
  /\ \A p \in Publishers : todo[p] \cap closed = {}

\* events: what is published after a client was told "ready" is not missed by it, unless
\* it left, or its channel was full with as many others.
NothingMissed ==
  /\ \A p \in Publishers, n \in 1..MaxEvents, s \in Streams :
       /\ <<<<p, n>>, s>> \in due
       /\ sent[p] > n \/ (sent[p] = n /\ ~Publishing(p))
       => <<<<p, n>>, s>> \in taken \cup full
  /\ \A lost \in full : Capacity <= Cardinality({other \in taken : other[2] = lost[2]})

\* Publish, Subscribe: though no client reads, a scan gets its event published, also when
\* it waits behind a stream that waits for another scan, and a stream comes or goes.
NobodyWaitsForClients ==
  /\ \A p \in Publishers : Publishing(p) ~> ~Publishing(p)
  /\ \A s \in Streams : s \in locking ~> s \notin locking
=============================================================================
