# MTC-Standalone in TLA+

`src/mtc0-sta` is a library that carries messages of libmtc over file
descriptors: links over sockets (`fd_link.c`, `io.c`), their event loop on top
of libevent (`event.c`), a router with one peer for each connection
(`simple_router.c`) and a set of such peers fed by a listening socket
(`simple_server.c`). This directory holds TLA+ models of it, the TLC
configurations that check them, and theorems with TLAPS proofs.

The repository has no tests. Everything here is translated from the code.
libmtc (`MtcLink`, `MtcMsg`, `MtcEventSource`, `MtcRouter`, `MtcPeer`), libevent
and the kernel are not part of it; what the models say of them is taken from how
the code uses them and listed under *External parts*.

## The system

| Part | Code | State | Operations |
|---|---|---|---|
| Message header | `fd_link.c` 30-117 | none | write, read |
| Readers | `io.c` | what is left to fill | `mtc_reader_read`, `mtc_reader_v_read` |
| Link, sending | `fd_link.c` 135-463 | IO vector (`mem`, `start`, `len`, `alen`, `clip`), job queue | queue, send, finalize |
| Link, receiving | `fd_link.c` 120-133, 465-681 | `read_status`, readers, `header_data`, `mem`, `msg` | receive, finalize |
| Link in an event loop | `fd_link.c` 683-862 | the two event tests | event callback, enable/disable, action hook |
| libevent backend | `event.c` | list of `MtcLevTest` of each backend, reference counts | init, prepare, purge, callback, destroy |
| Simple router | `simple_router.c` | ring of peers, link and backend of each, sync cache | add, sendto, deliver, close, discard, disconnect, sync step, set event manager |
| Peer set, listener | `simple_server.c` | ring of holders, listener's `active`, `peer_set` | add, reset notification, accept, (un)set peer set, unref |

How they interact:

- An application queues on a link (`mtc_link_queue`). The link makes a job, whose
  header and blocks become entries of the IO vector, and its *action hook*
  recomputes which events the link waits for.
- If they changed, the event source is prepared anew: each backend throws away
  its `MtcLevTest`s and makes new ones, each a libevent event.
- libevent calls `mtc_lev_test_cb`, which calls the link's event source, which
  sends and then receives, and calls the application's `sent`, `stopped`,
  `received` and `broken`. These may call any of the above again, drop the link,
  or run another event base (`mtc_simple_peer_sync_io_step` does).
- A peer of the router is a link with such callbacks; the server holds a peer
  until it is reset.

There are no threads. What is hard here is:

- **partial I/O**: every read and write may end anywhere, and the state that lets
  the next call go on is spread over offsets and counts (`start`, `len`, `clip`,
  `n_blocks` of the job at the head) that different functions update by
  differences of their own;
- **stop signals**: a message may carry one; the sender has to stop exactly behind
  it, the receiver has to stop there too, and both are resumed separately;
- **reentrancy**: callbacks that change the thing whose loop is running;
- **lost wakeups**: the event tests are a cache of the status and of the queue;
- **loss of an end** in the middle of a message, and what was allocated by then;
- **limits**: `IOV_MAX`, the 32 bits of a header field, the growth of the vector.

What makes each part correct:

- header: what is read is what was written, for the messages that fit;
- readers and vector loops: pieces add up, whatever the split;
- sender: jobs, vector and clip agree; a stop signal is a barrier and is reported
  once; nothing points into memory that was released; the vector stays inside its
  allocation;
- receiver: message *k* is frame *k*, whole; a link breaks only for a reason; every
  buffer is owned by exactly one phase, and released once;
- both with a socket between them: an ordered channel;
- events: tests up to date, backends prepared exactly while they should be, nothing
  used after it was freed, no wakeup lost;
- router: a peer is in the ring iff it has a link, the sync cache names only such a
  peer, its link is watched by the loop that ought to; nothing leads to a peer that was
  freed; what was queued goes out although the peer was dropped; the router, its peers,
  their links and the managers end in the right order;
- server: a peer is in a set until its connection is lost, and no longer; a set lives
  until the application and the listener are done with it; descriptors are closed once
  and when the caller asked for it.

## Modules

| Module | What it is |
|---|---|
| `MtcHeader` | `mtc_header_write`, `mtc_header_read` with the width of their words |
| `MtcIo` | both readers, and the two loops that consume a vector of blocks |
| `FdLinkSend` | the sending half of a link |
| `FdLinkRecv` | the receiving half |
| `FdLinkRecvPeer` | the receiving half against any peer |
| `MsgChannel` | abstract: what one direction of a link promises |
| `FdLink` | sender, socket and receiver; implements `MsgChannel` |
| `FdLinkEvents` | a link in event loops: the event half of `fd_link.c`, and `event.c` |
| `SimpleRouter` | a router, its peers, the sync cache, and the application around them |
| `SimpleServer` | sets of peers and the listener, on top of `SimpleRouter` |
| `VectorLemmas` | lemmas on sums, vectors and streams |
| `MtcIoProofs`, `FdLinkSendProofs`, `FdLinkRecvProofs`, `FdLinkProofs`, `FdLinkEventsProofs`, `SimpleRouterProofs`, `SimpleServerProofs` | theorems |
| `MC*` | instances for TLC; `MCMtcIo` is also the machine that drives the operators of `MtcIo` |

Operators that the comments call *mutants* (for instance
`AllocIovFromStart`) are not used by any specification. Each is a plausible bug of
one definition; exchanging the two has to make TLC find the property listed with it
in `PROJECT.json` violated. This shows that the property depends on the code.

### Header (`MtcHeader`)

The stream consists of *units*. A header is a magic unit and words (the count with
the stop bit, and a size for each block); a byte of a block is a unit of its own,
labelled with its message, block and offset so that one that is lost, doubled or
misplaced is seen. A magic or a word, four bytes each, is one unit: the code
never looks at a part of one, and reads of every length in units split a header
between any two of them. `StopBit` is 2^31 in the code and any number here;
`WordLimit`, twice as much, is what a word counts modulo.

### Sending (`FdLinkSend`)

| Variable | Code |
|---|---|
| `vec`, `start`, `alen`, `clip` | `iov.mem[start .. start+len-1]`, `iov.start`, `iov.alen`, `iov.clip` |
| `jobs` | the list `jobs.head .. jobs.tail` |
| `busy`, `blocks_out` | `mtc_fd_link_send` between two rounds, and its local |
| `out_status` | the status in `MtcLink` |
| `sock` | the kernel's buffer, and which ends are gone |
| `queued`, `stops` | history |

A step of `Send` is one round of the loop in `mtc_fd_link_send`, with `writev`
taking any number of units that the socket has room for. Between two rounds the
peer may read or hang up, and the next `writev` may fail. The last round includes
the collection of jobs and the search for the next stop signal. `Queue` is
`mtc_fd_link_queue` with `mtc_fd_link_alloc_iov`; the sliding and the collapsing of
the vector are in `PopIov`.

`aborted` stands for either `mtc_error("Assertion failure")`.

### Receiving (`FdLinkRecv`, `FdLinkRecvPeer`)

A step of `Receive` is one `read` or `readv` and everything the code does with the
answer before the next one. As each phase saves its status before it reads, a call
that returns in between and one that goes on cannot be told apart, so a call is a
number of steps. Answers are any number of units that are there, a temporary error,
end of file, or a severe error. `mem` is what the additional buffer holds (the block
size index, later the vector), `msg` the message that is being filled.

`FdLinkRecvPeer` adds a peer that writes frames, well-formed or not, and may die at
any unit.

### Both ends (`FdLink`, `MsgChannel`)

`FdLink` instantiates both halves over one socket. `MsgChannel` has messages
accepted, passed and delivered, and each end open, stopped or down. The mapping:
what was queued is accepted; what has no entry left in the vector has passed; what
`mtc_fd_link_receive` has returned is delivered. TLC checks that every step is a
step of the channel or a stutter. A write that finishes several messages is one
`Pass`, which may not run over a stop signal.

### Events (`FdLinkEvents`)

The stream is reduced to messages here. `tests` are `self->tests`, `lev` the
`MtcLevTest`s that are allocated, with their libevent flags, whether libevent is
about to call them (`active`), and their reference counts; `stack` has a frame for
each `mtc_lev_test_cb` that is running, with where it stands in
`mtc_fd_link_event_source_event`. While the frame on top is in a callback (`app`), the
application may do anything: queue, resume, switch the events, attach or detach
backends, drop its reference, poll another base. An `MtcLevTest` that a callback has
disposed of and that is still referenced keeps its place until it is freed, and its
successor takes the other of the two *generations*: there are never more than two.

### Router (`SimpleRouter`)

The functions of `simple_router.c` call each other with a half-changed router in between:
`destroy` calls `close`, which clears the cache, and ends with the router itself. They
are operators here that map a state of the router, the record `rt`, to the next one,
named as in the code. The fields of `rt` are:

| Field | Code |
|---|---|
| `born`, `refs` | the peers that were added, the reference count in `MtcPeer` |
| `ring` | `router->peers` |
| `linked` | the peers with `peer->link` not `NULL` |
| `backend` | `peer->backend`, named by its manager |
| `cache` | `sync_cache.peer`; its backend is one of the manager `"sync"` |
| `mgr`, `rrefs` | the manager and the reference count in `MtcRouter` |
| `mrefs` | references to each `MtcEventMgr` (backends, routers, their owner) |
| `lrefs`, `status`, `backs`, `close_fd`, `closed` | a link: references, status, its backends, who closes the descriptor, and how often that was done |
| `owner`, `enabled` | whose callbacks the event source of a link has, and `events_enabled` |
| `unsent`, `flushing` | mails in a link, the links the flusher holds a reference to |
| `aborted` | the `mtc_error` of `mtc_simple_router_destroy` |

An action is an entry into the code and all that runs until an application's code may
run. `stack` has a frame for each entry that has not returned: an *event* of a link, a
*step* (`mtc_simple_peer_sync_io_step`), or a *call* that resets a peer. `todo` says what
a frame still does: `send` and `recv` (the two halves of the link's event callback),
`reset` (`mtc_peer_reset`), `deliver` (the rest of `mtc_simple_peer_deliver` after a
stop signal), `wait` and `done` (in the loop of a sync step, and behind it). At `app` the
application may do anything, and push another frame. So a peer can be dropped from its own
callback, from a notification of its reset, or from a callback of another peer inside a
sync step; the code behind `app` goes on with what is left.

### Server (`SimpleServer`)

`sv` holds the sets (`refs`, `holders`: the peers of their holders) and the listener
(`lrefs`, `active`, `peer_set`, `close_fd`; `backed` and `ready` are its event in the
loop); `mine` are the references of the application. `backlog` are connections that were
not accepted yet, and may go before. `Notify` replaces `Reset` of the router: the
notification of a holder and those of the application come in either order, and the
application may have dropped the set, and with it the holder, by the time it is the
holder's turn. When `accept` fails, `ended` stands for `mtc_error`.

## Runs

| Run | Question | Bounds |
|---|---|---|
| `codec` | do header and readers agree with a reference? | up to four blocks of up to four bytes, every split; a stop bit of 2 and words of 4 values, so that counts and sizes overflow |
| `send` | sender's invariants and the stop barrier | three messages of two and three entries, vector of three, two entries per `writev`, socket of three units |
| `send_large` | does the vector always have room? | a message of five entries, vector of two; **violated** |
| `recv` | receiver's invariants; is every frame answered? | a stop bit of 8; two frames out of nine kinds (simple, several blocks, stop, bad magic, no blocks, empty main block, empty extra block, more blocks than `readv` takes), failing allocations and reads |
| `link` | is the channel implemented? | two messages, either may stop, either end may go at any unit |
| `link_live` | does everything arrive? | two messages of three entries through a socket of two units |
| `events` | event tests, backends, references; is a wakeup lost? | two descriptors, two loops, two messages each way and three in all |
| `router` | do the ring, the cache, links, managers and references agree; is anything used after it was freed, or lost? | two peers, one manager, two messages from the remote ends (mail, junk, stop, end of file), one mail waiting in a link, three entries on the stack |
| `router_live` | is a dropped peer flushed; does a sync step return? | the same with one message and one entry |
| `server` | do sets, holders, the listener and the router agree? | two connections, two sets, a second reference of the application to one set or to the listener, connections that end, two entries |
| `server_stop` | is a message delivered for a peer that lives? | one connection, one set; **violated** |
| `server_accept` | does the listener outlive a failing `accept`? | one connection; **violated** |

Why this is enough. The vector starts at three entries instead of 16, so that two
messages make it grow, and emptying it makes it collapse; `writev` takes two, so that
every send of a message needs several rounds; the socket is smaller than a message, so
that writes end inside entries. Three messages give a stop signal with something before
it and behind it, and two stop signals with something between. Two frames give a
message that follows another, and two loops give a callback that runs one loop from
inside the other; a third loop would only nest deeper what is nested already, as a base
does not run inside itself. With the router, two peers are what a callback of one that
drops the other needs, and what makes the sync cache change hands. Two entries are an
event with a sync step inside, or a sync step with an event inside, or either with a
reset in it; the third lets each of these happen inside another. One message of every kind for each peer is all that can be told apart,
since the first that is not a mail ends the peer; the liveness run needs one only, and
the server tells a peer that is lost from one that is not, whatever the reason. The
runs that are to be violated leave out what is not part of the question. The proofs below
do not depend on any of these bounds.

`CHECK_DEADLOCK FALSE` is in every configuration because each of these systems may
rightly stop: the bounds are used up, or the link is freed.

### Fairness

- `recv`: weak fairness of `ResumeIn` and of `Receive` without failures of its own. An open link always polls for
  input (`mtc_fd_link_calc_events`), and the application resumes a link that stopped.
  This is the only thing assumed of the application.
- `link_live`: the same at both ends. An open link with unsent data polls for output.
  That these polls are really there is not assumed but checked, in `events`.
- `events`: the loops are run (`Poll` and `Dispatch` of each base), callbacks
  return, the code between callbacks goes on, the peer keeps reading. Nothing is
  assumed of what the application calls; the properties are about links that it holds
  and whose events it leaves enabled.
- `router_live`: the code between callbacks goes on and callbacks return
  (`LinkEvent`, `Reset`, weakly fair); a descriptor that is ready again and
  again is reported in the end (strongly fair, for each peer and direction: that a ready
  descriptor is not missed for good is what `events` checks). `FlushedAtLast` has a premise
  instead of a fairness condition: the application returns to its loop
  (`[]<>(stack = <<>>)`) and the router keeps a manager.

### What the runs have found

- `mtc_fd_link_alloc_iov` doubles the allocation once and hands out the entries
  without looking again. A message of more blocks than that makes room for is stored
  past the end of the vector. Doubling is enough when every message has fewer than
  `MTC_IOV_MIN` (16) blocks; this is the theorem `VectorHasRoom` (`send_large`).
- After a message with the stop signal `mtc_simple_peer_deliver` resets the peer and then
  goes on to deliver the message for it. If a set held the only reference, the reset has
  freed the peer (`server_stop`).
- `mtc_simple_listener_event` ends the program when `accept` fails with a *temporary*
  error, and ignores all others (`server_accept`). A client that goes before it is accepted
  is enough.

The run `router` has messages with a stop signal, and its application holds its peers, or
drops them from the reset; the behaviours in which `deliver` finds its peer freed end there,
since what follows is undefined.

Met while modelling, and taken over by the models as they are, without a run of their own:

- `mtc_reader_read` returns `MTC_IO_TEMP` after a partial read, where its comment
  (`io.c:37`, `io.h:71`) promises the number of bytes that remain. Its callers rely on
  what the code does.
- `mtc_simple_router_add` passes `fd` where `close_fd` belongs (`simple_router.c:394`), so
  the descriptor of a peer is closed whatever the caller asked for, against
  `simple_router.h:38`.
- A second `mtc_simple_listener_set_peer_set` loses the reference to the first set. The
  header does not say whether it may be called then; the model does not.
- `mtc_simple_peer_sync_io_step` of a peer that is not connected dereferences a link that
  is `NULL`, where `sendto` looks for that; the model has the caller look.
- A message of more blocks than `IOV_MAX` is split by the sender but always refused by the
  receiver (in `recv` such a frame is not `Good`).
- Input that arrives together with room for output is left to the next wakeup when the send
  changes the tests, since preparing them clears `revents`. An application that queues from
  every `sent` callback over a socket that always has room can put its input off for ever;
  within the bound on messages `NoLostWakeup` holds.

## Proofs

All theorems hold for every value of the constants, under the assumptions that the
modules name: no limit on the number and size of messages, on the vector, on `writev`, on
the socket, on the number of loops, peers, managers, or on how deep callbacks nest. What is
assumed:

- `StopBitAssumption`, `SendAssumptions`, `EventAssumptions`: the constants are numbers
  and sets of the kind that the code has; a message has blocks, and none is empty.
- `LinkAssumptions`: the same of a link from end to end, and that every message fits in a
  header.
- `PeerAssumptions`: the frames that a peer may write are those that fit in the words of a
  header. There are no others on a stream: a sender that has a bigger message writes the
  words of some smaller one (`HeaderCarriesAll` says which messages those are).
- `BoundAssumption`: the bounds on the vectors of `MCMtcIo` are numbers.
- `RouterAssumptions`, `ServerAssumptions`: the marker for no peer, manager or set is none of them, the manager
  of sync steps is not one of the application's, and the switches of the server model are
  Booleans.

**Header.** `HeaderCarriesAll`: a header is read back as written exactly if the count is
below the stop bit and each size below the limit of a word. `HeadersCarryAll` says so of
the runs of `MCMtcIo`.

**Vectors and readers.** `MCMtcIo` moves a stream through the vector of the sender and both
readers, in pieces of any size, with errors in between. `PiecesInvariant`: `PiecesInv` is an
invariant; it says how many bytes have been moved (`Places`), that the vector of the sender is
what the reference (`Rest`) gives for that many (`PopAddsUp`), and that both readers are there
too (`ReadersAgree`). `RestIsOnePiece` says that the reference is what one piece of that length
would leave, and the step is then `TwoPieces`: consuming *m* and then *n* bytes is consuming
*m + n*, since the loop stops at one block only (`ConsumedOnce`). The reader's loop stops early
when nothing is left, which makes no difference if no block is empty (`FilledIsConsumed`).

**Sending.** `SendInvariant`: `SendInv` is an invariant of `FdLinkSend`. It is the
conjunction of `TypeOK`, `NoEmptyEntry`, `BlocksCounted`, `ClipAtFirstStop` and `NoAbort`,
and none is inductive alone: the assertion on the clip does not fail because a write takes no
more entries than the clip; that the clip is inside the vector follows from its being
a sum of counts of jobs, which is bounded by the sum of all of them, which is the
length of the vector (`BlocksCounted`); the counts stay right because jobs are
reduced by exactly the blocks that were popped; and that the job at the head has a
positive count afterwards needs that finished ones are all taken.
`NoEmptyEntry` is needed for a round that writes something to be told from one that
does not. `TypeCorrect`, `NeverAborts`, `JobsMatchVector`, `ClipIsFirstStop` follow.
`VectorHasRoom`: under `SmallMessages`, `IovFits`. The invariant on top of `SendInv`
is `RoomInv`: the allocation is `IovMin` doubled some number of times (so halving is
exact and never goes below it) and the window fits.

**What was queued, and what is left to send.** `HistInvariant`: `HistInv` is an invariant on
top of `SendInv`. It says what the jobs and the vector have to do with the messages: the jobs
are the last ones queued (`JobsQueued`), only the first of them has blocks that are out
(`JobsWhole`), the vector is the end of what they were queued with, only its first entry
begun (`EndOf`), and the stop signals that were reported are those of the messages released
(`StopsCounted`). That the vector still belongs to the jobs after some were released is a
matter of counting: what is left in it is no more than the counts that the jobs have left
(`BlocksCounted`), and these are no more than the entries the jobs were queued with. It is
all of them if the loop has ended at a stop signal, as the count of the last job released is
met exactly. `VectorIsBacked`, `StopsBetweenMessages`, `StopsReportedOnce` follow; and for
single steps `StopIsBarrier`, since an entry that the clip lets through belongs to the job
with the stop signal or to one before it.

**Receiving.** `RecvInvariant`: `RecvInv` is an invariant of `FdLinkRecvPeer`. That message
*k* is frame *k* (`ReceivedIsSent`) is known only at the end of a message, so the
invariant says for every phase what has been read of the frame: `InStream` says that what is
held of the unfinished message (`Partial`) and what the socket has are the rest of what was
supplied, and `Phases` that the reader and the buffers are as the phase needs them, with
the sizes that the header has announced. Together they make every decision of the receiver
one about the frame at that place: a header with the wrong magic is that of a bad frame
(`BreaksForAReason`), and the words of the index are the sizes of its blocks, since words of a
size that fits are read as they were written. `TypeOK` follows from the same, because units of
a frame are typed by the frame. `StreamIsConserved`, `PhasesHold`, `OnlySentIsReceived` and
`BrokenByFaultOrFrame` follow; `AllocatedIsKept` is about single steps, from the same invariant.

**From end to end.** `LinkInvariant`: `LinkInv` is an invariant of `FdLink`. The two proof
modules of the halves are instantiated, the receiver's with the messages that were queued
as what its peer supplied, so that each half keeps its own invariant (`SendSide`, `RecvSide`)
and a step of the other disturbs it only through the socket. What joins them is `Stream`:
what the receiver holds, what is in the socket and what is left in the vector are, in this
order, the frames that are not returned yet. A write moves units from the vector to the socket
and a read from the socket to the reader, and neither changes the sum; queueing appends a
frame to both sides of the equation. `Behindhand` says that the frames queued behind an
entry's own are no longer than what the vector has behind that entry.

`LinkImplementsChannel` is the refinement of `MsgChannel`, one lemma for each of its steps.
`QueueAccept`: queueing appends what the channel accepts. `SendPass`: a write of any number of
units passes the messages that have no entry left, and by `StopBarrier` none behind a stop
signal. `ReceiveDelivers`: what a read returns is the next message that was accepted
(`ReceivedIsSent`), and the sender has let it pass before (`ReturnedHasPassed`): were one of
its entries left in the vector, all frames queued after it would be in the vector too
(`Behindhand`), and the stream would be longer than what is due. The sender's count of what has
gone and the receiver's of what has come share no variable, so this cannot be had from either
half. The steps in between are stutters.

`OnlyLossBreaks`: under `NoFailures` (no allocation or read fails by itself, and `readv`
takes every message) `BrokenByLossOnly`. By `Stream` the frame that the receiver looks at is one
that the sender made, and `GoodFramesBreakNothing` says that such a frame breaks nothing. The
premise is that of the run: with more blocks than `IOV_MAX` to a message the receiver refuses what
the sender makes (*What the runs have found*).

**Events.** `EventInvariant`: `EventInv` is an invariant of `FdLinkEvents`. `Sound` says who
refers to an `MtcLevTest`: the list of its backend, unless it was disposed of, and the call that
runs in it, of which there is only one since a base does not run inside itself (`FramesApart`).
So two generations are enough, and a test that a callback disposes of is there until the call
returns (`CallsHold`). `TestsFit` is the rule of preparation in a form that can be kept by
one backend at a time, and `TestsUpToDate` needs nothing but that every change of a status or
of the queue ends in the action hook. `OffIsNoted` is what makes `OnlyToldDrops` true: a frame
that was started with its events on knows when they were switched off in between.
`RuleOfPreparation`, `RuleOfTests` and `EventTypes` follow.

**Router.** `RouterInvariant`: `SafeInv` is an invariant of `SimpleRouter`. `Linked` says
that the ring is the set of peers
with a link, that the cache names one of them, and that a link which would call the
router back belongs to one of them. This alone does not keep a sync step from looking at
a peer that is gone: `StepsHeld` says that the application holds the peer of each, and
`HeldBy` that the references to peers and to the router are just those of the
application and of living peers, without which `AppUnref` could free one that is still
in the ring. `HeldBy` also gives that the ring is empty when the last reference to the
router goes, as the peers in it would hold it, so that its assertion does not fail.
`NothingLeadsToFreed` and `RouterIsLast` follow.

**Links and managers of the router.** `LinkInvariant`: `LinkInv` is an invariant on top of
`SafeInv`. It is a conjunction over peers (`Good`): who refers to the link of the peer,
where it is watched, and that what it has to send is with the flusher once the peer is
dropped. The functions of `simple_router.c` are operators on the record `rt`, and each is
proved to change some fields of one peer only (`Changes`); so the others keep what they had, and
the reference counts of managers, which are sums over all peers, move by what this one peer
has gained or lost. `EventCounts` is the number of event callbacks that run in each
link, as a function that a step changes at one place. `LinksAreCounted`, `LinksAreWatched`,
`ManagersAreCounted`, `RouterTypes` and, for single steps, `DataIsKept` follow.

The lemmas behind both assume no more of a state than `Base` and `Referenced`, which leave
open who holds the peers, so that they serve the server as well.

**Server.** `ServerInvariant`: `ServerInv` is an invariant of `SimpleServer`. It takes the
place of `SafeInv`, whose `HeldBy` is no longer true: peers are held by sets too. `SetOk` counts
the references to each set, `Listens` ties the listener's switch, event and set together, and
`Shared` counts the references to peers and to the router. The last reference to a set destroys
its holders one after the other, each dropping a peer, any of which may be the last of it and the
last but one of the router; this is a fold over the holders, and what it does is shown by
induction on the sets of holders that are gone: `Leads` names the state after each of them, and
the induction itself is over a set of numbers (`SetInduction`). In between the router must not
end, which is why the reference of the set to the router is dropped last (`more` in `Shared`).
`SetsAreCounted`, `PeersAreCounted`, `NothingInServerDangles` follow.

`ServerLinkInvariant`: `LinkInv` holds for the server as well. `Unharmed` is what dropping any
number of peers leaves of the links and managers that something else still refers to, and
`Steady` carries it over a call made from inside callbacks. `ServerRefsAreCounted` (of the
router and the managers), `ServerLinksAreCounted` and `ServerTypes` follow.

`HoldersAreConnected` needs one thing more. That a peer which lost its link and is still in a
set has a notification coming is inductive only if that notification cannot be thrown away,
and a frame whose link breaks or whose step returns does throw away the rest of what it had to
do. `ToldInv` therefore adds `Timely`: the notifications of a frame come before its next look
at the link or the loop.

The lemmas of the two halves of a link come in layers. `VectorLemmas` is about sums of prefixes
(`Through`), what consuming a number of units leaves of a vector, and what it fills: the same
operators are used for the vector with bytes and for the list of jobs with blocks, as the
code has the same loop twice, and for the vector of the receiver. Each of the proof modules
begins with lemmas about one operator of its component each.

Only model-checked:

- liveness (`Answered`, `EverythingArrives`, `NoLostWakeup`, `FlushedAtLast`, `StepEnds`):
  it rests on fairness, about which nothing can be proved here.

Every invariant and action property of a passing run is stated by a theorem.

## External parts

- `MtcLink`: keeps the two statuses; refuses to queue on a broken link; asks the link
  to send or receive only while that direction is open; turns `MTC_LINK_IO_STOP`,
  a received stop flag and `MTC_LINK_IO_FAIL` into the statuses *stopped* and *broken*;
  calls the action hook after what changes a status or the queue; passes on a change of
  `events_enabled` only if it is one.
- `MtcEventSource`: gives a backend that is attached the tests it was last prepared
  with; destroys its backends when it is destroyed.
- `MtcRouter` and `MtcPeer`: reference counts; a peer holds its router; `mtc_peer_reset`
  calls the notifications of the peer, in an order of its own; the router keeps a reference
  to the manager it was given. In the model, the peers a manager is set for are those in
  the ring, all at once, as nothing else runs in that loop.
- `MtcLinkAsyncFlush`: makes the callbacks of a link that it is given its own, and keeps a
  reference to it while there is something to send and the link is not broken; once its
  router is gone it may give up the links it still has. It does not attach the links to a
  loop: a peer that had no manager is not flushed.
- libevent: an event is called back only while it is added; `event_del` withdraws one
  that is about to be called; a base does not run inside itself.
- Kernel: a stream socket with a bounded buffer; what was written before a writer
  closed is still read.

## What is not modelled, and the plan

Done, in this order: header and readers; the sending half, with its proofs; the
receiving half; both together against `MsgChannel`; the events; the router, with its
proofs; the server on top of it. All that keeps state is modelled.

What callers are held to, since the code does not look: a sync step is for a connected
peer, which the caller holds until the step returns; a listener is made active only when it
has a callback; a set is unset only when there is one.

The proofs of all invariants and action properties are done as well. What could still be
improved is their length, where the same facts are established more than once.

Left out for good: `mtc_fd_set_blocking` and blocking descriptors, the accessors of
descriptors, `mtc_simple_peer_is_connected` and the other accessors, formats of warnings, `common.h`, `mtc-sta.h`, the build and doxygen files,
and the mail format (`simple_router.mdl`), whose code libmtc generates.
