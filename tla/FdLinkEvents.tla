---------------------------- MODULE FdLinkEvents ----------------------------
(***************************************************************************)
(* A link in an event loop: the event half of fd_link.c, and event.c, the  *)
(* backend that libevent calls.                                            *)
(*                                                                         *)
(* A link keeps two event tests, for its two descriptors (one of them      *)
(* unused when they are the same), and prepares its event source with      *)
(* them.  Every backend attached to the source makes a MtcLevTest of each, *)
(* which is an event of the backend's own event_base.  When one fires, the *)
(* link sends, receives, and calls the application; a callback may do      *)
(* anything to the link: queue, resume, switch its events, attach and      *)
(* destroy backends, drop the link, and run the loop of another base, as   *)
(* mtc_simple_peer_sync_io_step does.  Such calls nest: the stack has a    *)
(* frame for each mtc_lev_test_cb that runs, the innermost first.          *)
(*                                                                         *)
(* Of the stream only the messages are left.  MtcLink, MtcEventSource and  *)
(* libevent are external and modelled from how the code uses them.         *)
(***************************************************************************)
EXTENDS Naturals, Sequences, FiniteSets

CONSTANTS
  SameFd,    \* in_fd = out_fd
  Backends,  \* the backends that may be attached, each with a base of its own
  MaxQueue,  \* bound: messages the application queues
  MaxIn,     \* bound: messages the peer sends
  MaxAll     \* bound: messages in both directions

ASSUME EventAssumptions ==
  SameFd \in BOOLEAN /\ MaxQueue \in Nat /\ MaxIn \in Nat /\ MaxAll \in Nat

VARIABLES
  in_status, out_status, enabled,  \* MtcLink
  held,       \* the application has a reference to the link
  freed,      \* the last reference is gone
  unsent,     \* the stop flags of the queued messages that are not out
  tests,      \* self->tests
  prepared,   \* the event source was last prepared with self->tests
  backs,      \* the backends of the event source
  lev,        \* the MtcLevTest objects that are allocated
  stack,      \* the mtc_lev_test_cb calls that run
  incoming,   \* what the peer has sent and the link has not received
  writable,   \* the socket has room
  n_queued, n_sent_in, \* history: what the bounds count
  dropped     \* history: messages received and given to no callback

linkVars == <<in_status, out_status, enabled, held, freed, unsent>>
evVars   == <<tests, prepared, backs, lev, stack>>
peerVars == <<incoming, writable, n_sent_in>>
vars     == <<linkVars, evVars, peerVars, n_queued, dropped>>

-----------------------------------------------------------------------------
(* The two descriptors and what a link waits for on them.                  *)
MTC_POLLIN  == "POLLIN"
MTC_POLLOUT == "POLLOUT"
out_idx == IF SameFd THEN 1 ELSE 2
TestList == IF SameFd THEN {1} ELSE {1, 2}
NoEvents == [i \in 1..2 |-> {}]

mtc_link_is_broken == in_status = "broken"

mtc_fd_link_calc_events(ins, outs, data) ==
  [i \in 1..2 |->
     {e \in {MTC_POLLIN, MTC_POLLOUT} :
        \/ e = MTC_POLLIN  /\ i = 1       /\ ins = "open"
        \/ e = MTC_POLLOUT /\ i = out_idx /\ outs = "open" /\ data # <<>>}]

translator == [POLLIN |-> "EV_READ", POLLOUT |-> "EV_WRITE"]
mtc_poll_to_lev(events) == {"EV_PERSIST"} \cup {translator[e] : e \in events}
mtc_poll_from_lev(flags) == {e \in DOMAIN translator : translator[e] \in flags}

-----------------------------------------------------------------------------
(* event.c: a test is <<backend, index, generation>>.  It is in the list   *)
(* of its backend until it is disposed, and is freed with its last         *)
(* reference, of which a running callback has one: then its place in the   *)
(* list goes to one of the other generation.                               *)

mtc_lev_test_new(flags) ==
  [flags |-> flags, active |-> {}, refcount |-> 1, disposed |-> FALSE]

(* A mutant: a callback holds no reference.                                *)
LevTestUnreferenced(t) == t
mtc_lev_test_ref(t) == [t EXCEPT !.refcount = @ + 1]

(* The tests ts without the reference to x that its holder drops; a mutant *)
(* never frees one.                                                        *)
LevTestKept(ts, x) == [ts EXCEPT ![x].refcount = @ - 1]
mtc_lev_test_unref(ts, x) ==
  IF ts[x].refcount > 1 THEN [ts EXCEPT ![x].refcount = @ - 1]
  ELSE [y \in DOMAIN ts \ {x} |-> ts[y]]

(* Every backend in bs disposes of the tests in its list and unrefs them.  *)
Purge(ts, bs) ==
  LET listed(x) == x[1] \in bs /\ ~ts[x].disposed
      kept == {x \in DOMAIN ts : listed(x) => ts[x].refcount > 1}
  IN  [x \in kept |->
         IF listed(x)
         THEN [ts[x] EXCEPT !.disposed = TRUE, !.active = {}, !.refcount = @ - 1]
         ELSE ts[x]]

(* mtc_lev_event_backend_prepare of every backend in bs, with a list of    *)
(* tests that wait for events: those in it, next to what is left of the    *)
(* old ones, and all that there are.                                       *)
NewTests(old, bs) ==
  {<<b, i, IF <<b, i, 0>> \in DOMAIN old THEN 1 ELSE 0>> : b \in bs, i \in TestList}
Prepare(ts, bs, events) ==
  LET old == Purge(ts, bs)
      new == NewTests(old, bs)
  IN  [x \in DOMAIN old \cup new |->
         IF x \in new THEN mtc_lev_test_new(mtc_poll_to_lev(events[x[2]]))
                      ELSE old[x]]

(* mtc_event_source_prepare: with the tests, or with NULL.  A new test     *)
(* clears the revents of the test it is for.                               *)
PrepareTests(bs, events) ==
  /\ lev' = Prepare(lev, bs, events)
  /\ tests' = [events  |-> events,
               revents |-> [i \in 1..2 |->
                              IF bs # {} /\ i \in TestList THEN {}
                                                           ELSE tests.revents[i]]]
(* A mutant: NULL takes no tests away.                                     *)
PrepareNothing(bs) == lev' = lev
PrepareNull(bs) == lev' = Purge(lev, bs)

-----------------------------------------------------------------------------
(* What the hook does with events that have changed, and two mutants of    *)
(* it: the source is not prepared again; the tests of a link whose events  *)
(* are off are not changed.                                                *)
ChangeTestsUnprepared(events) ==
  tests' = [tests EXCEPT !.events = events] /\ UNCHANGED <<lev, prepared>>
ChangeTestsIfEnabled(events) ==
  IF enabled THEN PrepareTests(backs, events) /\ prepared' = TRUE
             ELSE UNCHANGED <<tests, lev, prepared>>
ChangeTests(events) ==
  IF enabled THEN PrepareTests(backs, events) /\ prepared' = TRUE
             ELSE ChangeTestsUnprepared(events)

(* mtc_fd_link_action_hook: MtcLink calls it after whatever has changed    *)
(* its status or its data, which the primed variables hold here.           *)
mtc_fd_link_action_hook ==
  LET events == mtc_fd_link_calc_events(in_status', out_status', unsent')
  IN  CASE mtc_link_is_broken' ->
             /\ IF enabled THEN PrepareNull(backs) /\ prepared' = FALSE
                           ELSE UNCHANGED <<lev, prepared>>
             /\ UNCHANGED tests
        [] ~mtc_link_is_broken' /\ events = tests.events ->
             UNCHANGED <<lev, tests, prepared>>
        [] ~mtc_link_is_broken' /\ events # tests.events ->
             ChangeTests(events)

Init ==
  /\ in_status = "open" /\ out_status = "open" /\ enabled = FALSE
  /\ held = TRUE /\ freed = FALSE
  /\ unsent = <<>>
  /\ tests = [events  |-> mtc_fd_link_calc_events("open", "open", <<>>),
              revents |-> NoEvents]    \* mtc_fd_link_init_event
  /\ prepared = FALSE
  /\ backs = {} /\ lev = <<>> /\ stack = <<>>
  /\ incoming = <<>> /\ writable = TRUE
  /\ n_queued = 0 /\ n_sent_in = 0 /\ dropped = 0

-----------------------------------------------------------------------------
(* Where the application runs: outside all loops, or in a callback, and    *)
(* then not inside a loop that it has called and that has not returned.    *)
Bases == {stack[k].test[1] : k \in 1..Len(stack)}
InCallback == stack # <<>> /\ Head(stack).pc = "app"
AppRuns ==
  /\ stack = <<>> \/ InCallback
  /\ stack # <<>> => \A x \in DOMAIN lev : lev[x].active # {} => x[1] \in Bases
  /\ held

Queue(stop) ==
  /\ AppRuns /\ ~mtc_link_is_broken /\ n_queued < MaxQueue /\ n_queued + n_sent_in < MaxAll
  /\ unsent' = Append(unsent, stop)
  /\ n_queued' = n_queued + 1
  /\ UNCHANGED <<in_status, out_status>>
  /\ mtc_fd_link_action_hook
  /\ UNCHANGED <<enabled, held, freed, backs, stack, peerVars, dropped>>

Resume ==
  /\ AppRuns
  /\ \/ in_status = "stopped" /\ in_status' = "open" /\ UNCHANGED out_status
     \/ out_status = "stopped" /\ out_status' = "open" /\ UNCHANGED in_status
  /\ UNCHANGED unsent
  /\ mtc_fd_link_action_hook
  /\ UNCHANGED <<enabled, held, freed, backs, stack, peerVars, n_queued, dropped>>

(* mtc_fd_link_set_events_enabled.  A frame that runs while the events are *)
(* switched off remembers it.                                              *)
SetEventsEnabled(value) ==
  /\ AppRuns /\ value # enabled
  /\ enabled' = value
  /\ IF mtc_link_is_broken THEN UNCHANGED <<lev, tests, prepared>>
     ELSE /\ prepared' = value
          /\ IF value THEN PrepareTests(backs, tests.events)
                      ELSE PrepareNull(backs) /\ UNCHANGED tests
  /\ stack' = [k \in 1..Len(stack) |-> [stack[k] EXCEPT !.off = @ \/ ~value]]
  /\ UNCHANGED <<in_status, out_status, held, freed, unsent, backs, peerVars,
                 n_queued, dropped>>

(* A mutant: the new backend waits for the next change.                    *)
AttachLate(b) ==
  /\ AppRuns /\ b \notin backs
  /\ backs' = backs \cup {b}
  /\ UNCHANGED <<linkVars, tests, prepared, lev, stack, peerVars, n_queued, dropped>>

(* mtc_event_mgr_back: a backend joins the source and is given the tests   *)
(* the source has.                                                         *)
Attach(b) ==
  /\ AppRuns /\ b \notin backs
  /\ backs' = backs \cup {b}
  /\ IF prepared THEN PrepareTests({b}, tests.events) ELSE UNCHANGED <<lev, tests>>
  /\ UNCHANGED <<linkVars, prepared, stack, peerVars, n_queued, dropped>>

(* mtc_lev_event_backend_destroy                                           *)
Detach(b) ==
  /\ AppRuns /\ b \in backs
  /\ backs' = backs \ {b}
  /\ lev' = Purge(lev, {b})
  /\ UNCHANGED <<linkVars, tests, prepared, stack, peerVars, n_queued, dropped>>

(* The last reference to the link: its source destroys its backends.       *)
FreeLink == freed' = TRUE /\ backs' = {}

Unref ==
  /\ AppRuns
  /\ held' = FALSE
  /\ IF stack = <<>> THEN FreeLink /\ lev' = Purge(lev, backs)
                     ELSE UNCHANGED <<freed, backs, lev>>
  /\ UNCHANGED <<in_status, out_status, enabled, unsent, tests, prepared,
                 stack, peerVars, n_queued, dropped>>

-----------------------------------------------------------------------------
(* libevent.  A loop finds out which events of its base are ready, and     *)
(* calls them back one after the other; event_del takes an event out of    *)
(* those that wait for their call.  A base does not run inside itself.     *)
ReadyFlags(i) ==
  {f \in {"EV_READ", "EV_WRITE"} :
     \/ f = "EV_READ"  /\ i = 1       /\ incoming # <<>>
     \/ f = "EV_WRITE" /\ i = out_idx /\ (writable \/ mtc_link_is_broken)}

Poll(b) ==
  /\ stack = <<>> \/ AppRuns
  /\ b \notin Bases
  /\ LET mine  == {x \in DOMAIN lev : x[1] = b /\ ~lev[x].disposed}
         ready == {x \in mine : lev[x].flags \cap ReadyFlags(x[2]) # {}}
     IN  /\ \A x \in mine : lev[x].active = {}
         /\ ready # {}
         /\ lev' = [x \in DOMAIN lev |->
                      IF x \in ready
                      THEN [lev[x] EXCEPT !.active = lev[x].flags \cap ReadyFlags(x[2])]
                      ELSE lev[x]]
  /\ UNCHANGED <<linkVars, tests, prepared, backs, stack, peerVars, n_queued, dropped>>

(* mtc_lev_test_cb up to mtc_event_backend_event, which ends up in         *)
(* mtc_fd_link_event_source_event; its mtc_link_ref is the frame itself.   *)
Dispatch(x) ==
  /\ stack = <<>> \/ InCallback
  /\ lev[x].active # {} /\ x[1] \notin Bases
  /\ tests' = [tests EXCEPT !.revents[x[2]] = mtc_poll_from_lev(lev[x].active)]
  /\ lev' = [lev EXCEPT ![x] = [mtc_lev_test_ref(@) EXCEPT !.active = {}]]
  /\ stack' = <<[test |-> x, pc |-> "send", next |-> "send", off |-> FALSE]>> \o stack
  /\ UNCHANGED <<linkVars, prepared, backs, peerVars, n_queued, dropped>>

Goto(pc) == stack' = <<[Head(stack) EXCEPT !.pc = pc, !.next = pc]>> \o Tail(stack)

(* Calls the application back, if it may be, and goes on at next.          *)
CallBack(next) ==
  stack' = <<[Head(stack) EXCEPT !.pc = IF enabled THEN "app" ELSE next,
                                 !.next = next]>> \o Tail(stack)

At(pc) == stack # <<>> /\ Head(stack).pc = pc

Return ==
  /\ InCallback
  /\ \A x \in DOMAIN lev : lev[x].active # {} => x[1] \in Bases
  /\ Goto(Head(stack).next)
  /\ UNCHANGED <<linkVars, tests, prepared, backs, lev, peerVars, n_queued, dropped>>

-----------------------------------------------------------------------------
(* mtc_fd_link_event_source_event, sending.                                *)

CanSend == MTC_POLLOUT \in tests.revents[out_idx] /\ out_status = "open"
Stops == {k \in 1..Len(unsent) : unsent[k]}

(* mtc_link_send: what goes out ends at the first stop signal; if it does  *)
(* not get there, or to the end, the socket is full.                       *)
SendSome ==
  /\ At("send") /\ CanSend /\ (writable \/ unsent = <<>>)
  /\ \E n \in 0..Len(unsent) :
       /\ n = 0 => unsent = <<>>
       /\ \A k \in Stops : n <= k
       /\ unsent' = SubSeq(unsent, n + 1, Len(unsent))
       /\ LET stopped == n \in Stops
              sent == ~stopped /\ n = Len(unsent)
          IN  /\ out_status' = IF stopped THEN "stopped" ELSE out_status
              /\ writable' \in IF stopped \/ sent THEN {writable, FALSE} ELSE {FALSE}
              /\ IF stopped \/ sent THEN CallBack("recv") ELSE Goto("recv")
  /\ UNCHANGED in_status
  /\ mtc_fd_link_action_hook
  /\ UNCHANGED <<enabled, held, freed, backs, incoming, n_sent_in, n_queued, dropped>>

Breaks ==
  /\ in_status' = "broken" /\ out_status' = "broken" /\ UNCHANGED unsent
  /\ mtc_fd_link_action_hook
  /\ CallBack("end")
  /\ UNCHANGED <<enabled, held, freed, backs, n_queued, dropped>>

SendBreaks == At("send") /\ CanSend /\ Breaks /\ UNCHANGED peerVars

SkipSend ==
  /\ At("send")
  /\ ~CanSend \/ (~writable /\ unsent # <<>>)
  /\ Goto("recv")
  /\ UNCHANGED <<linkVars, tests, prepared, backs, lev, peerVars, n_queued, dropped>>

(* Receiving: until there is nothing more, or a stop signal.               *)
CheckIn ==
  /\ At("recv")
  /\ Goto(IF MTC_POLLIN \in tests.revents[1] THEN "loop" ELSE "end")
  /\ UNCHANGED <<linkVars, tests, prepared, backs, lev, peerVars, n_queued, dropped>>

CanReceive == At("loop") /\ in_status = "open" /\ incoming # <<>>

Receive ==
  /\ CanReceive /\ Head(incoming) # "eof"
  /\ in_status' = IF Head(incoming) = "stop" THEN "stopped" ELSE in_status
  /\ incoming' = Tail(incoming)
  /\ UNCHANGED <<out_status, unsent>>
  /\ mtc_fd_link_action_hook
  /\ CallBack("loop")
  /\ dropped' = IF enabled THEN dropped ELSE dropped + 1
  /\ UNCHANGED <<enabled, held, freed, backs, writable, n_sent_in, n_queued>>

ReceiveBreaks == CanReceive /\ Head(incoming) = "eof" /\ Breaks /\ UNCHANGED peerVars

ReceiveEnds ==
  /\ At("loop") /\ (in_status # "open" \/ incoming = <<>>)
  /\ Goto("end")
  /\ UNCHANGED <<linkVars, tests, prepared, backs, lev, peerVars, n_queued, dropped>>

(* The end: mtc_link_unref, then the rest of mtc_lev_test_cb.              *)
End ==
  /\ At("end")
  /\ LET x == Head(stack).test
         last == ~held /\ Len(stack) = 1
         old == IF last THEN Purge(lev, backs) ELSE lev
     IN  /\ IF last THEN FreeLink ELSE UNCHANGED <<freed, backs>>
         /\ tests' = IF old[x].disposed THEN tests
                     ELSE [tests EXCEPT !.revents[x[2]] = {}]
         /\ lev' = mtc_lev_test_unref(old, x)
  /\ stack' = Tail(stack)
  /\ UNCHANGED <<in_status, out_status, enabled, held, unsent, prepared,
                 peerVars, n_queued, dropped>>

-----------------------------------------------------------------------------
(* The peer.                                                               *)
PeerWrites(what) ==
  /\ n_sent_in < MaxIn /\ (what = "eof" \/ n_queued + n_sent_in < MaxAll)
  /\ \A k \in 1..Len(incoming) : incoming[k] # "eof"
  /\ incoming' = Append(incoming, what)
  /\ n_sent_in' = IF what = "eof" THEN MaxIn ELSE n_sent_in + 1
  /\ UNCHANGED <<linkVars, evVars, writable, n_queued, dropped>>

PeerReads ==
  /\ ~writable
  /\ writable' = TRUE
  /\ UNCHANGED <<linkVars, evVars, incoming, n_sent_in, n_queued, dropped>>

Application ==
  \/ \E stop \in BOOLEAN : Queue(stop)
  \/ Resume
  \/ \E value \in BOOLEAN : SetEventsEnabled(value)
  \/ \E b \in Backends : Attach(b) \/ Detach(b)
  \/ Unref

event_source_event ==
  \/ SendSome \/ SendBreaks \/ SkipSend
  \/ CheckIn \/ Receive \/ ReceiveBreaks \/ ReceiveEnds
  \/ End

Next ==
  \/ Application
  \/ Return
  \/ event_source_event
  \/ \E b \in Backends : Poll(b)
  \/ \E x \in DOMAIN lev : Dispatch(x)
  \/ \E what \in {"msg", "stop", "eof"} : PeerWrites(what)
  \/ PeerReads

Spec == Init /\ [][Next]_vars

(* The loops run, callbacks return, and the peer goes on reading.          *)
DispatchOf(b) == \E x \in DOMAIN lev : x[1] = b /\ Dispatch(x)
FairSpec ==
  /\ Spec
  /\ \A b \in Backends : WF_vars(Poll(b)) /\ WF_vars(DispatchOf(b))
  /\ WF_vars(event_source_event) /\ WF_vars(Return) /\ WF_vars(PeerReads)

-----------------------------------------------------------------------------
(* Properties.                                                             *)

Status == {"open", "stopped", "broken"}
Flags == {"EV_PERSIST", "EV_READ", "EV_WRITE"}
Pollable == SUBSET {MTC_POLLIN, MTC_POLLOUT}
LevTest == [flags : SUBSET Flags, active : SUBSET Flags, refcount : Nat \ {0},
            disposed : BOOLEAN]
TestIds == Backends \X TestList \X {0, 1}
Frame == [test : TestIds, pc : {"send", "recv", "loop", "end", "app"},
          next : {"send", "recv", "loop", "end"}, off : BOOLEAN]

(* Type invariant.                                                         *)
TypeOK ==
  /\ in_status \in Status /\ out_status \in Status /\ enabled \in BOOLEAN
  /\ held \in BOOLEAN /\ freed \in BOOLEAN
  /\ unsent \in Seq(BOOLEAN)
  /\ tests \in [events : [1..2 -> Pollable], revents : [1..2 -> Pollable]]
  /\ prepared \in BOOLEAN /\ backs \in SUBSET Backends
  /\ DOMAIN lev \in SUBSET TestIds /\ lev \in [DOMAIN lev -> LevTest]
  /\ stack \in Seq(Frame)
  /\ incoming \in Seq({"msg", "stop", "eof"}) /\ writable \in BOOLEAN
  /\ n_queued \in 0..MaxQueue /\ n_sent_in \in 0..MaxIn /\ dropped \in 0..MaxIn

(* The first of the RULES at fd_link.c:685: wherever an application or a   *)
(* loop can see the link, its tests wait for what its status and its queue *)
(* call for.                                                               *)
TestsUpToDate ==
  ~freed /\ ~mtc_link_is_broken =>
    tests.events = mtc_fd_link_calc_events(in_status, out_status, unsent)

(* The second, and what it is for: while the events of a link that is not  *)
(* broken are enabled, every backend, whenever it was attached, has exactly *)
(* one event in its base for each test, which waits for what the test waits *)
(* for now; otherwise, or once detached, it has none (fd_link.c:685,        *)
(* event.c:199).                                                           *)
Listed == {x \in DOMAIN lev : ~lev[x].disposed}
PreparedWhenEnabled ==
  ~freed =>
    /\ prepared = (enabled /\ ~mtc_link_is_broken)
    /\ {<<x[1], x[2]>> : x \in Listed} = IF prepared THEN backs \X TestList ELSE {}
    /\ Cardinality(Listed) <= Cardinality(backs \X TestList)
    /\ \A x \in Listed : lev[x].flags = mtc_poll_to_lev(tests.events[x[2]])

(* Whatever a callback disposes of, the calls it returns to find their     *)
(* MtcLevTest and their link, and nothing outlives its last reference      *)
(* (event.c:120, fd_link.c:719).                                           *)
CallsAreHeld ==
  /\ stack # <<>> => ~freed
  /\ \A k \in 1..Len(stack) : stack[k].test \in DOMAIN lev
  /\ \A x \in DOMAIN lev :
       lev[x].refcount = (IF lev[x].disposed THEN 0 ELSE 1)
                           + Cardinality({k \in 1..Len(stack) : stack[k].test = x})
  /\ freed => DOMAIN lev = {}

(* A message that was received is withheld from the application only if it *)
(* has switched the events off in this very call of the event source       *)
(* (fd_link.c:761): no event of a link whose events are off is left.       *)
DropsOnlyWhenTold == [][dropped' # dropped => Head(stack).off]_vars

(* No wakeup is lost: a backend that is left to run finds out about data   *)
(* that waits to go out, whoever queued it and from which callback, and    *)
(* sends it; likewise for what the peer has sent (fd_link.c:695, 753).     *)
Watched(b) == held /\ enabled /\ b \in backs
SendsOut ==
  \A b \in Backends :
    (Watched(b) /\ out_status = "open" /\ unsent # <<>>)
      ~> (~Watched(b) \/ out_status # "open" \/ unsent = <<>>)
TakesIn ==
  \A b \in Backends :
    (Watched(b) /\ in_status = "open" /\ incoming # <<>>)
      ~> (~Watched(b) \/ in_status # "open" \/ incoming = <<>>)
NoLostWakeup == SendsOut /\ TakesIn

=============================================================================
