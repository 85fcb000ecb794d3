---------------------------- MODULE SimpleRouter ----------------------------
(***************************************************************************)
(* simple_router.c: a router, the peers that were added to it, the link of *)
(* each, and the sync cache, a second event base that waits for one link   *)
(* alone.                                                                  *)
(*                                                                         *)
(* The functions of the code call each other with a state in between, so   *)
(* they are operators here that map a state of the router, the record rt,  *)
(* to the next one.  An action is an entry into the code and what it runs  *)
(* up to the next place where an application's code runs.  There, the      *)
(* application may do anything, and enter the code again: the stack has a  *)
(* frame for each entry that has not returned, the innermost first, with   *)
(* what it still has to do.                                                *)
(*                                                                         *)
(* A peer has one link and one descriptor, and gives them its name.        *)
(* FdLinkEvents has the event loop in detail; of a link this module keeps  *)
(* what the router tells apart.  MtcRouter, MtcPeer, MtcLink and           *)
(* MtcLinkAsyncFlush are external and modelled from how the code uses them.*)
(***************************************************************************)
EXTENDS Integers, Sequences, FiniteSets

CONSTANTS
  Peers,     \* the peers that may be added
  FdOf,      \* their descriptors
  Mgrs,      \* the event managers of the application
  None,      \* NULL
  Kinds,     \* what a remote end may send: "mail", "junk", which does not
             \* deserialize, "stop", a message with the stop signal, and "eof"
  MaxIn,     \* bound: what the remote ends send, in all
  MaxOut,    \* bound: mails that wait in a link
  MaxDepth   \* bound: entries into the code that have not returned

ASSUME RouterAssumptions ==
  /\ IsFiniteSet(Peers)
  /\ FdOf \in [Peers -> Nat]
  /\ None \notin Peers \cup Mgrs \cup {"sync"} /\ "sync" \notin Mgrs
  /\ Kinds \subseteq {"mail", "junk", "stop", "eof"}
  /\ MaxIn \in Nat /\ MaxOut \in Nat /\ MaxDepth \in Nat

VARIABLES
  rt,        \* the router, its peers and their links
  stack,     \* the entries that have not returned
  mine,      \* the peers the application holds a reference to
  held,      \* it holds one to the router
  incoming,  \* what each remote end has sent and the link has not received
  n_in       \* how much that was

appVars == <<mine, held>>
remoteVars == <<incoming, n_in>>
routerVars == <<rt, stack, appVars, remoteVars>>

AllMgrs == Mgrs \cup {"sync"}
One(condition) == IF condition THEN 1 ELSE 0

-----------------------------------------------------------------------------
(* What MtcEventMgr, MtcLink and MtcLinkAsyncFlush do.                     *)

(* mtc_event_mgr_back and mtc_event_backend_destroy: a backend holds a     *)
(* reference to its manager (event.c:179, 189).                            *)
Back(r, p, m) == [r EXCEPT !.backs[p] = @ \cup {m}, !.mrefs[m] = @ + 1]
Unback(r, p, m) == [r EXCEPT !.backs[p] = @ \ {m}, !.mrefs[m] = @ - 1]

(* The last reference takes the base with it, if the manager was made so.  *)
BaseLives(r, m) == r.mrefs[m] > 0

(* mtc_link_unref.  The last reference destroys the event source, with the *)
(* backends it still has, and finalizes the link.                          *)
LinkUnref(r, p) ==
  IF r.lrefs[p] # 1 THEN [r EXCEPT !.lrefs[p] = @ - 1]
  ELSE [r EXCEPT !.lrefs[p] = 0,
                 !.backs[p] = {},
                 !.mrefs = [m \in AllMgrs |->
                              IF m \in r.backs[p] THEN @[m] - 1 ELSE @[m]],
                 !.closed[p] = IF r.close_fd[p] THEN @ + 1 ELSE @]

(* mtc_link_async_flush_add: the flusher makes the callbacks of the link   *)
(* its own, and keeps a reference as long as there is something to send.   *)
FlushAdd(r, p) ==
  LET taken == [r EXCEPT !.owner[p] = "flush"]
  IN  IF r.unsent[p] > 0 /\ r.status[p] # "broken"
      THEN [taken EXCEPT !.flushing = @ \cup {p}, !.lrefs[p] = @ + 1]
      ELSE taken
FlushEnds(r, p) ==
  IF p \in r.flushing
  THEN LinkUnref([r EXCEPT !.flushing = @ \ {p}], p)
  ELSE r

-----------------------------------------------------------------------------
(* The sync cache.                                                         *)

mtc_simple_router_clear_sync_cache(r, p) ==
  IF r.cache = p /\ p # None
  THEN [Unback(r, p, "sync") EXCEPT !.cache = None]
  ELSE r

(* A mutant: the cache stays with the first peer it was made for.          *)
SyncCacheOfFirst(r, p) ==
  CASE p = None -> mtc_simple_router_clear_sync_cache(r, r.cache)
    [] p # None /\ r.cache # None -> r
    [] p # None /\ r.cache = None -> [Back(r, p, "sync") EXCEPT !.cache = p]
mtc_simple_router_set_sync_cache(r, p) ==
  LET cleared == mtc_simple_router_clear_sync_cache(r, r.cache)
  IN  CASE r.cache = p -> r
        [] r.cache # p /\ p = None -> cleared
        [] r.cache # p /\ p # None -> [Back(cleared, p, "sync") EXCEPT !.cache = p]

(* The router and its peers.                                               *)

mtc_simple_peer_remove(r, p) == [r EXCEPT !.ring = @ \ {p}]

mtc_simple_peer_set_backend(r, p, m) ==
  LET none == IF r.backend[p] = None THEN r
              ELSE [Unback(r, p, r.backend[p]) EXCEPT !.backend[p] = None]
  IN  IF m = None THEN none ELSE [Back(none, p, m) EXCEPT !.backend[p] = m]

(* Mutants: what is unsent goes with the link; the flusher is given it     *)
(* without a backend; the sync cache still names the peer; the reference   *)
(* of the peer is not dropped.                                             *)
CloseUnflushed(r, p) ==
  IF p \notin r.linked THEN r
  ELSE LET out == mtc_simple_peer_remove(mtc_simple_router_clear_sync_cache(r, p), p)
       IN  [LinkUnref(out, p) EXCEPT !.linked = @ \ {p}]
CloseDetached(r, p) ==
  IF p \notin r.linked THEN r
  ELSE LET out == mtc_simple_peer_remove(mtc_simple_router_clear_sync_cache(r, p), p)
           off == mtc_simple_peer_set_backend(out, p, None)
       IN  [LinkUnref(FlushAdd(off, p), p) EXCEPT !.linked = @ \ {p}]
CloseCached(r, p) ==
  IF p \notin r.linked THEN r
  ELSE [LinkUnref(FlushAdd(mtc_simple_peer_remove(r, p), p), p)
          EXCEPT !.linked = @ \ {p}]
CloseReferenced(r, p) ==
  IF p \notin r.linked THEN r
  ELSE LET out == mtc_simple_peer_remove(mtc_simple_router_clear_sync_cache(r, p), p)
       IN  [FlushAdd(out, p) EXCEPT !.linked = @ \ {p}]
mtc_simple_peer_close(r, p) ==
  IF p \notin r.linked THEN r
  ELSE LET out == mtc_simple_peer_remove(mtc_simple_router_clear_sync_cache(r, p), p)
       IN  [LinkUnref(FlushAdd(out, p), p) EXCEPT !.linked = @ \ {p}]

mtc_simple_peer_discard(r, p) ==
  IF p \notin r.linked THEN r
  ELSE LET out == mtc_simple_peer_remove(mtc_simple_router_clear_sync_cache(r, p), p)
           off == [mtc_simple_peer_set_backend(out, p, None) EXCEPT !.enabled[p] = FALSE]
       IN  [LinkUnref(off, p) EXCEPT !.linked = @ \ {p}]

(* mtc_simple_router_destroy, when the last reference is gone.             *)
mtc_simple_router_destroy(r) ==
  LET bare == mtc_simple_router_set_sync_cache(r, None)
  IN  [bare EXCEPT !.aborted = r.ring # {},
                   !.mgr = None,
                   !.mrefs = [m \in AllMgrs |->
                                IF m \in {"sync", r.mgr} THEN @[m] - 1 ELSE @[m]]]
RouterUnref(r) ==
  LET one == [r EXCEPT !.rrefs = @ - 1]
  IN  IF one.rrefs = 0 THEN mtc_simple_router_destroy(one) ELSE one

(* mtc_simple_peer_destroy; mtc_peer_destroy drops the peer's reference to *)
(* the router, and a mutant does not call it.                              *)
PeerDestroyAlone(r, p) == mtc_simple_peer_close(r, p)
mtc_simple_peer_destroy(r, p) == RouterUnref(mtc_simple_peer_close(r, p))
PeerUnref(r, p) ==
  LET one == [r EXCEPT !.refs[p] = @ - 1]
  IN  IF one.refs[p] = 0 THEN mtc_simple_peer_destroy(one, p) ELSE one

(* mtc_fd_link_set_close_fd, as mtc_simple_router_add calls it: with the  *)
(* descriptor, whatever close_fd says.                                     *)
CloseFd(p, close_fd) == FdOf[p] # 0

(* The constructor: the parent's (mtc_peer_init), the link, the ring, the  *)
(* callbacks and the backend.                                              *)
PeerInit(r, p) ==
  [r EXCEPT !.born = @ \cup {p}, !.refs[p] = 1, !.rrefs = @ + 1]
NewLink(r, p, close_fd) ==
  [r EXCEPT !.linked = @ \cup {p}, !.lrefs[p] = 1, !.status[p] = "open",
            !.close_fd[p] = CloseFd(p, close_fd)]
mtc_simple_peer_insert(r, p) == [r EXCEPT !.ring = @ \cup {p}]
mtc_simple_peer_setup_events(r, p) ==
  [r EXCEPT !.owner[p] = "peer", !.enabled[p] = TRUE]
mtc_simple_router_add(r, p, close_fd) ==
  LET linked == NewLink(PeerInit(r, p), p, close_fd)
      ready == mtc_simple_peer_setup_events(mtc_simple_peer_insert(linked, p), p)
  IN  mtc_simple_peer_set_backend(ready, p, r.mgr)

(* mtc_router_set_event_mgr, which keeps a reference to the manager, and   *)
(* the loop of mtc_simple_router_set_event_mgr over the ring.              *)
Managed(r, m) == Cardinality({p \in r.ring : r.backend[p] = m})
(* A mutant: only for the peers that are still to come.                    *)
ManagerForNewPeers(r, m) ==
  [r EXCEPT !.mgr = m,
            !.mrefs = [x \in AllMgrs |-> @[x] - One(x = r.mgr) + One(x = m)]]
mtc_simple_router_set_event_mgr(r, m) ==
  [r EXCEPT
     !.mgr = m,
     !.backend = [p \in Peers |-> IF p \in r.ring THEN m ELSE @[p]],
     !.backs = [p \in Peers |->
                  IF p \in r.ring THEN (@[p] \ {r.backend[p]}) \cup ({m} \ {None})
                                  ELSE @[p]],
     !.mrefs = [x \in AllMgrs |->
                  @[x] - Managed(r, x) - One(x = r.mgr)
                    + (IF x = m THEN Cardinality(r.ring) + 1 ELSE 0)]]

-----------------------------------------------------------------------------
(* The stack.                                                              *)
Top == Head(stack)
At(what) == stack # <<>> /\ Top.todo # <<>> /\ Head(Top.todo) = what
Doing(todo) == stack' = <<[Top EXCEPT !.todo = todo]>> \o Tail(stack)
Then(items) == Doing(items \o Tail(Top.todo))
Frame(kind, p, todo) == [kind |-> kind, peer |-> p, todo |-> todo]
Enter(frame) == Len(stack) < MaxDepth /\ stack' = <<frame>> \o stack
Steps(p) == {k \in 1..Len(stack) : stack[k].kind = "step" /\ stack[k].peer = p}

Init ==
  /\ rt = [born |-> {}, refs |-> [p \in Peers |-> 0], rrefs |-> 1,
           ring |-> {}, linked |-> {}, mgr |-> None,
           backend |-> [p \in Peers |-> None],
           cache |-> None, aborted |-> FALSE,
           mrefs |-> [m \in AllMgrs |-> 1],
           lrefs |-> [p \in Peers |-> 0],
           status |-> [p \in Peers |-> "open"],
           owner |-> [p \in Peers |-> "peer"],
           enabled |-> [p \in Peers |-> FALSE],
           backs |-> [p \in Peers |-> {}],
           flushing |-> {},
           unsent |-> [p \in Peers |-> 0],
           close_fd |-> [p \in Peers |-> FALSE],
           closed |-> [p \in Peers |-> 0]]
  /\ stack = <<>>
  /\ mine = {} /\ held = TRUE
  /\ incoming = [p \in Peers |-> <<>>] /\ n_in = 0

-----------------------------------------------------------------------------
(* The application: outside all loops, or in one of its callbacks.         *)
AppRuns == stack = <<>> \/ At("app")

RouterAdd(p, close_fd) ==
  /\ AppRuns /\ held /\ p \notin rt.born
  /\ rt' = mtc_simple_router_add(rt, p, close_fd)
  /\ mine' = mine \cup {p}
  /\ UNCHANGED <<stack, held, remoteVars>>

(* It holds the peer of a sync step until the step is over.                *)
AppUnref(p) ==
  /\ AppRuns /\ p \in mine /\ Steps(p) = {}
  /\ rt' = PeerUnref(rt, p)
  /\ mine' = mine \ {p}
  /\ UNCHANGED <<stack, held, remoteVars>>

AppUnrefRouter ==
  /\ AppRuns /\ held
  /\ rt' = RouterUnref(rt)
  /\ held' = FALSE
  /\ UNCHANGED <<stack, mine, remoteVars>>

SetEventMgr(m) ==
  /\ AppRuns /\ held /\ m # rt.mgr
  /\ rt' = mtc_simple_router_set_event_mgr(rt, m)
  /\ UNCHANGED <<stack, appVars, remoteVars>>

mtc_simple_peer_disconnect(p) ==
  /\ AppRuns /\ p \in mine
  /\ rt' = mtc_simple_peer_discard(rt, p)
  /\ Enter(Frame("call", p, <<"reset">>))
  /\ UNCHANGED <<appVars, remoteVars>>

mtc_simple_peer_sendto(p) ==
  /\ AppRuns /\ p \in mine
  /\ IF p \in rt.linked
     THEN /\ rt.unsent[p] < MaxOut
          /\ rt' = [rt EXCEPT !.unsent[p] = @ + 1]
          /\ UNCHANGED stack
     ELSE Enter(Frame("call", p, <<"reset">>)) /\ UNCHANGED rt
  /\ UNCHANGED <<appVars, remoteVars>>

(* mtc_simple_peer_sync_io_step, for a peer that is connected.  Inside of  *)
(* another one libevent refuses to run the base, and the step returns at   *)
(* once.                                                                   *)
SyncRuns == \E k \in 1..Len(stack) : stack[k].kind = "step"
mtc_simple_peer_sync_io_step(p) ==
  /\ AppRuns /\ p \in mine /\ p \in rt.linked
  /\ rt' = mtc_simple_router_set_sync_cache(rt, p)
  /\ IF SyncRuns THEN rt' # rt /\ UNCHANGED stack
                 ELSE Enter(Frame("step", p, <<"wait", "done">>))
  /\ UNCHANGED <<appVars, remoteVars>>

(* The loop has called what was ready, and peer->link is looked at.        *)
StepReturns ==
  /\ At("done") /\ rt.refs[Top.peer] > 0
  /\ stack' = Tail(stack)
  /\ UNCHANGED <<rt, appVars, remoteVars>>

Return ==
  /\ At("app")
  /\ Then(<<>>)
  /\ UNCHANGED <<rt, appVars, remoteVars>>

-----------------------------------------------------------------------------
(* An event of a link, from a manager's loop or from that of a sync step:  *)
(* the link sends, receives, and calls the router back if its events are   *)
(* enabled (mtc_fd_link_event_source_event).                               *)
Ready(p) ==
  {what \in {"send", "recv"} :
     \/ what = "send" /\ rt.unsent[p] > 0
     \/ what = "recv" /\ incoming[p] # <<>> /\ rt.status[p] = "open"}

EventFrame(p, flags) ==
  Frame("event", p, (IF "send" \in flags THEN <<"send">> ELSE <<>>)
                      \o (IF "recv" \in flags THEN <<"recv">> ELSE <<>>))
Event(p, flags) ==
  /\ rt.status[p] # "broken" /\ flags # {} /\ flags \subseteq Ready(p)
  /\ \/ /\ stack = <<>> /\ rt.backs[p] \cap Mgrs # {}
        /\ stack' = <<EventFrame(p, flags)>>
     \/ /\ At("wait") /\ "sync" \in rt.backs[p]
        /\ stack' = <<EventFrame(p, flags), [Top EXCEPT !.todo = Tail(@)]>> \o Tail(stack)
  /\ rt' = [rt EXCEPT !.lrefs[p] = @ + 1]
  /\ UNCHANGED <<appVars, remoteVars>>

(* A frame that has nothing more to do; that of an event has held the link.*)
FrameEnds ==
  /\ stack # <<>> /\ Top.todo = <<>>
  /\ rt' = IF Top.kind = "event" THEN LinkUnref(rt, Top.peer) ELSE rt
  /\ stack' = Tail(stack)
  /\ UNCHANGED <<appVars, remoteVars>>

(* The link breaks; mtc_simple_peer_broken_cb, or that of the flusher.     *)
TellsPeer(p) == rt.enabled[p] /\ rt.owner[p] = "peer"
Broken(p) ==
  LET r == [rt EXCEPT !.status[p] = "broken"]
  IN  /\ rt' = IF TellsPeer(p) THEN mtc_simple_peer_discard(r, p) ELSE FlushEnds(r, p)
      /\ Doing(IF TellsPeer(p) THEN <<"reset">> ELSE <<>>)

SendSome ==
  /\ At("send")
  /\ LET p == Top.peer
     IN  \E n \in 1..rt.unsent[p] :
           LET sent == [rt EXCEPT !.unsent[p] = @ - n]
           IN  rt' = IF sent.unsent[p] = 0 THEN FlushEnds(sent, p) ELSE sent
  /\ Then(<<>>)
  /\ UNCHANGED <<appVars, remoteVars>>

SendBreaks ==
  /\ At("send")
  /\ \E k \in 1..Len(incoming[Top.peer]) : incoming[Top.peer][k] = "eof"
  /\ Broken(Top.peer)
  /\ UNCHANGED <<appVars, remoteVars>>

(* mtc_simple_peer_received_cb, on the next message of the link.           *)
CanReceive(p) == rt.status[p] = "open" /\ incoming[p] # <<>>
Takes(p) ==
  /\ incoming' = [incoming EXCEPT ![p] = Tail(@)]
  /\ UNCHANGED <<appVars, n_in>>

ReceiveMail ==
  /\ At("recv") /\ CanReceive(Top.peer) /\ TellsPeer(Top.peer)
  /\ Head(incoming[Top.peer]) = "mail"
  /\ Then(<<"app", "recv">>)
  /\ UNCHANGED rt /\ Takes(Top.peer)

ReceiveJunk ==
  /\ At("recv") /\ CanReceive(Top.peer) /\ TellsPeer(Top.peer)
  /\ Head(incoming[Top.peer]) = "junk"
  /\ rt' = mtc_simple_peer_discard(rt, Top.peer)
  /\ Then(<<"reset", "recv">>)
  /\ Takes(Top.peer)

ReceiveStop ==
  /\ At("recv") /\ CanReceive(Top.peer) /\ TellsPeer(Top.peer)
  /\ Head(incoming[Top.peer]) = "stop"
  /\ rt' = mtc_simple_peer_discard([rt EXCEPT !.status[Top.peer] = "stopped"], Top.peer)
  /\ Then(<<"reset", "deliver", "recv">>)
  /\ Takes(Top.peer)

(* The rest of mtc_simple_peer_deliver, after a stop signal.  With a peer  *)
(* that is gone by now it is undefined, and ends the behaviour.            *)
DeliverStopped ==
  /\ At("deliver") /\ rt.refs[Top.peer] > 0
  /\ \/ Then(<<"app">>) /\ UNCHANGED rt
     \/ Then(<<"reset">>) /\ rt' = mtc_simple_peer_discard(rt, Top.peer)
  /\ UNCHANGED <<appVars, remoteVars>>

(* A message for nobody: the link was discarded, or is being flushed.      *)
ReceiveDropped ==
  /\ At("recv") /\ CanReceive(Top.peer) /\ ~TellsPeer(Top.peer)
  /\ LET what == Head(incoming[Top.peer])
     IN  /\ what # "eof"
         /\ rt' = [rt EXCEPT !.status[Top.peer] = IF what = "stop" THEN "stopped" ELSE @]
  /\ UNCHANGED stack /\ Takes(Top.peer)

ReceiveBreaks ==
  /\ At("recv") /\ CanReceive(Top.peer)
  /\ Head(incoming[Top.peer]) = "eof"
  /\ Broken(Top.peer)
  /\ Takes(Top.peer)

ReceiveEnds ==
  /\ At("recv") /\ ~CanReceive(Top.peer)
  /\ Then(<<>>)
  /\ UNCHANGED <<rt, appVars, remoteVars>>

(* mtc_peer_reset calls the notifications of the peer; here, those of the  *)
(* application.                                                            *)
Reset ==
  /\ At("reset")
  /\ Then(<<"app">>)
  /\ UNCHANGED <<rt, appVars, remoteVars>>

-----------------------------------------------------------------------------
RemoteSends(p, what) ==
  /\ rt.lrefs[p] > 0 /\ n_in < MaxIn
  /\ \A k \in 1..Len(incoming[p]) : incoming[p][k] # "eof"
  /\ rt.status[p] # "broken"
  /\ incoming' = [incoming EXCEPT ![p] = Append(@, what)]
  /\ n_in' = n_in + 1
  /\ UNCHANGED <<rt, stack, appVars>>

(* A flusher whose router is gone may give its links up.                   *)
FlushAbandons(p) ==
  /\ rt.rrefs = 0 /\ p \in rt.flushing /\ stack = <<>>
  /\ rt' = FlushEnds(rt, p)
  /\ UNCHANGED <<stack, appVars, remoteVars>>

Application ==
  \/ AppUnrefRouter
  \/ \E m \in Mgrs \cup {None} : SetEventMgr(m)
  \/ \E p \in Peers :
       \/ AppUnref(p)
       \/ mtc_simple_peer_disconnect(p)
       \/ mtc_simple_peer_sendto(p)
       \/ mtc_simple_peer_sync_io_step(p)

LinkEvent ==
  \/ SendSome \/ SendBreaks
  \/ ReceiveMail \/ ReceiveJunk \/ ReceiveStop \/ ReceiveDropped
  \/ ReceiveBreaks \/ ReceiveEnds
  \/ DeliverStopped
  \/ FrameEnds \/ StepReturns \/ Return

Environment ==
  \E p \in Peers :
    \/ \E what \in Kinds : RemoteSends(p, what)
    \/ \E flags \in SUBSET {"send", "recv"} : Event(p, flags)
    \/ FlushAbandons(p)

Next ==
  \/ \E p \in Peers, close_fd \in BOOLEAN : RouterAdd(p, close_fd)
  \/ Application \/ LinkEvent \/ Reset \/ Environment

Spec == Init /\ [][Next]_routerVars

(* Loops run, and a ready descriptor is reported in the end; callbacks     *)
(* return.                                                                 *)
FairSpec ==
  /\ Spec
  /\ WF_routerVars(LinkEvent) /\ WF_routerVars(Reset)
  /\ \A p \in Peers :
       /\ SF_routerVars(\E flags \in SUBSET {"send", "recv"} :
                          "send" \in flags /\ Event(p, flags))
       /\ SF_routerVars(\E flags \in SUBSET {"send", "recv"} :
                          "recv" \in flags /\ Event(p, flags))

-----------------------------------------------------------------------------
(* Properties.                                                             *)

Items == {"app", "send", "recv", "reset", "deliver", "wait", "done", "holder"}
Frames == [kind : {"event", "call", "step"}, peer : Peers, todo : Seq(Items)]

(* Type invariant.                                                         *)
TypeOK ==
  /\ rt \in [born : SUBSET Peers, refs : [Peers -> Nat], rrefs : Nat,
             ring : SUBSET Peers, linked : SUBSET Peers, mgr : Mgrs \cup {None},
             backend : [Peers -> Mgrs \cup {None}],
             cache : Peers \cup {None}, aborted : BOOLEAN,
             mrefs : [AllMgrs -> Nat], lrefs : [Peers -> Nat],
             status : [Peers -> {"open", "stopped", "broken"}],
             owner : [Peers -> {"peer", "flush"}],
             enabled : [Peers -> BOOLEAN],
             backs : [Peers -> SUBSET AllMgrs],
             flushing : SUBSET Peers, unsent : [Peers -> Nat],
             close_fd : [Peers -> BOOLEAN], closed : [Peers -> Nat]]
  /\ stack \in Seq(Frames)
  /\ mine \in SUBSET Peers /\ held \in BOOLEAN
  /\ incoming \in [Peers -> Seq(Kinds)] /\ n_in \in 0..MaxIn

Alive == {p \in Peers : rt.refs[p] > 0}

(* A peer is freed from inside its own callbacks, from a notification of   *)
(* its reset, or from those of another peer: whenever that happens,        *)
(* nothing that is left leads to it - the ring, the sync cache, a link     *)
(* that would call it back, a sync step that will look at its link         *)
(* (simple_router.c:174, 326).                                             *)
NothingDangles ==
  /\ rt.ring \cup rt.linked \cup ({rt.cache} \ {None}) \subseteq Alive
  /\ \A p \in Peers :
       rt.lrefs[p] > 0 /\ rt.enabled[p] /\ rt.owner[p] = "peer" => p \in Alive
  /\ \A k \in 1..Len(stack) : stack[k].kind = "step" => stack[k].peer \in Alive

(* The same for the delivery of a message, also the one with a stop signal,*)
(* on behalf of the peer it came from: "Deliver mail" (simple_router.c:220)*)
DeliversForPeer ==
  \A k \in 1..Len(stack) :
    (\E i \in 1..Len(stack[k].todo) : stack[k].todo[i] = "deliver")
      => stack[k].peer \in Alive

(* A link lives exactly as long as its peer, the flusher or a running      *)
(* event needs it, and its descriptor is closed when it goes and not       *)
(* before, once (simple_router.c:174-176, 193).                            *)
EventsOf(p) == {k \in 1..Len(stack) : stack[k].kind = "event" /\ stack[k].peer = p}
LinksCounted ==
  \A p \in Peers :
    /\ rt.lrefs[p] = One(p \in rt.linked) + One(p \in rt.flushing)
                       + Cardinality(EventsOf(p))
    /\ rt.lrefs[p] = 0 => rt.backs[p] = {}
    /\ rt.closed[p] = One(p \in rt.born /\ rt.lrefs[p] = 0 /\ rt.close_fd[p])

(* Where an application's code runs, a peer with a link is in the ring,    *)
(* its link is not broken and calls it, and is watched by the manager of   *)
(* the router, whenever that was set, and by the sync cache if it is the   *)
(* peer there; one without is watched by neither (simple_router.c:78, 105).*)
ConnectedIsWatched ==
  /\ rt.ring = rt.linked
  /\ rt.cache # None => rt.cache \in rt.linked
  /\ \A p \in rt.linked :
       /\ rt.enabled[p] /\ rt.owner[p] = "peer" /\ rt.status[p] = "open"
       /\ rt.backs[p] = ({rt.mgr} \ {None}) \cup {m \in {"sync"} : rt.cache = p}
  /\ \A p \in Peers \ rt.linked :
       /\ "sync" \notin rt.backs[p]
       /\ rt.owner[p] = "peer" => rt.backs[p] = {}

(* Each reference to the router has its holder, also when peers and the    *)
(* router go from inside a loop that runs: the router goes last, and its   *)
(* assertion does not fail (simple_router.c:353).                          *)
RouterRefs(others) ==
  /\ rt.rrefs = others + One(held) + Cardinality(Alive)
  /\ ~rt.aborted
RouterGoesLast == RouterRefs(0)

(* So does each reference to a manager: none is left over, and the base of *)
(* the sync cache, which goes with the last one, is not freed while it runs*)
(* (simple_router.c:141, event.c:179, 189, 217).                           *)
ManagersCounted ==
  /\ \A m \in AllMgrs :
       rt.mrefs[m] = Cardinality({p \in Peers : m \in rt.backs[p]})
                       + (IF m = "sync" THEN One(rt.rrefs > 0)
                                        ELSE 1 + One(m = rt.mgr))
  /\ SyncRuns => BaseLives(rt, "sync")

(* What was queued for a peer is not lost because the peer is dropped:     *)
(* its link goes with unsent mails only if it broke, or was discarded, or  *)
(* if the router went before (simple_router.c:174).                        *)
DataKept ==
  [][\A p \in Peers :
       rt.lrefs[p] > 0 /\ rt'.lrefs[p] = 0 /\ rt'.unsent[p] > 0 =>
         rt'.status[p] = "broken" \/ ~rt'.enabled[p] \/ rt.rrefs = 0]_routerVars

(* A peer that was dropped while its router had a manager is flushed by    *)
(* the loop of that manager, although the peer, which knew the backend,    *)
(* is gone (simple_router.c:174, 180): unless a sync step, for another     *)
(* peer, never returns to that loop.                                       *)
Watched(p) == p \in rt.linked /\ rt.mgr # None
FlushedAtLast ==
  []<>(stack = <<>>) =>
    \A p \in Peers :
      []([](rt.mgr # None) /\ Watched(p) =>
           (p \in rt.flushing ~> p \notin rt.flushing))

(* A sync step returns once the remote end sends something or goes.        *)
StepEnds ==
  \A p \in Peers : (Steps(p) # {} /\ incoming[p] # <<>>) ~> Steps(p) = {}

=============================================================================
