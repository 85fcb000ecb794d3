---------------------------- MODULE SimpleServer ----------------------------
(***************************************************************************)
(* simple_server.c on top of SimpleRouter: sets of peers, and a listener   *)
(* that adds the connections it accepts to a set.                          *)
(*                                                                         *)
(* A holder is the reference of a set to one of its peers, and a           *)
(* notification of the reset of that peer.  A peer is only ever added with *)
(* a new holder, so the holders of a set are the peers in it.              *)
(*                                                                         *)
(* A connection has the name of the peer it becomes.  The callback of the  *)
(* listener is that of mtc_simple_listener_set_peer_set, or none: what an  *)
(* application's own callback does with the descriptor is RouterAdd.       *)
(***************************************************************************)
EXTENDS SimpleRouter, FiniteSetsExt

CONSTANTS
  Sets,      \* the sets the application may make
  MoreRefs,  \* bound: the application may have two references to one of its
             \* sets, or to the listener
  Withdraws  \* a connection may go before it is accepted

ASSUME ServerAssumptions ==
  /\ None \notin Sets /\ MoreRefs \in BOOLEAN
  /\ Withdraws \in BOOLEAN

VARIABLES
  sv,        \* the sets and the listener
  backlog    \* connections that have not been accepted

serverVars == <<sv, backlog>>
vars == <<routerVars, serverVars>>

Held(p) == \E s \in Sets : p \in sv.holders[s]
Sleeps == AppRuns /\ sv.lrefs > 0

-----------------------------------------------------------------------------
(* The operators below map what the router and the server are to what they *)
(* become.                                                                 *)
Both == [rt |-> rt, sv |-> sv]
Becomes(both) == rt' = both.rt /\ sv' = both.sv

(* mtc_peer_holder_destroy, for the holders of ps in s.  A mutant forgets  *)
(* the reference to the peer.                                              *)
HolderUnlinked(both, s, ps) == [both EXCEPT !.sv.holders[s] = @ \ ps]
mtc_peer_holder_destroy(both, s, ps) ==
  [rt |-> FoldSet(LAMBDA p, r : PeerUnref(r, p), both.rt, ps),
   sv |-> [both.sv EXCEPT !.holders[s] = @ \ ps]]

(* mtc_peer_set_unref.  A mutant keeps the reference to the router.        *)
SetUnrefKeepsRouter(both, s) ==
  LET one == [both EXCEPT !.sv.refs[s] = @ - 1]
  IN  IF one.sv.refs[s] > 0 THEN one
      ELSE mtc_peer_holder_destroy(one, s, one.sv.holders[s])
mtc_peer_set_unref(both, s) ==
  LET one == [both EXCEPT !.sv.refs[s] = @ - 1]
      bare == mtc_peer_holder_destroy(one, s, one.sv.holders[s])
  IN  IF one.sv.refs[s] > 0 THEN one ELSE [bare EXCEPT !.rt = RouterUnref(@)]

mtc_peer_set_add(both, s, p, close_fd) ==
  [both EXCEPT !.rt = mtc_simple_router_add(@, p, close_fd),
               !.sv.holders[s] = @ \cup {p}]

(* mtc_simple_listener_set_active prepares the event source anew if that   *)
(* is a change: the backend forgets a call it was about to make.           *)
mtc_simple_listener_set_active(both, val) ==
  [both EXCEPT !.sv.active = val,
               !.sv.ready = both.sv.ready /\ both.sv.active = val]

(* A mutant of mtc_simple_listener_set_peer_set takes no reference.        *)
SetPeerSetUnreferenced(both, s) ==
  mtc_simple_listener_set_active([both EXCEPT !.sv.peer_set = s], TRUE)
mtc_simple_listener_set_peer_set(both, s) ==
  mtc_simple_listener_set_active(
    [both EXCEPT !.sv.peer_set = s, !.sv.refs[s] = @ + 1], TRUE)

mtc_simple_listener_unset_peer_set(both) ==
  LET off == mtc_simple_listener_set_active(both, FALSE)
  IN  [mtc_peer_set_unref(off, both.sv.peer_set) EXCEPT !.sv.peer_set = None]

(* Destroying the event source destroys its backend.  A mutant drops the   *)
(* listener and not its set.                                               *)
ListenerUnrefKeepsSet(both) ==
  LET one == [both EXCEPT !.sv.lrefs = @ - 1]
  IN  IF one.sv.lrefs > 0 THEN one
      ELSE [one EXCEPT !.sv.closed = @ + One(both.sv.close_fd),
                       !.sv.backed = FALSE, !.sv.ready = FALSE]
mtc_simple_listener_unref(both) ==
  LET one == [both EXCEPT !.sv.lrefs = @ - 1]
      out == IF both.sv.peer_set = None THEN one
             ELSE mtc_peer_set_unref(one, both.sv.peer_set)
  IN  IF one.sv.lrefs > 0 THEN one
      ELSE [out EXCEPT !.sv.closed = @ + One(both.sv.close_fd),
                       !.sv.backed = FALSE, !.sv.ready = FALSE]

-----------------------------------------------------------------------------
(* The application has made a listener with mtc_simple_listener_new.       *)
ServerInit ==
  /\ Init
  /\ sv = [refs |-> [s \in Sets |-> 0], mine |-> [s \in Sets |-> 0],
           made |-> {}, holders |-> [s \in Sets |-> {}],
           lrefs |-> 1, active |-> FALSE, peer_set |-> None,
           close_fd |-> FALSE, closed |-> 0,
           backed |-> FALSE, ready |-> FALSE, ended |-> FALSE]
  /\ backlog = {}

PeerSetNew(s) ==
  /\ AppRuns /\ held /\ s \notin sv.made
  /\ rt' = [rt EXCEPT !.rrefs = @ + 1]
  /\ sv' = [sv EXCEPT !.made = @ \cup {s}, !.refs[s] = 1, !.mine[s] = 1]
  /\ UNCHANGED <<stack, appVars, remoteVars, backlog>>

(* The bound: no second reference is held yet. *)
OneEach == sv.lrefs <= 1 /\ \A s \in Sets : sv.mine[s] <= 1

PeerSetRef(s) ==
  /\ AppRuns /\ sv.mine[s] > 0
  /\ MoreRefs /\ OneEach
  /\ sv' = [sv EXCEPT !.refs[s] = @ + 1, !.mine[s] = @ + 1]
  /\ UNCHANGED <<routerVars, backlog>>

PeerSetUnref(s) ==
  /\ AppRuns /\ sv.mine[s] > 0
  /\ Becomes(mtc_peer_set_unref([Both EXCEPT !.sv.mine[s] = @ - 1], s))
  /\ UNCHANGED <<stack, appVars, remoteVars, backlog>>

PeerSetAdd(s, p, close_fd) ==
  /\ AppRuns /\ sv.mine[s] > 0 /\ p \notin rt.born \cup backlog
  /\ Becomes(mtc_peer_set_add(Both, s, p, close_fd))
  /\ UNCHANGED <<stack, mine, held, remoteVars, backlog>>

(* The application may keep a peer of a set that a callback is about.      *)
PeerRef(p) ==
  /\ At("app") /\ Top.peer = p /\ rt.refs[p] > 0 /\ p \notin mine
  /\ rt' = [rt EXCEPT !.refs[p] = @ + 1]
  /\ mine' = mine \cup {p}
  /\ UNCHANGED <<stack, held, remoteVars, serverVars>>

(* The listener is given to a manager, or taken from it.                   *)
ListenerBack ==
  /\ Sleeps
  /\ sv' = [sv EXCEPT !.backed = ~@, !.ready = FALSE]
  /\ UNCHANGED <<routerVars, backlog>>

ListenerRef ==
  /\ Sleeps
  /\ MoreRefs /\ OneEach
  /\ sv' = [sv EXCEPT !.lrefs = @ + 1]
  /\ UNCHANGED <<routerVars, backlog>>

ListenerUnref ==
  /\ Sleeps
  /\ Becomes(mtc_simple_listener_unref(Both))
  /\ UNCHANGED <<stack, appVars, remoteVars, backlog>>

(* A listener that is active has a callback.                               *)
SetActive(val) ==
  /\ Sleeps /\ sv.peer_set # None /\ val # sv.active
  /\ Becomes(mtc_simple_listener_set_active(Both, val))
  /\ UNCHANGED <<stack, appVars, remoteVars, backlog>>

SetCloseFd(val) ==
  /\ Sleeps /\ val # sv.close_fd
  /\ sv' = [sv EXCEPT !.close_fd = val]
  /\ UNCHANGED <<routerVars, backlog>>

(* A listener is given a set when it has none: one that is set over another*)
(* loses the reference to that.                                            *)
SetPeerSet(s) ==
  /\ Sleeps /\ sv.mine[s] > 0
  /\ sv.peer_set = None
  /\ Becomes(mtc_simple_listener_set_peer_set(Both, s))
  /\ UNCHANGED <<stack, appVars, remoteVars, backlog>>

UnsetPeerSet ==
  /\ Sleeps /\ sv.peer_set # None
  /\ Becomes(mtc_simple_listener_unset_peer_set(Both))
  /\ UNCHANGED <<stack, appVars, remoteVars, backlog>>

-----------------------------------------------------------------------------
(* Connections, and mtc_simple_listener_event.                             *)

Connect(p) ==
  /\ p \notin rt.born \cup backlog
  /\ backlog' = backlog \cup {p}
  /\ UNCHANGED <<routerVars, sv>>

Withdraw(p) ==
  /\ Withdraws /\ p \in backlog
  /\ backlog' = backlog \ {p}
  /\ UNCHANGED <<routerVars, sv>>

(* The loop finds the descriptor readable; other events of the same turn   *)
(* are called before that of the listener.                                 *)
FoundReady ==
  /\ stack = <<>> /\ sv.backed /\ sv.active /\ backlog # {} /\ ~sv.ready
  /\ sv' = [sv EXCEPT !.ready = TRUE]
  /\ UNCHANGED <<routerVars, backlog>>

Accept(p) ==
  /\ stack = <<>> /\ sv.ready /\ p \in backlog
  /\ Becomes(mtc_peer_set_add([Both EXCEPT !.sv.ready = FALSE], sv.peer_set, p, TRUE))
  /\ backlog' = backlog \ {p}
  /\ UNCHANGED <<stack, mine, held, remoteVars>>

(* With an error that is temporary the program ends, any other is ignored. *)
(* EAGAIN is the answer when there is no connection any more.              *)
MTC_IO_TEMP_ERROR(e) == e \in {"EAGAIN", "EINTR"}
AcceptFails(e) ==
  /\ stack = <<>> /\ sv.ready
  /\ e = "EAGAIN" => backlog = {}
  /\ sv' = [sv EXCEPT !.ready = FALSE, !.ended = MTC_IO_TEMP_ERROR(e)]
  /\ UNCHANGED <<routerVars, backlog>>

-----------------------------------------------------------------------------
(* mtc_peer_reset calls the notification of the holder and those of the    *)
(* application, in the order in which libmtc keeps them.  A mutant adds    *)
(* peers to sets without a notification.                                   *)
NotifyNoHolder ==
  /\ At("reset") /\ Then(<<"app">>)
  /\ UNCHANGED <<rt, appVars, remoteVars, serverVars>>
Notify ==
  /\ At("reset")
  /\ IF Held(Top.peer)
     THEN Then(<<"holder", "app">>) \/ Then(<<"app", "holder">>)
     ELSE Then(<<"app">>)
  /\ UNCHANGED <<rt, appVars, remoteVars, serverVars>>

(* The notification may have gone with its set in the meantime.            *)
mtc_peer_holder_reset_notify ==
  /\ At("holder") /\ Then(<<>>)
  /\ IF Held(Top.peer)
     THEN \E s \in Sets : /\ Top.peer \in sv.holders[s]
                          /\ Becomes(mtc_peer_holder_destroy(Both, s, {Top.peer}))
     ELSE UNCHANGED <<rt, sv>>
  /\ UNCHANGED <<appVars, remoteVars, backlog>>

-----------------------------------------------------------------------------
(* Every action of the router but Reset, which Notify replaces.            *)
RouterSteps ==
  /\ \/ Application \/ LinkEvent \/ Environment
     \/ \E p \in Peers \ backlog, close_fd \in BOOLEAN : RouterAdd(p, close_fd)
  /\ UNCHANGED serverVars

ServerCalls ==
  \/ \E s \in Sets :
       \/ PeerSetNew(s) \/ PeerSetRef(s) \/ PeerSetUnref(s) \/ SetPeerSet(s)
       \/ \E p \in Peers, close_fd \in BOOLEAN : PeerSetAdd(s, p, close_fd)
  \/ \E p \in Peers : PeerRef(p)
  \/ ListenerBack \/ ListenerRef \/ ListenerUnref \/ UnsetPeerSet
  \/ \E val \in BOOLEAN : SetActive(val) \/ SetCloseFd(val)

Listening ==
  \/ FoundReady
  \/ \E p \in Peers : Connect(p) \/ Withdraw(p) \/ Accept(p)
  \/ \E e \in {"EAGAIN", "EMFILE"} : AcceptFails(e)

Notifying == Notify \/ mtc_peer_holder_reset_notify

ServerNext == ~sv.ended /\ (RouterSteps \/ ServerCalls \/ Listening \/ Notifying)

ServerSpec == ServerInit /\ [][ServerNext]_vars

-----------------------------------------------------------------------------
(* Properties.                                                             *)

(* Type invariant, with that of the router.                                *)
ServerTypeOK ==
  /\ TypeOK
  /\ sv \in [refs : [Sets -> Nat], mine : [Sets -> 0..2],
             made : SUBSET Sets, holders : [Sets -> SUBSET Peers],
             lrefs : 0..2, active : BOOLEAN, peer_set : Sets \cup {None},
             close_fd : BOOLEAN, closed : 0..1,
             backed : BOOLEAN, ready : BOOLEAN, ended : BOOLEAN]
  /\ backlog \in SUBSET (Peers \ rt.born)

(* A set and the peers in it go when the application and the listener are  *)
(* both done with it, and not while the listener may still add to it: "A   *)
(* strong reference will be held on it" (simple_server.h:136,              *)
(* simple_server.c:192, 227, 244).                                         *)
SetsCounted ==
  \A s \in Sets :
    /\ sv.refs[s] = sv.mine[s] + One(sv.lrefs > 0 /\ sv.peer_set = s)
    /\ sv.refs[s] = 0 => sv.holders[s] = {}

(* A peer is alive exactly as long as the application or a set holds it,   *)
(* and no two sets hold the same one (simple_server.c:54).                 *)
PeersCounted ==
  \A p \in Peers :
    rt.refs[p] = One(p \in mine) + Cardinality({s \in Sets : p \in sv.holders[s]})

(* The sets hold the router, and so do their peers; it goes last, whichever*)
(* of its users is the last one, and from inside whichever callback.       *)
ServerIsCounted ==
  RouterRefs(Cardinality({s \in Sets : sv.refs[s] > 0})) /\ ManagersCounted

(* A set does not collect dead connections: a peer without a link is in it *)
(* only while a reset that will tell the set is on its way, although the   *)
(* application may disconnect, send or step from every callback in between *)
(* (simple_server.c:58, simple_router.c:198).                              *)
HoldersConnected ==
  \A p \in Peers :
    Held(p) /\ p \notin rt.linked =>
      \E k \in 1..Len(stack), what \in {"reset", "holder"} :
        /\ stack[k].peer = p
        /\ \E i \in 1..Len(stack[k].todo) : stack[k].todo[i] = what

(* accept with a temporary error is one that is tried again: "Temporary    *)
(* error" (io.h:44).                                                       *)
KeepsListening == ~sv.ended

=============================================================================
