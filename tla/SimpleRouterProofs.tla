------------------------- MODULE SimpleRouterProofs -------------------------
(***************************************************************************)
(* Whatever the application calls from its callbacks, nothing that is left *)
(* leads to a peer that was freed: for every number of peers, of messages  *)
(* and of entries into the code.  And on top of that, the links of a       *)
(* router's peers: each lives as long as something needs it, is watched by *)
(* the managers that should watch it and by no other, and does not take    *)
(* unsent mails with it.                                                   *)
(***************************************************************************)
EXTENDS SimpleRouter, FiniteSetTheorems, FunctionTheorems, TLAPS

Fields == {"born", "refs", "rrefs", "ring", "linked", "mgr", "backend", "cache",
           "aborted", "mrefs", "lrefs", "status", "owner", "enabled", "backs",
           "flushing", "unsent", "close_fd", "closed"}
IsRouter(r) == DOMAIN r = Fields /\ r = [x \in Fields |-> r[x]]

(* The part of the router that leads to peers, and its own references.     *)
Core(r) == <<r.born, r.refs, r.ring, r.linked, r.cache, r.enabled, r.owner,
             r.rrefs, r.aborted>>

CoreType(r) ==
  /\ r.born \subseteq Peers /\ r.linked \subseteq r.born
  /\ r.refs \in [Peers -> Int] /\ r.rrefs \in Int /\ r.aborted \in BOOLEAN
  /\ r.enabled \in [Peers -> BOOLEAN]
  /\ r.owner \in [Peers -> {"peer", "flush"}]

(* All of it leads to peers with a link only.                              *)
Linked(r) ==
  /\ IsRouter(r) /\ CoreType(r)
  /\ r.ring = r.linked
  /\ r.cache \in r.linked \cup {None}
  /\ \A p \in Peers : r.enabled[p] /\ r.owner[p] = "peer" => p \in r.linked

(* The same references and links, but perhaps for some that are gone.      *)
Keeps(s, r, gone) ==
  /\ s.born = r.born /\ s.refs = r.refs /\ s.linked = r.linked \ gone
  /\ s.rrefs = r.rrefs /\ s.aborted = r.aborted

(* The application's references are all there are, and the router is       *)
(* referred to by it, or not, and by the peers.                            *)
HeldBy(r, ms, h) ==
  /\ ms \subseteq r.born /\ r.linked \subseteq ms
  /\ \A p \in Peers : r.refs[p] = One(p \in ms)
  /\ r.rrefs = One(h) + Cardinality(ms)
  /\ ~r.aborted

-----------------------------------------------------------------------------
(* What the operators of the router do to its core.                        *)

(* What only touches the rest of the router keeps its core.                *)
LEMMA SameCore ==
  ASSUME NEW r, NEW s, Linked(r), IsRouter(s), Core(s) = Core(r)
  PROVE  Linked(s) /\ Keeps(s, r, {})
  BY DEF Linked, CoreType, Core, Keeps

(* Giving a backend a manager, or taking it away, is not about references. *)
LEMMA BackCore ==
  ASSUME NEW r, IsRouter(r), NEW p, NEW m
  PROVE  /\ IsRouter(Back(r, p, m)) /\ Core(Back(r, p, m)) = Core(r)
         /\ IsRouter(Unback(r, p, m)) /\ Core(Unback(r, p, m)) = Core(r)
  BY DEF Back, Unback, IsRouter, Fields, Core

(* Nor is dropping a reference to a link.                                  *)
LEMMA LinkUnrefCore ==
  ASSUME NEW r, IsRouter(r), NEW p
  PROVE  IsRouter(LinkUnref(r, p)) /\ Core(LinkUnref(r, p)) = Core(r)
  BY ZenonT(60) DEF LinkUnref, IsRouter, Fields, Core

(* The flusher takes the ownership of a link and nothing else.             *)
LEMMA FlushAddCore ==
  ASSUME NEW r, IsRouter(r), NEW p
  PROVE  /\ IsRouter(FlushAdd(r, p))
         /\ Core(FlushAdd(r, p)) = Core([r EXCEPT !.owner[p] = "flush"])
  BY DEF FlushAdd, IsRouter, Fields, Core

(* What it does when it is done with a link is not about the router at     *)
(* all.                                                                    *)
LEMMA FlushEndsCore ==
  ASSUME NEW r, IsRouter(r), NEW p
  PROVE  IsRouter(FlushEnds(r, p)) /\ Core(FlushEnds(r, p)) = Core(r)
  <1>1. /\ IsRouter([r EXCEPT !.flushing = @ \ {p}])
        /\ Core([r EXCEPT !.flushing = @ \ {p}]) = Core(r)
    BY DEF IsRouter, Fields, Core
  <1> QED  BY <1>1, LinkUnrefCore DEF FlushEnds

(* Nor is the backend of a peer.                                           *)
LEMMA SetBackendCore ==
  ASSUME NEW r, IsRouter(r), NEW p, NEW m
  PROVE  /\ IsRouter(mtc_simple_peer_set_backend(r, p, m))
         /\ Core(mtc_simple_peer_set_backend(r, p, m)) = Core(r)
  <1> DEFINE none == IF r.backend[p] = None THEN r
                     ELSE [Unback(r, p, r.backend[p]) EXCEPT !.backend[p] = None]
  <1>1. IsRouter(none) /\ Core(none) = Core(r)
    <2>1. /\ IsRouter(Unback(r, p, r.backend[p]))
          /\ Core(Unback(r, p, r.backend[p])) = Core(r)
      BY BackCore
    <2> QED  BY <2>1 DEF IsRouter, Fields, Core
  <1>2. IsRouter(Back(none, p, m)) /\ Core(Back(none, p, m)) = Core(r)
    BY <1>1, BackCore
  <1>3. /\ IsRouter([Back(none, p, m) EXCEPT !.backend[p] = m])
        /\ Core([Back(none, p, m) EXCEPT !.backend[p] = m]) = Core(r)
    <2> DEFINE b == Back(none, p, m)
    <2> HIDE DEF b, none
    <2>1. IsRouter([b EXCEPT !.backend[p] = m]) /\ Core([b EXCEPT !.backend[p] = m]) = Core(b)
      BY <1>2 DEF IsRouter, Fields, Core, b
    <2> QED  BY <2>1, <1>2 DEF b
  <1> QED  BY <1>1, <1>3 DEF mtc_simple_peer_set_backend

(* Clearing the sync cache for a peer only ever makes it empty.            *)
LEMMA ClearCore ==
  ASSUME NEW r, IsRouter(r), NEW p
  PROVE  LET s == mtc_simple_router_clear_sync_cache(r, p)
         IN  /\ IsRouter(s)
             /\ Core(s) = Core([r EXCEPT !.cache = IF @ = p THEN None ELSE @])
  <1>1. /\ IsRouter(Unback(r, p, "sync"))
        /\ Core(Unback(r, p, "sync")) = Core(r)
    BY BackCore
  <1> DEFINE u == Unback(r, p, "sync")
  <1> HIDE DEF u
  <1>2. CASE r.cache = p /\ p # None
    BY <1>1, <1>2 DEF mtc_simple_router_clear_sync_cache, IsRouter, Fields, Core, u
  <1>3. CASE ~(r.cache = p /\ p # None)
    BY <1>3 DEF mtc_simple_router_clear_sync_cache, IsRouter, Fields, Core
  <1> QED  BY <1>2, <1>3

(* An empty cache is told from one with a peer.                            *)
LEMMA NoneIsNoPeer == None \notin Peers
  BY RouterAssumptions

(* A link that is taken from its peer: out of the cache and the ring.      *)
LEMMA TakenOut ==
  ASSUME NEW r, Linked(r), NEW p \in r.linked
  PROVE  LET s == mtc_simple_peer_remove(mtc_simple_router_clear_sync_cache(r, p), p)
         IN  /\ IsRouter(s)
             /\ Core(s) = Core([r EXCEPT !.cache = IF @ = p THEN None ELSE @,
                                         !.ring = @ \ {p}])
  <1> DEFINE c == mtc_simple_router_clear_sync_cache(r, p)
  <1>1. /\ IsRouter(c) /\ IsRouter(r)
        /\ Core(c) = Core([r EXCEPT !.cache = IF @ = p THEN None ELSE @])
    BY ClearCore DEF Linked
  <1> HIDE DEF c
  <1> QED  BY <1>1 DEF mtc_simple_peer_remove, IsRouter, Fields, Core, c

(* mtc_simple_peer_close takes the link from the peer and everything that  *)
(* leads to it.                                                            *)
LEMMA CloseKeeps ==
  ASSUME NEW r, Linked(r), NEW p \in Peers
  PROVE  /\ Linked(mtc_simple_peer_close(r, p))
         /\ Keeps(mtc_simple_peer_close(r, p), r, {p})
  <1>1. CASE p \notin r.linked
    BY <1>1 DEF mtc_simple_peer_close, Keeps
  <1>2. CASE p \in r.linked
    <2> DEFINE out == mtc_simple_peer_remove(mtc_simple_router_clear_sync_cache(r, p), p)
               flush == FlushAdd(out, p)
               unref == LinkUnref(flush, p)
    <2>1. /\ IsRouter(out)
          /\ Core(out) = Core([r EXCEPT !.cache = IF @ = p THEN None ELSE @,
                                        !.ring = @ \ {p}])
      BY <1>2, TakenOut
    <2>2. IsRouter(flush) /\ Core(flush) = Core([out EXCEPT !.owner[p] = "flush"])
      <3> HIDE DEF out
      <3> QED  BY <2>1, FlushAddCore
    <2>3. IsRouter(unref) /\ Core(unref) = Core(flush)
      <3> HIDE DEF flush
      <3> QED  BY <2>2, LinkUnrefCore
    <2>4. mtc_simple_peer_close(r, p) = [unref EXCEPT !.linked = @ \ {p}]
      BY <1>2 DEF mtc_simple_peer_close
    <2> HIDE DEF out, flush, unref
    <2> DEFINE s == [unref EXCEPT !.linked = @ \ {p}]
    <2>5. /\ s.born = r.born /\ s.refs = r.refs /\ s.ring = r.ring \ {p}
          /\ s.linked = r.linked \ {p}
          /\ s.rrefs = r.rrefs /\ s.aborted = r.aborted
          /\ s.cache = (IF r.cache = p THEN None ELSE r.cache)
          /\ s.enabled = r.enabled /\ s.owner = [r.owner EXCEPT ![p] = "flush"]
          /\ IsRouter(s)
      BY <2>1, <2>2, <2>3 DEF IsRouter, Fields, Core, Linked
    <2> HIDE DEF s
    <2>6. Linked(s) /\ Keeps(s, r, {p})
      BY <2>5 DEF Linked, CoreType, Keeps
    <2> QED  BY <2>4, <2>6 DEF s
  <1> QED  BY <1>1, <1>2

(* So does mtc_simple_peer_discard.                                        *)
LEMMA DiscardKeeps ==
  ASSUME NEW r, Linked(r), NEW p \in Peers
  PROVE  /\ Linked(mtc_simple_peer_discard(r, p))
         /\ Keeps(mtc_simple_peer_discard(r, p), r, {p})
  <1>1. CASE p \notin r.linked
    BY <1>1 DEF mtc_simple_peer_discard, Keeps
  <1>2. CASE p \in r.linked
    <2> DEFINE out == mtc_simple_peer_remove(mtc_simple_router_clear_sync_cache(r, p), p)
               bare == mtc_simple_peer_set_backend(out, p, None)
               off == [bare EXCEPT !.enabled[p] = FALSE]
               unref == LinkUnref(off, p)
    <2>1. /\ IsRouter(out)
          /\ Core(out) = Core([r EXCEPT !.cache = IF @ = p THEN None ELSE @,
                                        !.ring = @ \ {p}])
      BY <1>2, TakenOut
    <2>2. IsRouter(bare) /\ Core(bare) = Core(out)
      <3> HIDE DEF out
      <3> QED  BY <2>1, SetBackendCore
    <2>3. IsRouter(off) /\ Core(off) = Core([bare EXCEPT !.enabled[p] = FALSE])
      <3> HIDE DEF bare
      <3> QED  BY <2>2 DEF IsRouter, Fields
    <2>4. IsRouter(unref) /\ Core(unref) = Core(off)
      <3> HIDE DEF off
      <3> QED  BY <2>3, LinkUnrefCore
    <2>5. mtc_simple_peer_discard(r, p) = [unref EXCEPT !.linked = @ \ {p}]
      BY <1>2 DEF mtc_simple_peer_discard
    <2> HIDE DEF out, bare, off, unref
    <2> DEFINE s == [unref EXCEPT !.linked = @ \ {p}]
    <2>6. /\ s.born = r.born /\ s.refs = r.refs /\ s.ring = r.ring \ {p}
          /\ s.linked = r.linked \ {p}
          /\ s.rrefs = r.rrefs /\ s.aborted = r.aborted
          /\ s.cache = (IF r.cache = p THEN None ELSE r.cache)
          /\ s.enabled = [r.enabled EXCEPT ![p] = FALSE] /\ s.owner = r.owner
          /\ IsRouter(s)
      BY <2>1, <2>2, <2>3, <2>4 DEF IsRouter, Fields, Core, Linked
    <2> HIDE DEF s
    <2>7. Linked(s) /\ Keeps(s, r, {p})
      BY <2>6 DEF Linked, CoreType, Keeps
    <2> QED  BY <2>5, <2>7 DEF s
  <1> QED  BY <1>1, <1>2

(* The sync cache is set to a peer with a link and loses no reference.     *)
LEMMA SetCacheKeeps ==
  ASSUME NEW r, Linked(r), NEW p \in r.linked \cup {None}
  PROVE  /\ Linked(mtc_simple_router_set_sync_cache(r, p))
         /\ Keeps(mtc_simple_router_set_sync_cache(r, p), r, {})
  <1> DEFINE c == mtc_simple_router_clear_sync_cache(r, r.cache)
             b == Back(c, p, "sync")
  <1>1. /\ IsRouter(c) /\ IsRouter(r)
        /\ Core(c) = Core([r EXCEPT !.cache = None])
    BY ClearCore DEF Linked
  <1>2. IsRouter(b) /\ Core(b) = Core(c)
    <2> HIDE DEF c
    <2> QED  BY <1>1, BackCore
  <1> HIDE DEF c, b
  <1>3. CASE r.cache = p
    BY <1>3 DEF mtc_simple_router_set_sync_cache, Keeps
  <1>4. CASE r.cache # p /\ p = None
    <2>1. mtc_simple_router_set_sync_cache(r, p) = c
      BY <1>4 DEF mtc_simple_router_set_sync_cache, c
    <2> QED  BY <1>1, <2>1 DEF IsRouter, Fields, Core, Linked, CoreType, Keeps
  <1>5. CASE r.cache # p /\ p # None
    <2> DEFINE s == [b EXCEPT !.cache = p]
    <2>1. mtc_simple_router_set_sync_cache(r, p) = s
      BY <1>5 DEF mtc_simple_router_set_sync_cache, c, b
    <2>2. IsRouter(s) /\ Core(s) = Core([r EXCEPT !.cache = p])
      BY <1>1, <1>2 DEF IsRouter, Fields, Core
    <2> HIDE DEF s
    <2> QED  BY <1>1, <1>5, <2>1, <2>2 DEF IsRouter, Fields, Core, Linked, CoreType, Keeps
  <1> QED  BY <1>3, <1>4, <1>5

(* mtc_simple_router_destroy finds the ring empty, or aborts.              *)
LEMMA RouterUnrefKeeps ==
  ASSUME NEW r, Linked(r)
  PROVE  LET s == RouterUnref(r)
         IN  /\ Linked(s)
             /\ s.born = r.born /\ s.refs = r.refs /\ s.linked = r.linked
             /\ s.rrefs = r.rrefs - 1
             /\ s.aborted = IF r.rrefs = 1 THEN r.linked # {} ELSE r.aborted
  <1> DEFINE one == [r EXCEPT !.rrefs = @ - 1]
             bare == mtc_simple_router_set_sync_cache(one, None)
             end == mtc_simple_router_destroy(one)
  <1>1. /\ Linked(one)
        /\ one.born = r.born /\ one.refs = r.refs /\ one.linked = r.linked
        /\ one.rrefs = r.rrefs - 1 /\ one.aborted = r.aborted
    <2>1. /\ IsRouter(one)
          /\ one.born = r.born /\ one.refs = r.refs /\ one.linked = r.linked
          /\ one.rrefs = r.rrefs - 1 /\ one.aborted = r.aborted
          /\ one.ring = r.ring /\ one.cache = r.cache
          /\ one.enabled = r.enabled /\ one.owner = r.owner
      BY DEF Linked, IsRouter, Fields
    <2> HIDE DEF one
    <2> QED  BY <2>1 DEF Linked, CoreType
  <1>2. Linked(bare) /\ Keeps(bare, one, {})
    <2> HIDE DEF one
    <2> QED  BY <1>1, SetCacheKeeps
  <1>3. /\ Linked(end) /\ end.born = bare.born /\ end.refs = bare.refs
        /\ end.linked = bare.linked /\ end.rrefs = bare.rrefs
        /\ end.aborted = (one.ring # {})
    <2> HIDE DEF one
    <2> DEFINE b == bare
    <2>1. end = [b EXCEPT !.aborted = one.ring # {}, !.mgr = None,
                   !.mrefs = [m \in AllMgrs |->
                                IF m \in {"sync", one.mgr} THEN @[m] - 1 ELSE @[m]]]
      BY DEF mtc_simple_router_destroy
    <2> HIDE DEF b, end
    <2>2. IsRouter(b)
      BY <1>2 DEF Linked, b
    <2>3. /\ IsRouter(end) /\ end.born = b.born /\ end.refs = b.refs
          /\ end.linked = b.linked /\ end.rrefs = b.rrefs
          /\ end.ring = b.ring /\ end.cache = b.cache
          /\ end.enabled = b.enabled /\ end.owner = b.owner
      BY <2>1, <2>2 DEF IsRouter, Fields
    <2>4. end.aborted = (one.ring # {})
      BY <2>1, <2>2 DEF IsRouter, Fields
    <2>5. end.aborted \in BOOLEAN
      BY <2>4
    <2> QED  BY <1>2, <2>3, <2>4, <2>5 DEF Linked, CoreType, b
  <1> HIDE DEF one, bare, end
  <1>4. RouterUnref(r) = IF one.rrefs = 0 THEN end ELSE one
    BY DEF RouterUnref, one, end
  <1>5. r.rrefs \in Int /\ one.ring = r.linked
    BY <1>1 DEF Linked, CoreType
  <1>6. CASE r.rrefs = 1
    BY <1>1, <1>2, <1>3, <1>4, <1>5, <1>6 DEF Keeps
  <1>7. CASE r.rrefs # 1
    BY <1>1, <1>4, <1>5, <1>7
  <1> QED  BY <1>6, <1>7

(* The last reference to a peer takes its link and its reference to the    *)
(* router.                                                                 *)
LEMMA PeerUnrefKeeps ==
  ASSUME NEW r, Linked(r), NEW p \in Peers, r.refs[p] = 1
  PROVE  LET s == PeerUnref(r, p)
         IN  /\ Linked(s)
             /\ s.born = r.born /\ s.refs = [r.refs EXCEPT ![p] = 0]
             /\ s.linked = r.linked \ {p} /\ s.rrefs = r.rrefs - 1
             /\ s.aborted = IF r.rrefs = 1 THEN r.linked \ {p} # {} ELSE r.aborted
  <1> DEFINE one == [r EXCEPT !.refs[p] = @ - 1]
             shut == mtc_simple_peer_close(one, p)
  <1>1. /\ Linked(one) /\ one.refs = [r.refs EXCEPT ![p] = 0] /\ one.refs[p] = 0
        /\ one.born = r.born /\ one.linked = r.linked
        /\ one.rrefs = r.rrefs /\ one.aborted = r.aborted
    <2>1. /\ IsRouter(one)
          /\ one.born = r.born /\ one.linked = r.linked
          /\ one.rrefs = r.rrefs /\ one.aborted = r.aborted
          /\ one.ring = r.ring /\ one.cache = r.cache
          /\ one.enabled = r.enabled /\ one.owner = r.owner
      BY DEF Linked, IsRouter, Fields
    <2>2. one.refs = [r.refs EXCEPT ![p] = 0]
      BY DEF Linked, IsRouter, Fields
    <2> HIDE DEF one
    <2> QED  BY <2>1, <2>2 DEF Linked, CoreType
  <1> HIDE DEF one
  <1>2. Linked(shut) /\ Keeps(shut, one, {p})
    BY <1>1, CloseKeeps
  <1>3. PeerUnref(r, p) = RouterUnref(shut)
    BY <1>1 DEF PeerUnref, mtc_simple_peer_destroy, one
  <1> HIDE DEF shut
  <1> DEFINE s == RouterUnref(shut)
  <1>4. /\ Linked(s)
        /\ s.born = shut.born /\ s.refs = shut.refs /\ s.linked = shut.linked
        /\ s.rrefs = shut.rrefs - 1
        /\ s.aborted = IF shut.rrefs = 1 THEN shut.linked # {} ELSE shut.aborted
    BY <1>2, RouterUnrefKeeps
  <1> HIDE DEF s
  <1> QED  BY <1>1, <1>2, <1>3, <1>4 DEF Keeps, s

(* mtc_simple_router_add gives a new peer a link, one reference, and one   *)
(* to the router.                                                          *)
LEMMA AddLinks ==
  ASSUME NEW r, Linked(r), NEW p \in Peers, NEW close_fd
  PROVE  LET s == mtc_simple_router_add(r, p, close_fd)
         IN  /\ Linked(s)
             /\ s.born = r.born \cup {p} /\ s.refs = [r.refs EXCEPT ![p] = 1]
             /\ s.linked = r.linked \cup {p}
             /\ s.rrefs = r.rrefs + 1 /\ s.aborted = r.aborted
  <1> DEFINE held1 == PeerInit(r, p)
             link == NewLink(held1, p, close_fd)
             in == mtc_simple_peer_insert(link, p)
             new == mtc_simple_peer_setup_events(in, p)
             s == mtc_simple_router_add(r, p, close_fd)
  <1>1. /\ IsRouter(new)
        /\ new.born = r.born \cup {p} /\ new.refs = [r.refs EXCEPT ![p] = 1]
        /\ new.linked = r.linked \cup {p} /\ new.ring = r.ring \cup {p}
        /\ new.owner = [r.owner EXCEPT ![p] = "peer"]
        /\ new.enabled = [r.enabled EXCEPT ![p] = TRUE]
        /\ new.cache = r.cache
        /\ new.rrefs = r.rrefs + 1 /\ new.aborted = r.aborted
    <2>1. /\ IsRouter(held1)
          /\ Core(held1) = Core([r EXCEPT !.born = @ \cup {p}, !.refs[p] = 1,
                                         !.rrefs = @ + 1])
      BY DEF Linked, IsRouter, Fields, Core, PeerInit
    <2>2. IsRouter(link) /\ Core(link) = Core([held1 EXCEPT !.linked = @ \cup {p}])
      <3> HIDE DEF held1
      <3> QED  BY <2>1 DEF IsRouter, Fields, Core, NewLink
    <2>3. IsRouter(in) /\ Core(in) = Core([link EXCEPT !.ring = @ \cup {p}])
      <3> HIDE DEF link
      <3> QED  BY <2>2 DEF IsRouter, Fields, Core, mtc_simple_peer_insert
    <2>4. /\ IsRouter(new)
          /\ Core(new) = Core([in EXCEPT !.owner[p] = "peer", !.enabled[p] = TRUE])
      <3> HIDE DEF in
      <3> QED  BY <2>3 DEF IsRouter, Fields, Core, mtc_simple_peer_setup_events
    <2> HIDE DEF held1, link, in, new
    <2> QED  BY <2>1, <2>2, <2>3, <2>4 DEF Linked, IsRouter, Fields, Core
  <1>2. s = mtc_simple_peer_set_backend(new, p, r.mgr)
    BY DEF mtc_simple_router_add
  <1> HIDE DEF held1, link, in, new, s
  <1>3. IsRouter(s) /\ Core(s) = Core(new)
    BY <1>1, <1>2, SetBackendCore
  <1>4. Linked(new)
    BY <1>1 DEF Linked, CoreType
  <1>5. Linked(s) /\ Keeps(s, new, {})
    BY <1>3, <1>4, SameCore
  <1> QED  BY <1>1, <1>5 DEF Keeps, s

(* Another manager for the router changes no reference.                    *)
LEMMA SetEventMgrKeeps ==
  ASSUME NEW r, Linked(r), NEW m
  PROVE  /\ Linked(mtc_simple_router_set_event_mgr(r, m))
         /\ Keeps(mtc_simple_router_set_event_mgr(r, m), r, {})
  <1>1. /\ IsRouter(mtc_simple_router_set_event_mgr(r, m))
        /\ Core(mtc_simple_router_set_event_mgr(r, m)) = Core(r)
    BY DEF mtc_simple_router_set_event_mgr, Linked, IsRouter, Fields, Core
  <1> QED  BY <1>1, SameCore

-----------------------------------------------------------------------------
(* The stack: a sync step is for a peer that the application holds.        *)
StepsHeld(s, ms) ==
  /\ s \in Seq(Frames)
  /\ \A k \in 1..Len(s) : s[k].kind = "step" => s[k].peer \in ms

(* An entry for a held peer may go on the stack.                           *)
LEMMA PushHeld ==
  ASSUME NEW s, NEW ms, StepsHeld(s, ms),
         NEW f \in Frames, f.kind = "step" => f.peer \in ms
  PROVE  StepsHeld(<<f>> \o s, ms)
  <1>1. <<f>> \o s \in Seq(Frames) /\ Len(<<f>> \o s) = Len(s) + 1
    BY DEF StepsHeld
  <1>2. \A k \in 1..Len(<<f>> \o s) : (<<f>> \o s)[k] = IF k = 1 THEN f ELSE s[k - 1]
    BY DEF StepsHeld
  <1>3. \A k \in 1..(Len(s) + 1) : k # 1 => k - 1 \in 1..Len(s)
    BY DEF StepsHeld
  <1> QED  BY <1>1, <1>2, <1>3 DEF StepsHeld

(* The entries below the top remain for held peers.                        *)
LEMMA PopHeld ==
  ASSUME NEW s, NEW ms, StepsHeld(s, ms), s # <<>>
  PROVE  /\ StepsHeld(Tail(s), ms)
         /\ Head(s) \in Frames /\ (Head(s).kind = "step" => Head(s).peer \in ms)
  <1>1. Tail(s) \in Seq(Frames) /\ Len(Tail(s)) = Len(s) - 1 /\ Len(s) \in Nat \ {0}
    BY DEF StepsHeld
  <1>2. \A k \in 1..Len(Tail(s)) : Tail(s)[k] = s[k + 1] /\ k + 1 \in 1..Len(s)
    BY <1>1 DEF StepsHeld
  <1>3. Head(s) = s[1] /\ 1 \in 1..Len(s)
    BY <1>1
  <1> QED  BY <1>1, <1>2, <1>3 DEF StepsHeld

(* What is left to do in an entry does not matter to that.                 *)
LEMMA TodoHeld ==
  ASSUME NEW s, NEW ms, StepsHeld(s, ms), s # <<>>, NEW todo \in Seq(Items)
  PROVE  StepsHeld(<<[Head(s) EXCEPT !.todo = todo]>> \o Tail(s), ms)
  <1> DEFINE f == [Head(s) EXCEPT !.todo = todo]
  <1>1. /\ StepsHeld(Tail(s), ms) /\ Head(s) \in Frames
        /\ Head(s).kind = "step" => Head(s).peer \in ms
    BY PopHeld
  <1>2. f \in Frames /\ f.kind = Head(s).kind /\ f.peer = Head(s).peer
    BY <1>1 DEF Frames
  <1> HIDE DEF f
  <1> QED  BY <1>1, <1>2, PushHeld DEF f

(* What Frame makes is an entry of the stack.                              *)
LEMMA FrameTyped ==
  ASSUME NEW kind \in {"event", "call", "step"}, NEW p \in Peers, NEW todo \in Seq(Items)
  PROVE  /\ Frame(kind, p, todo) \in Frames
         /\ Frame(kind, p, todo).kind = kind /\ Frame(kind, p, todo).peer = p
  BY DEF Frame, Frames

(* The lists that the actions leave to do are lists of items.              *)
LEMMA ItemsTyped ==
  /\ <<>> \in Seq(Items) /\ <<"reset">> \in Seq(Items) /\ <<"app">> \in Seq(Items)
  /\ <<"app", "recv">> \in Seq(Items) /\ <<"reset", "recv">> \in Seq(Items)
  /\ <<"reset", "deliver", "recv">> \in Seq(Items) /\ <<"wait", "done">> \in Seq(Items)
  /\ <<"send">> \in Seq(Items) /\ <<"recv">> \in Seq(Items)
  BY DEF Items

-----------------------------------------------------------------------------
(* The invariant, without the references and with them.  The steps of links*)
(* and most of the application's calls keep the first and leave all        *)
(* references alone (Quiet), whoever holds them.                           *)
Base == Linked(rt) /\ StepsHeld(stack, mine) /\ mine \subseteq rt.born
SafeInv == Linked(rt) /\ HeldBy(rt, mine, held) /\ StepsHeld(stack, mine)

Quiet ==
  /\ Linked(rt') /\ \E gone : Keeps(rt', rt, gone)
  /\ UNCHANGED <<mine, held>> /\ StepsHeld(stack', mine)

(* What is known of the references is not needed for those steps.          *)
LEMMA SafeIsBase == SafeInv => Base
  BY DEF SafeInv, Base, HeldBy

(* Adding and dropping one reference of the application counts as one.     *)
LEMMA MineCounted ==
  ASSUME NEW ms \in SUBSET Peers
  PROVE  /\ Cardinality(ms) \in Nat /\ (Cardinality(ms) = 0 <=> ms = {})
         /\ \A p \in Peers \ ms : Cardinality(ms \cup {p}) = Cardinality(ms) + 1
         /\ \A p \in ms : Cardinality(ms \ {p}) = Cardinality(ms) - 1
  <1>1. IsFiniteSet(ms)
    BY RouterAssumptions, FS_Subset
  <1> QED  BY <1>1, FS_CardinalityType, FS_EmptySet, FS_AddElement, FS_RemoveElement

(* A new router has no peer, and the application has the reference to it.  *)
LEMMA SafeInit == Init => SafeInv
  <1> SUFFICES ASSUME Init PROVE SafeInv  OBVIOUS
  <1>1. Linked(rt)
    <2>1. DOMAIN rt = Fields
      BY DEF Init, Fields
    <2>2. rt = [x \in Fields |-> rt[x]]
      BY DEF Init, Fields
    <2>3. /\ CoreType(rt) /\ rt.ring = {} /\ rt.linked = {} /\ rt.cache = None
          /\ \A p \in Peers : ~rt.enabled[p]
      BY DEF Init, CoreType
    <2> QED  BY <2>1, <2>2, <2>3 DEF Linked, IsRouter
  <1>2. HeldBy(rt, mine, held)
    BY FS_EmptySet DEF Init, HeldBy, One
  <1>3. StepsHeld(stack, mine)
    BY DEF Init, StepsHeld
  <1> QED  BY <1>1, <1>2, <1>3 DEF SafeInv

(* A step that leaves the references alone keeps the invariant.            *)
LEMMA QuietSafe ==
  ASSUME SafeInv, Quiet
  PROVE  SafeInv'
  BY DEF SafeInv, Quiet, HeldBy, Keeps

(* Going on with the top entry keeps its peer.                             *)
LEMMA ThenHeld ==
  ASSUME Base, stack # <<>>, Top.todo # <<>>, NEW items \in Seq(Items), Then(items)
  PROVE  StepsHeld(stack', mine)
  <1>1. Head(stack) \in Frames /\ StepsHeld(stack, mine)
    BY PopHeld DEF Base
  <1>2. items \o Tail(Top.todo) \in Seq(Items)
    BY <1>1 DEF Top, Frames
  <1> QED  BY <1>1, <1>2, TodoHeld DEF Then, Doing, Top

(* Entering a callback or a step for a held peer.                          *)
LEMMA EnterHeld ==
  ASSUME Base, NEW kind \in {"event", "call", "step"}, NEW p \in mine,
         NEW todo \in Seq(Items), Enter(Frame(kind, p, todo))
  PROVE  StepsHeld(stack', mine)
  <1>1. p \in Peers
    BY DEF Base, Linked, CoreType
  <1>2. /\ Frame(kind, p, todo) \in Frames
        /\ Frame(kind, p, todo).peer = p
    BY <1>1, FrameTyped
  <1> HIDE DEF Frame
  <1> QED  BY <1>2, PushHeld DEF Base, Enter

(* The top entry is for a peer.                                            *)
LEMMA TopPeer ==
  ASSUME Base, stack # <<>>
  PROVE  Top.peer \in Peers
  <1>1. Head(stack) \in Frames
    BY PopHeld DEF Base
  <1> QED  BY <1>1 DEF Top, Frames

-----------------------------------------------------------------------------
(* The steps of the application.                                           *)

(* mtc_simple_router_add. *)
LEMMA RouterAddSafe ==
  ASSUME SafeInv, NEW p \in Peers, NEW close_fd \in BOOLEAN, RouterAdd(p, close_fd)
  PROVE  SafeInv'
  <1>1. /\ p \notin rt.born /\ rt' = mtc_simple_router_add(rt, p, close_fd)
        /\ mine' = mine \cup {p} /\ UNCHANGED <<stack, held>>
    BY DEF RouterAdd
  <1>2. /\ Linked(rt') /\ rt'.born = rt.born \cup {p}
        /\ rt'.refs = [rt.refs EXCEPT ![p] = 1]
        /\ rt'.linked = rt.linked \cup {p}
        /\ rt'.rrefs = rt.rrefs + 1 /\ rt'.aborted = rt.aborted
    BY <1>1, AddLinks DEF SafeInv
  <1>3. mine \subseteq Peers /\ p \notin mine
    BY <1>1 DEF SafeInv, HeldBy, Linked, CoreType
  <1>4. Cardinality(mine') = Cardinality(mine) + 1 /\ Cardinality(mine) \in Nat
    BY <1>1, <1>3, MineCounted
  <1>5. HeldBy(rt', mine', held')
    BY <1>1, <1>2, <1>4 DEF SafeInv, HeldBy, Linked, CoreType, One
  <1>6. StepsHeld(stack', mine')
    BY <1>1 DEF SafeInv, StepsHeld
  <1> QED  BY <1>2, <1>5, <1>6 DEF SafeInv

(* The application drops a peer that no sync step is for: its link goes    *)
(* with it.                                                                *)
LEMMA AppUnrefSafe ==
  ASSUME SafeInv, NEW p \in Peers, AppUnref(p)
  PROVE  SafeInv'
  <1>1. /\ p \in mine /\ Steps(p) = {} /\ rt' = PeerUnref(rt, p)
        /\ mine' = mine \ {p} /\ UNCHANGED <<stack, held>>
    BY DEF AppUnref
  <1>2. rt.refs[p] = 1 /\ Linked(rt)
    BY <1>1 DEF SafeInv, HeldBy, One
  <1>3. /\ Linked(rt')
        /\ rt'.born = rt.born /\ rt'.refs = [rt.refs EXCEPT ![p] = 0]
        /\ rt'.linked = rt.linked \ {p} /\ rt'.rrefs = rt.rrefs - 1
        /\ rt'.aborted = IF rt.rrefs = 1 THEN rt.linked \ {p} # {} ELSE rt.aborted
    BY <1>1, <1>2, PeerUnrefKeeps
  <1>4. mine \subseteq Peers /\ mine' \subseteq Peers
    BY <1>1 DEF SafeInv, HeldBy, Linked, CoreType
  <1>5. /\ Cardinality(mine') = Cardinality(mine) - 1
        /\ Cardinality(mine') \in Nat /\ Cardinality(mine) \in Nat
        /\ Cardinality(mine') = 0 => mine' = {}
    BY <1>1, <1>4, MineCounted
  <1>6. rt.linked \ {p} \subseteq mine'
    BY <1>1 DEF SafeInv, HeldBy
  <1>7. ~rt'.aborted
    <2>1. rt.rrefs = 1 => Cardinality(mine') = 0
      BY <1>1, <1>5 DEF SafeInv, HeldBy, One
    <2> QED  BY <1>3, <1>5, <1>6, <2>1 DEF SafeInv, HeldBy
  <1>8. HeldBy(rt', mine', held')
    <2>1. rt'.rrefs = One(held') + Cardinality(mine')
      BY <1>1, <1>3, <1>5 DEF SafeInv, HeldBy, One
    <2>2. \A q \in Peers : rt'.refs[q] = One(q \in mine')
      BY <1>1, <1>3 DEF SafeInv, HeldBy, Linked, CoreType, One
    <2> QED  BY <1>1, <1>3, <1>6, <1>7, <2>1, <2>2 DEF SafeInv, HeldBy
  <1>9. StepsHeld(stack', mine')
    BY <1>1 DEF SafeInv, StepsHeld, Steps
  <1> QED  BY <1>3, <1>8, <1>9 DEF SafeInv

(* The application drops the router, which stays while a peer refers to    *)
(* it.                                                                     *)
LEMMA AppUnrefRouterSafe ==
  ASSUME SafeInv, AppUnrefRouter
  PROVE  SafeInv'
  <1>1. /\ held /\ ~held' /\ rt' = RouterUnref(rt) /\ UNCHANGED <<stack, mine>>
    BY DEF AppUnrefRouter
  <1>2. /\ Linked(rt')
        /\ rt'.born = rt.born /\ rt'.refs = rt.refs /\ rt'.linked = rt.linked
        /\ rt'.rrefs = rt.rrefs - 1
        /\ rt'.aborted = IF rt.rrefs = 1 THEN rt.linked # {} ELSE rt.aborted
    BY <1>1, RouterUnrefKeeps DEF SafeInv
  <1>3. mine \subseteq Peers
    BY DEF SafeInv, HeldBy, Linked, CoreType
  <1>4. /\ Cardinality(mine) \in Nat
        /\ Cardinality(mine) = 0 => mine = {}
    BY <1>3, MineCounted
  <1>5. rt'.rrefs = One(held') + Cardinality(mine')
    BY <1>1, <1>2, <1>4 DEF SafeInv, HeldBy, One
  <1>6. ~rt'.aborted
    <2>1. rt.rrefs = 1 => mine = {}
      BY <1>1, <1>4 DEF SafeInv, HeldBy, One
    <2> QED  BY <1>2, <2>1 DEF SafeInv, HeldBy
  <1>7. HeldBy(rt', mine', held')
    BY <1>1, <1>2, <1>5, <1>6 DEF SafeInv, HeldBy
  <1> QED  BY <1>1, <1>2, <1>7 DEF SafeInv

(* What the application does outside and inside of callbacks, but for      *)
(* dropping references.                                                    *)
LEMMA ApplicationQuiet ==
  ASSUME Base, Application, ~AppUnrefRouter, \A p \in Peers : ~AppUnref(p)
  PROVE  Quiet
  <1> USE ItemsTyped
  <1>0. Linked(rt) /\ mine \subseteq Peers /\ StepsHeld(stack, mine)
    BY DEF Base, Linked, CoreType
  <1>2. ASSUME NEW m \in Mgrs \cup {None}, SetEventMgr(m)  PROVE Quiet
    <2>1. Linked(rt') /\ Keeps(rt', rt, {})
      BY <1>0, <1>2, SetEventMgrKeeps DEF SetEventMgr
    <2> QED  BY <1>0, <1>2, <2>1 DEF Quiet, SetEventMgr, appVars
  <1>3. ASSUME NEW p \in Peers, mtc_simple_peer_disconnect(p)  PROVE Quiet
    <2>1. Linked(rt') /\ Keeps(rt', rt, {p})
      BY <1>0, <1>3, DiscardKeeps DEF mtc_simple_peer_disconnect
    <2>2. StepsHeld(stack', mine)
      BY <1>3, EnterHeld DEF mtc_simple_peer_disconnect
    <2> QED  BY <1>3, <2>1, <2>2 DEF Quiet, mtc_simple_peer_disconnect, appVars
  <1>4. ASSUME NEW p \in Peers, mtc_simple_peer_sendto(p)  PROVE Quiet
    <2>1. CASE p \in rt.linked
      <3>1. rt' = [rt EXCEPT !.unsent[p] = @ + 1] /\ UNCHANGED <<stack, mine, held>>
        BY <1>4, <2>1 DEF mtc_simple_peer_sendto, appVars
      <3>2. IsRouter(rt') /\ Core(rt') = Core(rt)
        BY <1>0, <3>1 DEF Linked, IsRouter, Fields, Core
      <3> QED  BY <1>0, <3>1, <3>2, SameCore DEF Quiet
    <2>2. CASE p \notin rt.linked
      <3>1. /\ Enter(Frame("call", p, <<"reset">>)) /\ UNCHANGED <<rt, mine, held>>
            /\ p \in mine
        BY <1>4, <2>2 DEF mtc_simple_peer_sendto, appVars
      <3>2. StepsHeld(stack', mine)
        BY <3>1, EnterHeld
      <3>3. Keeps(rt', rt, {})
        BY <3>1 DEF Keeps
      <3> QED  BY <1>0, <3>1, <3>2, <3>3 DEF Quiet
    <2> QED  BY <2>1, <2>2
  <1>5. ASSUME NEW p \in Peers, mtc_simple_peer_sync_io_step(p)  PROVE Quiet
    <2>1. /\ p \in mine /\ p \in rt.linked /\ UNCHANGED <<mine, held>>
          /\ rt' = mtc_simple_router_set_sync_cache(rt, p)
          /\ stack' = stack \/ Enter(Frame("step", p, <<"wait", "done">>))
      BY <1>5 DEF mtc_simple_peer_sync_io_step, appVars
    <2>2. Linked(rt') /\ Keeps(rt', rt, {})
      BY <1>0, <2>1, SetCacheKeeps
    <2>3. StepsHeld(stack', mine)
      BY <1>0, <2>1, EnterHeld
    <2> QED  BY <2>1, <2>2, <2>3 DEF Quiet
  <1> QED
    BY <1>2, <1>3, <1>4, <1>5 DEF Application

-----------------------------------------------------------------------------
(* The steps of a link and of its callbacks.                               *)

(* A link that is lost. *)
LEMMA BrokenQuiet ==
  ASSUME Base, stack # <<>>, Broken(Top.peer), UNCHANGED <<mine, held>>
  PROVE  Quiet
  <1> DEFINE p == Top.peer
             r == [rt EXCEPT !.status[p] = "broken"]
  <1>1. p \in Peers /\ Linked(rt)
    BY TopPeer DEF Base
  <1>2. IsRouter(r) /\ Core(r) = Core(rt)
    BY <1>1 DEF Linked, IsRouter, Fields, Core
  <1> HIDE DEF p
  <1>3. Linked(r) /\ Keeps(r, rt, {})
    BY <1>1, <1>2, SameCore
  <1>4. rt' = mtc_simple_peer_discard(r, p) \/ rt' = FlushEnds(r, p)
    BY DEF Broken, p
  <1> HIDE DEF r
  <1>5. Linked(rt') /\ \E gone : Keeps(rt', r, gone)
    <2>1. Linked(mtc_simple_peer_discard(r, p)) /\ Keeps(mtc_simple_peer_discard(r, p), r, {p})
      BY <1>1, <1>3, DiscardKeeps
    <2>2. IsRouter(FlushEnds(r, p)) /\ Core(FlushEnds(r, p)) = Core(r)
      BY <1>3, FlushEndsCore DEF Linked
    <2>3. Linked(FlushEnds(r, p)) /\ Keeps(FlushEnds(r, p), r, {})
      BY <1>3, <2>2, SameCore
    <2> QED  BY <1>4, <2>1, <2>3
  <1>6. \E gone : Keeps(rt', rt, gone)
    BY <1>3, <1>5 DEF Keeps
  <1>7. StepsHeld(stack', mine)
    BY ItemsTyped, TodoHeld DEF Broken, Doing, Base, Top
  <1> QED  BY <1>5, <1>6, <1>7 DEF Quiet

(* A change of what does not lead to peers.                                *)
LEMMA OutsideQuiet ==
  ASSUME Base, IsRouter(rt'), Core(rt') = Core(rt), UNCHANGED <<mine, held>>,
         StepsHeld(stack', mine)
  PROVE  Quiet
  BY SameCore DEF Base, Quiet

(* What a link reports to its peer: received, broken or stopped.           *)
LEMMA LinkEventQuiet ==
  ASSUME Base, LinkEvent
  PROVE  Quiet
  <1> USE ItemsTyped
  <1> DEFINE p == Top.peer
  <1>0. Linked(rt) /\ IsRouter(rt) /\ StepsHeld(stack, mine)
    BY DEF Base, Linked
  <1>1. CASE SendSome
    <2>1. /\ stack # <<>> /\ Top.todo # <<>> /\ Then(<<>>) /\ UNCHANGED <<mine, held>>
      BY <1>1 DEF SendSome, At, appVars
    <2>2. PICK n : LET sent == [rt EXCEPT !.unsent[p] = @ - n]
                   IN  rt' = IF sent.unsent[p] = 0 THEN FlushEnds(sent, p) ELSE sent
      BY <1>1 DEF SendSome
    <2> DEFINE sent == [rt EXCEPT !.unsent[p] = @ - n]
    <2>3. IsRouter(sent) /\ Core(sent) = Core(rt)
      BY <1>0 DEF IsRouter, Fields, Core
    <2>4. rt' = FlushEnds(sent, p) \/ rt' = sent
      BY <2>2
    <2> HIDE DEF sent
    <2>5. IsRouter(rt') /\ Core(rt') = Core(rt)
      BY <2>3, <2>4, FlushEndsCore
    <2> QED  BY <2>1, <2>5, ThenHeld, OutsideQuiet
  <1>2. CASE SendBreaks
    BY <1>2, BrokenQuiet DEF SendBreaks, At, appVars
  <1>3. CASE ReceiveBreaks
    BY <1>3, BrokenQuiet DEF ReceiveBreaks, At, Takes, appVars
  <1>4. CASE ReceiveMail
    <2>1. stack # <<>> /\ Top.todo # <<>> /\ Then(<<"app", "recv">>) /\ UNCHANGED <<rt, mine, held>>
      BY <1>4 DEF ReceiveMail, At, Takes, appVars
    <2> QED  BY <1>0, <2>1, ThenHeld, OutsideQuiet
  <1>5. CASE ReceiveJunk
    <2>1. /\ stack # <<>> /\ Top.todo # <<>> /\ Then(<<"reset", "recv">>) /\ UNCHANGED <<mine, held>>
          /\ rt' = mtc_simple_peer_discard(rt, p)
      BY <1>5 DEF ReceiveJunk, At, Takes, appVars
    <2>2. Linked(rt') /\ Keeps(rt', rt, {p})
      BY <1>0, <2>1, TopPeer, DiscardKeeps
    <2> QED  BY <2>1, <2>2, ThenHeld DEF Quiet
  <1>6. CASE ReceiveStop
    <2> DEFINE r == [rt EXCEPT !.status[p] = "stopped"]
    <2>1. /\ stack # <<>> /\ Top.todo # <<>> /\ UNCHANGED <<mine, held>>
          /\ Then(<<"reset", "deliver", "recv">>)
          /\ rt' = mtc_simple_peer_discard(r, p)
      BY <1>6 DEF ReceiveStop, At, Takes, appVars
    <2>2. IsRouter(r) /\ Core(r) = Core(rt)
      BY <1>0 DEF IsRouter, Fields, Core
    <2> HIDE DEF r
    <2>3. Linked(r) /\ Keeps(r, rt, {})
      BY <1>0, <2>2, SameCore
    <2>4. Linked(rt') /\ Keeps(rt', r, {p})
      BY <2>1, <2>3, TopPeer, DiscardKeeps
    <2>5. Keeps(rt', rt, {p})
      BY <2>3, <2>4 DEF Keeps
    <2> QED  BY <2>1, <2>4, <2>5, ThenHeld DEF Quiet
  <1>7. CASE DeliverStopped
    <2>1. /\ stack # <<>> /\ Top.todo # <<>> /\ UNCHANGED <<mine, held>>
          /\ \/ Then(<<"app">>) /\ rt' = rt
             \/ Then(<<"reset">>) /\ rt' = mtc_simple_peer_discard(rt, p)
      BY <1>7 DEF DeliverStopped, At, appVars
    <2>2. StepsHeld(stack', mine)
      BY <2>1, ThenHeld
    <2>3. CASE rt' = rt
      BY <1>0, <2>1, <2>2, <2>3, OutsideQuiet
    <2>4. CASE rt' = mtc_simple_peer_discard(rt, p)
      <3>1. Linked(rt') /\ Keeps(rt', rt, {p})
        BY <1>0, <2>1, <2>4, TopPeer, DiscardKeeps
      <3> QED  BY <2>1, <2>2, <3>1 DEF Quiet
    <2> QED  BY <2>1, <2>3, <2>4
  <1>8. CASE ReceiveDropped
    <2>1. PICK status : rt' = [rt EXCEPT !.status[p] = status]
      BY <1>8 DEF ReceiveDropped
    <2>2. IsRouter(rt') /\ Core(rt') = Core(rt)
      BY <1>0, <2>1 DEF IsRouter, Fields, Core
    <2> QED  BY <1>0, <1>8, <2>2, OutsideQuiet DEF ReceiveDropped, Takes, appVars
  <1>9. CASE ReceiveEnds \/ Return
    <2>1. stack # <<>> /\ Top.todo # <<>> /\ Then(<<>>) /\ UNCHANGED <<rt, mine, held>>
      BY <1>9 DEF ReceiveEnds, Return, At, appVars
    <2> QED  BY <1>0, <2>1, ThenHeld, OutsideQuiet
  <1>10. CASE FrameEnds
    <2>1. stack # <<>> /\ stack' = Tail(stack) /\ UNCHANGED <<mine, held>>
          /\ (rt' = LinkUnref(rt, p) \/ rt' = rt)
      BY <1>10 DEF FrameEnds, appVars
    <2>2. IsRouter(rt') /\ Core(rt') = Core(rt)
      BY <1>0, <2>1, LinkUnrefCore
    <2> QED  BY <1>0, <2>1, <2>2, PopHeld, OutsideQuiet
  <1>11. CASE StepReturns
    <2>1. stack # <<>> /\ stack' = Tail(stack) /\ UNCHANGED <<rt, mine, held>>
      BY <1>11 DEF StepReturns, At, appVars
    <2> QED  BY <1>0, <2>1, PopHeld, OutsideQuiet
  <1> QED
    BY <1>1, <1>2, <1>3, <1>4, <1>5, <1>6, <1>7, <1>8, <1>9, <1>10, <1>11
    DEF LinkEvent

(* mtc_peer_reset runs the notifications after the link is gone.           *)
LEMMA ResetQuiet ==
  ASSUME Base, Reset
  PROVE  Quiet
  <1>1. stack # <<>> /\ Top.todo # <<>> /\ Then(<<"app">>) /\ UNCHANGED <<rt, mine, held>>
    BY DEF Reset, At, appVars
  <1>2. Linked(rt)
    BY DEF Base
  <1> QED  BY <1>1, <1>2, ItemsTyped, ThenHeld, OutsideQuiet DEF Linked

-----------------------------------------------------------------------------
(* The loops and the remote ends.                                          *)

(* What a loop starts for a link that is ready is the frame of an event. *)
LEMMA EventFrameTyped ==
  ASSUME NEW p \in Peers, NEW flags
  PROVE  EventFrame(p, flags) \in Frames /\ EventFrame(p, flags).kind = "event"
  <1> DEFINE todo == (IF "send" \in flags THEN <<"send">> ELSE <<>>)
                       \o (IF "recv" \in flags THEN <<"recv">> ELSE <<>>)
  <1>1. todo \in Seq(Items)
    BY ItemsTyped
  <1>2. EventFrame(p, flags) = Frame("event", p, todo)
    BY DEF EventFrame
  <1> HIDE DEF todo
  <1>3. Frame("event", p, todo) \in Frames /\ Frame("event", p, todo).kind = "event"
    BY <1>1, FrameTyped
  <1> QED  BY <1>2, <1>3

(* An event on a link starts on an idle stack or inside a sync step, and   *)
(* only takes a reference to the link.                                     *)
LEMMA EventQuiet ==
  ASSUME Base, NEW p \in Peers, NEW flags, Event(p, flags)
  PROVE  Quiet
  <1>1. Linked(rt) /\ IsRouter(rt) /\ StepsHeld(stack, mine)
    BY DEF Base, Linked
  <1>2. rt' = [rt EXCEPT !.lrefs[p] = @ + 1] /\ UNCHANGED <<mine, held>>
    BY DEF Event, appVars
  <1>3. IsRouter(rt') /\ Core(rt') = Core(rt)
    BY <1>1, <1>2 DEF IsRouter, Fields, Core
  <1> DEFINE f == EventFrame(p, flags)
  <1>4. f \in Frames /\ f.kind = "event"
    BY EventFrameTyped
  <1> HIDE DEF f
  <1>5. CASE stack = <<>> /\ stack' = <<f>>
    <2>1. <<f>> = <<f>> \o <<>>
      BY <1>4
    <2> QED  BY <1>1, <1>2, <1>3, <1>4, <1>5, <2>1, PushHeld, OutsideQuiet
  <1>6. CASE /\ At("wait")
             /\ stack' = <<f, [Top EXCEPT !.todo = Tail(@)]>> \o Tail(stack)
    <2> DEFINE rest == <<[Head(stack) EXCEPT !.todo = Tail(@)]>> \o Tail(stack)
               g == [Head(stack) EXCEPT !.todo = Tail(@)]
    <2>1. /\ stack # <<>> /\ Head(stack) \in Frames /\ Head(stack).todo # <<>>
      BY <1>1, <1>6, PopHeld DEF At, Top
    <2>2. Tail(Head(stack).todo) \in Seq(Items) /\ g \in Frames
      BY <2>1, SMTT(30) DEF Frames
    <2>3. StepsHeld(rest, mine)
      BY <1>1, <2>1, <2>2, TodoHeld
    <2>4. Tail(stack) \in Seq(Frames)
      BY <1>1, <2>1, PopHeld DEF StepsHeld
    <2>5. stack' = <<f, g>> \o Tail(stack)
      BY <1>6 DEF Top
    <2>6. <<f, g>> \o Tail(stack) = <<f>> \o (<<g>> \o Tail(stack))
      <3> HIDE DEF g
      <3> QED  BY <1>4, <2>2, <2>4
    <2>7. stack' = <<f>> \o rest
      BY <2>5, <2>6
    <2> HIDE DEF rest
    <2>8. StepsHeld(stack', mine)
      BY <1>4, <2>3, <2>7, PushHeld
    <2> QED  BY <1>2, <1>3, <2>8, OutsideQuiet
  <1> QED  BY <1>5, <1>6 DEF Event, f

(* The remote ends, the events and the flusher.                            *)
LEMMA EnvironmentQuiet ==
  ASSUME Base, Environment
  PROVE  Quiet
  <1>1. ASSUME NEW p \in Peers, NEW what \in Kinds, RemoteSends(p, what)  PROVE Quiet
    <2>1. IsRouter(rt') /\ Core(rt') = Core(rt)
      BY <1>1 DEF RemoteSends, Base, Linked
    <2> QED  BY <1>1, <2>1, OutsideQuiet DEF RemoteSends, Base, appVars
  <1>2. ASSUME NEW p \in Peers, FlushAbandons(p)  PROVE Quiet
    <2>1. IsRouter(rt') /\ Core(rt') = Core(rt)
      BY <1>2, FlushEndsCore DEF FlushAbandons, Base, Linked
    <2> QED  BY <1>2, <2>1, OutsideQuiet DEF FlushAbandons, Base, appVars
  <1> QED  BY <1>1, <1>2, EventQuiet DEF Environment

(* Every step of the router keeps the invariant.                           *)
LEMMA SafeNext ==
  ASSUME SafeInv, [Next]_routerVars
  PROVE  SafeInv'
  <1>1. CASE UNCHANGED routerVars
    BY <1>1 DEF routerVars, appVars, SafeInv
  <1>2. CASE Next
    <2>1. Base
      BY SafeIsBase
    <2>2. CASE \E p \in Peers, close_fd \in BOOLEAN : RouterAdd(p, close_fd)
      BY <2>2, RouterAddSafe
    <2>3. CASE AppUnrefRouter \/ \E p \in Peers : AppUnref(p)
      BY <2>3, AppUnrefSafe, AppUnrefRouterSafe
    <2>4. CASE Application /\ ~AppUnrefRouter /\ \A p \in Peers : ~AppUnref(p)
      BY <2>1, <2>4, ApplicationQuiet, QuietSafe
    <2>5. CASE LinkEvent \/ Reset \/ Environment
      BY <2>1, <2>5, LinkEventQuiet, ResetQuiet, EnvironmentQuiet, QuietSafe
    <2> QED  BY <1>2, <2>2, <2>3, <2>4, <2>5 DEF Next
  <1> QED  BY <1>1, <1>2

(* What is held by the application is alive, so nothing leads to what was  *)
(* freed.                                                                  *)
LEMMA SafeNothingDangles ==
  ASSUME SafeInv
  PROVE  NothingDangles
  <1>1. mine \subseteq Alive /\ rt.linked \subseteq mine
    BY DEF SafeInv, HeldBy, Linked, CoreType, Alive, One
  <1> QED  BY <1>1 DEF NothingDangles, SafeInv, Linked, StepsHeld

(* The router goes when neither the application nor a peer refers to it.   *)
LEMMA SafeGoesLast ==
  ASSUME SafeInv
  PROVE  RouterGoesLast
  <1>1. mine \subseteq Peers /\ mine = Alive
    BY DEF SafeInv, HeldBy, Linked, CoreType, Alive, One
  <1>2. Cardinality(mine) \in Nat
    BY <1>1, MineCounted
  <1> QED  BY <1>1, <1>2 DEF RouterGoesLast, RouterRefs, SafeInv, HeldBy, One

-----------------------------------------------------------------------------
(* The ring, the cache, the callbacks of links and the sync steps lead to  *)
(* peers that have a link, or that the application holds.                  *)
THEOREM RouterInvariant == Spec => []SafeInv
  BY SafeInit, SafeNext, PTL DEF Spec

(* Nothing that is left leads to a peer that was freed                     *)
(* (simple_router.c:163-196, 326).                                         *)
THEOREM NothingLeadsToFreed == Spec => []NothingDangles
  BY RouterInvariant, SafeNothingDangles, PTL

(* The router is referred to by the application and by the peers, and finds*)
(* its ring empty when the last of them is gone (simple_router.c:353).     *)
THEOREM RouterIsLast == Spec => []RouterGoesLast
  BY RouterInvariant, SafeGoesLast, PTL

-----------------------------------------------------------------------------
(* What the router has for each peer, and the sets the peer may be in.     *)
Slots == {"lrefs", "backs", "backend", "owner", "enabled", "status", "unsent",
          "close_fd", "closed"}
Lists == {"born", "linked", "flushing"}

Typed(r) ==
  /\ r.lrefs \in [Peers -> Int] /\ r.closed \in [Peers -> Int]
  /\ r.backs \in [Peers -> SUBSET AllMgrs] /\ r.mrefs \in [AllMgrs -> Int]
  /\ r.backend \in [Peers -> Mgrs \cup {None}] /\ r.mgr \in Mgrs \cup {None}
  /\ r.status \in [Peers -> {"open", "stopped", "broken"}]
  /\ r.unsent \in [Peers -> Nat] /\ r.close_fd \in [Peers -> BOOLEAN]
  /\ r.flushing \subseteq r.born

(* The link of p while e of its events run: its references, and the        *)
(* descriptor that goes with the last.                                     *)
Counted(r, p, e) ==
  /\ r.lrefs[p] = One(p \in r.linked) + One(p \in r.flushing) + e
  /\ r.lrefs[p] = 0 => r.backs[p] = {}
  /\ r.closed[p] = One(p \in r.born /\ r.lrefs[p] = 0 /\ r.close_fd[p])
  /\ p \notin r.born => e = 0 /\ r.backend[p] = None
  /\ p \in r.linked => p \notin r.flushing

(* Who watches it.                                                         *)
Synced(r, p) == {m \in {"sync"} : r.cache = p}
WatchedAt(r, p) ==
  /\ p \in r.linked =>
       /\ r.enabled[p] /\ r.owner[p] = "peer" /\ r.backend[p] = r.mgr
       /\ r.backs[p] = ({r.mgr} \ {None}) \cup Synced(r, p)
  /\ p \notin r.linked =>
       /\ "sync" \notin r.backs[p]
       /\ r.owner[p] = "peer" => r.backs[p] = {}

OpenAt(r, p) == p \in r.linked => r.status[p] = "open"

(* Where what it has not sent has gone.                                    *)
LostAt(r, p) == r.status[p] = "broken" \/ ~r.enabled[p] \/ ~(r.rrefs > 0)
KeptAt(r, p) ==
  p \in r.born \ r.linked /\ p \notin r.flushing /\ r.unsent[p] > 0 => LostAt(r, p)

Good(r, p, e) ==
  Counted(r, p, e) /\ WatchedAt(r, p) /\ OpenAt(r, p) /\ KeptAt(r, p)

(* The references to the managers.                                         *)
Users(r, m) == {p \in Peers : m \in r.backs[p]}
MgrsCounted(r) ==
  \A m \in AllMgrs :
    r.mrefs[m] = Cardinality(Users(r, m))
                   + (IF m = "sync" THEN One(r.rrefs > 0) ELSE 1 + One(m = r.mgr))

(* All of it, with so many events of each link that run.                   *)
AllGood(r, ev) ==
  /\ IsRouter(r) /\ Typed(r) /\ MgrsCounted(r)
  /\ \A p \in Peers : Good(r, p, ev[p])

EventsIn(s, p) == {k \in 1..Len(s) : s[k].kind = "event" /\ s[k].peer = p}
EventCounts(s) == [p \in Peers |-> Cardinality(EventsIn(s, p))]

(* Only a sync step waits for its loop.                                    *)
Shaped(s) ==
  \A k \in 1..Len(s) : s[k].kind = "step" \/ s[k].todo \in Seq(Items \ {"wait", "done"})

LinkInv == AllGood(rt, EventCounts(stack)) /\ Shaped(stack)

-----------------------------------------------------------------------------
(* What an operator of the router changes: of one peer what is in X, and   *)
(* of the others nothing, nor the references to managers but for those of  *)
(* the backends of that peer's link.                                       *)
SameAt(s, r, p, X) ==
  /\ \A x \in Slots \ X : s[x][p] = r[x][p]
  /\ \A x \in Lists \ X : p \in s[x] <=> p \in r[x]
  /\ "cache" \notin X => (s.cache = p <=> r.cache = p)

Rest(r, p) == [m \in AllMgrs |-> r.mrefs[m] - One(m \in r.backs[p])]

Changes(s, r, p, X) ==
  /\ IsRouter(s) /\ Typed(s)
  /\ s.mgr = r.mgr /\ (s.rrefs > 0 <=> r.rrefs > 0) /\ Rest(s, p) = Rest(r, p)
  /\ \A q \in Peers \ {p} : SameAt(s, r, q, {})
  /\ SameAt(s, r, p, X)

(* The slots and lists by their names.                                     *)
LEMMA SameAtFields ==
  ASSUME NEW s, NEW r, NEW p, NEW X
  PROVE  SameAt(s, r, p, X) <=>
           /\ "lrefs" \notin X => s.lrefs[p] = r.lrefs[p]
           /\ "backs" \notin X => s.backs[p] = r.backs[p]
           /\ "backend" \notin X => s.backend[p] = r.backend[p]
           /\ "owner" \notin X => s.owner[p] = r.owner[p]
           /\ "enabled" \notin X => s.enabled[p] = r.enabled[p]
           /\ "status" \notin X => s.status[p] = r.status[p]
           /\ "unsent" \notin X => s.unsent[p] = r.unsent[p]
           /\ "close_fd" \notin X => s.close_fd[p] = r.close_fd[p]
           /\ "closed" \notin X => s.closed[p] = r.closed[p]
           /\ "born" \notin X => (p \in s.born <=> p \in r.born)
           /\ "linked" \notin X => (p \in s.linked <=> p \in r.linked)
           /\ "flushing" \notin X => (p \in s.flushing <=> p \in r.flushing)
           /\ "cache" \notin X => (s.cache = p <=> r.cache = p)
  BY DEF SameAt, Slots, Lists

(* Two functions that change a peer each, one after the other. *)
LEMMA ChangesThen ==
  ASSUME NEW r, NEW s, NEW t, NEW p, NEW X, NEW Y,
         Changes(s, r, p, X), Changes(t, s, p, Y)
  PROVE  Changes(t, r, p, X \cup Y)
  BY DEF Changes, SameAt

(* A function that returns early changes nothing. *)
LEMMA ChangesNothing ==
  ASSUME NEW r, IsRouter(r), Typed(r), NEW p, NEW X
  PROVE  Changes(r, r, p, X)
  BY DEF Changes, SameAt

(* What is changed may be overstated. *)
LEMMA ChangesLess ==
  ASSUME NEW r, NEW s, NEW p, NEW X, NEW Y, Changes(s, r, p, X), X \subseteq Y
  PROVE  Changes(s, r, p, Y)
  BY DEF Changes, SameAt

-----------------------------------------------------------------------------
(* The operators.                                                          *)

(* A backend of the link, taken away and given.                            *)
LEMMA UnbackChanges ==
  ASSUME NEW r, IsRouter(r), Typed(r), NEW p \in Peers, NEW m \in r.backs[p]
  PROVE  /\ Changes(Unback(r, p, m), r, p, {"backs"})
         /\ Unback(r, p, m).backs[p] = r.backs[p] \ {m}
  <1> DEFINE s == Unback(r, p, m)
  <1>1. /\ IsRouter(s)
        /\ s.backs = [r.backs EXCEPT ![p] = @ \ {m}]
        /\ s.mrefs = [r.mrefs EXCEPT ![m] = @ - 1]
        /\ \A x \in Fields \ {"backs", "mrefs"} : s[x] = r[x]
    BY DEF Unback, IsRouter, Fields
  <1> HIDE DEF s
  <1>2. m \in AllMgrs
    BY DEF Typed
  <1>3. Typed(s)
    BY <1>1, <1>2 DEF Typed, Fields
  <1>4. Rest(s, p) = Rest(r, p)
    BY <1>1, <1>2 DEF Rest, Typed, One
  <1>5. SameAt(s, r, p, {"backs"}) /\ \A q \in Peers \ {p} : SameAt(s, r, q, {})
    BY <1>1 DEF SameAt, Slots, Lists, Fields, Typed
  <1>6. s.mgr = r.mgr /\ s.rrefs = r.rrefs
    BY <1>1 DEF Fields
  <1> QED  BY <1>1, <1>3, <1>4, <1>5, <1>6 DEF Changes, Typed, s

(* Attaching a backend to a link adds its manager to those that the link is watched by. *)
LEMMA BackChanges ==
  ASSUME NEW r, IsRouter(r), Typed(r), NEW p \in Peers, NEW m \in AllMgrs \ r.backs[p]
  PROVE  /\ Changes(Back(r, p, m), r, p, {"backs"})
         /\ Back(r, p, m).backs[p] = r.backs[p] \cup {m}
  <1> DEFINE s == Back(r, p, m)
  <1>1. /\ IsRouter(s)
        /\ s.backs = [r.backs EXCEPT ![p] = @ \cup {m}]
        /\ s.mrefs = [r.mrefs EXCEPT ![m] = @ + 1]
        /\ \A x \in Fields \ {"backs", "mrefs"} : s[x] = r[x]
    BY DEF Back, IsRouter, Fields
  <1> HIDE DEF s
  <1>2. Typed(s)
    BY <1>1 DEF Typed, Fields
  <1>3. Rest(s, p) = Rest(r, p)
    BY <1>1 DEF Rest, Typed, One
  <1>4. SameAt(s, r, p, {"backs"}) /\ \A q \in Peers \ {p} : SameAt(s, r, q, {})
    BY <1>1 DEF SameAt, Slots, Lists, Fields, Typed
  <1>5. s.mgr = r.mgr /\ s.rrefs = r.rrefs
    BY <1>1 DEF Fields
  <1> QED  BY <1>1, <1>2, <1>3, <1>4, <1>5 DEF Changes, Typed, s

(* One slot of one peer.                                                   *)
LEMMA SlotChanges ==
  ASSUME NEW r, NEW s, IsRouter(s), Typed(r), Typed(s), NEW p \in Peers,
         NEW x \in Slots \ {"backs"},
         \A y \in Fields \ {x} : s[y] = r[y],
         \A q \in Peers \ {p} : s[x][q] = r[x][q]
  PROVE  Changes(s, r, p, {x})
  <1>1. /\ s.mgr = r.mgr /\ s.rrefs = r.rrefs /\ s.mrefs = r.mrefs /\ s.backs = r.backs
        /\ s.cache = r.cache
        /\ s.born = r.born /\ s.linked = r.linked /\ s.flushing = r.flushing
    BY DEF Fields, Slots
  <1>2. Rest(s, p) = Rest(r, p)
    BY <1>1 DEF Rest
  <1>3. Slots \subseteq Fields /\ Lists = {"born", "linked", "flushing"}
    BY DEF Slots, Lists, Fields
  <1>4. SameAt(s, r, p, {x}) /\ \A q \in Peers \ {p} : SameAt(s, r, q, {})
    BY <1>1, <1>3 DEF SameAt
  <1> QED  BY <1>1, <1>2, <1>4 DEF Changes

(* The manager that is not there is none of those that are. *)
LEMMA NoneIsNoMgr == None \notin AllMgrs /\ "sync" \notin Mgrs /\ Mgrs \subseteq AllMgrs
  BY RouterAssumptions DEF AllMgrs

(* Setting the backend of a peer takes the one it had away.                *)
LEMMA SetBackendChanges ==
  ASSUME NEW r, IsRouter(r), Typed(r), NEW p \in Peers,
         r.backend[p] # None => r.backend[p] \in r.backs[p],
         NEW m \in Mgrs \cup {None}, m \notin r.backs[p] \ {r.backend[p]}
  PROVE  LET s == mtc_simple_peer_set_backend(r, p, m)
         IN  /\ Changes(s, r, p, {"backs", "backend"})
             /\ s.backs[p] = (r.backs[p] \ {r.backend[p]}) \cup ({m} \ {None})
             /\ s.backend[p] = m
  <1> DEFINE off == Unback(r, p, r.backend[p])
             bare == [off EXCEPT !.backend[p] = None]
             none == IF r.backend[p] = None THEN r ELSE bare
             on == Back(none, p, m)
             s == [on EXCEPT !.backend[p] = m]
  <1>1. /\ Changes(none, r, p, {"backs", "backend"})
        /\ none.backs[p] = r.backs[p] \ {r.backend[p]} /\ none.backend[p] = None
    <2>1. CASE r.backend[p] = None
      <3>1. r.backs[p] = r.backs[p] \ {None}
        BY NoneIsNoMgr DEF Typed
      <3> QED  BY <2>1, <3>1, ChangesNothing
    <2>2. CASE r.backend[p] # None
      <3>1. Changes(off, r, p, {"backs"}) /\ off.backs[p] = r.backs[p] \ {r.backend[p]}
        BY <2>2, UnbackChanges
      <3> HIDE DEF off
      <3>2. /\ IsRouter(bare) /\ bare.backend = [off.backend EXCEPT ![p] = None]
            /\ \A x \in Fields \ {"backend"} : bare[x] = off[x]
        BY <3>1 DEF Changes, IsRouter, Fields
      <3> HIDE DEF bare
      <3>3. Typed(bare)
        BY <3>1, <3>2 DEF Changes, Typed, Fields
      <3>4. Changes(bare, off, p, {"backend"})
        BY <3>1, <3>2, <3>3, SlotChanges DEF Slots, Changes, Typed
      <3>5. Changes(bare, r, p, {"backs"} \cup {"backend"})
        BY <3>1, <3>4, ChangesThen
      <3>6. bare.backs[p] = off.backs[p] /\ bare.backend[p] = None
        BY <3>1, <3>2 DEF Fields, Changes, Typed
      <3>7. Changes(bare, r, p, {"backs", "backend"})
        BY <3>5, ChangesLess
      <3> QED  BY <2>2, <3>1, <3>6, <3>7
    <2> QED  BY <2>1, <2>2
  <1> HIDE DEF none
  <1>2. CASE m = None
    <2>1. mtc_simple_peer_set_backend(r, p, m) = none
      BY <1>2 DEF mtc_simple_peer_set_backend, none
    <2> QED  BY <1>1, <1>2, <2>1
  <1>3. CASE m # None
    <2>0. m \in AllMgrs \ none.backs[p] /\ IsRouter(none) /\ Typed(none)
      BY <1>1, <1>3, NoneIsNoMgr DEF Changes
    <2>1. Changes(on, none, p, {"backs"}) /\ on.backs[p] = none.backs[p] \cup {m}
      BY <2>0, BackChanges
    <2>2. mtc_simple_peer_set_backend(r, p, m) = s
      BY <1>3 DEF mtc_simple_peer_set_backend, none
    <2> HIDE DEF on
    <2>3. /\ IsRouter(s) /\ s.backend = [on.backend EXCEPT ![p] = m]
          /\ \A x \in Fields \ {"backend"} : s[x] = on[x]
      BY <2>1 DEF Changes, IsRouter, Fields
    <2> HIDE DEF s
    <2>4. Typed(s)
      BY <2>1, <2>3 DEF Changes, Typed, Fields
    <2>5. Changes(s, on, p, {"backend"})
      BY <2>1, <2>3, <2>4, SlotChanges DEF Slots, Changes, Typed
    <2>6. Changes(s, none, p, {"backs"} \cup {"backend"})
      BY <2>1, <2>5, ChangesThen
    <2>7. Changes(s, r, p, {"backs", "backend"})
      <3>1. Changes(s, r, p, {"backs", "backend"} \cup ({"backs"} \cup {"backend"}))
        BY <1>1, <2>6, ChangesThen
      <3> QED  BY <3>1, ChangesLess
    <2>8. s.backs[p] = on.backs[p] /\ s.backend[p] = m
      BY <2>1, <2>3 DEF Fields, Changes, Typed
    <2> QED  BY <1>1, <1>3, <2>1, <2>2, <2>7, <2>8
  <1> QED  BY <1>2, <1>3

(* The sync cache is cleared for the peer it is set to.                    *)
LEMMA ClearChanges ==
  ASSUME NEW r, IsRouter(r), Typed(r), NEW p \in Peers,
         r.cache = p => "sync" \in r.backs[p]
  PROVE  LET s == mtc_simple_router_clear_sync_cache(r, p)
         IN  /\ Changes(s, r, p, {"backs", "cache"})
             /\ s.backs[p] = r.backs[p] \ Synced(r, p) /\ s.cache # p
  <1> DEFINE u == Unback(r, p, "sync")
             s == [u EXCEPT !.cache = None]
  <1>0. p # None
    BY NoneIsNoPeer
  <1>1. CASE r.cache = p
    <2>1. Changes(u, r, p, {"backs"}) /\ u.backs[p] = r.backs[p] \ {"sync"}
      BY <1>1, UnbackChanges
    <2>2. mtc_simple_router_clear_sync_cache(r, p) = s
      BY <1>0, <1>1 DEF mtc_simple_router_clear_sync_cache
    <2>3. u.cache = r.cache
      BY DEF Unback, IsRouter, Fields
    <2> HIDE DEF u
    <2>4. IsRouter(s) /\ s.cache = None /\ \A x \in Fields \ {"cache"} : s[x] = u[x]
      BY <2>1 DEF Changes, IsRouter, Fields
    <2> HIDE DEF s
    <2>5. Typed(s) /\ Rest(s, p) = Rest(u, p) /\ s.mgr = u.mgr /\ s.rrefs = u.rrefs
      BY <2>1, <2>4 DEF Changes, Typed, Fields, Rest
    <2>6. SameAt(s, u, p, {"cache"}) /\ \A q \in Peers \ {p} : SameAt(s, u, q, {})
      BY <1>1, <2>3, <2>4, NoneIsNoPeer DEF SameAt, Slots, Lists, Fields
    <2>7. Changes(s, u, p, {"cache"})
      BY <2>4, <2>5, <2>6 DEF Changes
    <2>8. Changes(s, r, p, {"backs", "cache"})
      <3>1. Changes(s, r, p, {"backs"} \cup {"cache"})
        BY <2>1, <2>7, ChangesThen
      <3> QED  BY <3>1, ChangesLess
    <2>9. s.backs[p] = r.backs[p] \ {"sync"}
      BY <2>1, <2>4 DEF Fields
    <2> QED  BY <1>0, <1>1, <2>2, <2>4, <2>8, <2>9 DEF Synced
  <1>2. CASE r.cache # p
    <2>1. mtc_simple_router_clear_sync_cache(r, p) = r
      BY <1>2 DEF mtc_simple_router_clear_sync_cache
    <2>2. r.backs[p] \ Synced(r, p) = r.backs[p]
      BY <1>2 DEF Synced
    <2> QED  BY <1>2, <2>1, <2>2, ChangesNothing
  <1> QED  BY <1>1, <1>2

(* The ring is not about the links.                                        *)
LEMMA RemoveChanges ==
  ASSUME NEW r, IsRouter(r), Typed(r), NEW p \in Peers
  PROVE  /\ Changes(mtc_simple_peer_remove(r, p), r, p, {})
         /\ mtc_simple_peer_remove(r, p).ring = r.ring \ {p}
  <1> DEFINE s == mtc_simple_peer_remove(r, p)
  <1>1. IsRouter(s) /\ s.ring = r.ring \ {p} /\ \A x \in Fields \ {"ring"} : s[x] = r[x]
    BY DEF mtc_simple_peer_remove, IsRouter, Fields
  <1> HIDE DEF s
  <1>2. Typed(s) /\ Rest(s, p) = Rest(r, p) /\ s.mgr = r.mgr /\ s.rrefs = r.rrefs
    BY <1>1 DEF Typed, Fields, Rest
  <1>3. \A q \in Peers : SameAt(s, r, q, {})
    BY <1>1 DEF SameAt, Slots, Lists, Fields
  <1> QED  BY <1>1, <1>2, <1>3 DEF Changes, s

(* The last reference to a link takes its backends with it.                *)
LEMMA LinkUnrefChanges ==
  ASSUME NEW r, IsRouter(r), Typed(r), NEW p \in Peers
  PROVE  LET s == LinkUnref(r, p)
         IN  /\ Changes(s, r, p, {"lrefs", "backs", "closed"})
             /\ s.lrefs[p] = r.lrefs[p] - 1
             /\ s.backs[p] = IF r.lrefs[p] = 1 THEN {} ELSE r.backs[p]
             /\ s.closed[p] = IF r.lrefs[p] = 1 /\ r.close_fd[p] THEN r.closed[p] + 1
                                                               ELSE r.closed[p]
  <1> DEFINE s == LinkUnref(r, p)
  <1>1. CASE r.lrefs[p] # 1
    <2>1. /\ IsRouter(s) /\ s.lrefs = [r.lrefs EXCEPT ![p] = @ - 1]
          /\ \A x \in Fields \ {"lrefs"} : s[x] = r[x]
      BY <1>1 DEF LinkUnref, IsRouter, Fields
    <2> HIDE DEF s
    <2>2. Typed(s)
      BY <2>1 DEF Typed, Fields
    <2>3. Changes(s, r, p, {"lrefs"})
      BY <2>1, <2>2, SlotChanges DEF Slots, Typed
    <2>4. s.lrefs[p] = r.lrefs[p] - 1 /\ s.backs[p] = r.backs[p] /\ s.closed[p] = r.closed[p]
      BY <2>1 DEF Typed, Fields
    <2>5. Changes(s, r, p, {"lrefs", "backs", "closed"})
      BY <2>3, ChangesLess
    <2> QED  BY <1>1, <2>4, <2>5 DEF s
  <1>2. CASE r.lrefs[p] = 1
    <2>1. /\ IsRouter(s) /\ s.lrefs = [r.lrefs EXCEPT ![p] = 0]
          /\ s.backs = [r.backs EXCEPT ![p] = {}]
          /\ s.mrefs = [m \in AllMgrs |->
                          IF m \in r.backs[p] THEN r.mrefs[m] - 1 ELSE r.mrefs[m]]
          /\ s.closed = [r.closed EXCEPT ![p] = IF r.close_fd[p] THEN @ + 1 ELSE @]
          /\ \A x \in Fields \ {"lrefs", "backs", "mrefs", "closed"} : s[x] = r[x]
      BY <1>2 DEF LinkUnref, IsRouter, Fields
    <2> HIDE DEF s
    <2>2. Typed(s)
      <3>1. /\ s.lrefs \in [Peers -> Int] /\ s.backs \in [Peers -> SUBSET AllMgrs]
            /\ s.mrefs \in [AllMgrs -> Int] /\ s.closed \in [Peers -> Int]
        BY <2>1 DEF Typed
      <3> QED  BY <2>1, <3>1 DEF Typed, Fields
    <2>3. Rest(s, p) = Rest(r, p) /\ s.mgr = r.mgr /\ s.rrefs = r.rrefs
      BY <2>1 DEF Rest, Typed, One, Fields
    <2>4. /\ SameAt(s, r, p, {"lrefs", "backs", "closed"})
          /\ \A q \in Peers \ {p} : SameAt(s, r, q, {})
      BY <2>1 DEF SameAt, Slots, Lists, Fields, Typed
    <2>5. /\ s.lrefs[p] = 0 /\ s.backs[p] = {}
          /\ s.closed[p] = IF r.close_fd[p] THEN r.closed[p] + 1 ELSE r.closed[p]
      BY <2>1 DEF Typed
    <2> QED  BY <1>2, <2>1, <2>2, <2>3, <2>4, <2>5 DEF Changes, s
  <1> QED  BY <1>1, <1>2

(* The flusher refers to a link as long as there is something to send.     *)
Unsent(r, p) == r.unsent[p] > 0 /\ r.status[p] # "broken"

(* mtc_link_async_flush_add takes over the callbacks of the link and holds it if it has
   something to send. *)
LEMMA FlushAddChanges ==
  ASSUME NEW r, IsRouter(r), Typed(r), r.owner \in [Peers -> {"peer", "flush"}],
         NEW p \in Peers, p \in r.born
  PROVE  LET s == FlushAdd(r, p)
         IN  /\ Changes(s, r, p, {"owner", "flushing", "lrefs"})
             /\ s.owner[p] = "flush"
             /\ p \in s.flushing <=> p \in r.flushing \/ Unsent(r, p)
             /\ s.lrefs[p] = r.lrefs[p] + One(Unsent(r, p))
  <1> DEFINE taken == [r EXCEPT !.owner[p] = "flush"]
             on == [taken EXCEPT !.flushing = @ \cup {p}, !.lrefs[p] = @ + 1]
             s == FlushAdd(r, p)
  <1>1. /\ IsRouter(taken) /\ taken.owner = [r.owner EXCEPT ![p] = "flush"]
        /\ \A x \in Fields \ {"owner"} : taken[x] = r[x]
    BY DEF IsRouter, Fields
  <1>2. s = IF Unsent(r, p) THEN on ELSE taken
    BY DEF FlushAdd, Unsent
  <1> HIDE DEF taken
  <1>3. Typed(taken)
    BY <1>1 DEF Typed, Fields
  <1>4. Changes(taken, r, p, {"owner"}) /\ taken.owner[p] = "flush"
    BY <1>1, <1>3, SlotChanges DEF Slots
  <1>5. taken.flushing = r.flushing /\ taken.lrefs = r.lrefs
    BY <1>1 DEF Fields
  <1>6. CASE ~Unsent(r, p)
    <2>1. Changes(taken, r, p, {"owner", "flushing", "lrefs"})
      BY <1>4, ChangesLess
    <2> QED  BY <1>2, <1>4, <1>5, <1>6, <2>1 DEF One, Typed
  <1>7. CASE Unsent(r, p)
    <2>1. /\ IsRouter(on) /\ on.flushing = taken.flushing \cup {p}
          /\ on.lrefs = [taken.lrefs EXCEPT ![p] = @ + 1]
          /\ \A x \in Fields \ {"flushing", "lrefs"} : on[x] = taken[x]
      BY <1>1 DEF IsRouter, Fields
    <2> HIDE DEF on
    <2>2. Typed(on)
      <3>1. on.flushing \subseteq on.born /\ on.lrefs \in [Peers -> Int]
        BY <1>1, <1>3, <2>1 DEF Typed, Fields
      <3> QED  BY <1>3, <2>1, <3>1 DEF Typed, Fields
    <2>3. Rest(on, p) = Rest(taken, p) /\ on.mgr = taken.mgr /\ on.rrefs = taken.rrefs
      BY <2>1 DEF Rest, Fields
    <2>4. /\ SameAt(on, taken, p, {"flushing", "lrefs"})
          /\ \A q \in Peers \ {p} : SameAt(on, taken, q, {})
      BY <1>3, <2>1 DEF SameAt, Slots, Lists, Fields, Typed
    <2>5. Changes(on, taken, p, {"flushing", "lrefs"})
      BY <2>1, <2>2, <2>3, <2>4 DEF Changes
    <2>6. Changes(on, r, p, {"owner", "flushing", "lrefs"})
      <3>1. Changes(on, r, p, {"owner"} \cup {"flushing", "lrefs"})
        BY <1>4, <2>5, ChangesThen
      <3> QED  BY <3>1, ChangesLess
    <2>7. on.owner[p] = "flush" /\ p \in on.flushing /\ on.lrefs[p] = r.lrefs[p] + 1
      BY <1>3, <1>4, <1>5, <2>1 DEF Fields, Typed
    <2> QED  BY <1>2, <1>7, <2>6, <2>7 DEF One
  <1> QED  BY <1>6, <1>7

(* The flusher drops its reference, and with the last one the descriptor is closed. *)
LEMMA FlushEndsChanges ==
  ASSUME NEW r, IsRouter(r), Typed(r), NEW p \in Peers
  PROVE  LET s == FlushEnds(r, p)
             n == r.lrefs[p] - One(p \in r.flushing)
             last == p \in r.flushing /\ n = 0
         IN  /\ Changes(s, r, p, {"flushing", "lrefs", "backs", "closed"})
             /\ p \notin s.flushing /\ s.lrefs[p] = n
             /\ s.backs[p] = IF last THEN {} ELSE r.backs[p]
             /\ s.closed[p] = IF last /\ r.close_fd[p] THEN r.closed[p] + 1 ELSE r.closed[p]
  <1> DEFINE off == [r EXCEPT !.flushing = @ \ {p}]
             s == LinkUnref(off, p)
  <1>0. r.lrefs[p] \in Int
    BY DEF Typed
  <1>1. CASE p \notin r.flushing
    <2>1. FlushEnds(r, p) = r
      BY <1>1 DEF FlushEnds
    <2> QED  BY <1>0, <1>1, <2>1, ChangesNothing DEF One
  <1>2. CASE p \in r.flushing
    <2>1. /\ IsRouter(off) /\ off.flushing = r.flushing \ {p}
          /\ \A x \in Fields \ {"flushing"} : off[x] = r[x]
      BY DEF IsRouter, Fields
    <2>2. FlushEnds(r, p) = s
      BY <1>2 DEF FlushEnds
    <2> HIDE DEF off
    <2>3. Typed(off)
      BY <2>1 DEF Typed, Fields
    <2>4. Rest(off, p) = Rest(r, p) /\ off.mgr = r.mgr /\ off.rrefs = r.rrefs
      BY <2>1 DEF Rest, Fields
    <2>5. /\ SameAt(off, r, p, {"flushing"})
          /\ \A q \in Peers \ {p} : SameAt(off, r, q, {})
      BY <2>1 DEF SameAt, Slots, Lists, Fields
    <2>6. Changes(off, r, p, {"flushing"})
      BY <2>1, <2>3, <2>4, <2>5 DEF Changes
    <2>7. /\ Changes(s, off, p, {"lrefs", "backs", "closed"})
          /\ s.lrefs[p] = off.lrefs[p] - 1
          /\ s.backs[p] = IF off.lrefs[p] = 1 THEN {} ELSE off.backs[p]
          /\ s.closed[p] = IF off.lrefs[p] = 1 /\ off.close_fd[p] THEN off.closed[p] + 1
                                                                ELSE off.closed[p]
      BY <2>1, <2>3, LinkUnrefChanges
    <2> HIDE DEF s
    <2>8. Changes(s, r, p, {"flushing", "lrefs", "backs", "closed"})
      <3>1. Changes(s, r, p, {"flushing"} \cup {"lrefs", "backs", "closed"})
        BY <2>6, <2>7, ChangesThen
      <3> QED  BY <3>1, ChangesLess
    <2>9. p \notin s.flushing
      BY <2>1, <2>7, SameAtFields DEF Changes
    <2>10. off.lrefs = r.lrefs /\ off.backs = r.backs /\ off.closed = r.closed
           /\ off.close_fd = r.close_fd
      BY <2>1 DEF Fields
    <2> QED  BY <1>0, <1>2, <2>2, <2>7, <2>8, <2>9, <2>10 DEF One
  <1> QED  BY <1>1, <1>2

-----------------------------------------------------------------------------
(* What is good stays good when one link changes.                          *)

LEMMA GoodSame ==
  ASSUME NEW r, NEW s, NEW p, NEW e, Good(r, p, e), SameAt(s, r, p, {}),
         s.mgr = r.mgr, s.rrefs > 0 <=> r.rrefs > 0
  PROVE  Good(s, p, e)
  <1>1. /\ s.lrefs[p] = r.lrefs[p] /\ s.backs[p] = r.backs[p]
        /\ s.backend[p] = r.backend[p] /\ s.owner[p] = r.owner[p]
        /\ s.enabled[p] = r.enabled[p] /\ s.status[p] = r.status[p]
        /\ s.unsent[p] = r.unsent[p] /\ s.close_fd[p] = r.close_fd[p]
        /\ s.closed[p] = r.closed[p]
        /\ (p \in s.born <=> p \in r.born) /\ (p \in s.linked <=> p \in r.linked)
        /\ (p \in s.flushing <=> p \in r.flushing) /\ (s.cache = p <=> r.cache = p)
    BY SameAtFields
  <1>2. Counted(s, p, e)
    BY <1>1 DEF Good, Counted, One
  <1>3. WatchedAt(s, p) /\ OpenAt(s, p)
    <2>1. Synced(s, p) = Synced(r, p)
      BY <1>1 DEF Synced
    <2> QED  BY <1>1, <2>1 DEF Good, WatchedAt, OpenAt
  <1>4. KeptAt(s, p)
    BY <1>1 DEF Good, KeptAt, LostAt
  <1> QED  BY <1>2, <1>3, <1>4 DEF Good

(* The users of a manager, with and without the link of p.                 *)
LEMMA UsersBut ==
  ASSUME NEW r, NEW p \in Peers, NEW m
  PROVE  LET rest == {q \in Peers \ {p} : m \in r.backs[q]}
         IN  /\ Cardinality(rest) \in Nat
             /\ Cardinality(Users(r, m)) = Cardinality(rest) + One(m \in r.backs[p])
  <1> DEFINE rest == {q \in Peers \ {p} : m \in r.backs[q]}
  <1>1. IsFiniteSet(Peers) /\ rest \subseteq Peers
    BY RouterAssumptions
  <1>2. IsFiniteSet(rest)
    BY <1>1, FS_Subset
  <1>3. Cardinality(rest) \in Nat
    BY <1>2, FS_CardinalityType
  <1>4. CASE m \in r.backs[p]
    <2>1. Users(r, m) = rest \cup {p} /\ p \notin rest
      BY <1>4 DEF Users
    <2> HIDE DEF rest
    <2> QED  BY <1>2, <1>3, <1>4, <2>1, FS_AddElement DEF One, rest
  <1>5. CASE m \notin r.backs[p]
    <2>1. Users(r, m) = rest
      BY <1>5 DEF Users
    <2> QED  BY <1>3, <1>5, <2>1 DEF One
  <1> QED  BY <1>3, <1>4, <1>5

(* Moving references of one peer leaves the managers counted. *)
LEMMA UsersKept ==
  ASSUME NEW r, NEW s, Typed(r), NEW p \in Peers, NEW X, Changes(s, r, p, X), MgrsCounted(r)
  PROVE  MgrsCounted(s)
  <1>1. \A q \in Peers \ {p} : s.backs[q] = r.backs[q]
    BY SameAtFields DEF Changes
  <1>2. ASSUME NEW m \in AllMgrs
        PROVE  s.mrefs[m] - Cardinality(Users(s, m)) = r.mrefs[m] - Cardinality(Users(r, m))
    <2> DEFINE rest == {q \in Peers \ {p} : m \in r.backs[q]}
    <2>1. rest = {q \in Peers \ {p} : m \in s.backs[q]}
      BY <1>1
    <2>2. /\ Cardinality(rest) \in Nat
          /\ Cardinality(Users(r, m)) = Cardinality(rest) + One(m \in r.backs[p])
      BY UsersBut
    <2>3. Cardinality(Users(s, m)) = Cardinality(rest) + One(m \in s.backs[p])
      <3> HIDE DEF rest
      <3> QED  BY <2>1, UsersBut
    <2>4. s.mrefs[m] - One(m \in s.backs[p]) = r.mrefs[m] - One(m \in r.backs[p])
      <3>1. Rest(s, p)[m] = Rest(r, p)[m]
        BY DEF Changes
      <3> QED  BY <3>1 DEF Rest
    <2>5. s.mrefs[m] \in Int /\ r.mrefs[m] \in Int
      BY DEF Changes, Typed
    <2> HIDE DEF rest
    <2> QED  BY <2>2, <2>3, <2>4, <2>5 DEF One
  <1>3. ASSUME NEW m \in AllMgrs
        PROVE  Cardinality(Users(s, m)) \in Nat /\ Cardinality(Users(r, m)) \in Nat
               /\ s.mrefs[m] \in Int /\ r.mrefs[m] \in Int
    <2>1. Users(s, m) \subseteq Peers /\ Users(r, m) \subseteq Peers /\ IsFiniteSet(Peers)
      BY RouterAssumptions DEF Users
    <2>2. s.mrefs[m] \in Int /\ r.mrefs[m] \in Int
      BY DEF Changes, Typed
    <2> QED  BY <2>1, <2>2, FS_Subset, FS_CardinalityType
  <1>4. s.mgr = r.mgr /\ (s.rrefs > 0 <=> r.rrefs > 0)
    BY DEF Changes
  <1> QED  BY <1>2, <1>3, <1>4 DEF MgrsCounted, One

(* A change of one peer has to be looked at for that peer only. *)
LEMMA ChangeGood ==
  ASSUME NEW r, NEW ev \in [Peers -> Nat], AllGood(r, ev), NEW s, NEW p \in Peers, NEW X,
         Changes(s, r, p, X), NEW e, Good(s, p, e)
  PROVE  AllGood(s, [ev EXCEPT ![p] = e])
  <1>1. MgrsCounted(s)
    BY UsersKept DEF AllGood
  <1>2. ASSUME NEW q \in Peers PROVE Good(s, q, [ev EXCEPT ![p] = e][q])
    <2>1. CASE q = p
      BY <2>1
    <2>2. CASE q # p
      <3>1. Good(r, q, ev[q]) /\ SameAt(s, r, q, {}) /\ [ev EXCEPT ![p] = e][q] = ev[q]
        BY <2>2 DEF AllGood, Changes
      <3> QED  BY <3>1, GoodSame DEF Changes
    <2> QED  BY <2>1, <2>2
  <1> QED  BY <1>1, <1>2 DEF AllGood, Changes

(* The same with the events that there were.                               *)
LEMMA ChangeKeepsGood ==
  ASSUME NEW r, NEW ev \in [Peers -> Nat], AllGood(r, ev), NEW s, NEW p \in Peers, NEW X,
         Changes(s, r, p, X), Good(s, p, ev[p])
  PROVE  AllGood(s, ev)
  <1>1. [ev EXCEPT ![p] = ev[p]] = ev
    OBVIOUS
  <1> QED  BY <1>1, ChangeGood

-----------------------------------------------------------------------------
(* The link is closed, discarded, and given.                               *)
All == (Slots \cup Lists \cup {"cache"}) \ {"born"}

(* A router that has one peer less with a link.                            *)
LEMMA UnlinkChanges ==
  ASSUME NEW r, IsRouter(r), Typed(r), NEW p \in Peers
  PROVE  LET s == [r EXCEPT !.linked = @ \ {p}]
         IN  Changes(s, r, p, {"linked"}) /\ p \notin s.linked
  <1> DEFINE s == [r EXCEPT !.linked = @ \ {p}]
  <1>1. IsRouter(s) /\ s.linked = r.linked \ {p} /\ \A x \in Fields \ {"linked"} : s[x] = r[x]
    BY DEF IsRouter, Fields
  <1> HIDE DEF s
  <1>2. Typed(s) /\ Rest(s, p) = Rest(r, p) /\ s.mgr = r.mgr /\ s.rrefs = r.rrefs
    BY <1>1 DEF Typed, Fields, Rest
  <1>3. SameAt(s, r, p, {"linked"}) /\ \A q \in Peers \ {p} : SameAt(s, r, q, {})
    BY <1>1 DEF SameAt, Slots, Lists, Fields
  <1> QED  BY <1>1, <1>2, <1>3 DEF Changes, s

(* Both begin by taking the peer out of the cache and the ring.            *)
LEMMA OutChanges ==
  ASSUME NEW r, Linked(r), Typed(r), NEW p \in r.linked, p \in Peers, WatchedAt(r, p)
  PROVE  LET s == mtc_simple_peer_remove(mtc_simple_router_clear_sync_cache(r, p), p)
         IN  /\ Changes(s, r, p, {"backs", "cache"})
             /\ s.backs[p] = {r.mgr} \ {None} /\ s.cache # p
             /\ s.owner \in [Peers -> {"peer", "flush"}]
  <1> DEFINE c == mtc_simple_router_clear_sync_cache(r, p)
             s == mtc_simple_peer_remove(c, p)
  <1>1. r.cache = p => "sync" \in r.backs[p]
    BY DEF WatchedAt, Synced
  <1>2. Changes(c, r, p, {"backs", "cache"}) /\ c.backs[p] = r.backs[p] \ Synced(r, p) /\ c.cache # p
    BY <1>1, ClearChanges DEF Linked
  <1>3. IsRouter(s) /\ Core(s) = Core([r EXCEPT !.cache = IF @ = p THEN None ELSE @,
                                               !.ring = @ \ {p}])
    BY TakenOut
  <1> HIDE DEF c
  <1>4. Changes(s, c, p, {})
    BY <1>2, RemoveChanges DEF Changes
  <1> HIDE DEF s
  <1>5. Changes(s, r, p, {"backs", "cache"})
    <2>1. Changes(s, r, p, {"backs", "cache"} \cup {})
      BY <1>2, <1>4, ChangesThen
    <2> QED  BY <2>1, ChangesLess
  <1>6. s.backs[p] = c.backs[p] /\ s.cache # p
    BY <1>2, <1>4, SameAtFields DEF Changes
  <1>7. r.backs[p] \ Synced(r, p) = {r.mgr} \ {None}
    <2>1. "sync" \notin {r.mgr} \ {None}
      BY RouterAssumptions DEF Typed
    <2> QED  BY <2>1 DEF WatchedAt, Synced
  <1>8. s.owner = r.owner /\ r.owner \in [Peers -> {"peer", "flush"}]
    BY <1>3 DEF Core, Linked, IsRouter, Fields, CoreType
  <1> QED  BY <1>2, <1>5, <1>6, <1>7, <1>8 DEF s, c

(* mtc_simple_peer_close leaves to the flusher what has not been sent.     *)
LEMMA CloseGood ==
  ASSUME NEW r, Linked(r), Typed(r), NEW p \in Peers, NEW e \in Nat, Good(r, p, e)
  PROVE  LET s == mtc_simple_peer_close(r, p) IN Changes(s, r, p, All) /\ Good(s, p, e)
  <1>1. CASE p \notin r.linked
    <2>1. mtc_simple_peer_close(r, p) = r
      BY <1>1 DEF mtc_simple_peer_close
    <2> QED  BY <2>1, ChangesNothing DEF Linked
  <1>2. CASE p \in r.linked
    <2> DEFINE out == mtc_simple_peer_remove(mtc_simple_router_clear_sync_cache(r, p), p)
               flush == FlushAdd(out, p)
               unref == LinkUnref(flush, p)
               s == [unref EXCEPT !.linked = @ \ {p}]
    <2>1. /\ Changes(out, r, p, {"backs", "cache"})
          /\ out.backs[p] = {r.mgr} \ {None} /\ out.cache # p
          /\ out.owner \in [Peers -> {"peer", "flush"}]
      BY <1>2, OutChanges DEF Good
    <2>2. mtc_simple_peer_close(r, p) = s
      BY <1>2 DEF mtc_simple_peer_close
    <2> HIDE DEF out
    <2>3. p \in out.born
      <3>1. p \in r.born
        BY <1>2 DEF Linked, CoreType
      <3> QED  BY <2>1, <3>1, SameAtFields DEF Changes
    <2>4. /\ Changes(flush, out, p, {"owner", "flushing", "lrefs"})
          /\ flush.owner[p] = "flush"
          /\ p \in flush.flushing <=> p \in out.flushing \/ Unsent(out, p)
          /\ flush.lrefs[p] = out.lrefs[p] + One(Unsent(out, p))
      BY <2>1, <2>3, FlushAddChanges DEF Changes
    <2> HIDE DEF flush
    <2>5. /\ Changes(unref, flush, p, {"lrefs", "backs", "closed"})
          /\ unref.lrefs[p] = flush.lrefs[p] - 1
          /\ unref.backs[p] = IF flush.lrefs[p] = 1 THEN {} ELSE flush.backs[p]
          /\ unref.closed[p] = IF flush.lrefs[p] = 1 /\ flush.close_fd[p]
                               THEN flush.closed[p] + 1 ELSE flush.closed[p]
      BY <2>4, LinkUnrefChanges DEF Changes
    <2> HIDE DEF unref
    <2>6. Changes(s, unref, p, {"linked"}) /\ p \notin s.linked
      BY <2>5, UnlinkChanges DEF Changes
    <2> HIDE DEF s
    <2>7. Changes(s, r, p, All)
      <3>1. Changes(flush, r, p, {"backs", "cache"} \cup {"owner", "flushing", "lrefs"})
        BY <2>1, <2>4, ChangesThen
      <3>2. Changes(flush, r, p, All)
        BY <3>1, ChangesLess DEF All, Slots, Lists
      <3>3. Changes(unref, r, p, All \cup {"lrefs", "backs", "closed"})
        BY <2>5, <3>2, ChangesThen
      <3>4. Changes(unref, r, p, All)
        BY <3>3, ChangesLess DEF All, Slots
      <3>5. Changes(s, r, p, All \cup {"linked"})
        BY <2>6, <3>4, ChangesThen
      <3> QED  BY <3>5, ChangesLess DEF All, Lists
    <2>8. /\ p \in s.born /\ p \notin s.linked /\ s.cache # p
          /\ p \in s.flushing <=> Unsent(out, p)
          /\ s.lrefs[p] = e + One(Unsent(out, p))
          /\ s.backs[p] = IF s.lrefs[p] = 0 THEN {} ELSE {r.mgr} \ {None}
          /\ s.closed[p] = IF s.lrefs[p] = 0 /\ s.close_fd[p] THEN 1 ELSE 0
          /\ s.owner[p] = "flush"
          /\ s.unsent[p] = out.unsent[p] /\ s.status[p] = out.status[p]
      <3>1. r.lrefs[p] = 1 + e /\ r.closed[p] = 0 /\ p \notin r.flushing
        BY <1>2 DEF Good, Counted, One
      <3>2. /\ out.lrefs[p] = r.lrefs[p] /\ out.closed[p] = r.closed[p] /\ p \notin out.flushing
        BY <2>1, <3>1, SameAtFields DEF Changes
      <3>3. /\ flush.backs[p] = out.backs[p] /\ flush.closed[p] = out.closed[p]
            /\ flush.cache # p /\ p \in flush.born
            /\ flush.unsent[p] = out.unsent[p] /\ flush.status[p] = out.status[p]
        BY <2>1, <2>3, <2>4, SameAtFields DEF Changes
      <3>4. /\ p \in unref.born /\ unref.cache # p /\ unref.owner[p] = "flush"
            /\ p \in unref.flushing <=> p \in flush.flushing
            /\ unref.close_fd[p] = flush.close_fd[p]
            /\ unref.unsent[p] = out.unsent[p] /\ unref.status[p] = out.status[p]
        BY <2>4, <2>5, <3>3, SameAtFields DEF Changes
      <3>5. /\ p \in s.born /\ s.cache # p /\ s.owner[p] = "flush"
            /\ p \in s.flushing <=> p \in flush.flushing
            /\ s.lrefs[p] = unref.lrefs[p] /\ s.backs[p] = unref.backs[p]
            /\ s.closed[p] = unref.closed[p] /\ s.close_fd[p] = flush.close_fd[p]
            /\ s.unsent[p] = out.unsent[p] /\ s.status[p] = out.status[p]
        BY <2>6, <3>4, SameAtFields DEF Changes
      <3>6. flush.lrefs[p] = 1 + e + One(Unsent(out, p))
        BY <2>4, <3>1, <3>2
      <3>7. /\ s.lrefs[p] = e + One(Unsent(out, p))
            /\ flush.lrefs[p] = 1 <=> s.lrefs[p] = 0
        BY <2>5, <3>5, <3>6 DEF One
      <3>8. s.backs[p] = IF s.lrefs[p] = 0 THEN {} ELSE {r.mgr} \ {None}
        BY <2>1, <2>5, <3>3, <3>5, <3>7
      <3>9. flush.closed[p] = 0
        BY <3>1, <3>2, <3>3
      <3>10. s.closed[p] = IF s.lrefs[p] = 0 /\ s.close_fd[p] THEN 1 ELSE 0
        BY <2>5, <3>5, <3>7, <3>9
      <3>11. p \in s.flushing <=> Unsent(out, p)
        BY <2>4, <3>2, <3>5
      <3> QED  BY <2>6, <3>5, <3>7, <3>8, <3>10, <3>11
    <2>9. Counted(s, p, e)
      BY <2>8 DEF Counted, One
    <2>10. WatchedAt(s, p) /\ OpenAt(s, p)
      <3>1. "sync" \notin {r.mgr} \ {None}
        BY RouterAssumptions DEF Typed
      <3> QED  BY <2>8, <3>1 DEF WatchedAt, OpenAt
    <2>11. KeptAt(s, p)
      <3>1. out.status[p] # "broken"
        <4>1. out.status[p] = r.status[p]
          BY <2>1, SameAtFields DEF Changes
        <4> QED  BY <1>2, <4>1 DEF Good, OpenAt
      <3> QED  BY <2>8, <3>1 DEF KeptAt, Unsent
    <2> QED  BY <2>2, <2>7, <2>9, <2>10, <2>11 DEF Good
  <1> QED  BY <1>1, <1>2

(* mtc_simple_peer_discard leaves nothing that would watch the link; also  *)
(* of one that has just broken or stopped.                                 *)
LEMMA DiscardGood ==
  ASSUME NEW r, Linked(r), Typed(r), NEW p \in Peers, NEW e \in Nat,
         Counted(r, p, e), WatchedAt(r, p), KeptAt(r, p)
  PROVE  LET s == mtc_simple_peer_discard(r, p) IN Changes(s, r, p, All) /\ Good(s, p, e)
  <1>1. CASE p \notin r.linked
    <2>1. mtc_simple_peer_discard(r, p) = r
      BY <1>1 DEF mtc_simple_peer_discard
    <2> QED  BY <1>1, <2>1, ChangesNothing DEF Linked, Good, OpenAt
  <1>2. CASE p \in r.linked
    <2> DEFINE out == mtc_simple_peer_remove(mtc_simple_router_clear_sync_cache(r, p), p)
               bare == mtc_simple_peer_set_backend(out, p, None)
               off == [bare EXCEPT !.enabled[p] = FALSE]
               unref == LinkUnref(off, p)
               s == [unref EXCEPT !.linked = @ \ {p}]
    <2>1. /\ Changes(out, r, p, {"backs", "cache"})
          /\ out.backs[p] = {r.mgr} \ {None} /\ out.cache # p
      BY <1>2, OutChanges
    <2>2. mtc_simple_peer_discard(r, p) = s
      BY <1>2 DEF mtc_simple_peer_discard
    <2> HIDE DEF out
    <2>3. Changes(bare, out, p, {"backs", "backend"}) /\ bare.backs[p] = {}
      <3>1. out.backend[p] = r.backend[p] /\ r.backend[p] = r.mgr
        BY <1>2, <2>1, SameAtFields DEF Changes, WatchedAt
      <3>2. out.backend[p] # None => out.backend[p] \in out.backs[p]
        BY <2>1, <3>1
      <3>3. out.backs[p] \ {out.backend[p]} = {}
        BY <2>1, <3>1
      <3>4. /\ Changes(bare, out, p, {"backs", "backend"})
            /\ bare.backs[p] = (out.backs[p] \ {out.backend[p]}) \cup ({None} \ {None})
        BY <2>1, <3>2, <3>3, SetBackendChanges DEF Changes
      <3> QED  BY <3>3, <3>4
    <2> HIDE DEF bare
    <2>4. Changes(off, bare, p, {"enabled"}) /\ ~off.enabled[p]
      <3>1. /\ IsRouter(off) /\ off.enabled = [bare.enabled EXCEPT ![p] = FALSE]
            /\ \A x \in Fields \ {"enabled"} : off[x] = bare[x]
        BY <2>3 DEF Changes, IsRouter, Fields
      <3>2. bare.enabled \in [Peers -> BOOLEAN]
        <4>1. Core(bare) = Core(out) /\ Core(out) = Core([r EXCEPT !.cache = IF @ = p THEN None ELSE @,
                                        !.ring = @ \ {p}])
          <5>1. Core(out) = Core([r EXCEPT !.cache = IF @ = p THEN None ELSE @, !.ring = @ \ {p}])
            BY <1>2, TakenOut DEF out
          <5> QED  BY <2>1, <5>1, SetBackendCore DEF Changes, bare
        <4> QED  BY <4>1 DEF Core, Linked, IsRouter, Fields, CoreType
      <3> HIDE DEF off
      <3>3. Typed(off)
        BY <2>3, <3>1 DEF Changes, Typed, Fields
      <3> QED  BY <2>3, <3>1, <3>2, <3>3, SlotChanges DEF Slots, Changes
    <2> HIDE DEF off
    <2>5. /\ Changes(unref, off, p, {"lrefs", "backs", "closed"})
          /\ unref.lrefs[p] = off.lrefs[p] - 1
          /\ unref.backs[p] = IF off.lrefs[p] = 1 THEN {} ELSE off.backs[p]
          /\ unref.closed[p] = IF off.lrefs[p] = 1 /\ off.close_fd[p]
                               THEN off.closed[p] + 1 ELSE off.closed[p]
      BY <2>4, LinkUnrefChanges DEF Changes
    <2> HIDE DEF unref
    <2>6. Changes(s, unref, p, {"linked"}) /\ p \notin s.linked
      BY <2>5, UnlinkChanges DEF Changes
    <2> HIDE DEF s
    <2>7. Changes(off, r, p, {"backs", "cache", "backend", "enabled"})
      <3>1. Changes(bare, r, p, {"backs", "cache"} \cup {"backs", "backend"})
        BY <2>1, <2>3, ChangesThen
      <3>2. Changes(off, r, p, ({"backs", "cache"} \cup {"backs", "backend"}) \cup {"enabled"})
        BY <2>4, <3>1, ChangesThen
      <3> QED  BY <3>2, ChangesLess
    <2>8. Changes(s, r, p, All)
      <3>1. Changes(unref, r, p, {"backs", "cache", "backend", "enabled"} \cup {"lrefs", "backs", "closed"})
        BY <2>5, <2>7, ChangesThen
      <3>2. Changes(unref, r, p, All)
        BY <3>1, ChangesLess DEF All, Slots, Lists
      <3>3. Changes(s, r, p, All \cup {"linked"})
        BY <2>6, <3>2, ChangesThen
      <3> QED  BY <3>3, ChangesLess DEF All, Lists
    <2>9. /\ p \in s.born /\ p \notin s.linked /\ ~s.enabled[p]
          /\ s.lrefs[p] = e /\ p \notin s.flushing /\ s.backs[p] = {}
          /\ s.closed[p] = IF e = 0 /\ s.close_fd[p] THEN 1 ELSE 0
      <3>1. /\ r.lrefs[p] = 1 + e /\ r.closed[p] = 0 /\ p \notin r.flushing /\ p \in r.born
        BY <1>2 DEF Counted, One, Linked, CoreType
      <3>2. /\ off.lrefs[p] = 1 + e /\ off.closed[p] = 0 /\ p \notin off.flushing
            /\ p \in off.born
        BY <2>7, <3>1, SameAtFields DEF Changes
      <3>3. off.backs[p] = {}
        BY <2>3, <2>4, SameAtFields DEF Changes
      <3>4. /\ p \notin unref.flushing /\ p \in unref.born /\ ~unref.enabled[p]
            /\ unref.close_fd[p] = off.close_fd[p]
        BY <2>4, <2>5, <3>2, SameAtFields DEF Changes
      <3>5. /\ p \notin s.flushing /\ p \in s.born /\ ~s.enabled[p]
            /\ s.close_fd[p] = off.close_fd[p] /\ s.closed[p] = unref.closed[p]
            /\ s.lrefs[p] = unref.lrefs[p] /\ s.backs[p] = unref.backs[p]
        BY <2>6, <3>4, SameAtFields DEF Changes
      <3>6. s.backs[p] = {}
        BY <2>5, <3>3, <3>5
      <3>7. off.lrefs[p] = 1 <=> e = 0
        BY <3>2
      <3> QED  BY <2>5, <2>6, <3>2, <3>5, <3>6, <3>7
    <2>10. Counted(s, p, e)
      BY <2>9 DEF Counted, One
    <2>11. WatchedAt(s, p) /\ OpenAt(s, p) /\ KeptAt(s, p)
      BY <2>9 DEF WatchedAt, OpenAt, KeptAt, LostAt
    <2> QED  BY <2>2, <2>8, <2>10, <2>11 DEF Good
  <1> QED  BY <1>1, <1>2

(* What the flusher and the events give back.                              *)
LEMMA FlushEndsGood ==
  ASSUME NEW r, IsRouter(r), Typed(r), NEW p \in Peers, NEW e \in Nat,
         Counted(r, p, e), WatchedAt(r, p), p \notin r.linked,
         \/ r.status[p] = "broken" \/ r.unsent[p] = 0 \/ ~(r.rrefs > 0)
         \/ KeptAt(r, p) /\ p \notin r.flushing
  PROVE  LET s == FlushEnds(r, p) IN Changes(s, r, p, All) /\ Good(s, p, e)
  <1> DEFINE s == FlushEnds(r, p)
             n == r.lrefs[p] - One(p \in r.flushing)
             last == p \in r.flushing /\ n = 0
  <1>1. /\ Changes(s, r, p, {"flushing", "lrefs", "backs", "closed"})
        /\ p \notin s.flushing /\ s.lrefs[p] = n
        /\ s.backs[p] = IF last THEN {} ELSE r.backs[p]
        /\ s.closed[p] = IF last /\ r.close_fd[p] THEN r.closed[p] + 1 ELSE r.closed[p]
    BY FlushEndsChanges
  <1>2. n = e /\ (p \notin r.flushing => r.lrefs[p] = e)
    BY DEF Counted, One
  <1> HIDE DEF s
  <1>3. /\ p \notin s.linked /\ (p \in s.born <=> p \in r.born)
        /\ s.backend[p] = r.backend[p] /\ s.owner[p] = r.owner[p]
        /\ s.enabled[p] = r.enabled[p] /\ s.status[p] = r.status[p]
        /\ s.unsent[p] = r.unsent[p] /\ s.close_fd[p] = r.close_fd[p]
        /\ (s.rrefs > 0 <=> r.rrefs > 0)
    BY <1>1, SameAtFields DEF Changes
  <1>4. Counted(s, p, e)
    <2>1. s.lrefs[p] = 0 => s.backs[p] = {}
      BY <1>1, <1>2 DEF Counted
    <2>2. s.closed[p] = One(p \in s.born /\ s.lrefs[p] = 0 /\ s.close_fd[p])
      <3>1. CASE p \in r.flushing
        <4>1. r.lrefs[p] = 1 + e /\ p \in r.born /\ r.closed[p] = 0
          BY <3>1 DEF Counted, One, Typed
        <4> QED  BY <1>1, <1>2, <1>3, <3>1, <4>1 DEF One
      <3>2. CASE p \notin r.flushing
        BY <1>1, <1>2, <1>3, <3>2 DEF Counted
      <3> QED  BY <3>1, <3>2
    <2> QED  BY <1>1, <1>2, <1>3, <2>1, <2>2 DEF Counted, One
  <1>5. WatchedAt(s, p) /\ OpenAt(s, p)
    BY <1>1, <1>3 DEF WatchedAt, OpenAt
  <1>6. KeptAt(s, p)
    BY <1>1, <1>3 DEF KeptAt, LostAt
  <1>7. Changes(s, r, p, All)
    BY <1>1, ChangesLess DEF All, Slots, Lists
  <1> QED  BY <1>4, <1>5, <1>6, <1>7 DEF Good, s

(* The end of an event callback gives its reference to the link back. *)
LEMMA LinkUnrefGood ==
  ASSUME NEW r, IsRouter(r), Typed(r), NEW p \in Peers, NEW e \in Nat, e > 0, Good(r, p, e)
  PROVE  LET s == LinkUnref(r, p) IN Changes(s, r, p, All) /\ Good(s, p, e - 1)
  <1> DEFINE s == LinkUnref(r, p)
  <1>1. /\ Changes(s, r, p, {"lrefs", "backs", "closed"})
        /\ s.lrefs[p] = r.lrefs[p] - 1
        /\ s.backs[p] = IF r.lrefs[p] = 1 THEN {} ELSE r.backs[p]
        /\ s.closed[p] = IF r.lrefs[p] = 1 /\ r.close_fd[p] THEN r.closed[p] + 1
                                                          ELSE r.closed[p]
    BY LinkUnrefChanges
  <1> HIDE DEF s
  <1>2. /\ (p \in s.linked <=> p \in r.linked) /\ (p \in s.born <=> p \in r.born)
        /\ (p \in s.flushing <=> p \in r.flushing) /\ (s.cache = p <=> r.cache = p)
        /\ s.backend[p] = r.backend[p] /\ s.owner[p] = r.owner[p]
        /\ s.enabled[p] = r.enabled[p] /\ s.status[p] = r.status[p]
        /\ s.unsent[p] = r.unsent[p] /\ s.close_fd[p] = r.close_fd[p]
        /\ s.mgr = r.mgr /\ (s.rrefs > 0 <=> r.rrefs > 0)
    BY <1>1, SameAtFields DEF Changes
  <1>3. p \in r.born /\ r.lrefs[p] > 0 /\ r.closed[p] = 0 /\ r.lrefs[p] \in Int
    BY DEF Good, Counted, One
  <1>4. Counted(s, p, e - 1)
    <2>1. s.closed[p] = One(p \in s.born /\ s.lrefs[p] = 0 /\ s.close_fd[p])
      BY <1>1, <1>2, <1>3 DEF One
    <2>2. s.lrefs[p] = One(p \in s.linked) + One(p \in s.flushing) + (e - 1)
      BY <1>1, <1>2 DEF Good, Counted, One
    <2>3. s.lrefs[p] = 0 => s.backs[p] = {}
      BY <1>1, <1>3
    <2> QED  BY <1>2, <1>3, <2>1, <2>2, <2>3 DEF Good, Counted
  <1>5. WatchedAt(s, p) /\ OpenAt(s, p)
    <2>1. p \in r.linked => r.lrefs[p] # 1
      BY DEF Good, Counted, One
    <2>2. Synced(s, p) = Synced(r, p)
      BY <1>2 DEF Synced
    <2> QED  BY <1>1, <1>2, <2>1, <2>2 DEF Good, WatchedAt, OpenAt
  <1>6. KeptAt(s, p)
    BY <1>2 DEF Good, KeptAt, LostAt
  <1>7. Changes(s, r, p, All)
    BY <1>1, ChangesLess DEF All, Slots, Lists
  <1> QED  BY <1>4, <1>5, <1>6, <1>7 DEF Good, s

-----------------------------------------------------------------------------
(* The sync cache, the managers, the last references and the new peers.    *)

(* The sync cache is emptied.                                              *)
LEMMA ClearGood ==
  ASSUME NEW r, Linked(r), NEW ev \in [Peers -> Nat], AllGood(r, ev)
  PROVE  LET s == mtc_simple_router_clear_sync_cache(r, r.cache)
         IN  /\ AllGood(s, ev) /\ s.cache = None /\ s.linked = r.linked /\ s.lrefs = r.lrefs
  <1> DEFINE q == r.cache
             u == Unback(r, q, "sync")
             s == mtc_simple_router_clear_sync_cache(r, q)
  <1>1. CASE q = None
    BY <1>1 DEF mtc_simple_router_clear_sync_cache
  <1>2. CASE q # None
    <2>1. q \in Peers /\ q \in r.linked
      BY <1>2 DEF Linked, CoreType
    <2>2. Good(r, q, ev[q]) /\ IsRouter(r) /\ Typed(r)
      BY <2>1 DEF AllGood
    <2>3. "sync" \in r.backs[q]
      BY <2>1, <2>2 DEF Good, WatchedAt, Synced
    <2>4. /\ Changes(s, r, q, {"backs", "cache"})
          /\ s.backs[q] = r.backs[q] \ Synced(r, q) /\ s.cache # q
      BY <2>1, <2>2, <2>3, ClearChanges
    <2>5. s.cache = None /\ s.linked = r.linked /\ s.lrefs = r.lrefs
      <3>1. s = [u EXCEPT !.cache = None]
        BY <1>2 DEF mtc_simple_router_clear_sync_cache
      <3>2. IsRouter(u) /\ u.linked = r.linked /\ u.lrefs = r.lrefs
        BY <2>2 DEF Unback, IsRouter, Fields
      <3> HIDE DEF u
      <3> QED  BY <3>1, <3>2 DEF IsRouter, Fields
    <2> HIDE DEF s
    <2>6. /\ s.lrefs[q] = r.lrefs[q] /\ s.closed[q] = r.closed[q]
          /\ s.backend[q] = r.backend[q] /\ s.owner[q] = r.owner[q]
          /\ s.enabled[q] = r.enabled[q] /\ s.status[q] = r.status[q]
          /\ s.close_fd[q] = r.close_fd[q] /\ s.mgr = r.mgr
          /\ q \in s.linked /\ (q \in s.born <=> q \in r.born)
          /\ (q \in s.flushing <=> q \in r.flushing)
      BY <2>1, <2>4, SameAtFields DEF Changes
    <2>7. Counted(s, q, ev[q])
      <3>1. r.lrefs[q] # 0
        BY <2>1, <2>2 DEF Good, Counted, One
      <3> QED  BY <2>1, <2>2, <2>6, <3>1 DEF Good, Counted, One
    <2>8. WatchedAt(s, q) /\ OpenAt(s, q) /\ KeptAt(s, q)
      <3>1. "sync" \notin {r.mgr} \ {None}
        BY <2>2, RouterAssumptions DEF Typed
      <3>2. s.backs[q] = {r.mgr} \ {None} /\ Synced(s, q) = {}
        BY <2>1, <2>2, <2>4, <3>1 DEF Good, WatchedAt, Synced
      <3> QED  BY <2>1, <2>2, <2>6, <3>2 DEF Good, WatchedAt, OpenAt, KeptAt
    <2>9. AllGood(s, ev)
      BY <2>1, <2>4, <2>7, <2>8, ChangeKeepsGood DEF Good
    <2> QED  BY <2>5, <2>9 DEF s
  <1> QED  BY <1>1, <1>2

(* And set to a peer with a link.                                          *)
LEMMA SetCacheGood ==
  ASSUME NEW r, Linked(r), NEW ev \in [Peers -> Nat], AllGood(r, ev), NEW p \in r.linked
  PROVE  LET s == mtc_simple_router_set_sync_cache(r, p)
         IN  AllGood(s, ev) /\ s.lrefs = r.lrefs
  <1> DEFINE c == mtc_simple_router_clear_sync_cache(r, r.cache)
             b == Back(c, p, "sync")
             s == [b EXCEPT !.cache = p]
  <1>0. p \in Peers /\ p # None
    BY NoneIsNoPeer DEF Linked, CoreType
  <1>1. CASE r.cache = p
    BY <1>1 DEF mtc_simple_router_set_sync_cache
  <1>2. CASE r.cache # p
    <2>1. mtc_simple_router_set_sync_cache(r, p) = s
      BY <1>0, <1>2 DEF mtc_simple_router_set_sync_cache
    <2>2. AllGood(c, ev) /\ c.cache = None /\ c.linked = r.linked /\ c.lrefs = r.lrefs
      BY ClearGood
    <2> HIDE DEF c
    <2>3. Good(c, p, ev[p]) /\ IsRouter(c) /\ Typed(c) /\ p \in c.linked
      BY <1>0, <2>2 DEF AllGood
    <2>4. c.backs[p] = {c.mgr} \ {None} /\ "sync" \notin c.backs[p]
      <3>1. "sync" \notin {c.mgr} \ {None}
        BY <2>3, RouterAssumptions DEF Typed
      <3> QED  BY <1>0, <2>2, <2>3, <3>1 DEF Good, WatchedAt, Synced
    <2>5. Changes(b, c, p, {"backs"}) /\ b.backs[p] = c.backs[p] \cup {"sync"}
      BY <1>0, <2>3, <2>4, BackChanges DEF AllMgrs
    <2>6. b.cache = None /\ b.lrefs = c.lrefs
      BY <2>2, <2>3 DEF Back, IsRouter, Fields
    <2> HIDE DEF b
    <2>7. /\ IsRouter(s) /\ s.cache = p /\ \A x \in Fields \ {"cache"} : s[x] = b[x]
      BY <2>5 DEF Changes, IsRouter, Fields
    <2> HIDE DEF s
    <2>8. Changes(s, c, p, {"backs", "cache"})
      <3>1. Typed(s) /\ Rest(s, p) = Rest(b, p) /\ s.mgr = b.mgr /\ s.rrefs = b.rrefs
        BY <2>5, <2>7 DEF Changes, Typed, Fields, Rest
      <3>2. SameAt(s, b, p, {"cache"}) /\ \A q \in Peers \ {p} : SameAt(s, b, q, {})
        BY <2>6, <2>7, NoneIsNoPeer DEF SameAt, Slots, Lists, Fields
      <3>3. Changes(s, b, p, {"cache"})
        BY <2>7, <3>1, <3>2 DEF Changes
      <3>4. Changes(s, c, p, {"backs"} \cup {"cache"})
        BY <2>5, <3>3, ChangesThen
      <3> QED  BY <3>4, ChangesLess
    <2>9. /\ s.lrefs[p] = c.lrefs[p] /\ s.closed[p] = c.closed[p]
          /\ s.backend[p] = c.backend[p] /\ s.owner[p] = c.owner[p]
          /\ s.enabled[p] = c.enabled[p] /\ s.status[p] = c.status[p]
          /\ s.close_fd[p] = c.close_fd[p] /\ s.mgr = c.mgr
          /\ p \in s.linked /\ (p \in s.born <=> p \in c.born)
          /\ (p \in s.flushing <=> p \in c.flushing)
      BY <2>3, <2>8, SameAtFields DEF Changes
    <2>10. Counted(s, p, ev[p])
      <3>1. c.lrefs[p] # 0
        BY <1>0, <2>3 DEF Good, Counted, One
      <3> QED  BY <2>3, <2>9, <3>1 DEF Good, Counted, One
    <2>11. WatchedAt(s, p) /\ OpenAt(s, p) /\ KeptAt(s, p)
      <3>1. s.backs[p] = ({c.mgr} \ {None}) \cup {"sync"} /\ Synced(s, p) = {"sync"}
        BY <2>4, <2>5, <2>7 DEF Fields, Synced
      <3> QED  BY <2>3, <2>9, <3>1 DEF Good, WatchedAt, OpenAt, KeptAt
    <2>12. AllGood(s, ev)
      BY <1>0, <2>2, <2>8, <2>10, <2>11, ChangeKeepsGood DEF Good
    <2>13. s.lrefs = r.lrefs
      BY <2>2, <2>6, <2>7 DEF Fields
    <2> QED  BY <2>1, <2>12, <2>13
  <1> QED  BY <1>1, <1>2

(* The numbers that the equations are about are numbers.                   *)
LEMMA UsersFinite ==
  ASSUME NEW r, NEW m
  PROVE  IsFiniteSet(Users(r, m)) /\ Cardinality(Users(r, m)) \in Nat
  <1>1. IsFiniteSet(Peers) /\ Users(r, m) \subseteq Peers
    BY RouterAssumptions DEF Users
  <1> QED  BY <1>1, FS_Subset, FS_CardinalityType

(* The last reference to the router, which goes when no peer has a link    *)
(* any more.                                                               *)
LEMMA RouterUnrefGood ==
  ASSUME NEW r, Linked(r), NEW ev \in [Peers -> Nat], AllGood(r, ev),
         r.rrefs > 0, r.rrefs = 1 => r.linked = {}
  PROVE  /\ AllGood(RouterUnref(r), ev)
         /\ \A x \in Slots \cup Lists : RouterUnref(r)[x] = r[x]
  <1> DEFINE one == [r EXCEPT !.rrefs = @ - 1]
             end == [one EXCEPT !.aborted = r.ring # {}, !.mgr = None,
                       !.mrefs = [m \in AllMgrs |->
                                    IF m \in {"sync", r.mgr} THEN @[m] - 1 ELSE @[m]]]
  <1>1. /\ IsRouter(one) /\ one.rrefs = r.rrefs - 1
        /\ \A x \in Fields \ {"rrefs"} : one[x] = r[x]
    BY DEF Linked, IsRouter, Fields
  <1>2. r.rrefs \in Int
    BY DEF Linked, CoreType
  <1>3. CASE r.rrefs # 1
    <2>1. RouterUnref(r) = one
      BY <1>1, <1>2, <1>3 DEF RouterUnref
    <2> HIDE DEF one
    <2>2. Typed(one)
      BY <1>1 DEF AllGood, Typed, Fields
    <2>3. one.mgr = r.mgr /\ (one.rrefs > 0 <=> r.rrefs > 0)
      BY <1>1, <1>2, <1>3 DEF Fields
    <2>4. \A q \in Peers : SameAt(one, r, q, {})
      BY <1>1 DEF SameAt, Slots, Lists, Fields
    <2>5. \A q \in Peers : Good(one, q, ev[q])
      BY <2>3, <2>4, GoodSame DEF AllGood
    <2>6. MgrsCounted(one)
      <3>1. one.mrefs = r.mrefs /\ \A m : Users(one, m) = Users(r, m)
        BY <1>1 DEF Users, Fields
      <3> QED  BY <2>3, <3>1 DEF AllGood, MgrsCounted
    <2>7. \A x \in Slots \cup Lists : one[x] = r[x]
      BY <1>1 DEF Slots, Lists, Fields
    <2> QED  BY <1>1, <2>1, <2>2, <2>5, <2>6, <2>7 DEF AllGood
  <1>4. CASE r.rrefs = 1
    <2>1. RouterUnref(r) = end
      <3>1. r.cache = None /\ one.cache = None /\ one.rrefs = 0 /\ one.ring = r.ring /\ one.mgr = r.mgr
        BY <1>1, <1>4 DEF Linked, Fields
      <3>2. mtc_simple_router_set_sync_cache(one, None) = one
        BY <3>1 DEF mtc_simple_router_set_sync_cache
      <3>3. RouterUnref(r) = mtc_simple_router_destroy(one)
        BY <3>1 DEF RouterUnref
      <3> HIDE DEF one
      <3> QED  BY <3>1, <3>2, <3>3 DEF mtc_simple_router_destroy
    <2>2. /\ IsRouter(end) /\ end.mgr = None
          /\ end.mrefs = [m \in AllMgrs |-> IF m \in {"sync", r.mgr} THEN r.mrefs[m] - 1
                                                                    ELSE r.mrefs[m]]
          /\ \A x \in Fields \ {"aborted", "mgr", "mrefs"} : end[x] = one[x]
      <3>1. one.mrefs = r.mrefs
        BY <1>1 DEF Fields
      <3> HIDE DEF one
      <3> QED  BY <1>1, <3>1 DEF IsRouter, Fields
    <2> HIDE DEF one, end
    <2>3. ~(end.rrefs > 0) /\ \A x \in Slots \cup Lists \cup {"cache"} : end[x] = r[x]
      BY <1>1, <1>4, <2>2 DEF Slots, Lists, Fields
    <2>4. end.linked = {} /\ r.linked = {}
      BY <1>4, <2>3 DEF Lists
    <2>5. Typed(end)
      BY <2>2, <2>3 DEF AllGood, Typed, Slots, Lists
    <2>6. ASSUME NEW q \in Peers PROVE Good(end, q, ev[q])
      <3>1. Good(r, q, ev[q])
        BY DEF AllGood
      <3>2. Counted(end, q, ev[q])
        BY <2>3, <3>1 DEF Good, Counted, Slots, Lists
      <3>3. WatchedAt(end, q) /\ OpenAt(end, q)
        BY <2>3, <2>4, <3>1 DEF Good, WatchedAt, OpenAt, Slots, Lists
      <3>4. KeptAt(end, q)
        BY <2>3 DEF KeptAt, LostAt
      <3> QED  BY <3>2, <3>3, <3>4 DEF Good
    <2>7. MgrsCounted(end)
      <3> SUFFICES ASSUME NEW m \in AllMgrs
                   PROVE  end.mrefs[m] = Cardinality(Users(end, m))
                            + (IF m = "sync" THEN One(end.rrefs > 0) ELSE 1 + One(m = end.mgr))
        BY DEF MgrsCounted
      <3>1. Users(end, m) = Users(r, m)
        BY <2>3 DEF Users, Slots
      <3>2. r.mrefs[m] = Cardinality(Users(r, m))
                           + (IF m = "sync" THEN One(r.rrefs > 0) ELSE 1 + One(m = r.mgr))
        BY DEF AllGood, MgrsCounted
      <3>3. m # None /\ r.mgr # "sync" /\ Cardinality(Users(r, m)) \in Nat
        BY NoneIsNoMgr, UsersFinite, RouterAssumptions DEF AllGood, Typed
      <3>4. end.mrefs[m] = IF m \in {"sync", r.mgr} THEN r.mrefs[m] - 1 ELSE r.mrefs[m]
        BY <2>2
      <3>5. CASE m = "sync"
        <4>1. r.mrefs[m] = Cardinality(Users(r, m)) + 1
          BY <1>4, <3>2, <3>5 DEF One
        <4> QED  BY <2>3, <3>1, <3>3, <3>4, <3>5, <4>1 DEF One
      <3>6. CASE m # "sync" /\ m = r.mgr
        <4>1. r.mrefs[m] = Cardinality(Users(r, m)) + 2
          BY <3>2, <3>3, <3>6 DEF One
        <4> QED  BY <2>2, <3>1, <3>3, <3>4, <3>6, <4>1 DEF One
      <3>7. CASE m # "sync" /\ m # r.mgr
        <4>1. r.mrefs[m] = Cardinality(Users(r, m)) + 1
          BY <3>2, <3>3, <3>7 DEF One
        <4> QED  BY <2>2, <3>1, <3>3, <3>4, <3>7, <4>1 DEF One
      <3> QED  BY <3>5, <3>6, <3>7
    <2> QED  BY <2>1, <2>2, <2>3, <2>5, <2>6, <2>7 DEF AllGood
  <1> QED  BY <1>3, <1>4

(* A link that goes, and what it had to send.                              *)
Drops(s, r, q) ==
  r.lrefs[q] > 0 /\ s.lrefs[q] = 0 /\ s.unsent[q] > 0 =>
    s.status[q] = "broken" \/ ~s.enabled[q] \/ r.rrefs = 0

(* A function after which a peer is counted and connected as before drops no data of it. *)
LEMMA KeptDrops ==
  ASSUME NEW r, NEW s, NEW q \in Peers, NEW e \in Nat, NEW f \in Nat,
         Linked(r), Typed(r), Counted(r, q, e), Counted(s, q, f), KeptAt(s, q),
         q \in r.born => q \in s.born, ~(s.rrefs > 0) => r.rrefs = 0
  PROVE  Drops(s, r, q)
  <1>1. r.lrefs[q] > 0 => q \in r.born
    BY DEF Counted, One, Linked, CoreType, Typed
  <1>2. s.lrefs[q] = 0 => q \notin s.linked /\ q \notin s.flushing
    BY DEF Counted, One
  <1> QED  BY <1>1, <1>2 DEF Drops, KeptAt, LostAt

(* The last reference to a peer.                                           *)
LEMMA PeerUnrefGood ==
  ASSUME NEW r, Linked(r), NEW ev \in [Peers -> Nat], AllGood(r, ev),
         NEW p \in Peers, r.refs[p] = 1, r.rrefs > 0, r.rrefs = 1 => r.linked \subseteq {p}
  PROVE  /\ AllGood(PeerUnref(r, p), ev)
         /\ \A q \in Peers : Drops(PeerUnref(r, p), r, q)
  <1> DEFINE one == [r EXCEPT !.refs[p] = @ - 1]
             shut == mtc_simple_peer_close(one, p)
  <1>1. /\ IsRouter(one) /\ one.refs = [r.refs EXCEPT ![p] = 0] /\ one.refs[p] = 0
        /\ \A x \in Fields \ {"refs"} : one[x] = r[x]
    BY DEF Linked, IsRouter, Fields, CoreType
  <1>2. PeerUnref(r, p) = RouterUnref(shut)
    BY <1>1 DEF PeerUnref, mtc_simple_peer_destroy
  <1> HIDE DEF one
  <1>3. Linked(one)
    BY <1>1 DEF Linked, CoreType, Fields
  <1>4. AllGood(one, ev)
    <2>1. Typed(one) /\ Rest(one, p) = Rest(r, p) /\ one.mgr = r.mgr /\ one.rrefs = r.rrefs
      BY <1>1 DEF AllGood, Typed, Fields, Rest
    <2>2. \A q \in Peers : SameAt(one, r, q, {})
      BY <1>1 DEF SameAt, Slots, Lists, Fields
    <2>3. Changes(one, r, p, {})
      BY <1>1, <2>1, <2>2 DEF Changes
    <2>4. Good(one, p, ev[p])
      BY <2>1, <2>2, GoodSame DEF AllGood
    <2> QED  BY <2>3, <2>4, ChangeKeepsGood
  <1>5. Changes(shut, one, p, All) /\ Good(shut, p, ev[p])
    BY <1>3, <1>4, CloseGood DEF AllGood
  <1>6. AllGood(shut, ev)
    BY <1>4, <1>5, ChangeKeepsGood
  <1>7. Linked(shut) /\ Keeps(shut, one, {p})
    BY <1>3, CloseKeeps
  <1>8. shut.rrefs = r.rrefs /\ shut.linked = r.linked \ {p}
    BY <1>1, <1>7 DEF Keeps, Fields
  <1> HIDE DEF shut
  <1>9. AllGood(RouterUnref(shut), ev) /\ \A x \in Slots \cup Lists : RouterUnref(shut)[x] = shut[x]
    BY <1>6, <1>7, <1>8, RouterUnrefGood
  <1>10. \A q \in Peers : Drops(shut, r, q)
    <2> TAKE q \in Peers
    <2>1. Good(r, q, ev[q]) /\ Good(shut, q, ev[q]) /\ Typed(r) /\ ev[q] \in Nat
      BY <1>6 DEF AllGood
    <2>2. shut.born = r.born
      BY <1>1, <1>7 DEF Keeps, Fields
    <2> QED  BY <1>8, <2>1, <2>2, KeptDrops DEF Good
  <1>11. \A q \in Peers : Drops(RouterUnref(shut), r, q)
    BY <1>9, <1>10 DEF Drops, Slots
  <1> QED  BY <1>2, <1>9, <1>11

(* A new peer has a link that the router's manager watches.                *)
LEMMA AddGood ==
  ASSUME NEW r, Linked(r), NEW ev \in [Peers -> Nat], AllGood(r, ev),
         NEW p \in Peers, p \notin r.born, r.rrefs > 0, NEW close_fd
  PROVE  AllGood(mtc_simple_router_add(r, p, close_fd), ev)
  <1> DEFINE link == NewLink(PeerInit(r, p), p, close_fd)
             new == mtc_simple_peer_setup_events(mtc_simple_peer_insert(link, p), p)
             s == mtc_simple_peer_set_backend(new, p, r.mgr)
  <1>1. /\ IsRouter(new)
        /\ new.born = r.born \cup {p} /\ new.linked = r.linked \cup {p}
        /\ new.rrefs = r.rrefs + 1
        /\ new.lrefs = [r.lrefs EXCEPT ![p] = 1]
        /\ new.status = [r.status EXCEPT ![p] = "open"]
        /\ new.close_fd = [r.close_fd EXCEPT ![p] = CloseFd(p, close_fd)]
        /\ new.owner = [r.owner EXCEPT ![p] = "peer"]
        /\ new.enabled = [r.enabled EXCEPT ![p] = TRUE]
        /\ \A x \in {"backs", "backend", "unsent", "closed", "flushing", "cache", "mgr", "mrefs"} :
             new[x] = r[x]
    <2> DEFINE init == PeerInit(r, p)
               in == mtc_simple_peer_insert(link, p)
    <2>1. /\ IsRouter(init) /\ init.born = r.born \cup {p} /\ init.rrefs = r.rrefs + 1
          /\ \A x \in Fields \ {"born", "refs", "rrefs"} : init[x] = r[x]
      BY DEF Linked, IsRouter, Fields, PeerInit
    <2>2. /\ IsRouter(link) /\ link.linked = init.linked \cup {p}
          /\ link.lrefs = [init.lrefs EXCEPT ![p] = 1]
          /\ link.status = [init.status EXCEPT ![p] = "open"]
          /\ link.close_fd = [init.close_fd EXCEPT ![p] = CloseFd(p, close_fd)]
          /\ \A x \in Fields \ {"linked", "lrefs", "status", "close_fd"} : link[x] = init[x]
      <3> HIDE DEF init
      <3> QED  BY <2>1 DEF IsRouter, Fields, NewLink, init
    <2> HIDE DEF init, link
    <2>3. IsRouter(in) /\ \A x \in Fields \ {"ring"} : in[x] = link[x]
      BY <2>2 DEF IsRouter, Fields, mtc_simple_peer_insert
    <2> HIDE DEF in
    <2>4. /\ IsRouter(new) /\ new.owner = [in.owner EXCEPT ![p] = "peer"]
          /\ new.enabled = [in.enabled EXCEPT ![p] = TRUE]
          /\ \A x \in Fields \ {"owner", "enabled"} : new[x] = in[x]
      BY <2>3 DEF IsRouter, Fields, mtc_simple_peer_setup_events, in
    <2> HIDE DEF new
    <2>5. \A x \in Fields \ {"owner", "enabled", "ring"} : new[x] = link[x]
      BY <2>3, <2>4
    <2>6. \A x \in Fields \ {"born", "refs", "rrefs", "linked", "lrefs", "status", "close_fd",
                            "owner", "enabled", "ring"} : new[x] = r[x]
      BY <2>1, <2>2, <2>5
    <2>7. in.owner = r.owner /\ in.enabled = r.enabled
      BY <2>1, <2>2, <2>3 DEF Fields
    <2>8. /\ init.linked = r.linked /\ init.lrefs = r.lrefs /\ init.status = r.status
          /\ init.close_fd = r.close_fd
      BY <2>1 DEF Fields
    <2>9. /\ new.born = init.born /\ new.rrefs = init.rrefs /\ new.linked = link.linked
          /\ new.lrefs = link.lrefs /\ new.status = link.status
          /\ new.close_fd = link.close_fd
      BY <2>2, <2>5 DEF Fields
    <2>10. \A x \in {"backs", "backend", "unsent", "closed", "flushing", "cache", "mgr", "mrefs"} :
             new[x] = r[x]
      BY <2>6 DEF Fields
    <2> QED  BY <2>1, <2>2, <2>4, <2>7, <2>8, <2>9, <2>10
  <1>2. mtc_simple_router_add(r, p, close_fd) = s
    BY DEF mtc_simple_router_add
  <1> HIDE DEF new
  <1>3. Good(r, p, ev[p]) /\ IsRouter(r) /\ Typed(r)
    BY DEF AllGood
  <1>4. p \notin r.linked /\ p \notin r.flushing
    BY <1>3 DEF Linked, CoreType, Typed
  <1>5. /\ ev[p] = 0 /\ r.backend[p] = None /\ r.lrefs[p] = 0 /\ r.backs[p] = {} /\ r.closed[p] = 0
    BY <1>3, <1>4 DEF Good, Counted, One
  <1>6. Typed(new)
    <2>1. CloseFd(p, close_fd) \in BOOLEAN
      BY DEF CloseFd
    <2>2. /\ new.lrefs \in [Peers -> Int] /\ new.close_fd \in [Peers -> BOOLEAN]
          /\ new.status \in [Peers -> {"open", "stopped", "broken"}]
          /\ new.flushing \subseteq new.born
      BY <1>1, <1>3, <2>1 DEF Typed
    <2> QED  BY <1>1, <1>3, <2>2 DEF Typed
  <1>7. Changes(new, r, p, {"born", "linked", "lrefs", "status", "close_fd", "owner", "enabled"})
    <2>1. Rest(new, p) = Rest(r, p) /\ new.mgr = r.mgr
      BY <1>1 DEF Rest
    <2>2. new.rrefs > 0
      BY <1>1 DEF Linked, CoreType
    <2>3. ASSUME NEW q \in Peers \ {p} PROVE SameAt(new, r, q, {})
      BY <1>1, <1>3, SameAtFields DEF Typed, Linked, CoreType
    <2>4. SameAt(new, r, p, {"born", "linked", "lrefs", "status", "close_fd", "owner", "enabled"})
      BY <1>1, SameAtFields
    <2> QED  BY <1>1, <1>6, <2>1, <2>2, <2>3, <2>4 DEF Changes
  <1>8. /\ Changes(s, new, p, {"backs", "backend"})
        /\ s.backs[p] = {r.mgr} \ {None} /\ s.backend[p] = r.mgr
    <2>1. new.backend[p] = None /\ new.backs[p] = {}
      BY <1>1, <1>5
    <2>2. IsRouter(new) /\ r.mgr \in Mgrs \cup {None} /\ r.mgr \notin new.backs[p] \ {new.backend[p]}
      BY <1>1, <1>3, <2>1 DEF Typed
    <2>3. /\ Changes(s, new, p, {"backs", "backend"})
          /\ s.backs[p] = (new.backs[p] \ {new.backend[p]}) \cup ({r.mgr} \ {None})
          /\ s.backend[p] = r.mgr
      BY <1>6, <2>1, <2>2, SetBackendChanges
    <2> QED  BY <2>1, <2>3
  <1> HIDE DEF s
  <1>9. Changes(s, r, p, All \cup {"born"})
    <2>1. Changes(s, r, p, {"born", "linked", "lrefs", "status", "close_fd", "owner", "enabled"}
                             \cup {"backs", "backend"})
      BY <1>7, <1>8, ChangesThen
    <2> QED  BY <2>1, ChangesLess DEF All, Slots, Lists
  <1>10. /\ s.lrefs[p] = 1 /\ s.owner[p] = "peer" /\ s.enabled[p] /\ s.status[p] = "open"
         /\ p \in s.linked /\ p \in s.born /\ p \notin s.flushing /\ s.closed[p] = 0
         /\ s.mgr = r.mgr /\ s.cache # p
    <2>1. /\ new.lrefs[p] = 1 /\ new.owner[p] = "peer" /\ new.enabled[p] /\ new.status[p] = "open"
          /\ p \in new.linked /\ p \in new.born /\ p \notin new.flushing /\ new.closed[p] = 0
          /\ new.mgr = r.mgr /\ new.cache # p
      BY <1>1, <1>3, <1>4, <1>5, NoneIsNoPeer DEF Linked, CoreType, Typed
    <2> QED  BY <1>8, <2>1, SameAtFields DEF Changes
  <1>11. Good(s, p, ev[p])
    BY <1>5, <1>8, <1>10 DEF Good, Counted, WatchedAt, OpenAt, KeptAt, Synced, One
  <1> QED  BY <1>2, <1>9, <1>11, ChangeKeepsGood

(* The users of a manager, on the ring and off it.                         *)
LEMMA UsersSplit ==
  ASSUME NEW r, NEW m, NEW ring \in SUBSET Peers
  PROVE  /\ Cardinality({p \in ring : m \in r.backs[p]}) \in Nat
         /\ Cardinality({p \in Peers \ ring : m \in r.backs[p]}) \in Nat
         /\ Cardinality(Users(r, m)) =
              Cardinality({p \in ring : m \in r.backs[p]})
                + Cardinality({p \in Peers \ ring : m \in r.backs[p]})
  <1> DEFINE on == {p \in ring : m \in r.backs[p]}
             off == {p \in Peers \ ring : m \in r.backs[p]}
  <1>1. IsFiniteSet(on) /\ IsFiniteSet(off)
    <2>1. IsFiniteSet(Peers) /\ on \subseteq Peers /\ off \subseteq Peers
      BY RouterAssumptions
    <2> QED  BY <2>1, FS_Subset
  <1>2. Users(r, m) = on \cup off /\ on \cap off = {}
    BY DEF Users
  <1> HIDE DEF on, off
  <1>3. Cardinality(on) \in Nat /\ Cardinality(off) \in Nat
    BY <1>1, FS_CardinalityType
  <1>4. Cardinality(on \cup off) = Cardinality(on) + Cardinality(off) - Cardinality(on \cap off)
    BY <1>1, FS_Union
  <1>5. Cardinality(on \cap off) = 0
    BY <1>2, FS_EmptySet
  <1> QED  BY <1>2, <1>3, <1>4, <1>5 DEF on, off

(* Another manager for the router, and for each link on the ring.          *)
LEMMA SetEventMgrGood ==
  ASSUME NEW r, Linked(r), NEW ev \in [Peers -> Nat], AllGood(r, ev),
         NEW m \in Mgrs \cup {None}, m # r.mgr
  PROVE  /\ AllGood(mtc_simple_router_set_event_mgr(r, m), ev)
         /\ mtc_simple_router_set_event_mgr(r, m).lrefs = r.lrefs
  <1> DEFINE s == mtc_simple_router_set_event_mgr(r, m)
  <1>1. /\ IsRouter(s) /\ s.mgr = m
        /\ s.backend = [p \in Peers |-> IF p \in r.ring THEN m ELSE r.backend[p]]
        /\ s.backs = [p \in Peers |->
                        IF p \in r.ring THEN (r.backs[p] \ {r.backend[p]}) \cup ({m} \ {None})
                                        ELSE r.backs[p]]
        /\ s.mrefs = [x \in AllMgrs |->
                        r.mrefs[x] - Managed(r, x) - One(x = r.mgr)
                          + (IF x = m THEN Cardinality(r.ring) + 1 ELSE 0)]
        /\ \A x \in Fields \ {"mgr", "backend", "backs", "mrefs"} : s[x] = r[x]
    BY DEF mtc_simple_router_set_event_mgr, Linked, IsRouter, Fields
  <1> HIDE DEF s
  <1>2. Typed(r) /\ r.ring = r.linked /\ r.ring \subseteq Peers
    BY DEF AllGood, Linked, CoreType
  <1>3. r.mgr \in Mgrs \cup {None} /\ "sync" \notin {m, r.mgr} /\ None \notin AllMgrs
    BY <1>2, NoneIsNoMgr, RouterAssumptions DEF Typed
  <1>4. IsFiniteSet(r.ring) /\ Cardinality(r.ring) \in Nat
    BY <1>2, RouterAssumptions, FS_Subset, FS_CardinalityType
  <1>5. ASSUME NEW p \in r.ring
        PROVE  /\ r.backend[p] = r.mgr /\ r.backs[p] = ({r.mgr} \ {None}) \cup Synced(r, p)
               /\ s.backs[p] = ({m} \ {None}) \cup Synced(r, p) /\ s.backend[p] = m
    <2>1. r.backend[p] = r.mgr /\ r.backs[p] = ({r.mgr} \ {None}) \cup Synced(r, p)
      BY <1>2 DEF AllGood, Good, WatchedAt
    <2>2. s.backs[p] = (r.backs[p] \ {r.mgr}) \cup ({m} \ {None})
      BY <1>1, <1>2, <2>1
    <2> QED  BY <1>1, <1>2, <1>3, <2>1, <2>2 DEF Synced
  <1>6. \A p \in Peers \ r.ring : s.backs[p] = r.backs[p] /\ s.backend[p] = r.backend[p]
    BY <1>1
  <1>7. /\ s.lrefs = r.lrefs /\ s.closed = r.closed /\ s.owner = r.owner
        /\ s.enabled = r.enabled /\ s.status = r.status /\ s.unsent = r.unsent
        /\ s.close_fd = r.close_fd /\ s.born = r.born /\ s.linked = r.linked
        /\ s.flushing = r.flushing /\ s.cache = r.cache /\ s.rrefs = r.rrefs
    BY <1>1 DEF Fields
  <1>8. \A x \in AllMgrs : Managed(r, x) = IF x = r.mgr THEN Cardinality(r.ring) ELSE 0
    <2> TAKE x \in AllMgrs
    <2>1. CASE x = r.mgr
      <3>1. {p \in r.ring : r.backend[p] = x} = r.ring
        BY <1>5, <2>1
      <3> QED  BY <2>1, <3>1 DEF Managed
    <2>2. CASE x # r.mgr
      <3>1. {p \in r.ring : r.backend[p] = x} = {}
        BY <1>5, <2>2
      <3> QED  BY <2>2, <3>1, FS_EmptySet DEF Managed
    <2> QED  BY <2>1, <2>2
  <1>9. Typed(s)
    <2>1. s.backend \in [Peers -> Mgrs \cup {None}]
      BY <1>1, <1>2 DEF Typed
    <2>2. s.backs \in [Peers -> SUBSET AllMgrs]
      <3>1. \A p \in Peers : (r.backs[p] \ {r.backend[p]}) \cup ({m} \ {None}) \subseteq AllMgrs
        BY <1>2 DEF Typed, AllMgrs
      <3> QED  BY <1>1, <1>2, <3>1 DEF Typed
    <2>3. s.mrefs \in [AllMgrs -> Int]
      <3>1. ASSUME NEW x \in AllMgrs
            PROVE  r.mrefs[x] - Managed(r, x) - One(x = r.mgr)
                     + (IF x = m THEN Cardinality(r.ring) + 1 ELSE 0) \in Int
        <4>1. Managed(r, x) \in Int /\ r.mrefs[x] \in Int
          BY <1>2, <1>4, <1>8 DEF Typed
        <4> QED  BY <1>4, <4>1 DEF One
      <3> QED  BY <1>1, <3>1
    <2> QED  BY <1>1, <1>2, <1>7, <2>1, <2>2, <2>3 DEF Typed
  <1>10. ASSUME NEW p \in Peers PROVE Good(s, p, ev[p])
    <2>1. Good(r, p, ev[p]) /\ Synced(s, p) = Synced(r, p)
      BY <1>7 DEF AllGood, Synced
    <2>2. CASE p \in r.ring
      <3>1. p \in r.linked /\ p \in r.born /\ r.lrefs[p] # 0
        BY <1>2, <2>1, <2>2 DEF Good, Counted, One, Linked, CoreType
      <3>2. Counted(s, p, ev[p])
        BY <1>7, <2>1, <3>1 DEF Good, Counted, One
      <3>3. WatchedAt(s, p) /\ OpenAt(s, p) /\ KeptAt(s, p)
        BY <1>1, <1>5, <1>7, <2>1, <2>2, <3>1 DEF Good, WatchedAt, OpenAt, KeptAt, LostAt
      <3> QED  BY <3>2, <3>3 DEF Good
    <2>3. CASE p \notin r.ring
      <3>1. p \notin r.linked /\ s.backs[p] = r.backs[p] /\ s.backend[p] = r.backend[p]
        BY <1>2, <1>6, <2>3
      <3>2. Counted(s, p, ev[p])
        BY <1>7, <2>1, <3>1 DEF Good, Counted
      <3>3. WatchedAt(s, p) /\ OpenAt(s, p) /\ KeptAt(s, p)
        BY <1>7, <2>1, <3>1 DEF Good, WatchedAt, OpenAt, KeptAt, LostAt
      <3> QED  BY <3>2, <3>3 DEF Good
    <2> QED  BY <2>2, <2>3
  <1>11. MgrsCounted(s)
    <2> SUFFICES ASSUME NEW x \in AllMgrs
                 PROVE  s.mrefs[x] = Cardinality(Users(s, x))
                          + (IF x = "sync" THEN One(s.rrefs > 0) ELSE 1 + One(x = s.mgr))
      BY DEF MgrsCounted
    <2> DEFINE off == {p \in Peers \ r.ring : x \in r.backs[p]}
               on == {p \in r.ring : x \in r.backs[p]}
               now == {p \in r.ring : x \in s.backs[p]}
    <2>1. /\ Cardinality(on) \in Nat /\ Cardinality(off) \in Nat
          /\ Cardinality(Users(r, x)) = Cardinality(on) + Cardinality(off)
      BY <1>2, UsersSplit
    <2>2. Cardinality(Users(s, x)) = Cardinality(now) + Cardinality(off) /\ Cardinality(now) \in Nat
      <3>1. off = {p \in Peers \ r.ring : x \in s.backs[p]}
        BY <1>6
      <3> HIDE DEF off
      <3> QED  BY <1>2, <3>1, UsersSplit
    <2>3. r.mrefs[x] = Cardinality(Users(r, x))
                         + (IF x = "sync" THEN One(r.rrefs > 0) ELSE 1 + One(x = r.mgr))
      BY DEF AllGood, MgrsCounted
    <2>4. s.mrefs[x] = r.mrefs[x] - (IF x = r.mgr THEN Cardinality(r.ring) ELSE 0) - One(x = r.mgr)
                         + (IF x = m THEN Cardinality(r.ring) + 1 ELSE 0)
      BY <1>1, <1>8
    <2>5. x = "sync" => now = on
      BY <1>3, <1>5
    <2>6. x # "sync" => /\ on = IF x = r.mgr THEN r.ring ELSE {}
                        /\ now = IF x = m THEN r.ring ELSE {}
      <3>1. x # None
        BY <1>3
      <3> QED  BY <1>5, <3>1 DEF Synced
    <2> HIDE DEF on, off, now
    <2>7. CASE x = "sync"
      BY <1>3, <1>7, <2>1, <2>2, <2>3, <2>4, <2>5, <2>7 DEF One
    <2>8. CASE x # "sync" /\ x = m
      <3>1. Cardinality(on) = 0 /\ now = r.ring
        BY <2>6, <2>8, FS_EmptySet
      <3>2. s.mrefs[x] = r.mrefs[x] + Cardinality(r.ring) + 1
        BY <1>4, <2>1, <2>3, <2>4, <2>8 DEF One
      <3>3. r.mrefs[x] = Cardinality(off) + 1
        BY <2>1, <2>3, <2>8, <3>1 DEF One
      <3> QED  BY <1>1, <1>4, <2>1, <2>2, <2>8, <3>1, <3>2, <3>3 DEF One
    <2>9. CASE x # "sync" /\ x = r.mgr
      <3>1. Cardinality(now) = 0 /\ on = r.ring
        BY <2>6, <2>9, FS_EmptySet
      <3>2. r.mrefs[x] = Cardinality(r.ring) + Cardinality(off) + 2
        BY <2>1, <2>3, <2>9, <3>1 DEF One
      <3>3. s.mrefs[x] = r.mrefs[x] - Cardinality(r.ring) - 1
        BY <1>4, <2>4, <2>9, <3>2, <2>1 DEF One
      <3> QED  BY <1>1, <1>4, <2>1, <2>2, <2>9, <3>1, <3>2, <3>3 DEF One
    <2>10. CASE x # "sync" /\ x # r.mgr /\ x # m
      <3>1. Cardinality(now) = 0 /\ Cardinality(on) = 0
        BY <2>6, <2>10, FS_EmptySet
      <3> QED  BY <1>1, <2>1, <2>2, <2>3, <2>4, <2>10, <3>1 DEF One
    <2> QED  BY <2>7, <2>8, <2>9, <2>10
  <1> QED  BY <1>1, <1>7, <1>9, <1>10, <1>11 DEF AllGood, s

-----------------------------------------------------------------------------
(* The events that run are the frames of events on the stack.              *)

(* They are numbered from the top, and so move when a frame is put there.  *)
LEMMA EventsPush ==
  ASSUME NEW s \in Seq(Frames), NEW f \in Frames, NEW p \in Peers
  PROVE  /\ Cardinality(EventsIn(s, p)) \in Nat
         /\ Cardinality(EventsIn(<<f>> \o s, p)) =
              Cardinality(EventsIn(s, p)) + One(f.kind = "event" /\ f.peer = p)
  <1> DEFINE t == <<f>> \o s
             old == EventsIn(s, p)
             moved == {k + 1 : k \in old}
  <1>1. /\ Len(t) = Len(s) + 1 /\ Len(s) \in Nat
        /\ \A k \in 1..Len(t) : t[k] = IF k = 1 THEN f ELSE s[k - 1]
    OBVIOUS
  <1> HIDE DEF t
  <1>2. IsFiniteSet(old) /\ Cardinality(old) \in Nat
    <2>1. old \subseteq 1..Len(s)
      BY DEF EventsIn
    <2>2. IsFiniteSet(1..Len(s))
      BY <1>1, FS_Interval
    <2> HIDE DEF old
    <2>3. IsFiniteSet(old)
      BY <2>1, <2>2, FS_Subset
    <2> QED  BY <2>3, FS_CardinalityType
  <1>3. IsFiniteSet(moved) /\ Cardinality(moved) = Cardinality(old)
    <2> DEFINE shift == [k \in old |-> k + 1]
    <2>1. old \subseteq Nat
      BY DEF EventsIn
    <2> HIDE DEF old
    <2>2. shift \in Bijection(old, moved)
      <3>1. shift \in [old -> moved]
        OBVIOUS
      <3>2. \A a, b \in old : shift[a] = shift[b] => a = b
        BY <2>1
      <3>3. \A y \in moved : \E a \in old : shift[a] = y
        OBVIOUS
      <3> HIDE DEF shift, moved
      <3> QED  BY <3>1, <3>2, <3>3, Fun_IsBij
    <2>3. ExistsBijection(old, moved)
      BY <2>2 DEF ExistsBijection
    <2> HIDE DEF moved
    <2> QED  BY <1>2, <2>3, FS_Bijection
  <1>4. 1 \notin moved
    BY DEF EventsIn
  <1>5. EventsIn(t, p) = moved \cup {k \in {1} : f.kind = "event" /\ f.peer = p}
    <2>1. ASSUME NEW k \in 1..Len(t)
          PROVE  k \in EventsIn(t, p) <=>
                   k \in moved \/ (k = 1 /\ f.kind = "event" /\ f.peer = p)
      <3>1. CASE k = 1
        BY <1>1, <1>4, <3>1 DEF EventsIn
      <3>2. CASE k # 1
        <4>1. k - 1 \in 1..Len(s) /\ t[k] = s[k - 1]
          BY <1>1, <3>2
        <4>2. k \in moved <=> k - 1 \in old
          <5>1. old \subseteq Int
            BY DEF EventsIn
          <5> HIDE DEF old
          <5> QED  BY <5>1
        <4> QED  BY <3>2, <4>1, <4>2 DEF EventsIn
      <3> QED  BY <3>1, <3>2
    <2>2. moved \subseteq 1..Len(t) /\ 1 \in 1..Len(t) /\ EventsIn(t, p) \subseteq 1..Len(t)
      BY <1>1 DEF EventsIn
    <2> HIDE DEF moved
    <2> QED  BY <2>1, <2>2
  <1> HIDE DEF moved, old
  <1>6. CASE f.kind = "event" /\ f.peer = p
    <2>1. EventsIn(t, p) = moved \cup {1}
      BY <1>5, <1>6
    <2> QED  BY <1>2, <1>3, <1>4, <1>6, <2>1, FS_AddElement DEF One, t, old
  <1>7. CASE ~(f.kind = "event" /\ f.peer = p)
    <2>1. EventsIn(t, p) = moved
      BY <1>5, <1>7
    <2> QED  BY <1>2, <1>3, <1>7, <2>1 DEF One, t, old
  <1> QED  BY <1>6, <1>7

(* A frame on the stack, and off it.                                       *)
LEMMA CountsPush ==
  ASSUME NEW s \in Seq(Frames), NEW f \in Frames
  PROVE  /\ EventCounts(s) \in [Peers -> Nat]
         /\ EventCounts(<<f>> \o s) =
              IF f.kind = "event" THEN [EventCounts(s) EXCEPT ![f.peer] = @ + 1]
                                  ELSE EventCounts(s)
  <1>1. /\ \A p \in Peers : EventCounts(s)[p] \in Nat
        /\ \A p \in Peers : EventCounts(<<f>> \o s)[p] =
                              EventCounts(s)[p] + One(f.kind = "event" /\ f.peer = p)
    BY EventsPush DEF EventCounts
  <1>2. f.peer \in Peers
    BY DEF Frames
  <1>3. /\ EventCounts(s) = [p \in Peers |-> EventCounts(s)[p]]
        /\ EventCounts(<<f>> \o s) = [p \in Peers |-> EventCounts(<<f>> \o s)[p]]
    BY DEF EventCounts
  <1>4. CASE f.kind = "event"
    <2> DEFINE new == [EventCounts(s) EXCEPT ![f.peer] = @ + 1]
    <2>1. \A p \in Peers : EventCounts(<<f>> \o s)[p] = new[p]
      BY <1>1, <1>2, <1>3, <1>4 DEF One
    <2>2. new = [p \in Peers |-> new[p]]
      BY <1>3
    <2> HIDE DEF new
    <2>3. EventCounts(<<f>> \o s) = new
      BY <1>3, <2>1, <2>2
    <2> QED  BY <1>1, <1>3, <1>4, <2>3 DEF new
  <1>5. CASE f.kind # "event"
    <2>1. \A p \in Peers : EventCounts(<<f>> \o s)[p] = EventCounts(s)[p]
      BY <1>1, <1>5 DEF One
    <2> QED  BY <1>1, <1>3, <1>5, <2>1
  <1> QED  BY <1>4, <1>5

(* Returning from an entry ends its event callback, if it was one. *)
LEMMA CountsPop ==
  ASSUME NEW s \in Seq(Frames), s # <<>>
  PROVE  /\ Head(s).peer \in Peers
         /\ EventCounts(Tail(s)) =
              IF Head(s).kind = "event" THEN [EventCounts(s) EXCEPT ![Head(s).peer] = @ - 1]
                                        ELSE EventCounts(s)
         /\ Head(s).kind = "event" => EventCounts(s)[Head(s).peer] > 0
  <1>1. Tail(s) \in Seq(Frames) /\ Head(s) \in Frames /\ s = <<Head(s)>> \o Tail(s)
    OBVIOUS
  <1>2. Head(s).peer \in Peers
    BY <1>1 DEF Frames
  <1> DEFINE f == Head(s)
             t == Tail(s)
  <1> HIDE DEF f, t
  <1>3. /\ EventCounts(t) \in [Peers -> Nat]
        /\ EventCounts(s) = IF f.kind = "event" THEN [EventCounts(t) EXCEPT ![f.peer] = @ + 1]
                                                ELSE EventCounts(t)
    BY <1>1, CountsPush DEF f, t
  <1> QED  BY <1>2, <1>3 DEF f, t

(* What a frame has still to do does not matter.                           *)
LEMMA CountsTodo ==
  ASSUME NEW s \in Seq(Frames), s # <<>>, NEW todo \in Seq(Items)
  PROVE  LET t == <<[Head(s) EXCEPT !.todo = todo]>> \o Tail(s)
         IN  t \in Seq(Frames) /\ EventCounts(t) = EventCounts(s)
  <1> DEFINE f == [Head(s) EXCEPT !.todo = todo]
  <1>1. Tail(s) \in Seq(Frames) /\ Head(s) \in Frames /\ s = <<Head(s)>> \o Tail(s)
    OBVIOUS
  <1>2. f \in Frames /\ f.kind = Head(s).kind /\ f.peer = Head(s).peer
    BY <1>1 DEF Frames
  <1> HIDE DEF f
  <1> DEFINE g == Head(s)
             t == Tail(s)
  <1> HIDE DEF g, t
  <1>3. EventCounts(<<f>> \o t) = EventCounts(<<g>> \o t)
    <2>1. EventCounts(<<f>> \o t) = IF f.kind = "event" THEN [EventCounts(t) EXCEPT ![f.peer] = @ + 1]
                                                        ELSE EventCounts(t)
      BY <1>1, <1>2, CountsPush DEF t
    <2>2. EventCounts(<<g>> \o t) = IF g.kind = "event" THEN [EventCounts(t) EXCEPT ![g.peer] = @ + 1]
                                                        ELSE EventCounts(t)
      BY <1>1, CountsPush DEF g, t
    <2> QED  BY <1>2, <2>1, <2>2 DEF g
  <1>4. <<f>> \o t \in Seq(Frames) /\ EventCounts(<<g>> \o t) = EventCounts(s)
    <2>1. <<f>> \o t \in Seq(Frames)
      <3>1. t \in Seq(Frames) /\ f \in Frames
        BY <1>1, <1>2 DEF t
      <3> QED  BY <3>1
    <2>2. <<g>> \o t = s
      BY <1>1 DEF g, t
    <2> QED  BY <2>1, <2>2
  <1> QED  BY <1>3, <1>4 DEF f, t

(* The same three changes and what the frames of events may have to do.    *)
LEMMA ShapedPush ==
  ASSUME NEW s \in Seq(Frames), Shaped(s), NEW f \in Frames,
         f.kind = "step" \/ f.todo \in Seq(Items \ {"wait", "done"})
  PROVE  Shaped(<<f>> \o s)
  <1>1. Len(<<f>> \o s) = Len(s) + 1 /\ Len(s) \in Nat
    OBVIOUS
  <1>2. \A k \in 1..Len(<<f>> \o s) : (<<f>> \o s)[k] = IF k = 1 THEN f ELSE s[k - 1]
    OBVIOUS
  <1>3. \A k \in 1..(Len(s) + 1) : k # 1 => k - 1 \in 1..Len(s)
    BY <1>1
  <1> QED  BY <1>1, <1>2, <1>3 DEF Shaped

(* What is below a frame that returns has the right shape. *)
LEMMA ShapedPop ==
  ASSUME NEW s \in Seq(Frames), Shaped(s), s # <<>>
  PROVE  /\ Shaped(Tail(s)) /\ Tail(s) \in Seq(Frames)
         /\ Head(s).kind = "step" \/ Head(s).todo \in Seq(Items \ {"wait", "done"})
  <1>1. Tail(s) \in Seq(Frames) /\ Len(Tail(s)) = Len(s) - 1 /\ Len(s) \in Nat \ {0}
    OBVIOUS
  <1>2. \A k \in 1..Len(Tail(s)) : Tail(s)[k] = s[k + 1] /\ k + 1 \in 1..Len(s)
    BY <1>1
  <1>3. Head(s) = s[1] /\ 1 \in 1..Len(s)
    BY <1>1
  <1> QED  BY <1>1, <1>2, <1>3 DEF Shaped

(* A frame may go on with any part of its kind. *)
LEMMA ShapedTodo ==
  ASSUME NEW s \in Seq(Frames), Shaped(s), s # <<>>, NEW todo \in Seq(Items),
         Head(s).kind = "step" \/ todo \in Seq(Items \ {"wait", "done"})
  PROVE  Shaped(<<[Head(s) EXCEPT !.todo = todo]>> \o Tail(s))
  <1> DEFINE f == [Head(s) EXCEPT !.todo = todo]
  <1>1. Head(s) \in Frames
    OBVIOUS
  <1>2. f \in Frames /\ f.kind = Head(s).kind /\ f.todo = todo
    BY <1>1 DEF Frames
  <1> HIDE DEF f
  <1> QED  BY <1>2, ShapedPop, ShapedPush DEF f

-----------------------------------------------------------------------------
(* The steps.                                                              *)

(* What the two invariants say of a state of the router.                   *)
LEMMA LinkFacts ==
  ASSUME Base, LinkInv
  PROVE  /\ Linked(rt) /\ IsRouter(rt) /\ Typed(rt) /\ rt.linked \subseteq rt.born
         /\ stack \in Seq(Frames) /\ EventCounts(stack) \in [Peers -> Nat]
         /\ AllGood(rt, EventCounts(stack)) /\ Shaped(stack)
         /\ \A p \in Peers : Good(rt, p, EventCounts(stack)[p])
         /\ mine \subseteq Peers
  <1>1. EventCounts(stack) \in [Peers -> Nat]
    <2>1. stack \in Seq(Frames)
      BY DEF Base, StepsHeld
    <2>2. \A p \in Peers : Cardinality(EventsIn(stack, p)) \in Nat
      <3> TAKE p \in Peers
      <3>1. EventsIn(stack, p) \subseteq 1..Len(stack) /\ IsFiniteSet(1..Len(stack))
        BY <2>1, FS_Interval DEF EventsIn
      <3>2. IsFiniteSet(EventsIn(stack, p))
        BY <3>1, FS_Subset
      <3> QED  BY <3>2, FS_CardinalityType
    <2> QED  BY <2>2 DEF EventCounts
  <1> QED  BY <1>1 DEF Base, LinkInv, AllGood, Linked, CoreType, StepsHeld

(* Its references, as long as the application has any; that is all the     *)
(* lemmas below take from who has them.                                    *)
Referenced ==
  /\ held => rt.rrefs > 0
  /\ held /\ rt.rrefs = 1 => rt.linked = {}
  /\ \A p \in mine : rt.rrefs > 0 /\ (rt.rrefs = 1 => rt.linked \subseteq {p})
  /\ rt.rrefs \in Nat /\ \A p \in Peers : rt.refs[p] \in Nat
LEMMA RefsFacts ==
  ASSUME SafeInv
  PROVE  Referenced
  <1>1. mine \subseteq Peers /\ rt.linked \subseteq mine /\ rt.rrefs = One(held) + Cardinality(mine)
    BY DEF SafeInv, HeldBy, Linked, CoreType
  <1>2. /\ Cardinality(mine) \in Nat /\ (Cardinality(mine) = 0 <=> mine = {})
        /\ \A p \in mine : Cardinality(mine \ {p}) = Cardinality(mine) - 1
    BY <1>1, MineCounted
  <1>3. \A p \in mine : Cardinality(mine \ {p}) = 0 => mine \subseteq {p}
    <2> TAKE p \in mine
    <2>1. Cardinality(mine \ {p}) = 0 <=> mine \ {p} = {}
      BY <1>1, MineCounted
    <2> QED  BY <2>1
  <1>4. \A p \in mine : rt.rrefs > 0 /\ (rt.rrefs = 1 => rt.linked \subseteq {p})
    <2> TAKE p \in mine
    <2>1. Cardinality(mine) > 0
      BY <1>2
    <2>2. rt.rrefs = 1 => Cardinality(mine \ {p}) = 0
      BY <1>1, <1>2, <2>1 DEF One
    <2>3. rt.rrefs > 0
      BY <1>1, <1>2, <2>1 DEF One
    <2> QED  BY <1>1, <1>3, <2>2, <2>3
  <1>5. held => rt.rrefs > 0 /\ (rt.rrefs = 1 => mine = {})
    BY <1>1, <1>2 DEF One
  <1>6. rt.rrefs \in Nat /\ \A p \in Peers : rt.refs[p] \in Nat
    BY <1>1, <1>2 DEF One, SafeInv, HeldBy
  <1>7. held /\ rt.rrefs = 1 => rt.linked = {}
    BY <1>1, <1>5
  <1> QED  BY <1>4, <1>5, <1>6, <1>7 DEF Referenced

(* A step keeps the invariant, and no peer is unborn by it.                *)
LinkStep == LinkInv' /\ rt.born \subseteq rt'.born
EventItems == Items \ {"wait", "done"}

(* What the event callback of a link may have left to do. *)
LEMMA EventItemsTyped ==
  /\ <<>> \in Seq(EventItems) /\ <<"reset">> \in Seq(EventItems)
  /\ <<"app">> \in Seq(EventItems)
  /\ <<"app", "recv">> \in Seq(EventItems) /\ <<"reset", "recv">> \in Seq(EventItems)
  /\ <<"reset", "deliver", "recv">> \in Seq(EventItems)
  /\ <<"send">> \in Seq(EventItems) /\ <<"recv">> \in Seq(EventItems)
  /\ \A todo \in Seq(EventItems) : todo \in Seq(Items)
  BY DEF EventItems, Items

(* Going on with a frame, and entering another one, is no event.           *)
LEMMA DoingCounts ==
  ASSUME Base, LinkInv, stack # <<>>, NEW todo \in Seq(EventItems), Doing(todo)
  PROVE  EventCounts(stack') = EventCounts(stack) /\ Shaped(stack')
  <1>1. stack \in Seq(Frames) /\ Shaped(stack) /\ todo \in Seq(Items)
    BY LinkFacts, EventItemsTyped
  <1> QED  BY <1>1, CountsTodo, ShapedTodo DEF Doing, Top, EventItems

(* A step inside of an entry leaves the event callbacks that run as they are. *)
LEMMA ThenCounts ==
  ASSUME Base, LinkInv, stack # <<>>, Top.todo # <<>>, NEW items \in Seq(EventItems),
         Then(items)
  PROVE  EventCounts(stack') = EventCounts(stack) /\ Shaped(stack')
  <1> DEFINE todo == items \o Tail(Top.todo)
  <1>1. /\ stack \in Seq(Frames) /\ Shaped(stack) /\ items \in Seq(Items)
        /\ Head(stack) \in Frames
        /\ Top.kind = "step" \/ Top.todo \in Seq(EventItems)
    <2>1. stack \in Seq(Frames) /\ Shaped(stack) /\ items \in Seq(Items)
      BY LinkFacts, EventItemsTyped
    <2> QED  BY <2>1, ShapedPop DEF Top, EventItems
  <1>2. Top.todo \in Seq(Items)
    BY <1>1 DEF Top, Frames
  <1>3. todo \in Seq(Items)
    BY <1>1, <1>2
  <1>4. Top.kind = "step" \/ todo \in Seq(EventItems)
    <2>1. Top.todo \in Seq(EventItems) => todo \in Seq(EventItems)
      OBVIOUS
    <2> QED  BY <1>1, <2>1
  <1>5. stack' = <<[Head(stack) EXCEPT !.todo = todo]>> \o Tail(stack)
    BY DEF Then, Doing, Top
  <1> HIDE DEF todo
  <1> QED  BY <1>1, <1>3, <1>4, <1>5, CountsTodo, ShapedTodo DEF Top, EventItems

(* An entry that is not an event callback does too. *)
LEMMA EnterCounts ==
  ASSUME Base, LinkInv, NEW p \in Peers, NEW kind \in {"call", "step"},
         NEW todo \in Seq(Items), kind = "step" \/ todo \in Seq(EventItems),
         Enter(Frame(kind, p, todo))
  PROVE  EventCounts(stack') = EventCounts(stack) /\ Shaped(stack')
  <1> DEFINE f == Frame(kind, p, todo)
  <1>1. f \in Frames /\ f.kind = kind /\ f.todo = todo
    BY DEF Frame, Frames
  <1>2. stack' = <<f>> \o stack
    BY DEF Enter
  <1> HIDE DEF f
  <1>3. stack \in Seq(Frames) /\ Shaped(stack)
    BY LinkFacts
  <1> QED  BY <1>1, <1>2, <1>3, CountsPush, ShapedPush DEF EventItems

(* What changes one link and leaves it good.                               *)
LEMMA ChangeSteps ==
  ASSUME Base, LinkInv, NEW p \in Peers, NEW X, "born" \notin X,
         Changes(rt', rt, p, X), Good(rt', p, EventCounts(stack)[p]),
         EventCounts(stack') = EventCounts(stack), Shaped(stack')
  PROVE  LinkStep
  <1>1. EventCounts(stack) \in [Peers -> Nat] /\ AllGood(rt, EventCounts(stack)) /\ rt.born \subseteq Peers
    BY LinkFacts DEF Linked, CoreType
  <1>2. AllGood(rt', EventCounts(stack))
    BY <1>1, ChangeKeepsGood
  <1>3. \A q \in Peers : q \in rt'.born <=> q \in rt.born
    <2> TAKE q \in Peers
    <2>1. CASE q = p
      BY <2>1, SameAtFields DEF Changes
    <2>2. CASE q # p
      BY <2>2, SameAtFields DEF Changes
    <2> QED  BY <2>1, <2>2
  <1> QED  BY <1>1, <1>2, <1>3 DEF LinkStep, LinkInv

(* What does not touch the router.                                         *)
LEMMA StackSteps ==
  ASSUME Base, LinkInv, UNCHANGED rt,
         EventCounts(stack') = EventCounts(stack), Shaped(stack')
  PROVE  LinkStep
  BY DEF LinkStep, LinkInv

(* The link sends or breaks: one slot that is not about references.        *)
LEMMA AsideChanges ==
  ASSUME NEW r, Linked(r), Typed(r), NEW s, IsRouter(s), Typed(s),
         NEW x \in {"status", "unsent"}, NEW p \in Peers, NEW e \in Nat,
         Counted(r, p, e), WatchedAt(r, p),
         \A y \in Fields \ {x} : s[y] = r[y],
         \A q \in Peers \ {p} : s[x][q] = r[x][q]
  PROVE  Changes(s, r, p, {x}) /\ Linked(s) /\ Counted(s, p, e) /\ WatchedAt(s, p)
  <1>1. Changes(s, r, p, {x})
    BY SlotChanges DEF Slots
  <1>2. \A y \in Fields \ {"status", "unsent"} : s[y] = r[y]
    OBVIOUS
  <1>3. Core(s) = Core(r)
    BY <1>2 DEF Core, Fields
  <1>4. Linked(s)
    BY <1>3, SameCore
  <1>5. Counted(s, p, e)
    BY <1>2 DEF Counted, Fields
  <1>6. WatchedAt(s, p)
    BY <1>2 DEF WatchedAt, Synced, Fields
  <1> QED  BY <1>1, <1>4, <1>5, <1>6

(* The application's calls.                                                *)
LEMMA RouterAddLink ==
  ASSUME Base, Referenced, LinkInv, NEW p \in Peers, NEW close_fd \in BOOLEAN, RouterAdd(p, close_fd)
  PROVE  LinkStep
  <1>1. /\ p \notin rt.born /\ held /\ UNCHANGED stack
        /\ rt' = mtc_simple_router_add(rt, p, close_fd)
    BY DEF RouterAdd
  <1>2. AllGood(rt', EventCounts(stack))
    BY <1>1, LinkFacts, AddGood DEF Referenced
  <1>3. /\ Linked(rt') /\ rt'.born = rt.born \cup {p}
        /\ rt'.refs = [rt.refs EXCEPT ![p] = 1]
        /\ rt'.linked = rt.linked \cup {p}
        /\ rt'.rrefs = rt.rrefs + 1 /\ rt'.aborted = rt.aborted
    BY <1>1, AddLinks DEF Base
  <1> QED  BY <1>1, <1>2, <1>3 DEF LinkStep, LinkInv

(* mtc_peer_unref by the application, which may free the peer and its link. *)
LEMMA AppUnrefLink ==
  ASSUME SafeInv, LinkInv, NEW p \in Peers, AppUnref(p)
  PROVE  LinkStep /\ \A q \in Peers : Drops(rt', rt, q)
  <1>1. p \in mine /\ UNCHANGED stack /\ rt' = PeerUnref(rt, p)
    BY DEF AppUnref
  <1>2. rt.refs[p] = 1
    BY <1>1 DEF SafeInv, HeldBy, One
  <1>3. rt.rrefs > 0 /\ (rt.rrefs = 1 => rt.linked \subseteq {p})
    BY <1>1, RefsFacts DEF Referenced
  <1>4. AllGood(rt', EventCounts(stack)) /\ \A q \in Peers : Drops(rt', rt, q)
    BY <1>1, <1>2, <1>3, SafeIsBase, LinkFacts, PeerUnrefGood
  <1>5. rt'.born = rt.born
    BY <1>1, <1>2, SafeIsBase, LinkFacts, PeerUnrefKeeps
  <1> QED  BY <1>1, <1>4, <1>5 DEF LinkStep, LinkInv

(* mtc_router_unref by the application, which may destroy the router. *)
LEMMA AppUnrefRouterLink ==
  ASSUME Base, Referenced, LinkInv, AppUnrefRouter
  PROVE  LinkStep /\ \A q \in Peers : Drops(rt', rt, q)
  <1>1. held /\ UNCHANGED stack /\ rt' = RouterUnref(rt)
    BY DEF AppUnrefRouter
  <1>2. AllGood(rt', EventCounts(stack)) /\ \A x \in Slots \cup Lists : rt'[x] = rt[x]
    BY <1>1, LinkFacts, RouterUnrefGood DEF Referenced
  <1>3. rt'.born = rt.born /\ rt'.lrefs = rt.lrefs
    BY <1>2 DEF Slots, Lists
  <1>4. \A q \in Peers : rt.lrefs[q] \in Int
    BY LinkFacts DEF Typed
  <1> QED  BY <1>1, <1>2, <1>3, <1>4 DEF LinkStep, LinkInv, Drops

(* The other calls of the application. *)
LEMMA ApplicationLink ==
  ASSUME Base, LinkInv, Application, ~AppUnrefRouter, \A p \in Peers : ~AppUnref(p)
  PROVE  LinkStep
  <1> DEFINE ev == EventCounts(stack)
  <1>0. /\ Linked(rt) /\ IsRouter(rt) /\ Typed(rt) /\ ev \in [Peers -> Nat] /\ AllGood(rt, ev)
        /\ \A p \in Peers : Good(rt, p, ev[p])
        /\ Shaped(stack) /\ rt.born \subseteq Peers
    BY LinkFacts DEF Linked, CoreType
  <1> HIDE DEF ev
  <1>1. ASSUME NEW m \in Mgrs \cup {None}, SetEventMgr(m)  PROVE LinkStep
    <2>1. m # rt.mgr /\ UNCHANGED stack /\ rt' = mtc_simple_router_set_event_mgr(rt, m)
      BY <1>1 DEF SetEventMgr
    <2>2. AllGood(rt', ev)
      BY <1>0, <2>1, SetEventMgrGood
    <2>3. rt'.born = rt.born
      BY <1>0, <2>1, SetEventMgrKeeps DEF Keeps
    <2> QED  BY <1>0, <2>1, <2>2, <2>3 DEF LinkStep, LinkInv, ev
  <1>2. ASSUME NEW p \in Peers, mtc_simple_peer_disconnect(p)  PROVE LinkStep
    <2>1. rt' = mtc_simple_peer_discard(rt, p) /\ Enter(Frame("call", p, <<"reset">>))
      BY <1>2 DEF mtc_simple_peer_disconnect
    <2>2. Changes(rt', rt, p, All) /\ Good(rt', p, ev[p])
      BY <1>0, <2>1, DiscardGood DEF Good
    <2>3. EventCounts(stack') = ev /\ Shaped(stack')
      BY <2>1, EnterCounts, EventItemsTyped DEF ev
    <2> QED  BY <2>2, <2>3, ChangeSteps DEF All, ev
  <1>3. ASSUME NEW p \in Peers, mtc_simple_peer_sendto(p)  PROVE LinkStep
    <2>1. CASE p \in rt.linked
      <3>1. rt' = [rt EXCEPT !.unsent[p] = @ + 1] /\ UNCHANGED stack
        BY <1>3, <2>1 DEF mtc_simple_peer_sendto
      <3>2. /\ IsRouter(rt') /\ rt'.unsent = [rt.unsent EXCEPT ![p] = @ + 1]
            /\ \A y \in Fields \ {"unsent"} : rt'[y] = rt[y]
        BY <1>0, <3>1 DEF IsRouter, Fields
      <3>3. Typed(rt')
        <4>1. rt'.unsent \in [Peers -> Nat]
          BY <1>0, <3>2 DEF Typed
        <4> QED  BY <1>0, <3>2, <4>1 DEF Typed, Fields
      <3>4. \A q \in Peers \ {p} : rt'.unsent[q] = rt.unsent[q]
        BY <1>0, <3>2 DEF Typed
      <3>5. Changes(rt', rt, p, {"unsent"}) /\ Counted(rt', p, ev[p]) /\ WatchedAt(rt', p)
        <4>1. Good(rt, p, ev[p]) /\ ev[p] \in Nat
          BY <1>0
        <4> QED  BY <1>0, <3>2, <3>3, <3>4, <4>1, AsideChanges DEF Good
      <3>6. OpenAt(rt', p) /\ KeptAt(rt', p)
        BY <1>0, <2>1, <3>2 DEF Good, OpenAt, KeptAt, Fields
      <3>7. Good(rt', p, ev[p])
        BY <3>5, <3>6 DEF Good
      <3> QED  BY <1>0, <3>1, <3>5, <3>7, ChangeSteps DEF ev
    <2>2. CASE p \notin rt.linked
      <3>1. UNCHANGED rt /\ Enter(Frame("call", p, <<"reset">>))
        BY <1>3, <2>2 DEF mtc_simple_peer_sendto
      <3> QED  BY <3>1, EnterCounts, EventItemsTyped, StackSteps
    <2> QED  BY <2>1, <2>2
  <1>4. ASSUME NEW p \in Peers, mtc_simple_peer_sync_io_step(p)  PROVE LinkStep
    <2>1. /\ p \in rt.linked /\ rt' = mtc_simple_router_set_sync_cache(rt, p)
          /\ stack' = stack \/ Enter(Frame("step", p, <<"wait", "done">>))
      BY <1>4 DEF mtc_simple_peer_sync_io_step
    <2>2. AllGood(rt', ev)
      BY <1>0, <2>1, SetCacheGood
    <2>3. rt'.born = rt.born
      BY <1>0, <2>1, SetCacheKeeps DEF Keeps
    <2>4. EventCounts(stack') = ev /\ Shaped(stack')
      BY <1>0, <2>1, EnterCounts, ItemsTyped DEF ev
    <2> QED  BY <2>2, <2>3, <2>4 DEF LinkStep, LinkInv
  <1> QED  BY <1>1, <1>2, <1>3, <1>4 DEF Application

-----------------------------------------------------------------------------
(* The steps of a link and of its callbacks.                               *)

(* The peer of the top entry, and a link whose status changes.             *)
LEMMA StatusChanges ==
  ASSUME Base, LinkInv, NEW p \in Peers, NEW status \in {"open", "stopped", "broken"}
  PROVE  LET r == [rt EXCEPT !.status[p] = status]
         IN  /\ Changes(r, rt, p, {"status"}) /\ Linked(r) /\ Typed(r)
             /\ Counted(r, p, EventCounts(stack)[p]) /\ WatchedAt(r, p)
             /\ r.status[p] = status /\ \A y \in Fields \ {"status"} : r[y] = rt[y]
  <1> DEFINE r == [rt EXCEPT !.status[p] = status]
             e == EventCounts(stack)[p]
  <1>0. Linked(rt) /\ IsRouter(rt) /\ Typed(rt) /\ e \in Nat /\ Good(rt, p, e)
    BY LinkFacts
  <1>1. /\ IsRouter(r) /\ r.status = [rt.status EXCEPT ![p] = status]
        /\ \A y \in Fields \ {"status"} : r[y] = rt[y]
    BY <1>0 DEF IsRouter, Fields
  <1> HIDE DEF r, e
  <1>2. Typed(r)
    <2>1. r.status \in [Peers -> {"open", "stopped", "broken"}]
      BY <1>0, <1>1 DEF Typed
    <2> QED  BY <1>0, <1>1, <2>1 DEF Typed, Fields
  <1>3. r.status[p] = status /\ \A q \in Peers \ {p} : r.status[q] = rt.status[q]
    BY <1>0, <1>1 DEF Typed
  <1>4. Changes(r, rt, p, {"status"}) /\ Linked(r) /\ Counted(r, p, e) /\ WatchedAt(r, p)
    BY <1>0, <1>1, <1>2, <1>3, AsideChanges DEF Good
  <1> QED  BY <1>1, <1>2, <1>3, <1>4 DEF r, e

(* A link breaks.                                                          *)
LEMMA BrokenLink ==
  ASSUME Base, LinkInv, stack # <<>>, Broken(Top.peer)
  PROVE  LinkStep
  <1> DEFINE p == Top.peer
             r == [rt EXCEPT !.status[p] = "broken"]
             e == EventCounts(stack)[p]
  <1>1. p \in Peers
    BY TopPeer
  <1>2. /\ rt' = IF TellsPeer(p) THEN mtc_simple_peer_discard(r, p) ELSE FlushEnds(r, p)
        /\ Doing(IF TellsPeer(p) THEN <<"reset">> ELSE <<>>)
    BY DEF Broken
  <1>3. EventCounts(stack') = EventCounts(stack) /\ Shaped(stack')
    <2>1. (IF TellsPeer(p) THEN <<"reset">> ELSE <<>>) \in Seq(EventItems)
      BY EventItemsTyped
    <2> HIDE DEF p
    <2> QED  BY <1>2, <2>1, DoingCounts
  <1> HIDE DEF p
  <1>4. /\ Changes(r, rt, p, {"status"}) /\ Linked(r) /\ Typed(r)
        /\ Counted(r, p, e) /\ WatchedAt(r, p) /\ r.status[p] = "broken"
        /\ \A y \in Fields \ {"status"} : r[y] = rt[y]
    BY <1>1, StatusChanges
  <1>5. e \in Nat /\ Good(rt, p, e)
    BY <1>1, LinkFacts
  <1> HIDE DEF r, e
  <1>6. Changes(rt', r, p, All) /\ Good(rt', p, e)
    <2>1. CASE TellsPeer(p)
      <3>1. KeptAt(r, p)
        BY <1>4 DEF KeptAt, LostAt
      <3> QED  BY <1>1, <1>2, <1>4, <1>5, <2>1, <3>1, DiscardGood
    <2>2. CASE ~TellsPeer(p)
      <3>1. p \notin r.linked
        <4>1. p \notin rt.linked
          BY <1>5, <2>2 DEF TellsPeer, Good, WatchedAt
        <4> QED  BY <1>4, <4>1 DEF Fields
      <3> QED  BY <1>1, <1>2, <1>4, <1>5, <2>2, <3>1, FlushEndsGood DEF Linked
    <2> QED  BY <2>1, <2>2
  <1>7. Changes(rt', rt, p, {"status"} \cup All)
    BY <1>4, <1>6, ChangesThen
  <1> QED  BY <1>1, <1>3, <1>6, <1>7, ChangeSteps DEF All, e

(* It sends, and the flusher is done with it or not.                       *)
LEMMA SendSomeLink ==
  ASSUME Base, LinkInv, SendSome
  PROVE  LinkStep
  <1> DEFINE p == Top.peer
             e == EventCounts(stack)[p]
  <1>1. stack # <<>> /\ Top.todo # <<>> /\ Then(<<>>)
    BY DEF SendSome, At
  <1>2. EventCounts(stack') = EventCounts(stack) /\ Shaped(stack')
    BY <1>1, ThenCounts, EventItemsTyped
  <1>3. p \in Peers
    BY <1>1, TopPeer
  <1>4. Linked(rt) /\ IsRouter(rt) /\ Typed(rt) /\ e \in Nat /\ Good(rt, p, e)
    BY <1>3, LinkFacts
  <1>5. PICK n \in 1..rt.unsent[p] :
          LET sent == [rt EXCEPT !.unsent[p] = @ - n]
          IN  rt' = IF sent.unsent[p] = 0 THEN FlushEnds(sent, p) ELSE sent
    BY DEF SendSome
  <1> DEFINE sent == [rt EXCEPT !.unsent[p] = @ - n]
  <1>6. rt' = IF sent.unsent[p] = 0 THEN FlushEnds(sent, p) ELSE sent
    BY <1>5
  <1>7. /\ IsRouter(sent) /\ sent.unsent = [rt.unsent EXCEPT ![p] = @ - n]
        /\ \A y \in Fields \ {"unsent"} : sent[y] = rt[y]
    BY <1>4 DEF IsRouter, Fields
  <1> HIDE DEF sent, p, e
  <1>8. rt.unsent[p] \in Nat /\ rt.unsent[p] > 0 /\ rt.unsent[p] - n \in Nat
    BY <1>3, <1>4, <1>5 DEF Typed
  <1>9. Typed(sent)
    <2>1. sent.unsent \in [Peers -> Nat]
      BY <1>4, <1>7, <1>8 DEF Typed
    <2> QED  BY <1>4, <1>7, <2>1 DEF Typed, Fields
  <1>10. \A q \in Peers \ {p} : sent.unsent[q] = rt.unsent[q]
    BY <1>4, <1>7 DEF Typed
  <1>11. Changes(sent, rt, p, {"unsent"}) /\ Linked(sent) /\ Counted(sent, p, e) /\ WatchedAt(sent, p)
    BY <1>3, <1>4, <1>7, <1>9, <1>10, AsideChanges DEF Good
  <1>12. OpenAt(sent, p) /\ KeptAt(sent, p)
    <2>1. OpenAt(sent, p)
      BY <1>4, <1>7 DEF Good, OpenAt, Fields
    <2>2. KeptAt(sent, p)
      BY <1>4, <1>7, <1>8 DEF Good, KeptAt, LostAt, Fields
    <2> QED  BY <2>1, <2>2
  <1>13. CASE rt' = sent
    <2>1. Good(sent, p, e)
      BY <1>11, <1>12 DEF Good
    <2> QED  BY <1>2, <1>3, <1>11, <1>13, <2>1, ChangeSteps DEF e
  <1>14. CASE sent.unsent[p] = 0 /\ rt' = FlushEnds(sent, p) /\ p \in sent.flushing
    <2>1. p \notin sent.linked
      BY <1>11, <1>14 DEF Counted
    <2>2. Changes(rt', sent, p, All) /\ Good(rt', p, e)
      BY <1>3, <1>4, <1>7, <1>9, <1>11, <1>14, <2>1, FlushEndsGood
    <2>3. Changes(rt', rt, p, {"unsent"} \cup All)
      BY <1>11, <2>2, ChangesThen
    <2> QED  BY <1>2, <1>3, <2>2, <2>3, ChangeSteps DEF All, e
  <1>15. p \notin sent.flushing => FlushEnds(sent, p) = sent
    BY DEF FlushEnds
  <1> QED  BY <1>6, <1>13, <1>14, <1>15

(* An event is over.                                                       *)
LEMMA FrameEndsLink ==
  ASSUME Base, LinkInv, FrameEnds
  PROVE  LinkStep
  <1> DEFINE p == Top.peer
             ev == EventCounts(stack)
  <1>1. /\ stack # <<>> /\ stack' = Tail(stack)
        /\ rt' = IF Top.kind = "event" THEN LinkUnref(rt, p) ELSE rt
    BY DEF FrameEnds
  <1>2. /\ stack \in Seq(Frames) /\ Linked(rt) /\ IsRouter(rt) /\ Typed(rt) /\ AllGood(rt, ev)
        /\ ev \in [Peers -> Nat] /\ Shaped(stack)
    BY LinkFacts
  <1>3. /\ p \in Peers
        /\ EventCounts(stack') = IF Top.kind = "event" THEN [ev EXCEPT ![p] = @ - 1] ELSE ev
        /\ Top.kind = "event" => ev[p] > 0
    BY <1>1, <1>2, CountsPop DEF Top
  <1>4. Shaped(stack')
    BY <1>1, <1>2, ShapedPop
  <1> HIDE DEF p, ev
  <1>5. CASE Top.kind # "event"
    BY <1>1, <1>3, <1>4, <1>5, StackSteps DEF ev
  <1>6. CASE Top.kind = "event"
    <2>1. Good(rt, p, ev[p]) /\ ev[p] \in Nat
      BY <1>2, <1>3 DEF AllGood
    <2>2. Changes(rt', rt, p, All) /\ Good(rt', p, ev[p] - 1)
      BY <1>1, <1>2, <1>3, <1>6, <2>1, LinkUnrefGood
    <2>3. AllGood(rt', EventCounts(stack'))
      <3>1. AllGood(rt', [ev EXCEPT ![p] = ev[p] - 1])
        BY <1>2, <1>3, <2>2, ChangeGood
      <3> QED  BY <1>3, <1>6, <3>1
    <2>4. rt'.born = rt.born
      BY <1>1, <1>2, <1>6, LinkUnrefCore DEF Core
    <2> QED  BY <1>4, <2>3, <2>4 DEF LinkStep, LinkInv
  <1> QED  BY <1>5, <1>6

(* Each step of the event callback of a link. *)
LEMMA LinkEventLink ==
  ASSUME Base, LinkInv, LinkEvent
  PROVE  LinkStep
  <1> USE EventItemsTyped
  <1> DEFINE p == Top.peer
             e == EventCounts(stack)[p]
  <1>0. stack # <<>> => p \in Peers /\ Good(rt, p, e) /\ e \in Nat /\ Linked(rt) /\ Typed(rt)
    BY LinkFacts, TopPeer
  <1>1. CASE SendBreaks
    BY <1>1, BrokenLink DEF SendBreaks, At
  <1>2. CASE ReceiveBreaks
    BY <1>2, BrokenLink DEF ReceiveBreaks, At
  <1>3. CASE ReceiveMail
    <2>1. stack # <<>> /\ Top.todo # <<>> /\ Then(<<"app", "recv">>) /\ UNCHANGED rt
      BY <1>3 DEF ReceiveMail, At
    <2> QED  BY <2>1, ThenCounts, StackSteps
  <1>4. CASE ReceiveJunk
    <2>1. /\ stack # <<>> /\ Top.todo # <<>> /\ Then(<<"reset", "recv">>)
          /\ rt' = mtc_simple_peer_discard(rt, p)
      BY <1>4 DEF ReceiveJunk, At
    <2>2. Changes(rt', rt, p, All) /\ Good(rt', p, e)
      BY <1>0, <2>1, DiscardGood DEF Good
    <2> QED  BY <1>0, <2>1, <2>2, ThenCounts, ChangeSteps DEF All
  <1>5. CASE ReceiveStop
    <2> DEFINE r == [rt EXCEPT !.status[p] = "stopped"]
    <2>1. /\ stack # <<>> /\ Top.todo # <<>> /\ rt.status[p] = "open"
          /\ Then(<<"reset", "deliver", "recv">>) /\ TellsPeer(p)
          /\ rt' = mtc_simple_peer_discard(r, p)
      BY <1>5 DEF ReceiveStop, At, CanReceive
    <2>2. /\ Changes(r, rt, p, {"status"}) /\ Linked(r) /\ Typed(r)
          /\ Counted(r, p, e) /\ WatchedAt(r, p)
          /\ \A y \in Fields \ {"status"} : r[y] = rt[y]
      BY <1>0, <2>1, StatusChanges
    <2> HIDE DEF r
    <2>3. KeptAt(r, p)
      <3>1. p \in r.linked
        BY <1>0, <2>1, <2>2 DEF Linked, TellsPeer, Fields
      <3> QED  BY <3>1 DEF KeptAt
    <2>4. Changes(rt', r, p, All) /\ Good(rt', p, e)
      BY <1>0, <2>1, <2>2, <2>3, DiscardGood
    <2>5. Changes(rt', rt, p, {"status"} \cup All)
      BY <2>2, <2>4, ChangesThen
    <2>6. EventCounts(stack') = EventCounts(stack) /\ Shaped(stack')
      BY <2>1, ThenCounts
    <2> QED  BY <1>0, <2>1, <2>4, <2>5, <2>6, ChangeSteps DEF All
  <1>6. CASE DeliverStopped
    <2>1. /\ stack # <<>> /\ Top.todo # <<>>
          /\ \/ Then(<<"app">>) /\ UNCHANGED rt
             \/ Then(<<"reset">>) /\ rt' = mtc_simple_peer_discard(rt, p)
      BY <1>6 DEF DeliverStopped, At
    <2>2. EventCounts(stack') = EventCounts(stack) /\ Shaped(stack')
      BY <2>1, ThenCounts
    <2>3. CASE UNCHANGED rt
      BY <2>2, <2>3, StackSteps
    <2>4. CASE rt' = mtc_simple_peer_discard(rt, p)
      <3>1. Changes(rt', rt, p, All) /\ Good(rt', p, e)
        BY <1>0, <2>1, <2>4, DiscardGood DEF Good
      <3> QED  BY <1>0, <2>1, <2>2, <3>1, ChangeSteps DEF All
    <2> QED  BY <2>1, <2>3, <2>4
  <1>7. CASE ReceiveDropped
    <2>1. /\ stack # <<>> /\ UNCHANGED stack /\ ~TellsPeer(p) /\ rt.status[p] = "open"
          /\ \/ rt' = [rt EXCEPT !.status[p] = "stopped"]
             \/ rt' = [rt EXCEPT !.status[p] = rt.status[p]]
      BY <1>7 DEF ReceiveDropped, At, CanReceive
    <2> DEFINE was == [rt EXCEPT !.status[p] = "open"]
               stopped == [rt EXCEPT !.status[p] = "stopped"]
    <2>2. /\ Changes(was, rt, p, {"status"}) /\ Changes(stopped, rt, p, {"status"})
          /\ Counted(was, p, e) /\ WatchedAt(was, p)
          /\ Counted(stopped, p, e) /\ WatchedAt(stopped, p)
          /\ \A y \in Fields \ {"status"} : was[y] = rt[y] /\ stopped[y] = rt[y]
      BY <1>0, <2>1, StatusChanges, ZenonT(40)
    <2>3. /\ Changes(rt', rt, p, {"status"}) /\ Counted(rt', p, e) /\ WatchedAt(rt', p)
          /\ \A y \in Fields \ {"status"} : rt'[y] = rt[y]
      <3>1. rt' = was \/ rt' = stopped
        BY <2>1
      <3> HIDE DEF was, stopped
      <3> QED  BY <2>2, <3>1
    <2>4. p \notin rt.linked
      BY <1>0, <2>1 DEF TellsPeer, Good, WatchedAt
    <2>5. OpenAt(rt', p) /\ KeptAt(rt', p)
      BY <1>0, <2>1, <2>3, <2>4 DEF Good, OpenAt, KeptAt, LostAt, Fields
    <2>6. Good(rt', p, e)
      BY <2>3, <2>5 DEF Good
    <2>7. Shaped(stack') /\ EventCounts(stack') = EventCounts(stack)
      BY <2>1, LinkFacts
    <2> QED  BY <1>0, <2>1, <2>3, <2>6, <2>7, ChangeSteps
  <1>8. CASE ReceiveEnds \/ Return
    <2>1. stack # <<>> /\ Top.todo # <<>> /\ Then(<<>>) /\ UNCHANGED rt
      BY <1>8 DEF ReceiveEnds, Return, At
    <2> QED  BY <2>1, ThenCounts, StackSteps
  <1>9. CASE StepReturns
    <2>1. /\ stack # <<>> /\ stack' = Tail(stack) /\ UNCHANGED rt
          /\ Top.todo # <<>> /\ Head(Top.todo) = "done"
      BY <1>9 DEF StepReturns, At
    <2>2. stack \in Seq(Frames) /\ Shaped(stack)
      BY LinkFacts
    <2>3. Shaped(stack') /\ (Top.kind = "step" \/ Top.todo \in Seq(Items \ {"wait", "done"}))
      BY <2>1, <2>2, ShapedPop DEF Top
    <2>4. Top.kind # "event"
      <3>1. Top.todo \in Seq(Items \ {"wait", "done"}) => Head(Top.todo) \in Items \ {"wait", "done"}
        BY <2>1
      <3> QED  BY <2>1, <2>3, <3>1
    <2>5. EventCounts(stack') = EventCounts(stack)
      BY <2>1, <2>2, <2>4, CountsPop DEF Top
    <2> QED  BY <2>1, <2>3, <2>5, StackSteps
  <1> QED
    BY <1>1, <1>2, <1>3, <1>4, <1>5, <1>6, <1>7, <1>8, <1>9, SendSomeLink, FrameEndsLink
    DEF LinkEvent

-----------------------------------------------------------------------------
(* The loops and the remote ends.                                          *)

(* The frame on top says what is left to do. *)
LEMMA FrameTodo ==
  ASSUME NEW f \in Frames, NEW todo \in Seq(Items)
  PROVE  [f EXCEPT !.todo = todo] \in Frames
  BY DEF Frames

(* A link that is watched holds itself while its event runs.               *)
LEMMA EventLink ==
  ASSUME Base, LinkInv, NEW p \in Peers, NEW flags, Event(p, flags)
  PROVE  LinkStep
  <1> DEFINE f == EventFrame(p, flags)
             ev == EventCounts(stack)
  <1>0. /\ Linked(rt) /\ IsRouter(rt) /\ Typed(rt) /\ ev \in [Peers -> Nat]
        /\ AllGood(rt, ev) /\ Good(rt, p, ev[p]) /\ stack \in Seq(Frames) /\ Shaped(stack)
        /\ rt.linked \subseteq rt.born
    BY LinkFacts
  <1>1. f \in Frames /\ f.kind = "event" /\ f.peer = p /\ f.todo \in Seq(EventItems)
    <2> DEFINE todo == (IF "send" \in flags THEN <<"send">> ELSE <<>>)
                         \o (IF "recv" \in flags THEN <<"recv">> ELSE <<>>)
    <2>1. todo \in Seq(EventItems)
      BY EventItemsTyped
    <2>2. f = Frame("event", p, todo)
      BY DEF EventFrame
    <2> HIDE DEF todo
    <2>3. todo \in Seq(Items)
      BY <2>1, EventItemsTyped
    <2> QED  BY <2>1, <2>2, <2>3 DEF Frame, Frames
  <1> DEFINE rest == IF stack = <<>> THEN <<>>
                     ELSE <<[Head(stack) EXCEPT !.todo = Tail(Head(stack).todo)]>> \o Tail(stack)
  <1>2. rest \in Seq(Frames) /\ EventCounts(rest) = ev /\ Shaped(rest) /\ stack' = <<f>> \o rest
    <2>1. CASE stack = <<>> /\ stack' = <<f>>
      <3>1. <<f>> = <<f>> \o <<>>
        BY <1>1
      <3> QED  BY <1>0, <2>1, <3>1
    <2>2. CASE /\ At("wait")
               /\ stack' = <<f, [Top EXCEPT !.todo = Tail(@)]>> \o Tail(stack)
      <3> DEFINE g == [Head(stack) EXCEPT !.todo = Tail(Head(stack).todo)]
      <3>1. stack # <<>> /\ Head(stack) \in Frames /\ Head(stack).todo # <<>> /\ Tail(stack) \in Seq(Frames)
        BY <1>0, <2>2 DEF At, Top
      <3>2. Tail(Head(stack).todo) \in Seq(Items)
        BY <3>1 DEF Frames
      <3>3. Head(stack).kind = "step" \/ Tail(Head(stack).todo) \in Seq(Items \ {"wait", "done"})
        <4>1. Head(stack).todo \in Seq(Items \ {"wait", "done"}) =>
                Tail(Head(stack).todo) \in Seq(Items \ {"wait", "done"})
          BY <3>1
        <4> QED  BY <1>0, <3>1, <4>1, ShapedPop
      <3>4. g \in Frames
        BY <3>1, <3>2, FrameTodo
      <3>5. <<f, g>> \o Tail(stack) = <<f>> \o (<<g>> \o Tail(stack))
        <4> HIDE DEF g
        <4> QED  BY <1>1, <3>1, <3>4
      <3>6. stack' = <<f>> \o (<<g>> \o Tail(stack))
        BY <2>2, <3>5 DEF Top
      <3>7. rest = <<g>> \o Tail(stack)
        BY <3>1
      <3>8. rest \in Seq(Frames) /\ EventCounts(rest) = EventCounts(stack)
        BY <1>0, <3>1, <3>2, <3>7, CountsTodo
      <3>9. Shaped(rest)
        BY <1>0, <3>1, <3>2, <3>3, <3>7, ShapedTodo
      <3> HIDE DEF rest, g
      <3> QED  BY <3>6, <3>7, <3>8, <3>9
    <2> QED  BY <2>1, <2>2 DEF Event
  <1> HIDE DEF rest, f
  <1>3. EventCounts(stack') = [ev EXCEPT ![p] = @ + 1] /\ Shaped(stack')
    BY <1>1, <1>2, CountsPush, ShapedPush DEF EventItems
  <1>4. rt' = [rt EXCEPT !.lrefs[p] = @ + 1] /\ rt.backs[p] # {}
    BY DEF Event
  <1> HIDE DEF ev
  <1>5. /\ IsRouter(rt') /\ rt'.lrefs = [rt.lrefs EXCEPT ![p] = @ + 1]
        /\ \A y \in Fields \ {"lrefs"} : rt'[y] = rt[y]
    BY <1>0, <1>4 DEF IsRouter, Fields
  <1>6. Typed(rt')
    <2>1. rt'.lrefs \in [Peers -> Int]
      BY <1>0, <1>5 DEF Typed
    <2> QED  BY <1>0, <1>5, <2>1 DEF Typed, Fields
  <1>7. Changes(rt', rt, p, {"lrefs"})
    <2>1. \A q \in Peers \ {p} : rt'.lrefs[q] = rt.lrefs[q]
      BY <1>0, <1>5 DEF Typed
    <2> QED  BY <1>0, <1>5, <1>6, <2>1, SlotChanges DEF Slots
  <1>8. rt.lrefs[p] # 0 /\ rt.lrefs[p] \in Nat /\ rt'.lrefs[p] = rt.lrefs[p] + 1 /\ ev[p] \in Nat
    BY <1>0, <1>4, <1>5 DEF Good, Counted, One, Typed
  <1>9. p \in rt.born
    BY <1>0, <1>8 DEF Good, Counted, One, Typed
  <1>10. Good(rt', p, ev[p] + 1)
    <2>1. Counted(rt', p, ev[p] + 1)
      <3>1. /\ p \in rt'.born /\ (p \in rt'.linked <=> p \in rt.linked)
            /\ (p \in rt'.flushing <=> p \in rt.flushing)
            /\ rt'.closed[p] = rt.closed[p] /\ rt'.close_fd[p] = rt.close_fd[p]
        BY <1>5, <1>9 DEF Fields
      <3>2. rt.closed[p] = 0
        BY <1>0, <1>8 DEF Good, Counted, One
      <3> QED  BY <1>0, <1>8, <3>1, <3>2 DEF Good, Counted, One
    <2>2. WatchedAt(rt', p) /\ OpenAt(rt', p) /\ KeptAt(rt', p)
      BY <1>0, <1>5 DEF Good, WatchedAt, Synced, OpenAt, KeptAt, LostAt, Fields
    <2> QED  BY <2>1, <2>2 DEF Good
  <1>11. AllGood(rt', [ev EXCEPT ![p] = ev[p] + 1])
    BY <1>0, <1>7, <1>8, <1>10, ChangeGood
  <1>12. rt'.born = rt.born
    BY <1>5 DEF Fields
  <1> QED  BY <1>3, <1>11, <1>12 DEF LinkStep, LinkInv

(* What the flusher, the kernel and the remote ends do. *)
LEMMA EnvironmentLink ==
  ASSUME Base, LinkInv, Environment
  PROVE  LinkStep
  <1>1. ASSUME NEW p \in Peers, NEW what \in Kinds, RemoteSends(p, what)  PROVE LinkStep
    BY <1>1, LinkFacts, StackSteps DEF RemoteSends
  <1>2. ASSUME NEW p \in Peers, FlushAbandons(p)  PROVE LinkStep
    <2> DEFINE e == EventCounts(stack)[p]
    <2>1. rt.rrefs = 0 /\ p \in rt.flushing /\ UNCHANGED stack /\ rt' = FlushEnds(rt, p)
      BY <1>2 DEF FlushAbandons
    <2>2. IsRouter(rt) /\ Typed(rt) /\ Good(rt, p, e) /\ e \in Nat /\ Shaped(stack)
      BY LinkFacts
    <2> HIDE DEF e
    <2>3. p \notin rt.linked
      BY <2>1, <2>2 DEF Good, Counted
    <2>4. Changes(rt', rt, p, All) /\ Good(rt', p, e)
      BY <2>1, <2>2, <2>3, FlushEndsGood DEF Good
    <2> QED  BY <2>1, <2>2, <2>4, ChangeSteps DEF All, e
  <1> QED  BY <1>1, <1>2, EventLink DEF Environment

(* Every step but the last references: no peer with a link, and no link    *)
(* with mails, is lost.                                                    *)
LEMMA NextLink ==
  ASSUME SafeInv, LinkInv, Next
  PROVE  LinkStep
  <1>1. CASE Reset
    <2>1. stack # <<>> /\ Top.todo # <<>> /\ Then(<<"app">>) /\ UNCHANGED rt
      BY <1>1 DEF Reset, At
    <2> QED  BY <2>1, SafeIsBase, EventItemsTyped, ThenCounts, StackSteps
  <1> QED
    BY <1>1, SafeIsBase, RefsFacts, RouterAddLink, AppUnrefLink, AppUnrefRouterLink,
       ApplicationLink, LinkEventLink, EnvironmentLink
    DEF Next

(* A new router has no link and no frame.                                  *)
LEMMA LinkInit == Init => LinkInv
  <1> SUFFICES ASSUME Init PROVE LinkInv  OBVIOUS
  <1> DEFINE ev == EventCounts(stack)
  <1>1. \A p \in Peers : ev[p] = 0
    <2> SUFFICES ASSUME NEW p \in Peers PROVE ev[p] = 0  OBVIOUS
    <2>1. EventsIn(stack, p) = {}
      BY DEF Init, EventsIn
    <2> QED  BY <2>1, FS_EmptySet DEF EventCounts
  <1> HIDE DEF ev
  <1>2. IsRouter(rt)
    BY SafeInit DEF SafeInv, Linked
  <1>3. Typed(rt)
    BY DEF Init, Typed
  <1>4. ASSUME NEW p \in Peers PROVE Good(rt, p, ev[p])
    <2>1. p # None
      BY NoneIsNoPeer
    <2>2. /\ rt.lrefs[p] = 0 /\ rt.closed[p] = 0 /\ rt.backs[p] = {} /\ rt.backend[p] = None
          /\ p \notin rt.linked /\ p \notin rt.flushing /\ p \notin rt.born
      BY DEF Init
    <2> QED  BY <1>1, <2>2 DEF Good, Counted, WatchedAt, OpenAt, KeptAt, One
  <1>5. MgrsCounted(rt)
    <2> SUFFICES ASSUME NEW m \in AllMgrs
                 PROVE  rt.mrefs[m] = Cardinality(Users(rt, m))
                          + (IF m = "sync" THEN One(rt.rrefs > 0) ELSE 1 + One(m = rt.mgr))
      BY DEF MgrsCounted
    <2>1. Users(rt, m) = {} /\ rt.mrefs[m] = 1 /\ rt.rrefs = 1 /\ rt.mgr = None
      BY DEF Init, Users
    <2>2. m # None
      BY NoneIsNoMgr
    <2> QED  BY <2>1, <2>2, FS_EmptySet DEF One
  <1>6. Shaped(stack)
    BY DEF Init, Shaped
  <1> QED  BY <1>2, <1>3, <1>4, <1>5, <1>6 DEF LinkInv, AllGood, ev

(* Every step keeps the invariant. *)
LEMMA LinkNext ==
  ASSUME SafeInv, LinkInv, [Next]_routerVars
  PROVE  LinkInv'
  <1>1. CASE UNCHANGED routerVars
    BY <1>1 DEF routerVars, LinkInv
  <1>2. CASE Next
    BY <1>2, NextLink DEF LinkStep
  <1> QED  BY <1>1, <1>2

-----------------------------------------------------------------------------
(* What follows for what the runs check.                                   *)

LEMMA LinkLinksCounted ==
  ASSUME Base, LinkInv
  PROVE  LinksCounted
  <1> SUFFICES ASSUME NEW p \in Peers
               PROVE  /\ rt.lrefs[p] = One(p \in rt.linked) + One(p \in rt.flushing)
                                         + Cardinality(EventsOf(p))
                      /\ rt.lrefs[p] = 0 => rt.backs[p] = {}
                      /\ rt.closed[p] = One(p \in rt.born /\ rt.lrefs[p] = 0 /\ rt.close_fd[p])
    BY DEF LinksCounted
  <1>1. EventCounts(stack)[p] = Cardinality(EventsOf(p))
    BY DEF EventCounts, EventsIn, EventsOf
  <1> QED  BY <1>1, LinkFacts DEF Good, Counted

(* A connected peer of a router with a manager has a backend there, and its link is watched
   there. *)
LEMMA LinkConnectedIsWatched ==
  ASSUME Base, LinkInv
  PROVE  ConnectedIsWatched
  <1>1. /\ rt.ring = rt.linked /\ rt.cache \in rt.linked \cup {None} /\ rt.linked \subseteq Peers
    BY LinkFacts DEF Linked, CoreType
  <1>2. \A p \in Peers : WatchedAt(rt, p) /\ OpenAt(rt, p)
    BY LinkFacts DEF Good
  <1> QED  BY <1>1, <1>2 DEF ConnectedIsWatched, WatchedAt, OpenAt, Synced

(* The references to a manager are those of its owner, of the router and of the backends. *)
LEMMA LinkManagersCounted ==
  ASSUME Base, Referenced, LinkInv
  PROVE  ManagersCounted
  <1>1. \A m \in AllMgrs :
          rt.mrefs[m] = Cardinality({p \in Peers : m \in rt.backs[p]})
                          + (IF m = "sync" THEN One(rt.rrefs > 0) ELSE 1 + One(m = rt.mgr))
    BY LinkFacts DEF AllGood, MgrsCounted, Users
  <1>2. SyncRuns => BaseLives(rt, "sync")
    <2> SUFFICES ASSUME SyncRuns PROVE rt.mrefs["sync"] > 0
      BY DEF BaseLives
    <2>1. rt.rrefs > 0
      BY DEF Referenced, SyncRuns, Base, StepsHeld
    <2>2. "sync" \in AllMgrs
      BY DEF AllMgrs
    <2>3. rt.mrefs["sync"] = Cardinality(Users(rt, "sync")) + 1
      BY <2>1, <2>2, LinkFacts DEF AllGood, MgrsCounted, One
    <2> QED  BY <2>3, UsersFinite
  <1> QED  BY <1>1, <1>2 DEF ManagersCounted

(* Of the steps that drop references of the application, those that leave  *)
(* some are like all others.                                               *)
LEMMA LinkDataKept ==
  ASSUME SafeInv, LinkInv, SafeInv', LinkInv', [Next]_routerVars
  PROVE  \A q \in Peers : Drops(rt', rt, q)
  <1>1. CASE UNCHANGED routerVars
    <2>1. \A q \in Peers : rt.lrefs[q] \in Int
      BY SafeIsBase, LinkFacts DEF Typed
    <2> QED  BY <1>1, <2>1 DEF routerVars, Drops
  <1>2. CASE AppUnrefRouter
    BY <1>2, SafeIsBase, RefsFacts, AppUnrefRouterLink
  <1>3. CASE \E p \in Peers : AppUnref(p)
    BY <1>3, AppUnrefLink
  <1>4. CASE Next /\ ~AppUnrefRouter /\ ~(\E p \in Peers : AppUnref(p))
    <2>1. rt.born \subseteq rt'.born
      BY <1>4, NextLink DEF LinkStep
    <2>2. rt.rrefs > 0 => rt'.rrefs > 0
      <3>1. CASE \E p \in Peers, close_fd \in BOOLEAN : RouterAdd(p, close_fd)
        <4>1. \E p \in Peers : mine' = mine \cup {p}
          BY <3>1 DEF RouterAdd
        <4>2. mine' # {}
          BY <4>1
        <4>3. mine' \subseteq Peers /\ rt'.rrefs = One(held') + Cardinality(mine')
          BY DEF SafeInv, HeldBy, Linked, CoreType
        <4> DEFINE ms == mine'
        <4>4. ms \in SUBSET Peers /\ ms # {}
          BY <4>2, <4>3
        <4> HIDE DEF ms
        <4>5. Cardinality(ms) \in Nat /\ Cardinality(ms) # 0
          BY <4>4, MineCounted
        <4> QED  BY <4>3, <4>5 DEF One, ms
      <3>2. CASE UNCHANGED <<mine, held>>
        BY <3>2 DEF SafeInv, HeldBy
      <3>3. UNCHANGED <<mine, held>> \/ \E p \in Peers, close_fd \in BOOLEAN : RouterAdd(p, close_fd)
        <4>1. Application => UNCHANGED <<mine, held>>
          BY <1>4 DEF Application, SetEventMgr, mtc_simple_peer_disconnect,
             mtc_simple_peer_sendto, mtc_simple_peer_sync_io_step, appVars
        <4>2. LinkEvent => UNCHANGED <<mine, held>>
          BY DEF LinkEvent, SendSome, SendBreaks, ReceiveMail, ReceiveJunk, ReceiveStop,
             ReceiveDropped, ReceiveBreaks, ReceiveEnds, DeliverStopped, FrameEnds,
             StepReturns, Return, Takes, appVars
        <4>3. Reset \/ Environment => UNCHANGED <<mine, held>>
          BY DEF Reset, Environment, RemoteSends, Event, FlushAbandons, appVars
        <4> QED  BY <1>4, <4>1, <4>2, <4>3 DEF Next
      <3> QED  BY <3>1, <3>2, <3>3
    <2>3. ~(rt'.rrefs > 0) => rt.rrefs = 0
      BY <2>2, RefsFacts DEF Referenced
    <2>4. /\ Linked(rt) /\ Typed(rt) /\ EventCounts(stack) \in [Peers -> Nat]
          /\ \A q \in Peers : Good(rt, q, EventCounts(stack)[q])
      BY SafeIsBase, LinkFacts
    <2>5. \A q \in Peers : EventCounts(stack')[q] \in Nat /\ Good(rt', q, EventCounts(stack')[q])
      <3>1. stack' \in Seq(Frames)
        BY DEF SafeInv, StepsHeld
      <3> DEFINE s == stack'
      <3>2. \A q \in Peers : EventCounts(s)[q] \in Nat
        <4> TAKE q \in Peers
        <4>1. EventsIn(s, q) \subseteq 1..Len(s) /\ IsFiniteSet(1..Len(s))
          BY <3>1, FS_Interval DEF EventsIn
        <4>2. IsFiniteSet(EventsIn(s, q))
          BY <4>1, FS_Subset
        <4> HIDE DEF s
        <4> QED  BY <4>2, FS_CardinalityType DEF EventCounts
      <3> QED  BY <3>2 DEF LinkInv, AllGood
    <2> SUFFICES ASSUME NEW q \in Peers PROVE Drops(rt', rt, q)
      OBVIOUS
    <2> QED  BY <2>1, <2>3, <2>4, <2>5, KeptDrops DEF Good
  <1> QED  BY <1>1, <1>2, <1>3, <1>4

-----------------------------------------------------------------------------
(* The inductive invariant: what each link is referred to by, who watches  *)
(* it, where its unsent mails have gone, who refers to each manager.       *)
THEOREM LinkInvariant == Spec => [](SafeInv /\ LinkInv)
  <1>1. Init => SafeInv /\ LinkInv
    BY SafeInit, LinkInit
  <1>2. SafeInv /\ LinkInv /\ [Next]_routerVars => (SafeInv /\ LinkInv)'
    BY SafeNext, LinkNext
  <1> QED  BY <1>1, <1>2, PTL DEF Spec

(* A link lives exactly as long as its peer, the flusher or a running event*)
(* needs it, and its descriptor is closed once, when it goes               *)
(* (simple_router.c:174-176, 193).                                         *)
THEOREM LinksAreCounted == Spec => []LinksCounted
  BY LinkInvariant, SafeIsBase, LinkLinksCounted, PTL

(* A peer with a link is watched by the manager of its router and, alone,  *)
(* by the sync cache, whenever these were set (simple_router.c:78, 105).   *)
THEOREM LinksAreWatched == Spec => []ConnectedIsWatched
  BY LinkInvariant, SafeIsBase, LinkConnectedIsWatched, PTL

(* No reference to a manager is left over, and the base of a sync step that*)
(* runs is not freed (simple_router.c:141, event.c:179, 189, 217).         *)
THEOREM ManagersAreCounted == Spec => []ManagersCounted
  BY LinkInvariant, SafeIsBase, RefsFacts, LinkManagersCounted, PTL

(* A link goes with unsent mails only if it broke, or was discarded, or if *)
(* the router went before (simple_router.c:174).                           *)
THEOREM DataIsKept == Spec => DataKept
  <1>1. SafeInv /\ LinkInv /\ (SafeInv /\ LinkInv)' /\ [Next]_routerVars =>
          [\A p \in Peers :
             rt.lrefs[p] > 0 /\ rt'.lrefs[p] = 0 /\ rt'.unsent[p] > 0 =>
               rt'.status[p] = "broken" \/ ~rt'.enabled[p] \/ rt.rrefs = 0]_routerVars
    BY LinkDataKept DEF Drops
  <1> QED  BY <1>1, LinkInvariant, PTL DEF Spec, DataKept

-----------------------------------------------------------------------------
(* The types.                                                              *)

(* What the remote ends have sent.                                         *)
RemoteTyped == incoming \in [Peers -> Seq(Kinds)] /\ n_in \in 0..MaxIn

(* The messages on their way stay typed. *)
LEMMA RemoteNext ==
  ASSUME Base, RemoteTyped, Next \/ UNCHANGED remoteVars
  PROVE  RemoteTyped'
  <1>1. CASE UNCHANGED remoteVars
    BY <1>1 DEF remoteVars, RemoteTyped
  <1>2. ASSUME NEW p \in Peers, NEW what \in Kinds, RemoteSends(p, what)  PROVE RemoteTyped'
    <2>1. /\ n_in < MaxIn /\ n_in' = n_in + 1
          /\ incoming' = [incoming EXCEPT ![p] = Append(@, what)]
      BY <1>2 DEF RemoteSends
    <2>2. Append(incoming[p], what) \in Seq(Kinds)
      BY DEF RemoteTyped
    <2> QED  BY <2>1, <2>2, RouterAssumptions DEF RemoteTyped
  <1>3. ASSUME NEW p \in Peers, Takes(p), CanReceive(p)  PROVE RemoteTyped'
    <2>1. /\ incoming[p] # <<>> /\ n_in' = n_in
          /\ incoming' = [incoming EXCEPT ![p] = Tail(@)]
      BY <1>3 DEF Takes, CanReceive
    <2>2. Tail(incoming[p]) \in Seq(Kinds)
      BY <2>1 DEF RemoteTyped
    <2> QED  BY <2>1, <2>2 DEF RemoteTyped
  <1>4. \/ UNCHANGED remoteVars
        \/ \E p \in Peers, what \in Kinds : RemoteSends(p, what)
        \/ stack # <<>> /\ Takes(Top.peer) /\ CanReceive(Top.peer)
    <2>1. CASE UNCHANGED remoteVars
      BY <2>1
    <2>2. CASE \E p \in Peers, close_fd \in BOOLEAN : RouterAdd(p, close_fd)
      BY <2>2 DEF RouterAdd
    <2>3. CASE Application
      BY <2>3 DEF Application, AppUnrefRouter, SetEventMgr, AppUnref, mtc_simple_peer_disconnect,
         mtc_simple_peer_sendto, mtc_simple_peer_sync_io_step
    <2>4. CASE LinkEvent
      BY <2>4 DEF LinkEvent, SendSome, SendBreaks, ReceiveMail, ReceiveJunk, ReceiveStop,
         ReceiveDropped, ReceiveBreaks, ReceiveEnds, DeliverStopped, FrameEnds,
         StepReturns, Return, At
    <2>5. CASE Reset \/ Environment
      BY <2>5 DEF Reset, Environment, Event, FlushAbandons
    <2> QED  BY <2>1, <2>2, <2>3, <2>4, <2>5 DEF Next
  <1> QED  BY <1>1, <1>2, <1>3, <1>4, TopPeer

(* The invariants of both modules give the types. *)
LEMMA LinkTypes ==
  ASSUME Base, Referenced, LinkInv, RemoteTyped, held \in BOOLEAN
  PROVE  TypeOK
  <1>1. /\ Linked(rt) /\ Typed(rt) /\ IsRouter(rt) /\ stack \in Seq(Frames)
        /\ EventCounts(stack) \in [Peers -> Nat] /\ rt.rrefs \in Nat
        /\ mine \subseteq Peers /\ MgrsCounted(rt)
        /\ \A p \in Peers : Good(rt, p, EventCounts(stack)[p])
    BY LinkFacts DEF AllGood, Referenced
  <1>2. \A p \in Peers : rt.refs[p] \in Nat
    BY DEF Referenced
  <1>3. \A p \in Peers : rt.lrefs[p] \in Nat /\ rt.closed[p] \in Nat
    BY <1>1 DEF Good, Counted, One
  <1>4. \A m \in AllMgrs : rt.mrefs[m] \in Nat
    BY <1>1, UsersFinite DEF MgrsCounted, One
  <1>5. /\ rt.born \in SUBSET Peers /\ rt.linked \in SUBSET Peers /\ rt.ring \in SUBSET Peers
        /\ rt.flushing \in SUBSET Peers /\ rt.cache \in Peers \cup {None}
        /\ rt.aborted \in BOOLEAN /\ rt.enabled \in [Peers -> BOOLEAN]
        /\ rt.owner \in [Peers -> {"peer", "flush"}]
    BY <1>1 DEF Linked, CoreType, Typed
  <1>6. /\ rt.refs \in [Peers -> Nat] /\ rt.lrefs \in [Peers -> Nat]
        /\ rt.closed \in [Peers -> Nat] /\ rt.mrefs \in [AllMgrs -> Nat]
    BY <1>1, <1>2, <1>3, <1>4 DEF Linked, CoreType, Typed
  <1>7. rt \in [born : SUBSET Peers, refs : [Peers -> Nat], rrefs : Nat,
                ring : SUBSET Peers, linked : SUBSET Peers, mgr : Mgrs \cup {None},
                backend : [Peers -> Mgrs \cup {None}],
                cache : Peers \cup {None}, aborted : BOOLEAN,
                mrefs : [AllMgrs -> Nat], lrefs : [Peers -> Nat],
                status : [Peers -> {"open", "stopped", "broken"}],
                owner : [Peers -> {"peer", "flush"}],
                enabled : [Peers -> BOOLEAN],
                backs : [Peers -> SUBSET AllMgrs],
                flushing : SUBSET Peers, unsent : [Peers -> Nat],
                close_fd : [Peers -> BOOLEAN], closed : [Peers -> Nat]]
    BY <1>1, <1>5, <1>6, SMTT(30) DEF IsRouter, Fields, Typed
  <1> QED  BY <1>1, <1>7 DEF TypeOK, RemoteTyped

(* The application has the router, or has not.                             *)
LEMMA HeldNext ==
  ASSUME held \in BOOLEAN, Next
  PROVE  held' \in BOOLEAN
  <1>1. CASE AppUnrefRouter
    BY <1>1 DEF AppUnrefRouter
  <1>2. CASE \E p \in Peers, close_fd \in BOOLEAN : RouterAdd(p, close_fd)
    BY <1>2 DEF RouterAdd
  <1>3. CASE Application /\ ~AppUnrefRouter
    BY <1>3 DEF Application, SetEventMgr, AppUnref, mtc_simple_peer_disconnect,
       mtc_simple_peer_sendto, mtc_simple_peer_sync_io_step, appVars
  <1>4. CASE LinkEvent
    BY <1>4 DEF LinkEvent, SendSome, SendBreaks, ReceiveMail, ReceiveJunk, ReceiveStop,
       ReceiveDropped, ReceiveBreaks, ReceiveEnds, DeliverStopped, FrameEnds,
       StepReturns, Return, Takes, appVars
  <1>5. CASE Reset \/ Environment
    BY <1>5 DEF Reset, Environment, RemoteSends, Event, FlushAbandons, appVars
  <1> QED  BY <1>1, <1>2, <1>3, <1>4, <1>5 DEF Next

(* Type correctness of the router, its links and the stack.                *)
THEOREM RouterTypes == Spec => []TypeOK
  <1>1. Init => RemoteTyped /\ held \in BOOLEAN
    BY RouterAssumptions DEF Init, RemoteTyped
  <1>2. held \in BOOLEAN /\ [Next]_routerVars => (held \in BOOLEAN)'
    BY HeldNext DEF routerVars, appVars
  <1>3. SafeInv /\ RemoteTyped /\ [Next]_routerVars => RemoteTyped'
    BY RemoteNext, SafeIsBase DEF routerVars
  <1>4. SafeInv /\ LinkInv /\ RemoteTyped /\ held \in BOOLEAN => TypeOK
    BY LinkTypes, SafeIsBase, RefsFacts
  <1> QED  BY <1>1, <1>2, <1>3, <1>4, LinkInvariant, PTL DEF Spec

=============================================================================
