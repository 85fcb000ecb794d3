-------------------------- MODULE SimpleServerProofs --------------------------
(***************************************************************************)
(* Sets of peers and the listener: who holds a set, a peer and the router, *)
(* for any number of sets and peers and whatever the application calls from*)
(* its callbacks.                                                          *)
(***************************************************************************)
EXTENDS SimpleServer, SimpleRouterProofs, VectorLemmas

-----------------------------------------------------------------------------
(* mtc_peer_holder_destroy drops one reference after the other.            *)
Unrefs(r, ps) == FoldSet(LAMBDA p, s : PeerUnref(s, p), r, ps)

(* The states of the router on the way, for the sets of up to n of the     *)
(* peers.                                                                  *)
Pick(s) == CHOOSE x \in s : TRUE
Small(ps, n) == {s \in SUBSET ps : Cardinality(s) <= n}
Way(r, ps, n, f) ==
  /\ f = [s \in Small(ps, n) |-> f[s]]
  /\ f[{}] = r
  /\ \A s \in Small(ps, n) \ {{}} : f[s] = PeerUnref(f[s \ {Pick(s)}], Pick(s))

(* One peer of a finite set taken out of it.                               *)
LEMMA PickOut ==
  ASSUME NEW s, IsFiniteSet(s), s # {}
  PROVE  /\ Pick(s) \in s /\ IsFiniteSet(s \ {Pick(s)})
         /\ Cardinality(s) \in Nat \ {0}
         /\ Cardinality(s \ {Pick(s)}) = Cardinality(s) - 1
<1>1. Pick(s) \in s
  BY DEF Pick
<1>2. Cardinality(s) \in Nat /\ Cardinality(s) # 0
  BY FS_CardinalityType, FS_EmptySet
<1> QED  BY <1>1, <1>2, FS_RemoveElement

(* There is a way, however many peers there are.                           *)
LEMMA WayExists ==
  ASSUME NEW r, NEW ps, IsFiniteSet(ps), NEW k \in Nat
  PROVE  \E f : Way(r, ps, k, f)
<1> DEFINE S == {n \in Nat : \E f : Way(r, ps, n, f)}
<1>1. 0 \in S
  <2> DEFINE f == [s \in Small(ps, 0) |-> r]
  <2>1. \A s \in Small(ps, 0) : s = {}
    BY FS_Subset, FS_EmptySet, FS_CardinalityType DEF Small
  <2>2. {} \in Small(ps, 0)
    BY FS_EmptySet DEF Small
  <2>3. Way(r, ps, 0, f)
    BY <2>1, <2>2 DEF Way
  <2> QED  BY <2>3
<1>2. ASSUME NEW n \in Nat, n \in S  PROVE n + 1 \in S
  <2>1. PICK f : Way(r, ps, n, f)
    BY <1>2
  <2> DEFINE g == [s \in Small(ps, n + 1) |->
                     IF s \in Small(ps, n) THEN f[s]
                     ELSE PeerUnref(f[s \ {Pick(s)}], Pick(s))]
  <2>2. /\ Small(ps, n) \subseteq Small(ps, n + 1) /\ {} \in Small(ps, n)
        /\ \A s \in SUBSET ps : Cardinality(s) \in Nat
    BY FS_EmptySet, FS_Subset, FS_CardinalityType DEF Small
  <2>3. \A s \in Small(ps, n + 1) \ {{}} : s \ {Pick(s)} \in Small(ps, n)
    <3> SUFFICES ASSUME NEW s \in Small(ps, n + 1) \ {{}}  PROVE s \ {Pick(s)} \in Small(ps, n)
      OBVIOUS
    <3>1. s \in SUBSET ps /\ Cardinality(s) <= n + 1 /\ IsFiniteSet(s)
      BY FS_Subset DEF Small
    <3>2. Cardinality(s \ {Pick(s)}) = Cardinality(s) - 1 /\ Cardinality(s) \in Nat
      BY <3>1, PickOut
    <3>3. s \ {Pick(s)} \in SUBSET ps /\ Cardinality(s \ {Pick(s)}) <= n
      BY <3>1, <3>2
    <3> QED  BY <3>3 DEF Small
  <2>4. \A s \in Small(ps, n) : g[s] = f[s]
    BY <2>2
  <2>5. \A s \in Small(ps, n + 1) \ {{}} : g[s] = PeerUnref(g[s \ {Pick(s)}], Pick(s))
    <3> SUFFICES ASSUME NEW s \in Small(ps, n + 1) \ {{}}
                 PROVE  g[s] = PeerUnref(g[s \ {Pick(s)}], Pick(s))
      OBVIOUS
    <3>1. g[s \ {Pick(s)}] = f[s \ {Pick(s)}]
      BY <2>3, <2>4
    <3>2. CASE s \in Small(ps, n)
      <4>1. f[s] = PeerUnref(f[s \ {Pick(s)}], Pick(s))
        BY <2>1, <3>2 DEF Way
      <4> QED  BY <2>4, <3>1, <3>2, <4>1
    <3>3. CASE s \notin Small(ps, n)
      <4>1. g[s] = PeerUnref(f[s \ {Pick(s)}], Pick(s))
        BY <3>3
      <4> QED  BY <3>1, <4>1
    <3> QED  BY <3>2, <3>3
  <2>6. g[{}] = r
    BY <2>1, <2>2, <2>4 DEF Way
  <2>7. g = [s \in Small(ps, n + 1) |-> g[s]]
    OBVIOUS
  <2> HIDE DEF g
  <2>8. Way(r, ps, n + 1, g)
    BY <2>5, <2>6, <2>7 DEF Way
  <2> QED  BY <2>8
<1>3. k \in S
  <2> HIDE DEF S
  <2> QED  BY <1>1, <1>2, SetInduction
<1> QED  BY <1>3

(* What is left of the router at the end is where the way leads.           *)
Leads(f, r, ps) ==
  /\ Unrefs(r, ps) = f[ps] /\ f[{}] = r
  /\ \A s \in (SUBSET ps) \ {{}} : f[s] = PeerUnref(f[s \ {Pick(s)}], Pick(s))
LEMMA UnrefsWay ==
  ASSUME NEW r, NEW ps, IsFiniteSet(ps)
  PROVE  \E f : Leads(f, r, ps)
<1> DEFINE Eq(f) == f = [s \in SUBSET ps |->
                           IF s = {} THEN r
                           ELSE PeerUnref(f[s \ {CHOOSE x \in s : TRUE}],
                                          CHOOSE x \in s : TRUE)]
           it == CHOOSE f : Eq(f)
<1>1. Small(ps, Cardinality(ps)) = SUBSET ps /\ {} \in SUBSET ps
  BY FS_Subset, FS_CardinalityType DEF Small
<1>2. PICK f : Way(r, ps, Cardinality(ps), f)
  BY WayExists, FS_CardinalityType
<1>3. Eq(f)
  <2> DEFINE h(s) == IF s = {} THEN r ELSE PeerUnref(f[s \ {Pick(s)}], Pick(s))
  <2>1. \A s \in SUBSET ps : f[s] = h(s)
    BY <1>1, <1>2 DEF Way
  <2>2. f = [s \in SUBSET ps |-> f[s]]
    BY <1>1, <1>2 DEF Way
  <2>3. f = [s \in SUBSET ps |-> h(s)]
    <3> HIDE DEF h
    <3> QED  BY <2>1, <2>2
  <2> QED  BY <2>3 DEF Pick
<1>4. Eq(it)
  BY <1>3
<1>5. Unrefs(r, ps) = it[ps]
  BY DEF Unrefs, FoldSet, MapThenFoldSet
<1>6. it[{}] = r
  BY <1>1, <1>4
<1>7. \A s \in (SUBSET ps) \ {{}} : it[s] = PeerUnref(it[s \ {Pick(s)}], Pick(s))
  BY <1>4 DEF Pick
<1> HIDE DEF it
<1>8. Leads(it, r, ps)
  BY <1>5, <1>6, <1>7 DEF Leads
<1> QED  BY <1>8

-----------------------------------------------------------------------------
(* The peers of ps that go with the references that are dropped.           *)
LastOf(r, ps) == {p \in ps : r.refs[p] = 1}
Unreffed(s, r, ps) ==
  /\ Linked(s) /\ s.born = r.born
  /\ s.refs = [p \in Peers |-> IF p \in ps THEN r.refs[p] - 1 ELSE r.refs[p]]
  /\ s.linked = r.linked \ LastOf(r, ps)
  /\ s.rrefs = r.rrefs - Cardinality(LastOf(r, ps))
  /\ s.aborted = r.aborted

(* A reference that is not the last one is only counted.                   *)
LEMMA PeerUnrefMore ==
  ASSUME NEW r, Linked(r), NEW p \in Peers, r.refs[p] # 1
  PROVE  LET s == PeerUnref(r, p)
         IN  /\ Linked(s) /\ s.refs = [r.refs EXCEPT ![p] = @ - 1]
             /\ s.born = r.born /\ s.linked = r.linked
             /\ s.rrefs = r.rrefs /\ s.aborted = r.aborted
<1> DEFINE s == [r EXCEPT !.refs[p] = @ - 1]
<1>1. /\ IsRouter(s) /\ s.refs = [r.refs EXCEPT ![p] = @ - 1]
      /\ s.born = r.born /\ s.linked = r.linked /\ s.ring = r.ring /\ s.cache = r.cache
      /\ s.enabled = r.enabled /\ s.owner = r.owner
      /\ s.rrefs = r.rrefs /\ s.aborted = r.aborted
  BY DEF Linked, IsRouter, Fields
<1>2. r.refs \in [Peers -> Int]
  BY DEF Linked, CoreType
<1>3. s.refs \in [Peers -> Int] /\ s.refs[p] # 0
  <2> HIDE DEF s
  <2> QED  BY <1>1, <1>2
<1>4. PeerUnref(r, p) = s
  <2>1. PeerUnref(r, p) = IF s.refs[p] = 0 THEN mtc_simple_peer_destroy(s, p) ELSE s
    BY DEF PeerUnref
  <2> QED  BY <1>3, <2>1
<1> HIDE DEF s
<1>5. Linked(s)
  BY <1>1, <1>3 DEF Linked, CoreType
<1> QED  BY <1>1, <1>4, <1>5 DEF s

(* Dropping a reference to each of ps: the links of those that go are      *)
(* closed, and each of these drops its reference to the router, which does *)
(* not go as long as somebody else holds it.  First the states on the way. *)
LEMMA WayKeeps ==
  ASSUME NEW r, Linked(r), NEW ps \in SUBSET Peers,
         r.rrefs > Cardinality(LastOf(r, ps)), NEW f, Leads(f, r, ps)
  PROVE  \A s \in SUBSET ps : Unreffed(f[s], r, s)
<1>1. IsFiniteSet(ps) /\ \A s \in SUBSET ps : IsFiniteSet(s) /\ IsFiniteSet(LastOf(r, s))
  <2>1. \A s \in SUBSET ps : s \in SUBSET Peers /\ LastOf(r, s) \in SUBSET Peers
    BY DEF LastOf
  <2> QED  BY RouterAssumptions, FS_Subset, <2>1
<1>2. Leads(f, r, ps)
  OBVIOUS
<1> DEFINE S == {n \in Nat : \A s \in SUBSET ps : Cardinality(s) = n => Unreffed(f[s], r, s)}
<1>3. r.refs \in [Peers -> Int] /\ r.rrefs \in Int
  BY DEF Linked, CoreType
<1>4. Unreffed(r, r, {})
  <2>1. LastOf(r, {}) = {} /\ Cardinality({}) = 0
    BY FS_EmptySet DEF LastOf
  <2>2. r.refs = [p \in Peers |-> IF p \in {} THEN r.refs[p] - 1 ELSE r.refs[p]]
    BY <1>3
  <2> QED  BY <1>3, <2>1, <2>2 DEF Unreffed
<1>5. 0 \in S
  <2>1. \A s \in SUBSET ps : Cardinality(s) = 0 => s = {}
    BY <1>1, FS_EmptySet
  <2> QED  BY <1>2, <1>4, <2>1 DEF Leads
<1>6. ASSUME NEW n \in Nat, n \in S  PROVE n + 1 \in S
  <2> SUFFICES ASSUME NEW s \in SUBSET ps, Cardinality(s) = n + 1
               PROVE  Unreffed(f[s], r, s)
    OBVIOUS
  <2> DEFINE x == Pick(s)
             l == s \ {x}
             t == f[l]
             u == f[s]
  <2>1. s # {} /\ x \in s /\ x \in Peers /\ l \in SUBSET ps /\ Cardinality(l) = n
    <3>1. s # {} /\ IsFiniteSet(s)
      BY <1>1, FS_EmptySet
    <3>2. x \in s /\ Cardinality(l) = Cardinality(s) - 1
      BY <3>1, PickOut
    <3> HIDE DEF x
    <3> QED  BY <3>1, <3>2
  <2>2. Unreffed(t, r, l)
    BY <1>6, <2>1
  <2>3. u = PeerUnref(t, x)
    BY <1>2, <2>1 DEF Leads
  <2> HIDE DEF x, t, u
  <2>4. /\ Linked(t) /\ t.born = r.born /\ t.linked = r.linked \ LastOf(r, l)
        /\ t.refs = [p \in Peers |-> IF p \in l THEN r.refs[p] - 1 ELSE r.refs[p]]
        /\ t.rrefs = r.rrefs - Cardinality(LastOf(r, l)) /\ t.aborted = r.aborted
    BY <2>2 DEF Unreffed
  <2>5. t.refs[x] = r.refs[x] /\ r.refs[x] \in Int
    BY <1>3, <2>1, <2>4
  <2>6. [t.refs EXCEPT ![x] = @ - 1]
          = [p \in Peers |-> IF p \in s THEN r.refs[p] - 1 ELSE r.refs[p]]
    BY <1>3, <2>1, <2>4
  <2>7. CASE r.refs[x] = 1
    <3>1. /\ LastOf(r, s) = LastOf(r, l) \cup {x} /\ x \notin LastOf(r, l)
          /\ LastOf(r, s) \subseteq LastOf(r, ps)
      BY <2>1, <2>7 DEF LastOf
    <3>2. /\ Cardinality(LastOf(r, s)) = Cardinality(LastOf(r, l)) + 1
          /\ Cardinality(LastOf(r, l)) \in Nat
          /\ Cardinality(LastOf(r, s)) <= Cardinality(LastOf(r, ps))
          /\ Cardinality(LastOf(r, ps)) \in Nat
      BY <1>1, <2>1, <3>1, FS_AddElement, FS_CardinalityType, FS_Subset
    <3>3. /\ Linked(u) /\ u.born = t.born /\ u.refs = [t.refs EXCEPT ![x] = 0]
          /\ u.linked = t.linked \ {x} /\ u.rrefs = t.rrefs - 1
          /\ u.aborted = IF t.rrefs = 1 THEN t.linked \ {x} # {} ELSE t.aborted
      <4>1. Linked(t) /\ x \in Peers /\ t.refs[x] = 1
        BY <2>1, <2>4, <2>5, <2>7
      <4> QED  BY <2>3, <4>1, PeerUnrefKeeps
    <3>4. t.rrefs # 1 /\ u.rrefs = r.rrefs - Cardinality(LastOf(r, s))
      BY <1>3, <2>4, <3>2, <3>3
    <3>5. [t.refs EXCEPT ![x] = 0] = [t.refs EXCEPT ![x] = @ - 1]
      BY <2>5, <2>7
    <3>6. u.linked = r.linked \ LastOf(r, s)
      BY <2>4, <3>1, <3>3
    <3> QED  BY <2>4, <2>6, <3>3, <3>4, <3>5, <3>6 DEF Unreffed, u
  <2>8. CASE r.refs[x] # 1
    <3>1. LastOf(r, s) = LastOf(r, l)
      BY <2>1, <2>8 DEF LastOf
    <3>2. /\ Linked(u) /\ u.refs = [t.refs EXCEPT ![x] = @ - 1]
          /\ u.born = t.born /\ u.linked = t.linked
          /\ u.rrefs = t.rrefs /\ u.aborted = t.aborted
      BY <2>1, <2>3, <2>4, <2>5, <2>8, PeerUnrefMore
    <3> QED  BY <2>4, <2>6, <3>1, <3>2 DEF Unreffed, u
  <2> QED  BY <2>7, <2>8
<1>7. \A s \in SUBSET ps : Cardinality(s) \in S
  <2>1. \A s \in SUBSET ps : Cardinality(s) \in Nat
    BY <1>1, FS_CardinalityType
  <2> HIDE DEF S
  <2> QED  BY <1>5, <1>6, <2>1, SetInduction
<1> QED  BY <1>7

(* Then the last one.                                                      *)
LEMMA UnrefsKeeps ==
  ASSUME NEW r, Linked(r), NEW ps \in SUBSET Peers,
         r.rrefs > Cardinality(LastOf(r, ps))
  PROVE  Unreffed(Unrefs(r, ps), r, ps)
<1>1. PICK f : Leads(f, r, ps)
  BY RouterAssumptions, FS_Subset, UnrefsWay
<1> QED  BY <1>1, WayKeeps DEF Leads

-----------------------------------------------------------------------------
(* The sets and the listener alone: a set is referred to by the application*)
(* and, once, by the listener; only a listener with a set is active, and   *)
(* only one that lives is backed.                                          *)
ServerState ==
  [refs : [Sets -> Nat], mine : [Sets -> 0..2],
   made : SUBSET Sets, holders : [Sets -> SUBSET Peers],
   lrefs : 0..2, active : BOOLEAN, peer_set : Sets \cup {None},
   close_fd : BOOLEAN, closed : 0..1,
   backed : BOOLEAN, ready : BOOLEAN, ended : BOOLEAN]
SetOk(v, s) ==
  /\ v.refs[s] = v.mine[s] + One(v.lrefs > 0 /\ v.peer_set = s)
  /\ v.refs[s] = 0 => v.holders[s] = {}
  /\ s \notin v.made => v.refs[s] = 0
Listens(v) ==
  /\ v.ready => v.active /\ v.lrefs > 0
  /\ v.backed => v.lrefs > 0
  /\ v.active => v.peer_set # None
  /\ v.closed > 0 => v.lrefs = 0
SetsOk(v) ==
  /\ v \in ServerState /\ IsFiniteSet(v.made)
  /\ \A s \in Sets : SetOk(v, s)
  /\ Listens(v)

(* What they have to do with the router: ms are the peers that the         *)
(* application holds, h says that it holds the router, and more are        *)
(* references to the router that are about to be dropped.                  *)
HeldIn(v, p) == \E s \in Sets : p \in v.holders[s]
Living(r) == {p \in Peers : r.refs[p] > 0}
LiveSets(v) == {s \in Sets : v.refs[s] > 0}
Shared(r, v, ms, h, more) ==
  /\ ms \subseteq r.born
  /\ \A s \in Sets : v.holders[s] \subseteq r.born
  /\ \A s, t \in Sets : \A p \in v.holders[s] : p \in v.holders[t] => s = t
  /\ \A p \in Peers : r.refs[p] = One(p \in ms) + One(HeldIn(v, p))
  /\ r.linked \subseteq Living(r)
  /\ r.rrefs = more + One(h) + Cardinality(LiveSets(v)) + Cardinality(Living(r))
  /\ ~r.aborted

ServerInv ==
  /\ Linked(rt) /\ StepsHeld(stack, mine)
  /\ SetsOk(sv) /\ Shared(rt, sv, mine, held, 0)
  /\ backlog \in SUBSET (Peers \ rt.born)

-----------------------------------------------------------------------------
(* What the operators of the server do to the references.                  *)

(* The counts are of finite sets.                                          *)
LEMMA Finite ==
  ASSUME NEW v, SetsOk(v)
  PROVE  /\ IsFiniteSet(LiveSets(v)) /\ Cardinality(LiveSets(v)) \in Nat
         /\ \A r : /\ IsFiniteSet(Living(r)) /\ Cardinality(Living(r)) \in Nat
                   /\ Cardinality(Living(r)) = 0 => Living(r) = {}
<1>1. IsFiniteSet(LiveSets(v))
  <2>1. LiveSets(v) \subseteq v.made
    <3> SUFFICES ASSUME NEW s \in Sets, v.refs[s] > 0  PROVE s \in v.made
      BY DEF LiveSets
    <3>1. v.refs[s] \in Nat /\ SetOk(v, s)
      BY DEF SetsOk, ServerState
    <3> QED  BY <3>1 DEF SetOk
  <2> QED  BY <2>1, FS_Subset DEF SetsOk
<1>2. \A r : IsFiniteSet(Living(r))
  <2>1. \A r : Living(r) \in SUBSET Peers
    BY DEF Living
  <2> QED  BY <2>1, RouterAssumptions, FS_Subset
<1> QED  BY <1>1, <1>2, FS_CardinalityType, FS_EmptySet

(* What an operator leaves, and a set that lost some of its peers.         *)
Shares(both, r, ms, h, more) ==
  /\ Linked(both.rt) /\ both.rt.born = r.born
  /\ Shared(both.rt, both.sv, ms, h, more)
Without(v, s, ps) == [v EXCEPT !.holders[s] = @ \ ps]

(* mtc_peer_holder_destroy takes peers out of one set: it drops what that  *)
(* set had of them, and those go that nobody else holds.  Some other set,  *)
(* or the one that is being dropped, still holds the router.               *)
LEMMA HolderDestroyShares ==
  ASSUME NEW r, NEW v, NEW ms \in SUBSET Peers, NEW h, NEW more \in Nat,
         Linked(r), v \in ServerState, Shared(r, v, ms, h, more),
         IsFiniteSet(LiveSets(v)), more + Cardinality(LiveSets(v)) > 0,
         NEW s \in Sets, NEW ps \in SUBSET v.holders[s]
  PROVE  /\ mtc_peer_holder_destroy([rt |-> r, sv |-> v], s, ps).sv = Without(v, s, ps)
         /\ Shares(mtc_peer_holder_destroy([rt |-> r, sv |-> v], s, ps), r, ms, h, more)
<1> DEFINE both == mtc_peer_holder_destroy([rt |-> r, sv |-> v], s, ps)
           q == both.rt
           w == Without(v, s, ps)
<1>1. both.sv = w /\ q = Unrefs(r, ps)
  BY DEF mtc_peer_holder_destroy, Unrefs, Without
<1>2. /\ v.holders \in [Sets -> SUBSET Peers] /\ ps \in SUBSET Peers
      /\ w.refs = v.refs /\ w.holders = [v.holders EXCEPT ![s] = @ \ ps]
  BY DEF ServerState, Without
<1>3. \A p \in ps : HeldIn(v, p)
  BY DEF HeldIn
<1> HIDE DEF both, q, w
<1>4. \A p \in Peers : r.refs[p] = One(p \in ms) + One(HeldIn(v, p))
  BY DEF Shared
<1>5. LastOf(r, ps) = ps \ ms /\ LastOf(r, ps) \subseteq Living(r)
  <2>1. \A p \in ps : r.refs[p] = One(p \in ms) + 1
    BY <1>2, <1>3, <1>4 DEF One
  <2>2. \A p \in ps : (r.refs[p] = 1 <=> p \notin ms) /\ r.refs[p] > 0
    BY <2>1 DEF One
  <2>3. ps \ ms \subseteq Living(r)
    BY <1>2, <2>2 DEF Living
  <2>4. LastOf(r, ps) = ps \ ms
    BY <2>2 DEF LastOf
  <2> QED  BY <2>3, <2>4
<1>6. /\ IsFiniteSet(Living(r)) /\ IsFiniteSet(LastOf(r, ps))
      /\ Cardinality(Living(r)) \in Nat /\ Cardinality(LastOf(r, ps)) \in Nat
      /\ Cardinality(LastOf(r, ps)) <= Cardinality(Living(r))
      /\ Cardinality(Living(r) \ LastOf(r, ps))
           = Cardinality(Living(r)) - Cardinality(LastOf(r, ps))
      /\ Cardinality(LiveSets(v)) \in Nat
  <2>1. Living(r) \in SUBSET Peers
    BY DEF Living
  <2>2. IsFiniteSet(Living(r))
    BY <2>1, RouterAssumptions, FS_Subset
  <2>3. IsFiniteSet(LastOf(r, ps)) /\ Cardinality(LastOf(r, ps)) <= Cardinality(Living(r))
    BY <1>5, <2>2, FS_Subset
  <2>4. Living(r) \cap LastOf(r, ps) = LastOf(r, ps)
    BY <1>5
  <2>5. Cardinality(Living(r) \ LastOf(r, ps))
          = Cardinality(Living(r)) - Cardinality(Living(r) \cap LastOf(r, ps))
    BY <2>2, FS_Difference
  <2> QED  BY <2>2, <2>3, <2>4, <2>5, FS_CardinalityType
<1>7. r.rrefs = more + One(h) + Cardinality(LiveSets(v)) + Cardinality(Living(r))
  BY DEF Shared
<1>8. Unreffed(q, r, ps)
  <2>1. r.rrefs > Cardinality(LastOf(r, ps))
    <3>1. One(h) \in Nat
      BY DEF One
    <3> QED  BY <1>6, <1>7, <3>1
  <2> QED  BY <1>1, <1>2, <2>1, UnrefsKeeps
<1>9. \A p \in Peers : HeldIn(w, p) <=> HeldIn(v, p) /\ p \notin ps
  <2>1. \A p \in Peers, x \in Sets :
          p \in w.holders[x] <=> p \in v.holders[x] /\ ~(x = s /\ p \in ps)
    BY <1>2
  <2>2. \A p \in ps, x \in Sets : p \in v.holders[x] => x = s
    BY DEF Shared
  <2> QED  BY <2>1, <2>2 DEF HeldIn
<1>10. \A p \in Peers : q.refs[p] = One(p \in ms) + One(HeldIn(w, p))
  <2> SUFFICES ASSUME NEW p \in Peers  PROVE q.refs[p] = One(p \in ms) + One(HeldIn(w, p))
    OBVIOUS
  <2>1. q.refs[p] = IF p \in ps THEN r.refs[p] - 1 ELSE r.refs[p]
    BY <1>8 DEF Unreffed
  <2>2. CASE p \in ps
    <3>1. HeldIn(v, p) /\ ~HeldIn(w, p)
      BY <1>3, <1>9, <2>2
    <3> QED  BY <1>4, <2>1, <2>2, <3>1 DEF One
  <2>3. CASE p \notin ps
    <3>1. HeldIn(v, p) <=> HeldIn(w, p)
      BY <1>9, <2>3
    <3> QED  BY <1>4, <2>1, <2>3, <3>1 DEF One
  <2> QED  BY <2>2, <2>3
<1>11. Living(q) = Living(r) \ LastOf(r, ps)
  <2>1. \A p \in Peers : p \in LastOf(r, ps) <=> p \in ps /\ r.refs[p] = 1
    BY DEF LastOf
  <2>2. \A p \in Peers : q.refs[p] = IF p \in ps THEN r.refs[p] - 1 ELSE r.refs[p]
    BY <1>8 DEF Unreffed
  <2>3. \A p \in Peers : r.refs[p] \in Int /\ (p \in ps => r.refs[p] > 0)
    BY <1>2, <1>3, <1>4 DEF One
  <2>4. \A p \in Peers : q.refs[p] > 0 <=> r.refs[p] > 0 /\ p \notin LastOf(r, ps)
    BY <2>1, <2>2, <2>3
  <2> QED  BY <2>4 DEF Living
<1>12. LiveSets(w) = LiveSets(v)
  BY <1>2 DEF LiveSets
<1>13. /\ ms \subseteq r.born /\ r.linked \subseteq Living(r) /\ ~r.aborted
       /\ \A x \in Sets : w.holders[x] \subseteq r.born
       /\ \A x, t \in Sets : \A p \in w.holders[x] : p \in w.holders[t] => x = t
  <2>1. \A x \in Sets : w.holders[x] \subseteq v.holders[x]
    BY <1>2
  <2> QED  BY <2>1 DEF Shared
<1>14. q.rrefs = more + One(h) + Cardinality(LiveSets(w)) + Cardinality(Living(q))
  <2>1. q.rrefs = r.rrefs - Cardinality(LastOf(r, ps))
    BY <1>8 DEF Unreffed
  <2>2. One(h) \in Nat
    BY DEF One
  <2> QED  BY <1>6, <1>7, <1>11, <1>12, <2>1, <2>2
<1>15. /\ Linked(q) /\ q.born = r.born /\ q.linked = r.linked \ LastOf(r, ps)
       /\ q.aborted = r.aborted
  BY <1>8 DEF Unreffed
<1>16. Shared(q, w, ms, h, more)
  <2>1. q.linked \subseteq Living(q) /\ ~q.aborted /\ ms \subseteq q.born
    BY <1>11, <1>13, <1>15
  <2> QED  BY <1>10, <1>13, <1>14, <1>15, <2>1 DEF Shared
<1> QED  BY <1>1, <1>15, <1>16 DEF Shares, both, q, w

(* Only the references to sets and their peers matter to that.             *)
LEMMA SharedSame ==
  ASSUME NEW r, NEW v, NEW w, NEW ms, NEW h, NEW more, Shared(r, v, ms, h, more),
         w.refs = v.refs, w.holders = v.holders
  PROVE  Shared(r, w, ms, h, more)
<1>1. LiveSets(w) = LiveSets(v)
  BY DEF LiveSets
<1>2. \A p : One(HeldIn(w, p)) = One(HeldIn(v, p))
  BY DEF HeldIn, One
<1>3. \A p \in Peers : r.refs[p] = One(p \in ms) + One(HeldIn(w, p))
  BY <1>2 DEF Shared
<1>4. r.rrefs = more + One(h) + Cardinality(LiveSets(w)) + Cardinality(Living(r))
  BY <1>1 DEF Shared
<1> QED  BY <1>3, <1>4 DEF Shared

(* One live set less is one reference to the router that has no holder.    *)
LEMMA SetDropped ==
  ASSUME NEW r, NEW v, NEW ms, NEW h, NEW s \in Sets,
         v \in ServerState, Shared(r, v, ms, h, 0), IsFiniteSet(LiveSets(v)), v.refs[s] > 0
  PROVE  LET w == [v EXCEPT !.refs[s] = @ - 1]
         IN  /\ w \in ServerState /\ IsFiniteSet(LiveSets(w))
             /\ v.refs[s] > 1 => Shared(r, w, ms, h, 0)
             /\ v.refs[s] = 1 => Shared(r, w, ms, h, 1)
<1> DEFINE w == [v EXCEPT !.refs[s] = @ - 1]
<1>1. /\ v.refs \in [Sets -> Nat]
      /\ w \in ServerState /\ w.holders = v.holders
      /\ w.refs = [v.refs EXCEPT ![s] = @ - 1]
  BY DEF ServerState
<1> HIDE DEF w
<1>2. \A p : HeldIn(w, p) <=> HeldIn(v, p)
  BY <1>1 DEF HeldIn
<1>3. s \in LiveSets(v)
  BY DEF LiveSets
<1>4. LiveSets(w) = IF v.refs[s] = 1 THEN LiveSets(v) \ {s} ELSE LiveSets(v)
  BY <1>1 DEF LiveSets
<1> DEFINE last == One(v.refs[s] = 1)
           n == Cardinality(LiveSets(v))
           k == Cardinality(LiveSets(w))
<1>5. n \in Nat /\ IsFiniteSet(LiveSets(w)) /\ k = n - last /\ last \in Nat
  <2>1. n \in Nat
    BY FS_CardinalityType
  <2>2. CASE v.refs[s] = 1
    <3>1. LiveSets(w) = LiveSets(v) \ {s} /\ last = 1
      BY <1>4, <2>2 DEF One
    <3> QED  BY <1>3, <2>1, <3>1, FS_RemoveElement
  <2>3. CASE v.refs[s] # 1
    <3>1. LiveSets(w) = LiveSets(v) /\ last = 0
      BY <1>4, <2>3 DEF One
    <3> QED  BY <2>1, <3>1
  <2> QED  BY <2>2, <2>3
<1> DEFINE a == Cardinality(Living(r))
           b == One(h)
<1>6. a \in Nat /\ r.rrefs = 0 + b + n + a /\ b \in Nat
  <2>1. Living(r) \in SUBSET Peers
    BY DEF Living
  <2> QED  BY <2>1, MineCounted DEF Shared, One
<1>7. r.rrefs = last + b + k + a
  <2> HIDE DEF last, n, k, a, b
  <2> QED  BY <1>5, <1>6
<1>8. Shared(r, w, ms, h, last)
  <2>1. \A p : One(HeldIn(w, p)) = One(HeldIn(v, p))
    BY <1>1 DEF HeldIn, One
  <2>2. \A p \in Peers : r.refs[p] = One(p \in ms) + One(HeldIn(w, p))
    BY <2>1 DEF Shared
  <2> HIDE DEF last
  <2> QED  BY <1>1, <1>7, <2>2 DEF Shared
<1>9. last = IF v.refs[s] = 1 THEN 1 ELSE 0
  BY DEF One
<1> HIDE DEF last
<1>10. v.refs[s] = 1 => last = 1
  BY <1>9
<1>11. v.refs[s] > 1 => last = 0
  BY <1>9
<1> QED  BY <1>1, <1>5, <1>8, <1>10, <1>11 DEF w

(* The last reference to the router is dropped: no peer is left that could *)
(* be in the ring.                                                         *)
LEMMA RouterUnrefShares ==
  ASSUME NEW r, NEW v, NEW ms, NEW h,
         Linked(r), Shared(r, v, ms, h, 1), IsFiniteSet(LiveSets(v))
  PROVE  LET q == RouterUnref(r)
         IN  Linked(q) /\ q.born = r.born /\ Shared(q, v, ms, h, 0)
<1> DEFINE q == RouterUnref(r)
<1>1. /\ Linked(q)
      /\ q.born = r.born /\ q.refs = r.refs /\ q.linked = r.linked
      /\ q.rrefs = r.rrefs - 1
      /\ q.aborted = IF r.rrefs = 1 THEN r.linked # {} ELSE r.aborted
  BY RouterUnrefKeeps
<1> HIDE DEF q
<1>2. Living(r) \in SUBSET Peers /\ Living(q) = Living(r)
  BY <1>1 DEF Living
<1>3. /\ Cardinality(Living(r)) \in Nat /\ (Cardinality(Living(r)) = 0 <=> Living(r) = {})
      /\ Cardinality(LiveSets(v)) \in Nat
  BY <1>2, MineCounted, FS_CardinalityType
<1>4. /\ r.rrefs = 1 + One(h) + Cardinality(LiveSets(v)) + Cardinality(Living(r))
      /\ r.linked \subseteq Living(r) /\ ~r.aborted
  BY DEF Shared
<1>5. r.rrefs = 1 => r.linked = {}
  BY <1>3, <1>4 DEF One
<1>6. q.rrefs = 0 + One(h) + Cardinality(LiveSets(v)) + Cardinality(Living(q)) /\ ~q.aborted
  <2>1. One(h) \in Nat
    BY DEF One
  <2>2. q.rrefs = 0 + One(h) + Cardinality(LiveSets(v)) + Cardinality(Living(q))
    BY <1>1, <1>2, <1>3, <1>4, <2>1
  <2>3. CASE r.rrefs = 1
    BY <1>1, <1>5, <2>2, <2>3
  <2>4. CASE r.rrefs # 1
    BY <1>1, <1>4, <2>2, <2>4
  <2> QED  BY <2>3, <2>4
<1> QED  BY <1>1, <1>2, <1>6 DEF Shared, q

(* One reference less, or with the last one the holders and the reference  *)
(* to the router.                                                          *)
LEMMA SetUnrefIs ==
  ASSUME NEW r, NEW v, NEW s
  PROVE  LET w == [v EXCEPT !.refs[s] = @ - 1]
             one == [rt |-> r, sv |-> w]
             bare == mtc_peer_holder_destroy(one, s, w.holders[s])
         IN  mtc_peer_set_unref([rt |-> r, sv |-> v], s)
               = IF one.sv.refs[s] > 0 THEN one ELSE [bare EXCEPT !.rt = RouterUnref(@)]
<1> DEFINE w == [v EXCEPT !.refs[s] = @ - 1]
           one == [rt |-> r, sv |-> w]
           bare == mtc_peer_holder_destroy(one, s, w.holders[s])
           both == mtc_peer_set_unref([rt |-> r, sv |-> v], s)
<1> SUFFICES both = IF one.sv.refs[s] > 0 THEN one ELSE [bare EXCEPT !.rt = RouterUnref(@)]
  OBVIOUS
<1> DEFINE first == [[rt |-> r, sv |-> v] EXCEPT !.sv.refs[s] = @ - 1]
           gone == mtc_peer_holder_destroy(first, s, first.sv.holders[s])
<1>1. both = IF first.sv.refs[s] > 0 THEN first ELSE [gone EXCEPT !.rt = RouterUnref(@)]
  BY DEF mtc_peer_set_unref
<1>2. first = one
  OBVIOUS
<1> HIDE DEF first, one
<1>3. gone = mtc_peer_holder_destroy(one, s, one.sv.holders[s])
  BY <1>2
<1>4. one.sv = w
  BY DEF one
<1> HIDE DEF both, w
<1>5. gone = bare
  BY <1>3, <1>4
<1> HIDE DEF gone, bare
<1> QED  BY <1>1, <1>2, <1>5

(* mtc_peer_set_unref.                                                     *)
Dropped(v, s) == [v EXCEPT !.refs[s] = @ - 1,
                           !.holders[s] = IF v.refs[s] = 1 THEN {} ELSE @]
LEMMA SetUnrefShares ==
  ASSUME NEW r, NEW v, NEW ms \in SUBSET Peers, NEW h, NEW s \in Sets,
         Linked(r), v \in ServerState, Shared(r, v, ms, h, 0), IsFiniteSet(LiveSets(v)),
         v.refs[s] > 0
  PROVE  /\ mtc_peer_set_unref([rt |-> r, sv |-> v], s).sv = Dropped(v, s)
         /\ Shares(mtc_peer_set_unref([rt |-> r, sv |-> v], s), r, ms, h, 0)
<1> DEFINE w == [v EXCEPT !.refs[s] = @ - 1]
           one == [rt |-> r, sv |-> w]
           bare == mtc_peer_holder_destroy(one, s, w.holders[s])
           both == mtc_peer_set_unref([rt |-> r, sv |-> v], s)
<1>1. both = IF one.sv.refs[s] > 0 THEN one ELSE [bare EXCEPT !.rt = RouterUnref(@)]
  BY SetUnrefIs
<1>2. /\ v.refs[s] \in Nat /\ one.sv.refs[s] = v.refs[s] - 1
      /\ v.holders \in [Sets -> SUBSET Peers] /\ w.holders = v.holders
  BY DEF ServerState
<1>3. /\ w \in ServerState /\ IsFiniteSet(LiveSets(w))
      /\ v.refs[s] > 1 => Shared(r, w, ms, h, 0)
      /\ v.refs[s] = 1 => Shared(r, w, ms, h, 1)
  BY SetDropped
<1>4. CASE v.refs[s] > 1
  <2>1. both.rt = r /\ both.sv = w
    BY <1>1, <1>2, <1>4
  <2>2. w = Dropped(v, s)
    <3> DEFINE x == IF v.refs[s] = 1 THEN {} ELSE v.holders[s]
    <3>1. v.holders = [v.holders EXCEPT ![s] = x]
      BY <1>2, <1>4
    <3> HIDE DEF x
    <3>2. w = [v EXCEPT !.refs[s] = @ - 1, !.holders[s] = x]
      BY <1>2, <3>1 DEF ServerState
    <3> QED  BY <3>2 DEF x, Dropped
  <2> HIDE DEF both, w
  <2>3. both.sv = Dropped(v, s) /\ Shares(both, r, ms, h, 0)
    BY <1>3, <1>4, <2>1, <2>2 DEF Shares
  <2> QED  BY <2>3 DEF both
<1>5. CASE v.refs[s] = 1
  <2>1. both = [bare EXCEPT !.rt = RouterUnref(@)]
    BY <1>1, <1>2, <1>5
  <2>2. Without(w, s, w.holders[s])
          = Dropped(v, s)
    BY <1>2, <1>5 DEF ServerState, Without, Dropped
  <2>3. bare.rt = Unrefs(r, w.holders[s]) /\ DOMAIN bare = {"rt", "sv"}
    BY DEF mtc_peer_holder_destroy, Unrefs
  <2> HIDE DEF w
  <2>4. 1 + Cardinality(LiveSets(w)) > 0
    BY <1>3, FS_CardinalityType
  <2>5. bare.sv = Without(w, s, w.holders[s]) /\ Shares(bare, r, ms, h, 1)
    <3> DEFINE ps == w.holders[s]
    <3>1. /\ w \in ServerState /\ Shared(r, w, ms, h, 1) /\ IsFiniteSet(LiveSets(w))
          /\ 1 + Cardinality(LiveSets(w)) > 0 /\ 1 \in Nat /\ ps \in SUBSET w.holders[s]
      BY <1>3, <1>5, <2>4
    <3> HIDE DEF ps
    <3>2. /\ mtc_peer_holder_destroy([rt |-> r, sv |-> w], s, ps).sv = Without(w, s, ps)
          /\ Shares(mtc_peer_holder_destroy([rt |-> r, sv |-> w], s, ps), r, ms, h, 1)
      BY <3>1, HolderDestroyShares
    <3> QED  BY <3>2 DEF ps
  <2> HIDE DEF bare
  <2>6. both.sv = bare.sv /\ both.rt = RouterUnref(bare.rt)
    <3> HIDE DEF both
    <3> QED  BY <2>1, <2>3
  <2>7. IsFiniteSet(LiveSets(bare.sv))
    <3>1. bare.sv.refs = w.refs
      BY <1>3, <2>5 DEF ServerState, Without
    <3> QED  BY <1>3, <3>1 DEF LiveSets
  <2>8. /\ Linked(RouterUnref(bare.rt)) /\ RouterUnref(bare.rt).born = bare.rt.born
        /\ Shared(RouterUnref(bare.rt), bare.sv, ms, h, 0)
    BY <2>5, <2>7, RouterUnrefShares DEF Shares
  <2> QED  BY <2>2, <2>5, <2>6, <2>8 DEF w, Shares
<1> HIDE DEF both
<1> QED  BY <1>2, <1>4, <1>5 DEF both

(* A peer that is added is a new one: it is referred to once, by the       *)
(* application or by the one set that it is added to.                      *)
JoinedBy(v, s, p) == [v EXCEPT !.holders[s] = @ \cup {p}]
Adds(q, r, v, ms, h, p) ==
  /\ Linked(q) /\ q.born = r.born \cup {p}
  /\ Shared(q, v, ms \cup {p}, h, 0)
  /\ \A s \in Sets : Shared(q, JoinedBy(v, s, p), ms, h, 0)
LEMMA AddShares ==
  ASSUME NEW r, NEW v, NEW ms \in SUBSET Peers, NEW h, NEW p \in Peers, NEW close_fd,
         Linked(r), v \in ServerState, Shared(r, v, ms, h, 0), IsFiniteSet(LiveSets(v)),
         p \notin r.born
  PROVE  Adds(mtc_simple_router_add(r, p, close_fd), r, v, ms, h, p)
<1> DEFINE q == mtc_simple_router_add(r, p, close_fd)
<1>1. /\ Linked(q) /\ q.born = r.born \cup {p} /\ q.refs = [r.refs EXCEPT ![p] = 1]
      /\ q.linked = r.linked \cup {p} /\ q.rrefs = r.rrefs + 1 /\ q.aborted = r.aborted
  BY AddLinks
<1> HIDE DEF q
<1>2. /\ p \notin ms /\ ~HeldIn(v, p) /\ r.refs \in [Peers -> Int]
      /\ ms \subseteq r.born /\ \A s \in Sets : v.holders[s] \subseteq r.born
      /\ \A s, t \in Sets : \A x \in v.holders[s] : x \in v.holders[t] => s = t
      /\ r.linked \subseteq Living(r) /\ ~r.aborted
  BY DEF Shared, HeldIn, Linked, CoreType
<1>3. \A x \in Peers : r.refs[x] = One(x \in ms) + One(HeldIn(v, x))
  BY DEF Shared
<1>4. r.refs[p] = 0
  BY <1>2, <1>3 DEF One
<1>5. Living(q) = Living(r) \cup {p} /\ p \notin Living(r) /\ Living(r) \in SUBSET Peers
  BY <1>1, <1>2, <1>4 DEF Living
<1>6. Cardinality(Living(q)) = Cardinality(Living(r)) + 1 /\ Cardinality(Living(r)) \in Nat
  BY <1>5, MineCounted
<1> DEFINE a == One(h)
           n == Cardinality(LiveSets(v))
<1>7. q.rrefs = 0 + a + n + Cardinality(Living(q))
  <2>1. r.rrefs = 0 + a + n + Cardinality(Living(r))
    BY DEF Shared
  <2>2. a \in Nat /\ n \in Nat
    BY FS_CardinalityType DEF One
  <2> HIDE DEF a, n
  <2> QED  BY <1>1, <1>6, <2>1, <2>2
<1>8. q.linked \subseteq Living(q) /\ ~q.aborted
  BY <1>1, <1>2, <1>5
<1>9. Shared(q, v, ms \cup {p}, h, 0)
  <2>1. \A x \in Peers : q.refs[x] = One(x \in ms \cup {p}) + One(HeldIn(v, x))
    <3> SUFFICES ASSUME NEW x \in Peers
                 PROVE  q.refs[x] = One(x \in ms \cup {p}) + One(HeldIn(v, x))
      OBVIOUS
    <3>1. CASE x = p
      BY <1>1, <1>2, <3>1 DEF One
    <3>2. CASE x # p
      <4>1. q.refs[x] = r.refs[x] /\ One(x \in ms \cup {p}) = One(x \in ms)
        BY <1>1, <1>2, <3>2 DEF One
      <4> QED  BY <1>3, <4>1
    <3> QED  BY <3>1, <3>2
  <2> QED  BY <1>1, <1>2, <1>7, <1>8, <2>1 DEF Shared
<1>10. ASSUME NEW s \in Sets  PROVE Shared(q, JoinedBy(v, s, p), ms, h, 0)
  <2> DEFINE w == JoinedBy(v, s, p)
  <2>1. /\ v.holders \in [Sets -> SUBSET Peers] /\ w.refs = v.refs
        /\ w.holders = [v.holders EXCEPT ![s] = @ \cup {p}]
    BY DEF ServerState, JoinedBy
  <2> HIDE DEF w
  <2>2. \A x \in Peers : HeldIn(w, x) <=> HeldIn(v, x) \/ x = p
    BY <2>1 DEF HeldIn
  <2>3. \A x \in Peers : q.refs[x] = One(x \in ms) + One(HeldIn(w, x))
    <3> SUFFICES ASSUME NEW x \in Peers
                 PROVE  q.refs[x] = One(x \in ms) + One(HeldIn(w, x))
      OBVIOUS
    <3>1. CASE x = p
      <4>1. q.refs[x] = 1 /\ One(x \in ms) = 0 /\ HeldIn(w, x)
        BY <1>1, <1>2, <2>2, <3>1 DEF One
      <4> QED  BY <4>1 DEF One
    <3>2. CASE x # p
      <4>1. q.refs[x] = r.refs[x] /\ One(HeldIn(w, x)) = One(HeldIn(v, x))
        BY <1>1, <1>2, <2>2, <3>2 DEF One
      <4> QED  BY <1>3, <4>1
    <3> QED  BY <3>1, <3>2
  <2>4. \A x \in Sets : w.holders[x] \subseteq q.born
    BY <1>1, <1>2, <2>1
  <2>5. \A x, t \in Sets : \A y \in w.holders[x] : y \in w.holders[t] => x = t
    <3>1. \A x \in Sets : \A y : y \in w.holders[x] <=> y \in v.holders[x] \/ (x = s /\ y = p)
      BY <2>1
    <3>2. \A x \in Sets : p \notin v.holders[x]
      BY <1>2
    <3> QED  BY <1>2, <3>1, <3>2
  <2>6. LiveSets(w) = LiveSets(v)
    BY <2>1 DEF LiveSets
  <2>7. Shared(q, w, ms, h, 0)
    BY <1>1, <1>2, <1>7, <1>8, <2>3, <2>4, <2>5, <2>6 DEF Shared
  <2> QED  BY <2>7 DEF w
<1>11. Adds(q, r, v, ms, h, p)
  BY <1>1, <1>9, <1>10 DEF Adds
<1> QED  BY <1>11 DEF q

(* The application drops a peer, which goes if no set holds it.            *)
LEMMA PeerUnrefShares ==
  ASSUME NEW r, NEW v, NEW ms \in SUBSET Peers, NEW h, NEW p \in ms,
         Linked(r), Shared(r, v, ms, h, 0), IsFiniteSet(LiveSets(v))
  PROVE  LET q == PeerUnref(r, p)
         IN  Linked(q) /\ q.born = r.born /\ Shared(q, v, ms \ {p}, h, 0)
<1> DEFINE q == PeerUnref(r, p)
           a == One(h)
           n == Cardinality(LiveSets(v))
           k == Cardinality(Living(r))
<1>1. /\ \A x \in Peers : r.refs[x] = One(x \in ms) + One(HeldIn(v, x))
      /\ r.refs \in [Peers -> Int] /\ p \in Peers /\ p \in ms
      /\ ms \subseteq r.born /\ \A s \in Sets : v.holders[s] \subseteq r.born
      /\ \A s, t \in Sets : \A x \in v.holders[s] : x \in v.holders[t] => s = t
      /\ r.linked \subseteq Living(r) /\ ~r.aborted
  BY DEF Shared, Linked, CoreType
<1>2. /\ r.rrefs = 0 + a + n + k /\ a \in Nat /\ n \in Nat /\ k \in Nat
      /\ Living(r) \in SUBSET Peers
  <2>1. Living(r) \in SUBSET Peers
    BY DEF Living
  <2>2. r.rrefs = 0 + a + n + k /\ a \in Nat
    BY DEF Shared, One
  <2> QED  BY <2>1, <2>2, MineCounted, FS_CardinalityType
<1>3. r.refs[p] = 1 + One(HeldIn(v, p))
  BY <1>1 DEF One
<1> HIDE DEF q, a, n, k
<1>4. /\ Linked(q) /\ q.born = r.born /\ q.refs = [r.refs EXCEPT ![p] = @ - 1]
      /\ q.rrefs = 0 + a + n + Cardinality(Living(q))
      /\ q.linked \subseteq Living(q) /\ ~q.aborted
  <2>1. CASE HeldIn(v, p)
    <3>1. r.refs[p] = 2
      BY <1>3, <2>1 DEF One
    <3>2. /\ Linked(q) /\ q.refs = [r.refs EXCEPT ![p] = @ - 1]
          /\ q.born = r.born /\ q.linked = r.linked
          /\ q.rrefs = r.rrefs /\ q.aborted = r.aborted
      BY <1>1, <3>1, PeerUnrefMore DEF q
    <3>3. Living(q) = Living(r)
      BY <1>1, <3>1, <3>2 DEF Living
    <3> QED  BY <1>1, <1>2, <3>2, <3>3 DEF k
  <2>2. CASE ~HeldIn(v, p)
    <3>1. r.refs[p] = 1
      BY <1>3, <2>2 DEF One
    <3>2. /\ Linked(q)
          /\ q.born = r.born /\ q.refs = [r.refs EXCEPT ![p] = 0]
          /\ q.linked = r.linked \ {p} /\ q.rrefs = r.rrefs - 1
          /\ q.aborted = IF r.rrefs = 1 THEN r.linked \ {p} # {} ELSE r.aborted
      BY <1>1, <3>1, PeerUnrefKeeps DEF q
    <3>3. Living(q) = Living(r) \ {p} /\ p \in Living(r)
      BY <1>1, <3>1, <3>2 DEF Living
    <3>4. /\ Cardinality(Living(q)) = k - 1
          /\ Cardinality(Living(q)) = 0 => Living(q) = {}
      <4>1. Living(q) \in SUBSET Peers
        BY <1>2, <3>3
      <4> QED  BY <1>2, <3>3, <4>1, MineCounted DEF k
    <3>5. q.linked \subseteq Living(q)
      BY <1>1, <3>2, <3>3
    <3>6. r.rrefs = 1 => k = 1
      <4>1. k # 0
        BY <1>2, <3>3, MineCounted DEF k
      <4> QED  BY <1>2, <4>1
    <3>7. ~q.aborted
      <4>1. r.rrefs = 1 => q.linked = {}
        BY <3>4, <3>5, <3>6
      <4>2. CASE r.rrefs = 1
        BY <3>2, <4>1, <4>2
      <4>3. CASE r.rrefs # 1
        BY <1>1, <3>2, <4>3
      <4> QED  BY <4>2, <4>3
    <3>8. q.refs = [r.refs EXCEPT ![p] = @ - 1]
      BY <3>1, <3>2
    <3> QED  BY <1>2, <3>2, <3>4, <3>5, <3>7, <3>8
  <2> QED  BY <2>1, <2>2
<1>5. \A x \in Peers : q.refs[x] = One(x \in ms \ {p}) + One(HeldIn(v, x))
  <2> SUFFICES ASSUME NEW x \in Peers
               PROVE  q.refs[x] = One(x \in ms \ {p}) + One(HeldIn(v, x))
    OBVIOUS
  <2>1. CASE x = p
    BY <1>1, <1>3, <1>4, <2>1 DEF One
  <2>2. CASE x # p
    <3>1. q.refs[x] = r.refs[x] /\ One(x \in ms \ {p}) = One(x \in ms)
      BY <1>1, <1>4, <2>2 DEF One
    <3> QED  BY <1>1, <3>1
  <2> QED  BY <2>1, <2>2
<1>6. Shared(q, v, ms \ {p}, h, 0)
  BY <1>1, <1>4, <1>5 DEF Shared, a, n
<1> QED  BY <1>4, <1>6 DEF q

-----------------------------------------------------------------------------
(* The invariant holds at first, and with the router's own steps.          *)

(* What the lemmas below take from it.                                     *)
LEMMA ServerFacts ==
  ASSUME ServerInv
  PROVE  /\ Base /\ Linked(rt) /\ mine \in SUBSET Peers /\ StepsHeld(stack, mine)
         /\ SetsOk(sv) /\ sv \in ServerState /\ IsFiniteSet(LiveSets(sv))
         /\ Shared(rt, sv, mine, held, 0)
<1>1. Linked(rt) /\ StepsHeld(stack, mine) /\ mine \subseteq rt.born
  BY DEF ServerInv, Shared
<1>2. mine \in SUBSET Peers
  BY <1>1 DEF Linked, CoreType
<1> QED  BY <1>1, <1>2, Finite DEF ServerInv, Base, SetsOk

(* There are no sets, and one listener, which has none.                    *)
LEMMA ServerInvInit == ServerInit => ServerInv
<1> SUFFICES ASSUME ServerInit  PROVE ServerInv
  OBVIOUS
<1>1. SafeInv /\ Init
  BY SafeInit DEF ServerInit
<1>2. /\ Linked(rt) /\ StepsHeld(stack, mine) /\ mine = {} /\ rt.born = {}
      /\ rt.refs = [p \in Peers |-> 0] /\ rt.linked = {} /\ rt.rrefs = One(held)
      /\ ~rt.aborted
  BY <1>1 DEF SafeInv, Init, One
<1>3. /\ sv.refs = [s \in Sets |-> 0] /\ sv.mine = [s \in Sets |-> 0] /\ sv.made = {}
      /\ sv.holders = [s \in Sets |-> {}] /\ sv.lrefs = 1 /\ sv.active = FALSE
      /\ sv.peer_set = None /\ sv.closed = 0 /\ sv.backed = FALSE /\ sv.ready = FALSE
      /\ sv \in ServerState
  BY DEF ServerInit, ServerState
<1>4. SetsOk(sv)
  <2>1. ASSUME NEW s \in Sets  PROVE SetOk(sv, s)
    BY <1>3, ServerAssumptions DEF SetOk, One
  <2> QED  BY <1>3, <2>1, FS_EmptySet DEF SetsOk, Listens
<1>5. Shared(rt, sv, mine, held, 0)
  <2>1. LiveSets(sv) = {} /\ Living(rt) = {} /\ \A p : ~HeldIn(sv, p)
    BY <1>2, <1>3 DEF LiveSets, Living, HeldIn
  <2>2. \A p \in Peers : rt.refs[p] = One(p \in mine) + One(HeldIn(sv, p))
    BY <1>2, <2>1 DEF One
  <2>3. rt.rrefs = 0 + One(held) + Cardinality(LiveSets(sv)) + Cardinality(Living(rt))
    <3>1. One(held) \in Nat
      BY DEF One
    <3> QED  BY <1>2, <2>1, <3>1, FS_EmptySet
  <2> QED  BY <1>2, <1>3, <2>1, <2>2, <2>3 DEF Shared
<1>6. backlog = {}
  BY DEF ServerInit
<1> QED  BY <1>2, <1>4, <1>5, <1>6 DEF ServerInv

(* Links go, and references stay.                                          *)
LEMMA QuietServer ==
  ASSUME ServerInv, Quiet, UNCHANGED serverVars
  PROVE  ServerInv'
<1>1. /\ Linked(rt') /\ UNCHANGED <<mine, held, sv, backlog>> /\ StepsHeld(stack', mine)
  BY DEF Quiet, serverVars
<1>2. PICK gone : Keeps(rt', rt, gone)
  BY DEF Quiet
<1>3. Living(rt') = Living(rt)
  BY <1>2 DEF Living, Keeps
<1>4. Shared(rt', sv, mine, held, 0)
  BY <1>2, <1>3, ServerFacts DEF Shared, Keeps
<1>5. backlog \in SUBSET (Peers \ rt'.born)
  BY <1>2 DEF Keeps, ServerInv
<1> QED  BY <1>1, <1>4, <1>5 DEF ServerInv

(* The application adds a peer of its own, or drops one, or the router.    *)
LEMMA RouterAddServer ==
  ASSUME ServerInv, NEW p \in Peers \ backlog, NEW close_fd \in BOOLEAN,
         RouterAdd(p, close_fd), UNCHANGED serverVars
  PROVE  ServerInv'
<1>1. /\ p \notin rt.born /\ rt' = mtc_simple_router_add(rt, p, close_fd)
      /\ mine' = mine \cup {p} /\ UNCHANGED <<stack, held, sv, backlog>>
  BY DEF RouterAdd, serverVars
<1>2. /\ Linked(rt') /\ rt'.born = rt.born \cup {p}
      /\ Shared(rt', sv, mine \cup {p}, held, 0)
  <2>1. p \in Peers
    OBVIOUS
  <2>2. Adds(mtc_simple_router_add(rt, p, close_fd), rt, sv, mine, held, p)
    BY <1>1, <2>1, ServerFacts, AddShares
  <2> QED  BY <1>1, <2>2 DEF Adds
<1>3. StepsHeld(stack, mine \cup {p})
  BY ServerFacts DEF StepsHeld
<1>4. backlog \in SUBSET (Peers \ rt'.born)
  BY <1>2 DEF ServerInv
<1> QED  BY <1>1, <1>2, <1>3, <1>4 DEF ServerInv

(* mtc_peer_unref, by the application.                                     *)
LEMMA AppUnrefServer ==
  ASSUME ServerInv, NEW p \in Peers, AppUnref(p), UNCHANGED serverVars
  PROVE  ServerInv'
<1>1. /\ p \in mine /\ Steps(p) = {} /\ rt' = PeerUnref(rt, p)
      /\ mine' = mine \ {p} /\ UNCHANGED <<stack, held, sv, backlog>>
  BY DEF AppUnref, serverVars
<1>2. Linked(rt') /\ rt'.born = rt.born /\ Shared(rt', sv, mine \ {p}, held, 0)
  BY <1>1, ServerFacts, PeerUnrefShares
<1>3. StepsHeld(stack, mine \ {p})
  BY <1>1, ServerFacts DEF StepsHeld, Steps
<1> QED  BY <1>1, <1>2, <1>3 DEF ServerInv

(* mtc_router_unref, by the application.                                   *)
LEMMA AppUnrefRouterServer ==
  ASSUME ServerInv, AppUnrefRouter, UNCHANGED serverVars
  PROVE  ServerInv'
<1>1. /\ held /\ ~held' /\ rt' = RouterUnref(rt) /\ UNCHANGED <<stack, mine, sv, backlog>>
  BY DEF AppUnrefRouter, serverVars
<1>2. One(held) = 1 /\ One(held') = 0
  BY <1>1 DEF One
<1>3. Shared(rt, sv, mine, held', 1)
  <2> DEFINE n == Cardinality(LiveSets(sv))
             k == Cardinality(Living(rt))
  <2>1. rt.rrefs = 0 + One(held) + n + k
    BY ServerFacts DEF Shared
  <2>2. rt.rrefs = 1 + One(held') + n + k
    <3>1. n \in Nat /\ k \in Nat
      BY ServerFacts, Finite
    <3> HIDE DEF n, k
    <3> QED  BY <1>2, <2>1, <3>1
  <2> QED  BY <2>2, ServerFacts DEF Shared
<1>4. Linked(rt') /\ rt'.born = rt.born /\ Shared(rt', sv, mine, held', 0)
  BY <1>1, <1>3, ServerFacts, RouterUnrefShares
<1> QED  BY <1>1, <1>4 DEF ServerInv

(* All of these.                                                           *)
LEMMA RouterStepsServer ==
  ASSUME ServerInv, RouterSteps
  PROVE  ServerInv'
<1>1. UNCHANGED serverVars
  BY DEF RouterSteps
<1>2. CASE AppUnrefRouter \/ \E p \in Peers : AppUnref(p)
  BY <1>1, <1>2, AppUnrefServer, AppUnrefRouterServer
<1>3. CASE Application /\ ~AppUnrefRouter /\ \A p \in Peers : ~AppUnref(p)
  BY <1>1, <1>3, ServerFacts, ApplicationQuiet, QuietServer
<1>4. CASE LinkEvent \/ Environment
  BY <1>1, <1>4, ServerFacts, LinkEventQuiet, EnvironmentQuiet, QuietServer
<1>5. CASE \E p \in Peers \ backlog, close_fd \in BOOLEAN : RouterAdd(p, close_fd)
  BY <1>1, <1>5, RouterAddServer
<1> QED  BY <1>2, <1>3, <1>4, <1>5 DEF RouterSteps

-----------------------------------------------------------------------------
(* What the calls of the server do to the sets and the listener.           *)

(* A call that is about one set leaves the others alone.                   *)
OthersStay(w, v, s) ==
  \A x \in Sets : x # s =>
    /\ w.refs[x] = v.refs[x] /\ w.mine[x] = v.mine[x] /\ w.holders[x] = v.holders[x]
    /\ x \in w.made <=> x \in v.made
    /\ w.lrefs > 0 /\ w.peer_set = x <=> v.lrefs > 0 /\ v.peer_set = x
LEMMA OneSetOk ==
  ASSUME NEW v, NEW w, SetsOk(v), w \in ServerState, IsFiniteSet(w.made),
         NEW s \in Sets, OthersStay(w, v, s), SetOk(w, s), Listens(w)
  PROVE  SetsOk(w)
<1>1. ASSUME NEW x \in Sets  PROVE SetOk(w, x)
  <2>1. CASE x = s
    BY <2>1
  <2>2. CASE x # s
    <3>1. One(w.lrefs > 0 /\ w.peer_set = x) = One(v.lrefs > 0 /\ v.peer_set = x)
      BY <2>2 DEF OthersStay, One
    <3>2. SetOk(v, x)
      BY DEF SetsOk
    <3> QED  BY <2>2, <3>1, <3>2 DEF OthersStay, SetOk
  <2> QED  BY <2>1, <2>2
<1> QED  BY <1>1 DEF SetsOk

(* One that is about none leaves all of them alone.                        *)
LEMMA ListenerOk ==
  ASSUME NEW v, NEW w, SetsOk(v), w \in ServerState, w.refs = v.refs, w.mine = v.mine,
         w.holders = v.holders, w.made = v.made, Listens(w),
         \A x \in Sets :
           w.lrefs > 0 /\ w.peer_set = x <=> v.lrefs > 0 /\ v.peer_set = x
  PROVE  SetsOk(w)
<1>1. ASSUME NEW x \in Sets  PROVE SetOk(w, x)
  <2>1. One(w.lrefs > 0 /\ w.peer_set = x) = One(v.lrefs > 0 /\ v.peer_set = x)
    BY DEF One
  <2>2. SetOk(v, x)
    BY DEF SetsOk
  <2> QED  BY <2>1, <2>2 DEF SetOk
<1> QED  BY <1>1 DEF SetsOk

(* The application's sets, and the listener's, are referred to.            *)
LEMMA InUse ==
  ASSUME NEW v, SetsOk(v), NEW s \in Sets,
         v.mine[s] > 0 \/ (v.lrefs > 0 /\ v.peer_set = s)
  PROVE  /\ v.refs[s] \in Nat /\ v.refs[s] > 0 /\ s \in v.made
         /\ v.mine[s] \in 0..2
         /\ v.refs[s] = v.mine[s] + One(v.lrefs > 0 /\ v.peer_set = s)
<1>1. v.refs[s] \in Nat /\ v.mine[s] \in 0..2 /\ SetOk(v, s)
  BY DEF SetsOk, ServerState
<1>2. v.refs[s] = v.mine[s] + One(v.lrefs > 0 /\ v.peer_set = s)
  BY <1>1 DEF SetOk
<1>3. v.refs[s] > 0
  <2>1. CASE v.mine[s] > 0
    BY <1>1, <1>2, <2>1 DEF One
  <2>2. CASE v.lrefs > 0 /\ v.peer_set = s
    BY <1>1, <1>2, <2>2 DEF One
  <2> QED  BY <2>1, <2>2
<1> QED  BY <1>1, <1>2, <1>3 DEF SetOk

(* What a step of the server has to keep.                                  *)
LEMMA ServerStep ==
  ASSUME ServerInv, Linked(rt'), rt'.born = rt.born, SetsOk(sv'),
         Shared(rt', sv', mine, held, 0), UNCHANGED <<stack, mine, held, backlog>>
  PROVE  ServerInv'
  BY DEF ServerInv

(* The listener alone.                                                     *)
LEMMA ListenerStep ==
  ASSUME ServerInv, SetsOk(sv'), sv'.refs = sv.refs, sv'.holders = sv.holders,
         UNCHANGED <<rt, stack, mine, held, backlog>>
  PROVE  ServerInv'
<1>1. Shared(rt', sv', mine, held, 0)
  <2>1. Shared(rt, sv', mine, held, 0)
    BY ServerFacts, SharedSame
  <2> QED  BY <2>1
<1> QED  BY <1>1, ServerFacts, ServerStep

(* A new set is alone with its one reference. *)
LEMMA PeerSetNewServer ==
  ASSUME ServerInv, NEW s \in Sets, PeerSetNew(s)
  PROVE  ServerInv'
<1> DEFINE w == [sv EXCEPT !.made = @ \cup {s}, !.refs[s] = 1, !.mine[s] = 1]
<1>1. /\ s \notin sv.made /\ rt' = [rt EXCEPT !.rrefs = @ + 1] /\ sv' = w
      /\ UNCHANGED <<stack, mine, held, backlog>>
  BY DEF PeerSetNew, appVars
<1>2. /\ sv.refs \in [Sets -> Nat] /\ sv.mine \in [Sets -> 0..2] /\ SetOk(sv, s)
      /\ sv.made \in SUBSET Sets /\ IsFiniteSet(sv.made) /\ Listens(sv)
  BY ServerFacts DEF SetsOk, ServerState
<1>3. /\ w \in ServerState /\ w.made = sv.made \cup {s} /\ w.holders = sv.holders
      /\ w.refs = [sv.refs EXCEPT ![s] = 1] /\ w.mine = [sv.mine EXCEPT ![s] = 1]
      /\ w.lrefs = sv.lrefs /\ w.peer_set = sv.peer_set /\ w.ready = sv.ready
      /\ w.active = sv.active /\ w.backed = sv.backed /\ w.closed = sv.closed
  <2>1. /\ w.made = sv.made \cup {s} /\ w.holders = sv.holders
        /\ w.refs = [sv.refs EXCEPT ![s] = 1] /\ w.mine = [sv.mine EXCEPT ![s] = 1]
        /\ w.lrefs = sv.lrefs /\ w.peer_set = sv.peer_set /\ w.ready = sv.ready
        /\ w.active = sv.active /\ w.backed = sv.backed /\ w.closed = sv.closed
    BY ServerFacts DEF ServerState
  <2>2. w.refs \in [Sets -> Nat] /\ w.mine \in [Sets -> 0..2] /\ w.made \in SUBSET Sets
    BY <1>1, <1>2, <2>1
  <2>3. w \in ServerState
    BY <2>2, ServerFacts DEF ServerState
  <2> QED  BY <2>1, <2>3
<1> HIDE DEF w
<1>4. sv.refs[s] = 0 /\ ~(sv.lrefs > 0 /\ sv.peer_set = s)
  <2>1. sv.refs[s] = 0 /\ sv.refs[s] = sv.mine[s] + One(sv.lrefs > 0 /\ sv.peer_set = s)
    BY <1>1, <1>2 DEF SetOk
  <2> QED  BY <1>2, <2>1 DEF One
<1>5. SetsOk(w)
  <2>1. SetOk(w, s)
    BY <1>2, <1>3, <1>4 DEF SetOk, One
  <2>2. OthersStay(w, sv, s) /\ Listens(w)
    BY <1>2, <1>3 DEF OthersStay, Listens
  <2>3. IsFiniteSet(w.made)
    BY <1>2, <1>3, FS_AddElement
  <2> QED  BY <1>3, <2>1, <2>2, <2>3, ServerFacts, OneSetOk
<1>6. /\ Linked(rt') /\ rt'.born = rt.born /\ rt'.refs = rt.refs /\ rt'.linked = rt.linked
      /\ rt'.rrefs = rt.rrefs + 1 /\ rt'.aborted = rt.aborted
  <2>1. /\ IsRouter(rt') /\ rt'.born = rt.born /\ rt'.refs = rt.refs
        /\ rt'.linked = rt.linked /\ rt'.ring = rt.ring /\ rt'.cache = rt.cache
        /\ rt'.enabled = rt.enabled /\ rt'.owner = rt.owner
        /\ rt'.rrefs = rt.rrefs + 1 /\ rt'.aborted = rt.aborted
    BY <1>1, ServerFacts DEF Linked, IsRouter, Fields
  <2> QED  BY <2>1, ServerFacts DEF Linked, CoreType
<1>7. Shared(rt', w, mine, held, 0)
  <2> DEFINE n == Cardinality(LiveSets(sv))
             m == Cardinality(LiveSets(w))
             k == Cardinality(Living(rt))
             a == One(held)
  <2>1. LiveSets(w) = LiveSets(sv) \cup {s} /\ s \notin LiveSets(sv)
    BY <1>2, <1>3, <1>4 DEF LiveSets
  <2>2. m = n + 1 /\ n \in Nat /\ k \in Nat /\ a \in Nat
    BY <2>1, ServerFacts, Finite, FS_AddElement DEF One
  <2>3. rt.rrefs = 0 + a + n + k
    BY ServerFacts DEF Shared
  <2>4. Living(rt') = Living(rt)
    BY <1>6 DEF Living
  <2>5. rt'.rrefs = 0 + a + m + k
    <3> HIDE DEF n, m, k, a
    <3> QED  BY <1>6, <2>2, <2>3
  <2>6. \A p : One(HeldIn(w, p)) = One(HeldIn(sv, p))
    BY <1>3 DEF HeldIn, One
  <2>7. \A p \in Peers : rt'.refs[p] = One(p \in mine) + One(HeldIn(w, p))
    BY <1>6, <2>6, ServerFacts DEF Shared
  <2> QED  BY <1>3, <1>6, <2>4, <2>5, <2>7, ServerFacts DEF Shared
<1> QED  BY <1>1, <1>5, <1>6, <1>7, ServerStep

(* Another reference for the application. *)
LEMMA PeerSetRefServer ==
  ASSUME ServerInv, NEW s \in Sets, PeerSetRef(s)
  PROVE  ServerInv'
<1> DEFINE w == [sv EXCEPT !.refs[s] = @ + 1, !.mine[s] = @ + 1]
<1>1. /\ sv.mine[s] > 0 /\ sv.mine[s] <= 1 /\ sv' = w
      /\ UNCHANGED <<rt, stack, mine, held, backlog>>
  BY DEF PeerSetRef, OneEach, routerVars, appVars
<1>2. /\ sv.refs \in [Sets -> Nat] /\ sv.mine \in [Sets -> 0..2] /\ Listens(sv)
      /\ sv.refs[s] > 0 /\ s \in sv.made /\ IsFiniteSet(sv.made)
      /\ sv.refs[s] = sv.mine[s] + One(sv.lrefs > 0 /\ sv.peer_set = s)
  BY <1>1, ServerFacts, InUse DEF SetsOk, ServerState
<1>3. /\ w \in ServerState /\ w.made = sv.made /\ w.holders = sv.holders
      /\ w.refs = [sv.refs EXCEPT ![s] = @ + 1] /\ w.mine = [sv.mine EXCEPT ![s] = @ + 1]
      /\ w.lrefs = sv.lrefs /\ w.peer_set = sv.peer_set /\ w.ready = sv.ready
      /\ w.active = sv.active /\ w.backed = sv.backed /\ w.closed = sv.closed
  <2>1. /\ w.made = sv.made /\ w.holders = sv.holders
        /\ w.refs = [sv.refs EXCEPT ![s] = @ + 1] /\ w.mine = [sv.mine EXCEPT ![s] = @ + 1]
        /\ w.lrefs = sv.lrefs /\ w.peer_set = sv.peer_set /\ w.ready = sv.ready
        /\ w.active = sv.active /\ w.backed = sv.backed /\ w.closed = sv.closed
    BY ServerFacts DEF ServerState
  <2>2. w.refs \in [Sets -> Nat] /\ w.mine \in [Sets -> 0..2] /\ w.made \in SUBSET Sets
    <3>1. sv.mine[s] + 1 \in 0..2 /\ sv.refs[s] + 1 \in Nat /\ sv.made \in SUBSET Sets
      BY <1>1, <1>2, ServerFacts DEF ServerState
    <3> HIDE DEF w
    <3> QED  BY <1>2, <2>1, <3>1
  <2>3. w \in ServerState
    BY <2>2, ServerFacts DEF ServerState
  <2> QED  BY <2>1, <2>3
<1> HIDE DEF w
<1>4. SetsOk(w)
  <2>1. SetOk(w, s)
    BY <1>2, <1>3 DEF SetOk, One
  <2>2. OthersStay(w, sv, s) /\ Listens(w)
    BY <1>2, <1>3 DEF OthersStay, Listens
  <2> QED  BY <1>2, <1>3, <2>1, <2>2, ServerFacts, OneSetOk
<1>5. Shared(rt, w, mine, held, 0)
  <2> DEFINE v == sv
  <2>1. LiveSets(w) = LiveSets(sv)
    BY <1>2, <1>3 DEF LiveSets
  <2>2. \A p : One(HeldIn(w, p)) = One(HeldIn(sv, p))
    BY <1>3 DEF HeldIn, One
  <2>3. \A p \in Peers : rt.refs[p] = One(p \in mine) + One(HeldIn(w, p))
    BY <2>2, ServerFacts DEF Shared
  <2>4. rt.rrefs = 0 + One(held) + Cardinality(LiveSets(w)) + Cardinality(Living(rt))
    BY <2>1, ServerFacts DEF Shared
  <2> QED  BY <1>3, <2>3, <2>4, ServerFacts DEF Shared
<1> QED  BY <1>1, <1>4, <1>5, ServerFacts, ServerStep

(* The application drops a set; with its last reference its holders go. *)
LEMMA PeerSetUnrefServer ==
  ASSUME ServerInv, NEW s \in Sets, PeerSetUnref(s)
  PROVE  ServerInv'
<1> DEFINE v == [sv EXCEPT !.mine[s] = @ - 1]
           w == Dropped(v, s)
           both == mtc_peer_set_unref([rt |-> rt, sv |-> v], s)
<1>1. /\ sv.mine[s] > 0 /\ rt' = both.rt /\ sv' = both.sv
      /\ UNCHANGED <<stack, mine, held, backlog>>
  <2>1. [Both EXCEPT !.sv.mine[s] = @ - 1] = [rt |-> rt, sv |-> v]
    BY DEF Both
  <2> HIDE DEF v
  <2> QED  BY <2>1 DEF PeerSetUnref, Becomes, appVars, v
<1>2. /\ sv.refs \in [Sets -> Nat] /\ sv.mine \in [Sets -> 0..2] /\ Listens(sv)
      /\ sv.holders \in [Sets -> SUBSET Peers]
      /\ sv.refs[s] > 0 /\ s \in sv.made /\ IsFiniteSet(sv.made)
      /\ sv.refs[s] = sv.mine[s] + One(sv.lrefs > 0 /\ sv.peer_set = s)
  BY <1>1, ServerFacts, InUse DEF SetsOk, ServerState
<1>3. /\ v \in ServerState /\ v.refs = sv.refs /\ v.holders = sv.holders
      /\ v.mine = [sv.mine EXCEPT ![s] = @ - 1]
      /\ v.made = sv.made /\ v.lrefs = sv.lrefs /\ v.peer_set = sv.peer_set
      /\ v.ready = sv.ready /\ v.active = sv.active /\ v.backed = sv.backed
      /\ v.closed = sv.closed
  <2>1. /\ v.refs = sv.refs /\ v.holders = sv.holders
        /\ v.mine = [sv.mine EXCEPT ![s] = @ - 1]
        /\ v.made = sv.made /\ v.lrefs = sv.lrefs /\ v.peer_set = sv.peer_set
        /\ v.ready = sv.ready /\ v.active = sv.active /\ v.backed = sv.backed
        /\ v.closed = sv.closed
    BY ServerFacts DEF ServerState
  <2>2. v.mine \in [Sets -> 0..2]
    <3>1. sv.mine[s] - 1 \in 0..2
      BY <1>1, <1>2
    <3> HIDE DEF v
    <3> QED  BY <1>2, <2>1, <3>1
  <2>3. v \in ServerState
    BY <2>2, ServerFacts DEF ServerState
  <2> QED  BY <2>1, <2>3
<1> HIDE DEF v
<1>4. Shared(rt, v, mine, held, 0) /\ IsFiniteSet(LiveSets(v))
  <2>1. LiveSets(v) = LiveSets(sv)
    BY <1>3 DEF LiveSets
  <2> QED  BY <1>3, <2>1, ServerFacts, SharedSame
<1>5. both.sv = w /\ Shares(both, rt, mine, held, 0)
  BY <1>2, <1>3, <1>4, ServerFacts, SetUnrefShares
<1> HIDE DEF both
<1>6. SetsOk(w)
  <2>1. /\ w.refs = [sv.refs EXCEPT ![s] = @ - 1] /\ w.mine = [sv.mine EXCEPT ![s] = @ - 1]
        /\ w.holders = [sv.holders EXCEPT ![s] = IF sv.refs[s] = 1 THEN {} ELSE @]
        /\ w.made = sv.made /\ w.lrefs = sv.lrefs /\ w.peer_set = sv.peer_set
        /\ w.ready = sv.ready /\ w.active = sv.active /\ w.backed = sv.backed
        /\ w.closed = sv.closed
    BY <1>3 DEF ServerState, Dropped
  <2>2. w.refs \in [Sets -> Nat] /\ w.holders \in [Sets -> SUBSET Peers]
    <3> HIDE DEF w
    <3> QED  BY <1>2, <2>1
  <2>3. w \in ServerState
    BY <1>3, <2>2 DEF ServerState, Dropped
  <2> HIDE DEF w
  <2>4. SetOk(w, s)
    <3>1. One(w.lrefs > 0 /\ w.peer_set = s) = One(sv.lrefs > 0 /\ sv.peer_set = s)
      BY <2>1
    <3>2. w.refs[s] = w.mine[s] + One(w.lrefs > 0 /\ w.peer_set = s)
      <4> DEFINE n == One(sv.lrefs > 0 /\ sv.peer_set = s)
      <4>1. n \in Nat
        BY DEF One
      <4> HIDE DEF n
      <4>2. w.refs[s] = sv.refs[s] - 1 /\ w.mine[s] = sv.mine[s] - 1
        BY <1>2, <2>1
      <4>3. sv.refs[s] = sv.mine[s] + n
        BY <1>2 DEF n
      <4>4. sv.refs[s] \in Nat /\ sv.mine[s] \in Nat
        BY <1>2
      <4> QED  BY <3>1, <4>1, <4>2, <4>3, <4>4 DEF n
    <3>3. w.refs[s] = 0 => w.holders[s] = {}
      BY <1>2, <2>1
    <3> QED  BY <1>2, <2>1, <3>2, <3>3 DEF SetOk
  <2>5. OthersStay(w, sv, s) /\ Listens(w)
    BY <1>2, <2>1 DEF OthersStay, Listens
  <2> QED  BY <1>2, <2>1, <2>3, <2>4, <2>5, ServerFacts, OneSetOk
<1> QED  BY <1>1, <1>5, <1>6, ServerStep DEF Shares

(* What the operators of the server map, and mtc_simple_listener_set_active*)
(* leaves the router as it was.                                            *)
IsBoth(b) == DOMAIN b = {"rt", "sv"} /\ b = [x \in {"rt", "sv"} |-> b[x]]
LEMMA AsBoth ==
  ASSUME NEW b, IsBoth(b)
  PROVE  b = [rt |-> b.rt, sv |-> b.sv]
  BY DEF IsBoth

Activated(v, val) == [v EXCEPT !.active = val, !.ready = v.ready /\ v.active = val]
(* Switching the listener touches nothing but the listener. *)
LEMMA SetActiveIs ==
  ASSUME NEW r, NEW v, NEW val
  PROVE  mtc_simple_listener_set_active([rt |-> r, sv |-> v], val)
           = [rt |-> r, sv |-> Activated(v, val)]
<1> DEFINE b == mtc_simple_listener_set_active([rt |-> r, sv |-> v], val)
<1>1. b.rt = r /\ IsBoth(b)
  BY DEF mtc_simple_listener_set_active, IsBoth
<1>2. b.sv = Activated(v, val)
  BY DEF mtc_simple_listener_set_active, Activated
<1> HIDE DEF b
<1> QED  BY <1>1, <1>2, AsBoth DEF b

(* The listener gets a set, and a reference to it. *)
LEMMA SetPeerSetServer ==
  ASSUME ServerInv, NEW s \in Sets, SetPeerSet(s)
  PROVE  ServerInv'
<1> DEFINE u == [sv EXCEPT !.peer_set = s, !.refs[s] = @ + 1]
           w == Activated(u, TRUE)
<1>1. /\ sv.lrefs > 0 /\ sv.mine[s] > 0 /\ sv.peer_set = None /\ sv' = w
      /\ UNCHANGED <<rt, stack, mine, held, backlog>>
  <2> DEFINE b == [Both EXCEPT !.sv.peer_set = s, !.sv.refs[s] = @ + 1]
  <2>1. b.rt = rt /\ b.sv = u /\ IsBoth(b)
    BY DEF IsBoth, Both
  <2>2. mtc_simple_listener_set_peer_set(Both, s) = mtc_simple_listener_set_active(b, TRUE)
    BY DEF mtc_simple_listener_set_peer_set
  <2> HIDE DEF u, b
  <2>3. mtc_simple_listener_set_peer_set(Both, s) = [rt |-> rt, sv |-> w]
    <3>1. b = [rt |-> rt, sv |-> u]
      BY <2>1, AsBoth
    <3>2. mtc_simple_listener_set_active([rt |-> rt, sv |-> u], TRUE) = [rt |-> rt, sv |-> w]
      BY SetActiveIs
    <3> QED  BY <2>2, <3>1, <3>2, Zenon
  <2> HIDE DEF w
  <2> QED  BY <2>3 DEF SetPeerSet, Sleeps, Becomes, appVars
<1>2. /\ sv.refs \in [Sets -> Nat] /\ Listens(sv)
      /\ sv.refs[s] > 0 /\ s \in sv.made /\ IsFiniteSet(sv.made)
      /\ sv.refs[s] = sv.mine[s] + One(sv.lrefs > 0 /\ sv.peer_set = s)
      /\ sv.mine[s] \in 0..2 /\ None \notin Sets
  BY <1>1, ServerFacts, InUse, ServerAssumptions DEF SetsOk, ServerState
<1>3. /\ w.refs = [sv.refs EXCEPT ![s] = @ + 1] /\ w.mine = sv.mine
      /\ w.holders = sv.holders /\ w.made = sv.made /\ w.lrefs = sv.lrefs
      /\ w.peer_set = s /\ w.ready = (sv.ready /\ sv.active = TRUE) /\ w.active = TRUE
      /\ w.backed = sv.backed /\ w.closed = sv.closed
  <2>1. /\ u.refs = [sv.refs EXCEPT ![s] = @ + 1] /\ u.peer_set = s
        /\ u = [x \in DOMAIN sv |-> IF x = "refs" THEN u.refs
                                   ELSE IF x = "peer_set" THEN s ELSE sv[x]]
    BY ServerFacts DEF ServerState
  <2>2. DOMAIN sv = {"refs", "mine", "made", "holders", "lrefs", "active", "peer_set",
                     "close_fd", "closed", "backed", "ready", "ended"}
    BY ServerFacts DEF ServerState
  <2> HIDE DEF u
  <2> QED  BY <2>1, <2>2 DEF Activated
<1>4. w \in ServerState
  <2>1. w.refs \in [Sets -> Nat]
    <3> HIDE DEF w
    <3> QED  BY <1>2, <1>3
  <2> QED  BY <2>1, ServerFacts DEF ServerState, Activated
<1> HIDE DEF w
<1>5. SetsOk(w)
  <2>1. SetOk(w, s)
    <3>1. One(w.lrefs > 0 /\ w.peer_set = s) = 1 /\ One(sv.lrefs > 0 /\ sv.peer_set = s) = 0
      BY <1>1, <1>2, <1>3 DEF One
    <3> QED  BY <1>2, <1>3, <3>1 DEF SetOk
  <2>2. OthersStay(w, sv, s)
    BY <1>1, <1>2, <1>3 DEF OthersStay
  <2>3. Listens(w)
    BY <1>1, <1>2, <1>3 DEF Listens
  <2> QED  BY <1>2, <1>3, <1>4, <2>1, <2>2, <2>3, ServerFacts, OneSetOk
<1>6. Shared(rt, w, mine, held, 0)
  <2>1. LiveSets(w) = LiveSets(sv)
    BY <1>2, <1>3 DEF LiveSets
  <2>2. \A p : One(HeldIn(w, p)) = One(HeldIn(sv, p))
    BY <1>3 DEF HeldIn, One
  <2>3. \A p \in Peers : rt.refs[p] = One(p \in mine) + One(HeldIn(w, p))
    BY <2>2, ServerFacts DEF Shared
  <2>4. rt.rrefs = 0 + One(held) + Cardinality(LiveSets(w)) + Cardinality(Living(rt))
    BY <2>1, ServerFacts DEF Shared
  <2> QED  BY <1>3, <2>3, <2>4, ServerFacts DEF Shared
<1> QED  BY <1>1, <1>5, <1>6, ServerFacts, ServerStep

(* What dropping a set returns has the two parts of the state and no more. *)
LEMMA SetUnrefIsBoth ==
  ASSUME NEW r, NEW v, NEW s
  PROVE  IsBoth(mtc_peer_set_unref([rt |-> r, sv |-> v], s))
<1> DEFINE first == [[rt |-> r, sv |-> v] EXCEPT !.sv.refs[s] = @ - 1]
           gone == mtc_peer_holder_destroy(first, s, first.sv.holders[s])
<1>1. IsBoth(first)
  BY DEF IsBoth
<1>2. IsBoth(gone)
  <2> DEFINE ps == first.sv.holders[s]
             x == Unrefs(first.rt, ps)
             y == [first.sv EXCEPT !.holders[s] = @ \ ps]
  <2>1. gone = [rt |-> x, sv |-> y]
    BY DEF mtc_peer_holder_destroy, Unrefs
  <2> HIDE DEF x, y, gone
  <2> QED  BY <2>1 DEF IsBoth
<1>3. mtc_peer_set_unref([rt |-> r, sv |-> v], s)
        = IF first.sv.refs[s] > 0 THEN first ELSE [gone EXCEPT !.rt = RouterUnref(@)]
  BY DEF mtc_peer_set_unref
<1> HIDE DEF first, gone
<1>4. IsBoth([gone EXCEPT !.rt = RouterUnref(@)])
  BY <1>2 DEF IsBoth
<1> QED  BY <1>1, <1>3, <1>4

(* mtc_simple_listener_unset_peer_set drops the set of the listener.       *)
LEMMA UnsetPeerSetIs ==
  ASSUME UnsetPeerSet
  PROVE  LET both == mtc_peer_set_unref([rt |-> rt, sv |-> Activated(sv, FALSE)], sv.peer_set)
         IN  /\ sv.lrefs > 0 /\ sv.peer_set # None
             /\ rt' = both.rt /\ sv' = [both.sv EXCEPT !.peer_set = None]
             /\ UNCHANGED <<stack, mine, held, backlog>>
<1> DEFINE s == sv.peer_set
           v == Activated(sv, FALSE)
           both == mtc_peer_set_unref([rt |-> rt, sv |-> v], s)
<1> SUFFICES /\ sv.lrefs > 0 /\ s # None
             /\ rt' = both.rt /\ sv' = [both.sv EXCEPT !.peer_set = None]
             /\ UNCHANGED <<stack, mine, held, backlog>>
  OBVIOUS
<1>1. mtc_simple_listener_set_active(Both, FALSE) = [rt |-> rt, sv |-> v]
  BY SetActiveIs DEF Both
<1>2. mtc_simple_listener_unset_peer_set(Both) = [both EXCEPT !.sv.peer_set = None]
  <2>1. mtc_simple_listener_unset_peer_set(Both)
          = [mtc_peer_set_unref(mtc_simple_listener_set_active(Both, FALSE), s)
               EXCEPT !.sv.peer_set = None]
    BY DEF mtc_simple_listener_unset_peer_set, Both
  <2> HIDE DEF v, s
  <2> QED  BY <1>1, <2>1
<1>3. IsBoth(both)
  BY SetUnrefIsBoth
<1> HIDE DEF both, v
<1>4. /\ [both EXCEPT !.sv.peer_set = None].rt = both.rt
      /\ [both EXCEPT !.sv.peer_set = None].sv = [both.sv EXCEPT !.peer_set = None]
  BY <1>3 DEF IsBoth
<1> QED  BY <1>2, <1>4 DEF UnsetPeerSet, Sleeps, Becomes, appVars

(* The listener gives its set back. *)
LEMMA UnsetPeerSetServer ==
  ASSUME ServerInv, UnsetPeerSet
  PROVE  ServerInv'
<1> DEFINE s == sv.peer_set
           v == Activated(sv, FALSE)
           u == Dropped(v, s)
           w == [u EXCEPT !.peer_set = None]
           both == mtc_peer_set_unref([rt |-> rt, sv |-> v], s)
<1>1. /\ sv.lrefs > 0 /\ s # None /\ rt' = both.rt /\ sv' = [both.sv EXCEPT !.peer_set = None]
      /\ UNCHANGED <<stack, mine, held, backlog>>
  BY UnsetPeerSetIs
<1>2. s \in Sets
  BY <1>1, ServerFacts DEF ServerState
<1>3. /\ v.refs = sv.refs /\ v.holders = sv.holders /\ v.mine = sv.mine
      /\ v.made = sv.made /\ v.lrefs = sv.lrefs /\ v.peer_set = s
      /\ ~v.ready /\ ~v.active /\ v.backed = sv.backed /\ v.closed = sv.closed
      /\ v \in ServerState
  <2>1. Listens(sv)
    BY ServerFacts DEF SetsOk
  <2>2. /\ v.refs = sv.refs /\ v.holders = sv.holders /\ v.mine = sv.mine
        /\ v.made = sv.made /\ v.lrefs = sv.lrefs /\ v.peer_set = s
        /\ v.ready = (sv.ready /\ sv.active = FALSE) /\ v.active = FALSE
        /\ v.backed = sv.backed /\ v.closed = sv.closed
    BY ServerFacts DEF ServerState, Activated
  <2>3. v \in ServerState
    BY ServerFacts DEF ServerState, Activated
  <2> HIDE DEF v
  <2> QED  BY <2>1, <2>2, <2>3 DEF Listens
<1> HIDE DEF v, s
<1>4. /\ sv.refs \in [Sets -> Nat] /\ sv.mine \in [Sets -> 0..2] /\ Listens(sv)
      /\ sv.holders \in [Sets -> SUBSET Peers]
      /\ sv.refs[s] > 0 /\ s \in sv.made /\ IsFiniteSet(sv.made)
      /\ sv.refs[s] = sv.mine[s] + 1 /\ None \notin Sets
  <2>1. sv.refs[s] > 0 /\ s \in sv.made
        /\ sv.refs[s] = sv.mine[s] + One(sv.lrefs > 0 /\ sv.peer_set = s)
    BY <1>1, <1>2, ServerFacts, InUse DEF s
  <2>2. One(sv.lrefs > 0 /\ sv.peer_set = s) = 1
    BY <1>1 DEF One, s
  <2> QED  BY <2>1, <2>2, ServerFacts, ServerAssumptions DEF SetsOk, ServerState
<1>5. Shared(rt, v, mine, held, 0) /\ IsFiniteSet(LiveSets(v))
  <2>1. LiveSets(v) = LiveSets(sv)
    BY <1>3 DEF LiveSets
  <2> QED  BY <1>3, <2>1, ServerFacts, SharedSame
<1>6. both.sv = u /\ Shares(both, rt, mine, held, 0)
  BY <1>2, <1>3, <1>4, <1>5, ServerFacts, SetUnrefShares
<1> HIDE DEF both
<1>7. /\ w.refs = [sv.refs EXCEPT ![s] = @ - 1] /\ w.mine = sv.mine
      /\ w.holders = [sv.holders EXCEPT ![s] = IF sv.refs[s] = 1 THEN {} ELSE @]
      /\ w.made = sv.made /\ w.lrefs = sv.lrefs /\ w.peer_set = None
      /\ ~w.ready /\ ~w.active /\ w.backed = sv.backed /\ w.closed = sv.closed
      /\ w.refs = u.refs /\ w.holders = u.holders
  BY <1>3 DEF ServerState, Dropped
<1>8. w \in ServerState
  <2>1. w.refs \in [Sets -> Nat] /\ w.holders \in [Sets -> SUBSET Peers]
    <3>1. sv.refs[s] - 1 \in Nat
      BY <1>2, <1>4
    <3> HIDE DEF w
    <3> QED  BY <1>2, <1>4, <1>7, <3>1
  <2> QED  BY <1>3, <2>1 DEF ServerState, Dropped
<1> HIDE DEF u, w
<1>9. SetsOk(w)
  <2>1. SetOk(w, s)
    <3>1. One(w.lrefs > 0 /\ w.peer_set = s) = 0
      BY <1>2, <1>4, <1>7 DEF One
    <3>2. w.refs[s] = sv.mine[s] /\ w.mine[s] = sv.mine[s] /\ sv.mine[s] \in Nat
      BY <1>2, <1>4, <1>7
    <3>3. w.refs[s] = 0 => w.holders[s] = {}
      BY <1>2, <1>4, <1>7
    <3> QED  BY <1>4, <1>7, <3>1, <3>2, <3>3 DEF SetOk
  <2>2. OthersStay(w, sv, s)
    <3>1. \A x \in Sets : x # s => sv.peer_set # x /\ w.peer_set # x
      BY <1>4, <1>7 DEF s
    <3> QED  BY <1>4, <1>7, <3>1 DEF OthersStay
  <2>3. Listens(w)
    BY <1>4, <1>7 DEF Listens
  <2> QED  BY <1>2, <1>4, <1>7, <1>8, <2>1, <2>2, <2>3, ServerFacts, OneSetOk
<1>10. Shared(rt', w, mine, held, 0) /\ sv' = w
  <2>1. Shared(both.rt, u, mine, held, 0)
    BY <1>6 DEF Shares
  <2> QED  BY <1>1, <1>6, <1>7, <2>1, SharedSame DEF w
<1> QED  BY <1>1, <1>6, <1>9, <1>10, ServerStep DEF Shares

(* mtc_simple_listener_unref does so when the last reference to the        *)
(* listener goes.                                                          *)
Loosed(v) == [v EXCEPT !.lrefs = @ - 1]
Shut(x) == [x EXCEPT !.closed = @ + One(sv.close_fd), !.backed = FALSE, !.ready = FALSE]
(* The ways a reference to the listener goes: not the last, or the last, with or without a set. *)
LEMMA ListenerUnrefIs ==
  ASSUME ListenerUnref
  PROVE  LET s == sv.peer_set
             v == Loosed(sv)
             both == mtc_peer_set_unref([rt |-> rt, sv |-> v], s)
         IN  /\ sv.lrefs > 0 /\ UNCHANGED <<stack, mine, held, backlog>>
             /\ \/ v.lrefs > 0 /\ rt' = rt /\ sv' = v
                \/ ~(v.lrefs > 0) /\ s = None /\ rt' = rt /\ sv' = Shut(v)
                \/ ~(v.lrefs > 0) /\ s # None /\ rt' = both.rt /\ sv' = Shut(both.sv)
<1> DEFINE s == sv.peer_set
           v == Loosed(sv)
           both == mtc_peer_set_unref([rt |-> rt, sv |-> v], s)
<1> SUFFICES /\ sv.lrefs > 0 /\ UNCHANGED <<stack, mine, held, backlog>>
             /\ \/ v.lrefs > 0 /\ rt' = rt /\ sv' = v
                \/ ~(v.lrefs > 0) /\ s = None /\ rt' = rt /\ sv' = Shut(v)
                \/ ~(v.lrefs > 0) /\ s # None /\ rt' = both.rt /\ sv' = Shut(both.sv)
  OBVIOUS
<1> DEFINE one == [Both EXCEPT !.sv.lrefs = @ - 1]
           all == mtc_simple_listener_unref(Both)
           End(x) == [x EXCEPT !.sv.closed = @ + One(Both.sv.close_fd),
                               !.sv.backed = FALSE, !.sv.ready = FALSE]
<1>1. all = IF one.sv.lrefs > 0 THEN one
            ELSE End(IF Both.sv.peer_set = None THEN one
                     ELSE mtc_peer_set_unref(one, Both.sv.peer_set))
  BY DEF mtc_simple_listener_unref
<1>2. one.rt = rt /\ one.sv = v /\ IsBoth(one)
  BY DEF Both, IsBoth, Loosed
<1>3. Both.sv = sv
  BY DEF Both
<1>4. \A x : IsBoth(x) => End(x).rt = x.rt /\ End(x).sv = Shut(x.sv)
  <2> SUFFICES ASSUME NEW x, IsBoth(x)  PROVE End(x).rt = x.rt /\ End(x).sv = Shut(x.sv)
    OBVIOUS
  <2>1. End(x).rt = x.rt
    BY DEF IsBoth
  <2>2. End(x).sv = Shut(x.sv)
    BY <1>3 DEF IsBoth, Shut
  <2> QED  BY <2>1, <2>2
<1> HIDE DEF one, v, End
<1>5. one = [rt |-> rt, sv |-> v]
  BY <1>2, AsBoth
<1>6. mtc_peer_set_unref(one, Both.sv.peer_set) = both /\ IsBoth(both)
  BY <1>3, <1>5, SetUnrefIsBoth
<1> HIDE DEF both, all
<1>7. CASE v.lrefs > 0
  BY <1>1, <1>2, <1>7 DEF ListenerUnref, Sleeps, Becomes, appVars, all
<1>8. CASE ~(v.lrefs > 0) /\ s = None
  <2>1. all = End(one)
    BY <1>1, <1>2, <1>3, <1>8
  <2> QED  BY <1>2, <1>4, <1>8, <2>1 DEF ListenerUnref, Sleeps, Becomes, appVars, all
<1>9. CASE ~(v.lrefs > 0) /\ s # None
  <2>1. all = End(both)
    BY <1>1, <1>2, <1>3, <1>6, <1>9
  <2> QED  BY <1>4, <1>6, <1>9, <2>1 DEF ListenerUnref, Sleeps, Becomes, appVars, all
<1> QED  BY <1>7, <1>8, <1>9

(* The listener ends, and gives back the set it has. *)
LEMMA ListenerUnrefServer ==
  ASSUME ServerInv, ListenerUnref
  PROVE  ServerInv'
<1> DEFINE s == sv.peer_set
           v == [sv EXCEPT !.lrefs = @ - 1]
           Over(x) == [x EXCEPT !.closed = @ + One(sv.close_fd),
                                !.backed = FALSE, !.ready = FALSE]
           both == mtc_peer_set_unref([rt |-> rt, sv |-> v], s)
<1>1. /\ sv.lrefs > 0 /\ UNCHANGED <<stack, mine, held, backlog>>
      /\ \/ v.lrefs > 0 /\ rt' = rt /\ sv' = v
         \/ ~(v.lrefs > 0) /\ s = None /\ rt' = rt /\ sv' = Over(v)
         \/ ~(v.lrefs > 0) /\ s # None /\ rt' = both.rt /\ sv' = Over(both.sv)
  BY ListenerUnrefIs DEF Loosed, Shut
<1>2. /\ sv.refs \in [Sets -> Nat] /\ sv.mine \in [Sets -> 0..2] /\ Listens(sv)
      /\ sv.holders \in [Sets -> SUBSET Peers] /\ IsFiniteSet(sv.made) /\ None \notin Sets
      /\ sv.lrefs \in 0..2 /\ sv.closed \in 0..1
  BY ServerFacts, ServerAssumptions DEF SetsOk, ServerState
<1>3. /\ v.refs = sv.refs /\ v.holders = sv.holders /\ v.mine = sv.mine
      /\ v.made = sv.made /\ v.lrefs = sv.lrefs - 1 /\ v.peer_set = s
      /\ v.ready = sv.ready /\ v.active = sv.active /\ v.backed = sv.backed
      /\ v.closed = sv.closed /\ v \in ServerState
  <2>1. /\ v.refs = sv.refs /\ v.holders = sv.holders /\ v.mine = sv.mine
        /\ v.made = sv.made /\ v.lrefs = sv.lrefs - 1 /\ v.peer_set = s
        /\ v.ready = sv.ready /\ v.active = sv.active /\ v.backed = sv.backed
        /\ v.closed = sv.closed
    BY ServerFacts DEF ServerState
  <2>2. v.lrefs \in 0..2
    <3> HIDE DEF v
    <3> QED  BY <1>1, <1>2, <2>1
  <2>3. v \in ServerState
    BY <2>2, ServerFacts DEF ServerState
  <2> QED  BY <2>1, <2>3
<1>4. Shared(rt, v, mine, held, 0) /\ IsFiniteSet(LiveSets(v))
  <2> HIDE DEF v
  <2>1. LiveSets(v) = LiveSets(sv)
    BY <1>3 DEF LiveSets
  <2> QED  BY <1>3, <2>1, ServerFacts, SharedSame
<1>5. CASE v.lrefs > 0
  <2> HIDE DEF v
  <2>1. rt' = rt /\ sv' = v
    BY <1>1, <1>5
  <2>2. SetsOk(v)
    <3>1. Listens(v)
      BY <1>1, <1>2, <1>3, <1>5 DEF Listens
    <3>2. \A x \in Sets : v.lrefs > 0 /\ v.peer_set = x <=> sv.lrefs > 0 /\ sv.peer_set = x
      BY <1>1, <1>3, <1>5
    <3> QED  BY <1>3, <3>1, <3>2, ServerFacts, ListenerOk
  <2> QED  BY <1>1, <1>3, <2>1, <2>2, ListenerStep
<1>6. \A x \in ServerState : x.closed = 0 =>
        /\ Over(x) \in ServerState /\ Over(x).refs = x.refs /\ Over(x).mine = x.mine
        /\ Over(x).holders = x.holders /\ Over(x).made = x.made
        /\ Over(x).lrefs = x.lrefs /\ Over(x).peer_set = x.peer_set
        /\ Over(x).active = x.active /\ ~Over(x).ready /\ ~Over(x).backed
  <2> SUFFICES ASSUME NEW x \in ServerState, x.closed = 0
               PROVE  /\ Over(x) \in ServerState
                      /\ Over(x).refs = x.refs /\ Over(x).mine = x.mine
                      /\ Over(x).holders = x.holders /\ Over(x).made = x.made
                      /\ Over(x).lrefs = x.lrefs /\ Over(x).peer_set = x.peer_set
                      /\ Over(x).active = x.active /\ ~Over(x).ready /\ ~Over(x).backed
    OBVIOUS
  <2> DEFINE c == One(sv.close_fd)
  <2>1. x.closed + c \in 0..1
    BY DEF One
  <2> HIDE DEF c
  <2>2. /\ Over(x).refs = x.refs /\ Over(x).mine = x.mine
        /\ Over(x).holders = x.holders /\ Over(x).made = x.made
        /\ Over(x).lrefs = x.lrefs /\ Over(x).peer_set = x.peer_set
        /\ Over(x).active = x.active /\ ~Over(x).ready /\ ~Over(x).backed
    BY DEF ServerState
  <2>3. Over(x) \in ServerState
    BY <2>1 DEF ServerState, c
  <2> QED  BY <2>2, <2>3
<1> HIDE DEF Over, v
<1>7. ~(v.lrefs > 0) => v.closed = 0 /\ v.lrefs = 0
  BY <1>1, <1>2, <1>3 DEF Listens
<1>8. CASE ~(v.lrefs > 0) /\ s = None
  <2> DEFINE w == Over(v)
  <2>1. rt' = rt /\ sv' = w
    BY <1>1, <1>8
  <2>2. /\ w \in ServerState /\ w.refs = sv.refs /\ w.mine = sv.mine /\ w.lrefs = 0
        /\ w.holders = sv.holders /\ w.made = sv.made /\ w.peer_set = s
        /\ w.active = sv.active /\ ~w.ready /\ ~w.backed
    BY <1>3, <1>6, <1>7, <1>8
  <2> HIDE DEF w
  <2>3. Listens(w)
    BY <1>2, <2>2 DEF Listens
  <2>4. \A x \in Sets : w.lrefs > 0 /\ w.peer_set = x <=> sv.lrefs > 0 /\ sv.peer_set = x
    BY <1>2, <1>8, <2>2
  <2>5. SetsOk(w)
    BY <2>2, <2>3, <2>4, ServerFacts, ListenerOk
  <2> QED  BY <1>1, <2>1, <2>2, <2>5, ListenerStep
<1>9. CASE ~(v.lrefs > 0) /\ s # None
  <2> DEFINE u == Dropped(v, s)
             w == Over(u)
  <2>1. s \in Sets
    BY <1>9, ServerFacts DEF ServerState
  <2> HIDE DEF s
  <2>2. /\ sv.refs[s] > 0 /\ s \in sv.made /\ sv.refs[s] = sv.mine[s] + 1
    <3>1. One(sv.lrefs > 0 /\ sv.peer_set = s) = 1
      BY <1>1 DEF One, s
    <3>2. sv.lrefs > 0 /\ sv.peer_set = s
      BY <1>1 DEF s
    <3> QED  BY <2>1, <3>1, <3>2, ServerFacts, InUse
  <2>3. both.sv = u /\ Shares(both, rt, mine, held, 0)
    <3>1. /\ Linked(rt) /\ v \in ServerState /\ Shared(rt, v, mine, held, 0)
          /\ IsFiniteSet(LiveSets(v)) /\ v.refs[s] > 0 /\ mine \in SUBSET Peers
      BY <1>3, <1>4, <2>2, ServerFacts
    <3> HIDE DEF u
    <3>2. /\ mtc_peer_set_unref([rt |-> rt, sv |-> v], s).sv = Dropped(v, s)
          /\ Shares(mtc_peer_set_unref([rt |-> rt, sv |-> v], s), rt, mine, held, 0)
      BY <2>1, <3>1, SetUnrefShares
    <3> QED  BY <3>2 DEF u
  <2> HIDE DEF both
  <2>4. rt' = both.rt /\ sv' = w
    BY <1>1, <1>9, <2>3 DEF s
  <2>5. /\ u.refs = [sv.refs EXCEPT ![s] = @ - 1] /\ u.mine = sv.mine
        /\ u.holders = [sv.holders EXCEPT ![s] = IF sv.refs[s] = 1 THEN {} ELSE @]
        /\ u.made = sv.made /\ u.lrefs = v.lrefs /\ u.peer_set = s
        /\ u.active = sv.active /\ u.closed = sv.closed
    BY <1>3 DEF ServerState, Dropped
  <2>6. u \in ServerState
    <3>1. u.refs \in [Sets -> Nat] /\ u.holders \in [Sets -> SUBSET Peers]
      <4>1. sv.refs[s] - 1 \in Nat
        BY <1>2, <2>1, <2>2
      <4> HIDE DEF u
      <4> QED  BY <1>2, <2>1, <2>5, <4>1
    <3> QED  BY <1>3, <3>1 DEF ServerState, Dropped
  <2> HIDE DEF u
  <2>7. /\ w \in ServerState /\ w.refs = u.refs /\ w.mine = sv.mine /\ w.lrefs = 0
        /\ w.holders = u.holders /\ w.made = sv.made /\ w.peer_set = s
        /\ w.active = sv.active /\ ~w.ready /\ ~w.backed
    BY <1>3, <1>6, <1>7, <1>9, <2>5, <2>6
  <2> HIDE DEF w
  <2>8. SetsOk(w)
    <3>1. SetOk(w, s)
      <4>1. One(w.lrefs > 0 /\ w.peer_set = s) = 0
        BY <2>7 DEF One
      <4>2. w.refs[s] = sv.mine[s] /\ w.mine[s] = sv.mine[s] /\ sv.mine[s] \in Nat
        BY <1>2, <2>1, <2>2, <2>5, <2>7
      <4>3. w.refs[s] = 0 => w.holders[s] = {}
        BY <1>2, <2>1, <2>2, <2>5, <2>7
      <4> QED  BY <2>2, <2>7, <4>1, <4>2, <4>3 DEF SetOk
    <3>2. OthersStay(w, sv, s)
      <4>1. \A x \in Sets : x # s => sv.peer_set # x /\ w.peer_set # x
        BY <2>7 DEF s
      <4> QED  BY <1>2, <2>5, <2>7, <4>1 DEF OthersStay
    <3>3. Listens(w)
      BY <1>2, <1>9, <2>7 DEF Listens, s
    <3> QED  BY <1>2, <2>1, <2>7, <3>1, <3>2, <3>3, ServerFacts, OneSetOk
  <2>9. Shared(rt', w, mine, held, 0)
    <3>1. Shared(both.rt, u, mine, held, 0)
      BY <2>3 DEF Shares
    <3> QED  BY <2>4, <2>7, <3>1, SharedSame
  <2> QED  BY <1>1, <2>3, <2>4, <2>8, <2>9, ServerStep DEF Shares
<1> QED  BY <1>5, <1>8, <1>9

(* mtc_peer_set_add: a set that is referred to is given a new peer.        *)
GrownBy(q, r, v, w, ms, h, p) ==
  /\ Linked(q) /\ q.born = r.born \cup {p}
  /\ SetsOk(w) /\ Shared(q, w, ms, h, 0)
LEMMA PeerSetAddIs ==
  ASSUME NEW r, NEW v, NEW ms \in SUBSET Peers, NEW h, NEW s \in Sets, NEW p \in Peers,
         NEW close_fd, Linked(r), SetsOk(v), Shared(r, v, ms, h, 0),
         p \notin r.born, v.refs[s] > 0
  PROVE  LET both == mtc_peer_set_add([rt |-> r, sv |-> v], s, p, close_fd)
         IN  GrownBy(both.rt, r, v, both.sv, ms, h, p)
<1> DEFINE both == mtc_peer_set_add([rt |-> r, sv |-> v], s, p, close_fd)
           w == JoinedBy(v, s, p)
<1>1. both.rt = mtc_simple_router_add(r, p, close_fd) /\ both.sv = w
  BY DEF mtc_peer_set_add, JoinedBy
<1> HIDE DEF both
<1>2. v \in ServerState /\ IsFiniteSet(LiveSets(v)) /\ Listens(v) /\ SetOk(v, s)
  BY Finite DEF SetsOk
<1>3. Adds(both.rt, r, v, ms, h, p)
  BY <1>1, <1>2, AddShares
<1>4. v.holders \in [Sets -> SUBSET Peers]
  BY <1>2 DEF ServerState
<1>5. /\ w.refs = v.refs /\ w.mine = v.mine /\ w.made = v.made /\ w.lrefs = v.lrefs
      /\ w.holders = [v.holders EXCEPT ![s] = @ \cup {p}] /\ w.peer_set = v.peer_set
      /\ w.ready = v.ready /\ w.active = v.active /\ w.backed = v.backed
      /\ w.closed = v.closed
  BY <1>2 DEF ServerState, JoinedBy
<1>6. w \in ServerState
  <2>1. [v.holders EXCEPT ![s] = @ \cup {p}] \in [Sets -> SUBSET Peers]
    BY <1>4
  <2> QED  BY <1>2, <2>1 DEF ServerState, JoinedBy
<1> HIDE DEF w
<1>7. SetsOk(w)
  <2>1. SetOk(w, s)
    BY <1>2, <1>5 DEF SetOk
  <2>2. OthersStay(w, v, s) /\ Listens(w) /\ IsFiniteSet(w.made)
    BY <1>2, <1>4, <1>5 DEF OthersStay, Listens, SetsOk
  <2> QED  BY <1>6, <2>1, <2>2, OneSetOk
<1>8. Shared(both.rt, w, ms, h, 0)
  BY <1>3 DEF Adds, w
<1>9. GrownBy(both.rt, r, v, both.sv, ms, h, p)
  BY <1>1, <1>3, <1>7, <1>8 DEF Adds, GrownBy
<1> QED  BY <1>9 DEF both

(* mtc_peer_set_add, by the application.                                   *)
LEMMA PeerSetAddServer ==
  ASSUME ServerInv, NEW s \in Sets, NEW p \in Peers, NEW close_fd \in BOOLEAN,
         PeerSetAdd(s, p, close_fd)
  PROVE  ServerInv'
<1> DEFINE both == mtc_peer_set_add([rt |-> rt, sv |-> sv], s, p, close_fd)
<1>1. /\ sv.mine[s] > 0 /\ p \notin rt.born /\ p \notin backlog
      /\ rt' = both.rt /\ sv' = both.sv /\ UNCHANGED <<stack, mine, held, backlog>>
  BY DEF PeerSetAdd, Becomes, Both
<1>2. sv.refs[s] > 0
  BY <1>1, ServerFacts, InUse
<1>3. GrownBy(both.rt, rt, sv, both.sv, mine, held, p)
  BY <1>1, <1>2, ServerFacts, PeerSetAddIs
<1> HIDE DEF both
<1>4. backlog \in SUBSET (Peers \ rt'.born)
  BY <1>1, <1>3 DEF GrownBy, ServerInv
<1> QED  BY <1>1, <1>3, <1>4, ServerFacts DEF GrownBy, ServerInv

(* The listener adds the connection it accepts to its set.                 *)
LEMMA AcceptServer ==
  ASSUME ServerInv, NEW p \in Peers, Accept(p)
  PROVE  ServerInv'
<1> DEFINE v == [sv EXCEPT !.ready = FALSE]
           s == sv.peer_set
           both == mtc_peer_set_add([rt |-> rt, sv |-> v], s, p, TRUE)
<1>1. /\ sv.ready /\ p \in backlog /\ rt' = both.rt /\ sv' = both.sv
      /\ backlog' = backlog \ {p} /\ UNCHANGED <<stack, mine, held>>
  <2> DEFINE b == [Both EXCEPT !.sv.ready = FALSE]
  <2>1. b = [rt |-> rt, sv |-> v]
    <3>1. b.rt = rt /\ b.sv = v /\ IsBoth(b)
      BY DEF Both, IsBoth
    <3> HIDE DEF b, v
    <3> QED  BY <3>1, AsBoth
  <2> HIDE DEF v, s
  <2> QED  BY <2>1 DEF Accept, Becomes, appVars, s
<1>2. /\ v.refs = sv.refs /\ v.holders = sv.holders /\ v.mine = sv.mine
      /\ v.made = sv.made /\ v.lrefs = sv.lrefs /\ v.peer_set = s
      /\ ~v.ready /\ v.active = sv.active /\ v.backed = sv.backed
      /\ v.closed = sv.closed /\ v \in ServerState
  BY ServerFacts DEF ServerState
<1>3. s \in Sets /\ sv.lrefs > 0 /\ Listens(sv)
  <2>1. Listens(sv) /\ s \in Sets \cup {None}
    BY ServerFacts DEF SetsOk, ServerState
  <2> QED  BY <1>1, <2>1 DEF Listens
<1>4. sv.refs[s] > 0
  BY <1>3, ServerFacts, InUse
<1> HIDE DEF v
<1>5. SetsOk(v)
  <2>1. Listens(v)
    BY <1>2, <1>3 DEF Listens
  <2>2. \A x \in Sets : v.lrefs > 0 /\ v.peer_set = x <=> sv.lrefs > 0 /\ sv.peer_set = x
    BY <1>2
  <2> QED  BY <1>2, <2>1, <2>2, ServerFacts, ListenerOk
<1>6. GrownBy(both.rt, rt, v, both.sv, mine, held, p)
  <2>1. /\ Linked(rt) /\ SetsOk(v) /\ Shared(rt, v, mine, held, 0) /\ p \notin rt.born
        /\ v.refs[s] > 0 /\ mine \in SUBSET Peers /\ s \in Sets
    BY <1>1, <1>2, <1>3, <1>4, <1>5, ServerFacts, SharedSame DEF ServerInv
  <2> HIDE DEF s
  <2> QED  BY <2>1, PeerSetAddIs
<1> HIDE DEF both, s
<1>7. backlog' \in SUBSET (Peers \ rt'.born)
  BY <1>1, <1>6 DEF GrownBy, ServerInv
<1> QED  BY <1>1, <1>6, <1>7, ServerFacts DEF GrownBy, ServerInv

(* The steps that change the listener and nothing else.                    *)
ListenerOnly(w) ==
  /\ w \in ServerState /\ Listens(w)
  /\ w.refs = sv.refs /\ w.mine = sv.mine /\ w.holders = sv.holders /\ w.made = sv.made
  /\ w.peer_set = sv.peer_set /\ (w.lrefs > 0 <=> sv.lrefs > 0)
(* What changes only the listener itself keeps the invariant. *)
LEMMA ListenerOnlyServer ==
  ASSUME ServerInv, ListenerOnly(sv'), UNCHANGED <<rt, stack, mine, held, backlog>>
  PROVE  ServerInv'
<1>1. SetsOk(sv')
  BY ServerFacts, ListenerOk DEF ListenerOnly
<1> QED  BY <1>1, ListenerStep DEF ListenerOnly

(* Its backing, its references, and its option to close the descriptor.    *)
LEMMA ListenerFieldsServer ==
  ASSUME ServerInv,
         \/ ListenerBack \/ ListenerRef \/ FoundReady
         \/ \E val \in BOOLEAN : SetCloseFd(val)
         \/ \E e \in {"EAGAIN", "EMFILE"} : AcceptFails(e)
  PROVE  ServerInv'
<1>1. Listens(sv) /\ sv.lrefs \in 0..2
  BY ServerFacts DEF SetsOk, ServerState
<1>2. CASE ListenerBack
  <2> DEFINE w == [sv EXCEPT !.backed = ~@, !.ready = FALSE]
  <2>1. /\ sv.lrefs > 0 /\ sv' = w /\ UNCHANGED <<rt, stack, mine, held, backlog>>
    BY <1>2 DEF ListenerBack, Sleeps, routerVars, appVars
  <2>2. w \in ServerState
    BY ServerFacts DEF ServerState
  <2>3. /\ w.refs = sv.refs /\ w.mine = sv.mine /\ w.holders = sv.holders
        /\ w.made = sv.made /\ w.peer_set = sv.peer_set /\ w.lrefs = sv.lrefs
        /\ w.active = sv.active /\ ~w.ready /\ w.closed = sv.closed
    BY ServerFacts DEF ServerState
  <2> HIDE DEF w
  <2>4. ListenerOnly(w)
    BY <1>1, <2>1, <2>2, <2>3 DEF ListenerOnly, Listens
  <2> QED  BY <2>1, <2>4, ListenerOnlyServer
<1>3. CASE ListenerRef
  <2> DEFINE w == [sv EXCEPT !.lrefs = @ + 1]
  <2>1. /\ sv.lrefs > 0 /\ sv.lrefs <= 1 /\ sv' = w
        /\ UNCHANGED <<rt, stack, mine, held, backlog>>
    BY <1>3 DEF ListenerRef, Sleeps, OneEach, routerVars, appVars
  <2>2. /\ w.refs = sv.refs /\ w.mine = sv.mine /\ w.holders = sv.holders
        /\ w.made = sv.made /\ w.peer_set = sv.peer_set /\ w.lrefs = sv.lrefs + 1
        /\ w.active = sv.active /\ w.ready = sv.ready /\ w.closed = sv.closed
        /\ w.backed = sv.backed
    BY ServerFacts DEF ServerState
  <2>3. w \in ServerState
    <3>1. sv.lrefs + 1 \in 0..2
      BY <1>1, <2>1
    <3> QED  BY <3>1, ServerFacts DEF ServerState
  <2> HIDE DEF w
  <2>4. ListenerOnly(w)
    BY <1>1, <2>1, <2>2, <2>3 DEF ListenerOnly, Listens
  <2> QED  BY <2>1, <2>4, ListenerOnlyServer
<1>4. CASE FoundReady
  <2> DEFINE w == [sv EXCEPT !.ready = TRUE]
  <2>1. /\ sv.backed /\ sv.active /\ sv' = w /\ UNCHANGED <<rt, stack, mine, held, backlog>>
    BY <1>4 DEF FoundReady, routerVars, appVars
  <2>2. w \in ServerState
    BY ServerFacts DEF ServerState
  <2>3. /\ w.refs = sv.refs /\ w.mine = sv.mine /\ w.holders = sv.holders
        /\ w.made = sv.made /\ w.peer_set = sv.peer_set /\ w.lrefs = sv.lrefs
        /\ w.active = sv.active /\ w.closed = sv.closed /\ w.backed = sv.backed
    BY ServerFacts DEF ServerState
  <2> HIDE DEF w
  <2>4. ListenerOnly(w)
    BY <1>1, <2>1, <2>2, <2>3 DEF ListenerOnly, Listens
  <2> QED  BY <2>1, <2>4, ListenerOnlyServer
<1>5. ASSUME NEW val \in BOOLEAN, SetCloseFd(val)  PROVE ServerInv'
  <2> DEFINE w == [sv EXCEPT !.close_fd = val]
  <2>1. sv' = w /\ UNCHANGED <<rt, stack, mine, held, backlog>>
    BY <1>5 DEF SetCloseFd, routerVars, appVars
  <2>2. w \in ServerState
    BY ServerFacts DEF ServerState
  <2>3. /\ w.refs = sv.refs /\ w.mine = sv.mine /\ w.holders = sv.holders
        /\ w.made = sv.made /\ w.peer_set = sv.peer_set /\ w.lrefs = sv.lrefs
        /\ w.active = sv.active /\ w.ready = sv.ready /\ w.closed = sv.closed
        /\ w.backed = sv.backed
    BY ServerFacts DEF ServerState
  <2> HIDE DEF w
  <2>4. ListenerOnly(w)
    BY <1>1, <2>2, <2>3 DEF ListenerOnly, Listens
  <2> QED  BY <2>1, <2>4, ListenerOnlyServer
<1>6. ASSUME NEW e \in {"EAGAIN", "EMFILE"}, AcceptFails(e)  PROVE ServerInv'
  <2> DEFINE done == MTC_IO_TEMP_ERROR(e)
             w == [sv EXCEPT !.ready = FALSE, !.ended = done]
  <2>1. sv' = w /\ UNCHANGED <<rt, stack, mine, held, backlog>>
    BY <1>6 DEF AcceptFails, routerVars, appVars
  <2>2. done \in BOOLEAN
    BY DEF MTC_IO_TEMP_ERROR
  <2> HIDE DEF done
  <2>3. w \in ServerState
    BY <2>2, ServerFacts DEF ServerState
  <2>4. /\ w.refs = sv.refs /\ w.mine = sv.mine /\ w.holders = sv.holders
        /\ w.made = sv.made /\ w.peer_set = sv.peer_set /\ w.lrefs = sv.lrefs
        /\ w.active = sv.active /\ ~w.ready /\ w.closed = sv.closed
        /\ w.backed = sv.backed
    BY ServerFacts DEF ServerState
  <2> HIDE DEF w
  <2>5. ListenerOnly(w)
    BY <1>1, <2>3, <2>4 DEF ListenerOnly, Listens
  <2> QED  BY <2>1, <2>5, ListenerOnlyServer
<1> QED  BY <1>2, <1>3, <1>4, <1>5, <1>6

(* mtc_simple_listener_set_active: one that has a set may be active.       *)
LEMMA SetActiveServer ==
  ASSUME ServerInv, NEW val \in BOOLEAN, SetActive(val)
  PROVE  ServerInv'
<1> DEFINE w == Activated(sv, val)
<1>1. /\ sv.peer_set # None /\ rt' = rt /\ sv' = w
      /\ UNCHANGED <<stack, mine, held, backlog>>
  <2>1. mtc_simple_listener_set_active(Both, val) = [rt |-> rt, sv |-> w]
    BY SetActiveIs DEF Both
  <2> HIDE DEF w
  <2> QED  BY <2>1 DEF SetActive, Becomes, appVars
<1>2. /\ w.refs = sv.refs /\ w.mine = sv.mine /\ w.holders = sv.holders
      /\ w.made = sv.made /\ w.peer_set = sv.peer_set /\ w.lrefs = sv.lrefs
      /\ w.active = val /\ w.ready = (sv.ready /\ sv.active = val)
      /\ w.closed = sv.closed /\ w.backed = sv.backed
  BY ServerFacts DEF ServerState, Activated
<1>3. w \in ServerState
  BY ServerFacts DEF ServerState, Activated
<1> HIDE DEF w
<1>4. Listens(sv)
  BY ServerFacts DEF SetsOk
<1>5. ListenerOnly(w)
  BY <1>1, <1>2, <1>3, <1>4 DEF ListenerOnly, Listens
<1> QED  BY <1>1, <1>5, ListenerOnlyServer

(* The application keeps a peer that one of its sets holds.                *)
LEMMA PeerRefServer ==
  ASSUME ServerInv, NEW p \in Peers, PeerRef(p)
  PROVE  ServerInv'
<1>1. /\ rt.refs[p] > 0 /\ p \notin mine /\ rt' = [rt EXCEPT !.refs[p] = @ + 1]
      /\ mine' = mine \cup {p} /\ UNCHANGED <<stack, held, sv, backlog>>
  BY DEF PeerRef, serverVars
<1>2. /\ \A x \in Peers : rt.refs[x] = One(x \in mine) + One(HeldIn(sv, x))
      /\ rt.refs \in [Peers -> Int]
  BY ServerFacts DEF Shared, Linked, CoreType
<1>3. HeldIn(sv, p)
  BY <1>1, <1>2 DEF One
<1>4. p \in rt.born
  BY <1>3, ServerFacts DEF Shared, HeldIn
<1>5. /\ IsRouter(rt') /\ rt'.refs = [rt.refs EXCEPT ![p] = @ + 1]
      /\ rt'.born = rt.born /\ rt'.linked = rt.linked /\ rt'.ring = rt.ring
      /\ rt'.cache = rt.cache /\ rt'.enabled = rt.enabled /\ rt'.owner = rt.owner
      /\ rt'.rrefs = rt.rrefs /\ rt'.aborted = rt.aborted
  BY <1>1, ServerFacts DEF Linked, IsRouter, Fields
<1>6. Linked(rt')
  <2>1. rt'.refs \in [Peers -> Int]
    BY <1>2, <1>5
  <2> QED  BY <1>5, <2>1, ServerFacts DEF Linked, CoreType
<1>7. Living(rt') = Living(rt)
  <2>1. \A x \in Peers : rt'.refs[x] > 0 <=> rt.refs[x] > 0
    BY <1>1, <1>2, <1>5
  <2> QED  BY <2>1 DEF Living
<1>8. \A x \in Peers : rt'.refs[x] = One(x \in mine') + One(HeldIn(sv, x))
  <2> SUFFICES ASSUME NEW x \in Peers
               PROVE  rt'.refs[x] = One(x \in mine') + One(HeldIn(sv, x))
    OBVIOUS
  <2>1. CASE x = p
    BY <1>1, <1>2, <1>3, <1>5, <2>1 DEF One
  <2>2. CASE x # p
    <3>1. rt'.refs[x] = rt.refs[x] /\ One(x \in mine') = One(x \in mine)
      BY <1>1, <1>2, <1>5, <2>2 DEF One
    <3> QED  BY <1>2, <3>1
  <2> QED  BY <2>1, <2>2
<1>9. Shared(rt', sv, mine', held, 0)
  BY <1>1, <1>4, <1>5, <1>7, <1>8, ServerFacts DEF Shared
<1>10. StepsHeld(stack, mine') /\ backlog \in SUBSET (Peers \ rt'.born)
  BY <1>1, <1>5, ServerFacts DEF StepsHeld, ServerInv
<1> QED  BY <1>1, <1>6, <1>9, <1>10, ServerFacts DEF ServerInv

(* Connections come, and go before they are accepted.                      *)
LEMMA ConnectionsServer ==
  ASSUME ServerInv, NEW p \in Peers, Connect(p) \/ Withdraw(p)
  PROVE  ServerInv'
<1>1. backlog' \in SUBSET (Peers \ rt.born) /\ UNCHANGED <<rt, stack, mine, held, sv>>
  BY DEF Connect, Withdraw, ServerInv, routerVars, appVars
<1> QED  BY <1>1 DEF ServerInv

(* mtc_peer_reset calls the notifications of a peer.                       *)
LEMMA NotifyServer ==
  ASSUME ServerInv, Notify
  PROVE  ServerInv'
<1>1. /\ stack # <<>> /\ Top.todo # <<>> /\ UNCHANGED <<rt, mine, held, serverVars>>
      /\ \/ Then(<<"app">>) \/ Then(<<"holder", "app">>) \/ Then(<<"app", "holder">>)
  BY DEF Notify, At, appVars
<1>2. /\ <<"app">> \in Seq(Items) /\ <<"holder", "app">> \in Seq(Items)
      /\ <<"app", "holder">> \in Seq(Items)
  BY DEF Items
<1>3. StepsHeld(stack', mine)
  BY <1>1, <1>2, ServerFacts, ThenHeld
<1>4. Quiet
  BY <1>1, <1>3, ServerFacts, OutsideQuiet DEF Linked
<1> QED  BY <1>1, <1>4, QuietServer

(* That of a holder takes the peer out of its set, which drops it.         *)
LEMMA HolderNotifyServer ==
  ASSUME ServerInv, mtc_peer_holder_reset_notify
  PROVE  ServerInv'
<1> DEFINE p == Top.peer
<1>1. /\ stack # <<>> /\ Top.todo # <<>> /\ Then(<<>>) /\ UNCHANGED <<mine, held, backlog>>
  BY DEF mtc_peer_holder_reset_notify, At, appVars
<1>2. StepsHeld(stack', mine)
  BY <1>1, ItemsTyped, ServerFacts, ThenHeld
<1>3. CASE Held(p)
  <2>1. PICK s \in Sets : /\ p \in sv.holders[s]
                          /\ Becomes(mtc_peer_holder_destroy(Both, s, {p}))
    BY <1>3 DEF mtc_peer_holder_reset_notify
  <2> DEFINE ps == {p}
             both == mtc_peer_holder_destroy([rt |-> rt, sv |-> sv], s, ps)
             w == Without(sv, s, ps)
  <2>2. rt' = both.rt /\ sv' = both.sv
    BY <2>1 DEF Becomes, Both
  <2>3. SetOk(sv, s) /\ Listens(sv) /\ sv.refs[s] \in Nat
        /\ sv.holders \in [Sets -> SUBSET Peers]
    BY ServerFacts DEF SetsOk, ServerState
  <2>4. 0 + Cardinality(LiveSets(sv)) > 0
    <3>1. s \in LiveSets(sv)
      BY <2>1, <2>3 DEF SetOk, LiveSets
    <3> QED  BY <3>1, ServerFacts, FS_EmptySet, FS_CardinalityType
  <2>5. ps \in SUBSET sv.holders[s]
    BY <2>1
  <2> HIDE DEF ps
  <2>6. both.sv = w /\ Shares(both, rt, mine, held, 0)
    <3>1. 0 \in Nat
      OBVIOUS
    <3> HIDE DEF w
    <3>2. /\ mtc_peer_holder_destroy([rt |-> rt, sv |-> sv], s, ps).sv = Without(sv, s, ps)
          /\ Shares(mtc_peer_holder_destroy([rt |-> rt, sv |-> sv], s, ps), rt, mine, held, 0)
      BY <2>4, <2>5, <3>1, ServerFacts, HolderDestroyShares
    <3> QED  BY <3>2 DEF w
  <2> HIDE DEF both
  <2>7. /\ w.refs = sv.refs /\ w.mine = sv.mine /\ w.made = sv.made
        /\ w.holders = [sv.holders EXCEPT ![s] = @ \ ps]
        /\ w.lrefs = sv.lrefs /\ w.peer_set = sv.peer_set /\ w.ready = sv.ready
        /\ w.active = sv.active /\ w.backed = sv.backed /\ w.closed = sv.closed
    BY ServerFacts DEF ServerState, Without
  <2>8. w \in ServerState
    <3>1. [sv.holders EXCEPT ![s] = @ \ ps] \in [Sets -> SUBSET Peers]
      BY <2>3
    <3> QED  BY <3>1, ServerFacts DEF ServerState, Without
  <2> HIDE DEF w
  <2>9. SetsOk(w)
    <3>1. SetOk(w, s)
      BY <2>3, <2>7 DEF SetOk
    <3>2. OthersStay(w, sv, s) /\ Listens(w) /\ IsFiniteSet(w.made)
      BY <2>3, <2>7, ServerFacts DEF OthersStay, Listens, SetsOk
    <3> QED  BY <2>8, <3>1, <3>2, ServerFacts, OneSetOk
  <2>10. backlog' \in SUBSET (Peers \ rt'.born)
    BY <1>1, <2>2, <2>6 DEF Shares, ServerInv
  <2> QED  BY <1>1, <1>2, <2>2, <2>6, <2>9, <2>10 DEF Shares, ServerInv
<1>4. CASE ~Held(p)
  <2>1. UNCHANGED <<rt, sv>>
    BY <1>4 DEF mtc_peer_holder_reset_notify
  <2>2. Quiet
    BY <1>1, <1>2, <2>1, ServerFacts, OutsideQuiet DEF Linked
  <2> QED  BY <1>1, <2>1, <2>2, QuietServer DEF serverVars
<1> QED  BY <1>3, <1>4

(* Every step of the server.                                               *)
LEMMA ServerInvNext ==
  ASSUME ServerInv, [ServerNext]_vars
  PROVE  ServerInv'
<1>1. CASE UNCHANGED vars
  BY <1>1 DEF vars, routerVars, appVars, serverVars, ServerInv
<1>2. CASE RouterSteps
  BY <1>2, RouterStepsServer
<1>3. CASE ServerCalls
  <2>1. ASSUME NEW s \in Sets,
               \/ PeerSetNew(s) \/ PeerSetRef(s) \/ PeerSetUnref(s) \/ SetPeerSet(s)
               \/ \E p \in Peers, close_fd \in BOOLEAN : PeerSetAdd(s, p, close_fd)
        PROVE  ServerInv'
    BY <2>1, PeerSetNewServer, PeerSetRefServer, PeerSetUnrefServer, SetPeerSetServer,
       PeerSetAddServer
  <2>2. CASE \E p \in Peers : PeerRef(p)
    BY <2>2, PeerRefServer
  <2>3. CASE ListenerUnref \/ UnsetPeerSet \/ \E val \in BOOLEAN : SetActive(val)
    BY <2>3, ListenerUnrefServer, UnsetPeerSetServer, SetActiveServer
  <2>4. CASE ListenerBack \/ ListenerRef \/ \E val \in BOOLEAN : SetCloseFd(val)
    BY <2>4, ListenerFieldsServer
  <2> QED  BY <1>3, <2>1, <2>2, <2>3, <2>4 DEF ServerCalls
<1>4. CASE Listening
  BY <1>4, ListenerFieldsServer, ConnectionsServer, AcceptServer DEF Listening
<1>5. CASE Notifying
  BY <1>5, NotifyServer, HolderNotifyServer DEF Notifying
<1> QED  BY <1>1, <1>2, <1>3, <1>4, <1>5 DEF ServerNext

-----------------------------------------------------------------------------
(* What the properties say follows.                                        *)

(* No two sets hold a peer, so the sets that do are one or none.           *)
LEMMA HoldersOf ==
  ASSUME ServerInv, NEW p \in Peers
  PROVE  Cardinality({s \in Sets : p \in sv.holders[s]}) = One(HeldIn(sv, p))
<1>1. CASE HeldIn(sv, p)
  <2>1. PICK s \in Sets : p \in sv.holders[s]
    BY <1>1 DEF HeldIn
  <2>2. {x \in Sets : p \in sv.holders[x]} = {s}
    BY <2>1, ServerFacts DEF Shared
  <2> QED  BY <1>1, <2>2, FS_Singleton DEF One
<1>2. CASE ~HeldIn(sv, p)
  <2>1. {x \in Sets : p \in sv.holders[x]} = {}
    BY <1>2 DEF HeldIn
  <2> QED  BY <1>2, <2>1, FS_EmptySet DEF One
<1> QED  BY <1>1, <1>2

(* The references to the router add up, and it finds its ring empty when   *)
(* the last one is dropped.                                                *)
LEMMA ServerRouterRefs ==
  ASSUME ServerInv
  PROVE  RouterRefs(Cardinality({s \in Sets : sv.refs[s] > 0}))
<1> DEFINE n == Cardinality(LiveSets(sv))
           k == Cardinality(Living(rt))
           a == One(held)
<1>1. n \in Nat /\ k \in Nat /\ a \in Nat
  BY ServerFacts, Finite DEF One
<1>2. rt.rrefs = 0 + a + n + k /\ ~rt.aborted
  BY ServerFacts DEF Shared
<1>3. Alive = Living(rt)
  BY DEF Alive, Living
<1> HIDE DEF n, k, a
<1>4. rt.rrefs = n + a + k
  BY <1>1, <1>2
<1>5. {s \in Sets : sv.refs[s] > 0} = LiveSets(sv)
  BY DEF LiveSets
<1>6. RouterRefs(n)
  BY <1>2, <1>3, <1>4 DEF RouterRefs, k, a
<1> QED  BY <1>5, <1>6 DEF n

(* What the application or a set holds is alive.                           *)
LEMMA ServerDanglesNot ==
  ASSUME ServerInv
  PROVE  NothingDangles
<1>1. mine \subseteq Alive
  BY ServerFacts DEF Shared, Alive, One
<1>2. rt.linked \subseteq Alive
  BY ServerFacts DEF Shared, Living, Alive
<1> QED  BY <1>1, <1>2, ServerFacts DEF NothingDangles, Linked, StepsHeld

-----------------------------------------------------------------------------
(* The inductive invariant: each set, each peer and the router is referred *)
(* to as often as its references say, no two sets hold a peer, and a       *)
(* connection that is accepted is a new peer.                              *)
THEOREM ServerInvariant == ServerSpec => []ServerInv
  BY ServerInvInit, ServerInvNext, PTL DEF ServerSpec

(* A set goes when the application and the listener are both done with it, *)
(* with the peers in it, and not while the listener may still add to it    *)
(* (simple_server.c:192, 227, 244).                                        *)
THEOREM SetsAreCounted == ServerSpec => []SetsCounted
<1>1. ServerInv => SetsCounted
  BY ServerFacts DEF SetsCounted, SetsOk, SetOk
<1> QED  BY <1>1, ServerInvariant, PTL

(* A peer lives as long as the application or a set holds it, and no two   *)
(* sets hold the same one (simple_server.c:54).                            *)
THEOREM PeersAreCounted == ServerSpec => []PeersCounted
<1>1. ServerInv => PeersCounted
  BY HoldersOf, ServerFacts DEF PeersCounted, Shared
<1> QED  BY <1>1, ServerInvariant, PTL

(* Nor does anything in a server lead to a peer that was freed, although   *)
(* its sets drop peers from inside whichever callback                      *)
(* (simple_server.c:58, simple_router.c:174, 326).                         *)
THEOREM NothingInServerDangles == ServerSpec => []NothingDangles
  BY ServerInvariant, ServerDanglesNot, PTL

-----------------------------------------------------------------------------
(* The links and the managers: what the router's own proof says of them is *)
(* kept by the server, whose sets drop whole groups of peers.              *)

(* References to peers and to the router do not matter to the links, as    *)
(* long as the router lives.                                               *)
LEMMA RefsGood ==
  ASSUME NEW r, NEW s, NEW ev \in [Peers -> Nat], AllGood(r, ev), IsRouter(s),
         \A x \in Fields \ {"refs", "rrefs"} : s[x] = r[x], s.rrefs > 0 <=> r.rrefs > 0
  PROVE  AllGood(s, ev)
<1>1. Typed(s) /\ s.mgr = r.mgr
  BY DEF AllGood, Typed, Fields
<1>2. \A p \in Peers : SameAt(s, r, p, {})
  BY DEF SameAt, Slots, Lists, Fields
<1>3. \A p \in Peers : Good(s, p, ev[p])
  BY <1>1, <1>2, GoodSame DEF AllGood
<1>4. MgrsCounted(s)
  <2>1. s.mrefs = r.mrefs /\ \A m : Users(s, m) = Users(r, m)
    BY DEF Users, Fields
  <2> QED  BY <1>1, <2>1 DEF AllGood, MgrsCounted
<1> QED  BY <1>1, <1>3, <1>4 DEF AllGood

(* One reference to a peer that is not the last one.                       *)
LEMMA PeerUnrefMoreGood ==
  ASSUME NEW r, Linked(r), NEW ev \in [Peers -> Nat], AllGood(r, ev), NEW p \in Peers,
         r.refs[p] # 1
  PROVE  AllGood(PeerUnref(r, p), ev)
<1> DEFINE s == [r EXCEPT !.refs[p] = @ - 1]
<1>1. /\ IsRouter(s) /\ s.refs = [r.refs EXCEPT ![p] = @ - 1]
      /\ \A x \in Fields \ {"refs"} : s[x] = r[x]
  BY DEF Linked, IsRouter, Fields
<1>2. r.refs \in [Peers -> Int]
  BY DEF Linked, CoreType
<1>3. s.refs[p] # 0
  <2> HIDE DEF s
  <2> QED  BY <1>1, <1>2
<1>4. PeerUnref(r, p) = s
  <2>1. PeerUnref(r, p) = IF s.refs[p] = 0 THEN mtc_simple_peer_destroy(s, p) ELSE s
    BY DEF PeerUnref
  <2> QED  BY <1>3, <2>1
<1> HIDE DEF s
<1>5. s.rrefs = r.rrefs
  BY <1>1 DEF Fields
<1> QED  BY <1>1, <1>4, <1>5, RefsGood

(* One to each of ps.                                                      *)
LEMMA UnrefsGood ==
  ASSUME NEW r, Linked(r), NEW ev \in [Peers -> Nat], AllGood(r, ev),
         NEW ps \in SUBSET Peers, r.rrefs > Cardinality(LastOf(r, ps))
  PROVE  AllGood(Unrefs(r, ps), ev)
<1>1. IsFiniteSet(ps) /\ \A s \in SUBSET ps : IsFiniteSet(s) /\ IsFiniteSet(LastOf(r, s))
  <2>1. \A s \in SUBSET ps : s \in SUBSET Peers /\ LastOf(r, s) \in SUBSET Peers
    BY DEF LastOf
  <2> QED  BY RouterAssumptions, FS_Subset, <2>1
<1>2. PICK f : Leads(f, r, ps)
  BY <1>1, UnrefsWay
<1>3. \A s \in SUBSET ps : Unreffed(f[s], r, s)
  BY <1>2, WayKeeps
<1> DEFINE S == {n \in Nat : \A s \in SUBSET ps : Cardinality(s) = n => AllGood(f[s], ev)}
<1>4. 0 \in S
  <2>1. \A s \in SUBSET ps : Cardinality(s) = 0 => s = {}
    BY <1>1, FS_EmptySet
  <2> QED  BY <1>2, <2>1 DEF Leads
<1>5. ASSUME NEW n \in Nat, n \in S  PROVE n + 1 \in S
  <2> SUFFICES ASSUME NEW s \in SUBSET ps, Cardinality(s) = n + 1
               PROVE  AllGood(f[s], ev)
    OBVIOUS
  <2> DEFINE x == Pick(s)
             l == s \ {x}
             t == f[l]
  <2>1. s # {} /\ x \in s /\ x \in Peers /\ l \in SUBSET ps /\ Cardinality(l) = n
    <3>1. s # {} /\ IsFiniteSet(s)
      BY <1>1, FS_EmptySet
    <3>2. x \in s /\ Cardinality(l) = Cardinality(s) - 1
      BY <3>1, PickOut
    <3> HIDE DEF x
    <3> QED  BY <3>1, <3>2
  <2>2. f[s] = PeerUnref(t, x) /\ AllGood(t, ev)
    BY <1>2, <1>5, <2>1 DEF Leads
  <2>3. Unreffed(t, r, l)
    BY <1>3, <2>1
  <2> HIDE DEF x, t
  <2>4. /\ Linked(t) /\ t.refs[x] = r.refs[x] /\ r.rrefs \in Int
        /\ t.rrefs = r.rrefs - Cardinality(LastOf(r, l))
    BY <2>1, <2>3 DEF Unreffed, Linked, CoreType
  <2>5. CASE r.refs[x] = 1
    <3>1. x \in LastOf(r, ps) /\ x \notin LastOf(r, l) /\ LastOf(r, l) \subseteq LastOf(r, ps)
      BY <2>1, <2>5 DEF LastOf
    <3>2. LastOf(r, l) \cup {x} \subseteq LastOf(r, ps)
      BY <3>1
    <3>3. /\ Cardinality(LastOf(r, l) \cup {x}) = Cardinality(LastOf(r, l)) + 1
          /\ Cardinality(LastOf(r, l) \cup {x}) <= Cardinality(LastOf(r, ps))
          /\ Cardinality(LastOf(r, l)) \in Nat /\ Cardinality(LastOf(r, ps)) \in Nat
      BY <1>1, <2>1, <3>1, <3>2, FS_AddElement, FS_CardinalityType, FS_Subset
    <3>4. t.rrefs > 1
      BY <2>4, <3>3
    <3>5. /\ Linked(t) /\ AllGood(t, ev) /\ x \in Peers /\ t.refs[x] = 1 /\ t.rrefs > 0
          /\ t.rrefs = 1 => t.linked \subseteq {x}
      <4>1. t.rrefs > 0 /\ ~(t.rrefs = 1)
        BY <2>4, <3>3, <3>4
      <4> QED  BY <2>1, <2>2, <2>4, <2>5, <4>1
    <3>6. AllGood(PeerUnref(t, x), ev)
      BY <3>5, PeerUnrefGood
    <3> QED  BY <2>2, <3>6
  <2>6. CASE r.refs[x] # 1
    BY <2>1, <2>2, <2>4, <2>6, PeerUnrefMoreGood
  <2> QED  BY <2>5, <2>6
<1>6. Cardinality(ps) \in S
  <2>1. Cardinality(ps) \in Nat
    BY <1>1, FS_CardinalityType
  <2> HIDE DEF S
  <2> QED  BY <1>4, <1>5, <2>1, SetInduction
<1> QED  BY <1>2, <1>6 DEF Leads

(* Who refers to the router.                                               *)
LEMMA RouterReferred ==
  ASSUME NEW r, NEW v, NEW ms, NEW h, NEW more \in Nat,
         Shared(r, v, ms, h, more), IsFiniteSet(LiveSets(v))
  PROVE  /\ r.rrefs \in Nat
         /\ more > 0 \/ h => r.rrefs > 0 /\ (r.rrefs = 1 => r.linked = {})
         /\ LiveSets(v) # {} => r.rrefs > 0
         /\ \A p \in Living(r) : r.rrefs > 0 /\ (r.rrefs = 1 => r.linked \subseteq {p})
<1> DEFINE n == Cardinality(LiveSets(v))
           k == Cardinality(Living(r))
           a == One(h)
<1>1. Living(r) \in SUBSET Peers /\ r.linked \subseteq Living(r)
  BY DEF Living, Shared
<1>2. /\ n \in Nat /\ k \in Nat /\ (k = 0 <=> Living(r) = {})
      /\ n = 0 <=> LiveSets(v) = {}
  BY <1>1, MineCounted, FS_CardinalityType, FS_EmptySet
<1>3. a \in Nat /\ (h => a = 1)
  BY DEF One
<1>4. r.rrefs = more + a + n + k
  BY DEF Shared
<1>5. \A p \in Living(r) : k = 1 => Living(r) \subseteq {p}
  <2> TAKE p \in Living(r)
  <2>1. Cardinality(Living(r) \ {p}) = Cardinality(Living(r)) - 1
        /\ (Cardinality(Living(r) \ {p}) = 0 <=> Living(r) \ {p} = {})
    BY <1>1, MineCounted
  <2> QED  BY <2>1
<1> HIDE DEF n, k, a
<1>6. r.rrefs \in Nat
  BY <1>2, <1>3, <1>4
<1>7. ASSUME more > 0 \/ h  PROVE r.rrefs > 0 /\ (r.rrefs = 1 => r.linked = {})
  <2>1. more + a > 0
    BY <1>3, <1>7
  <2>2. r.rrefs > 0 /\ (r.rrefs = 1 => k = 0)
    BY <1>2, <1>3, <1>4, <2>1
  <2> QED  BY <1>1, <1>2, <2>2
<1>8. ASSUME NEW p \in Living(r)
      PROVE  r.rrefs > 0 /\ (r.rrefs = 1 => r.linked \subseteq {p})
  <2>1. k > 0
    BY <1>2
  <2>2. r.rrefs > 0 /\ (r.rrefs = 1 => k = 1)
    BY <1>2, <1>3, <1>4, <2>1
  <2> QED  BY <1>1, <1>5, <2>2
<1>9. LiveSets(v) # {} => r.rrefs > 0
  BY <1>2, <1>3, <1>4
<1> QED  BY <1>6, <1>7, <1>8, <1>9

(* That is what the router's lemmas need of its references.                *)
LEMMA ServerReferenced ==
  ASSUME ServerInv
  PROVE  Referenced
<1>1. \A p \in Peers : rt.refs[p] = One(p \in mine) + One(HeldIn(sv, p))
  BY ServerFacts DEF Shared
<1>2. (\A p \in Peers : rt.refs[p] \in Nat) /\ mine \subseteq Living(rt)
  BY <1>1, ServerFacts DEF One, Living
<1>3. /\ rt.rrefs \in Nat
      /\ held => rt.rrefs > 0 /\ (rt.rrefs = 1 => rt.linked = {})
      /\ \A p \in Living(rt) : rt.rrefs > 0 /\ (rt.rrefs = 1 => rt.linked \subseteq {p})
  BY ServerFacts, RouterReferred
<1> QED  BY <1>2, <1>3 DEF Referenced

(* An operator of the server leaves good links, and takes the links of     *)
(* peers that are gone and of no others.                                   *)
Unharmed(q, r, ev) ==
  /\ AllGood(q, ev) /\ q.born = r.born
  /\ \A p \in Peers : p \in r.linked /\ p \notin q.linked => q.refs[p] = 0
(* Destroying holders harms no link that others refer to. *)
LEMMA HolderDestroyUnharmed ==
  ASSUME NEW r, NEW v, NEW ms \in SUBSET Peers, NEW h, NEW more \in Nat,
         Linked(r), v \in ServerState, Shared(r, v, ms, h, more),
         IsFiniteSet(LiveSets(v)), more + Cardinality(LiveSets(v)) > 0,
         NEW s \in Sets, NEW ps \in SUBSET v.holders[s],
         NEW ev \in [Peers -> Nat], AllGood(r, ev)
  PROVE  Unharmed(mtc_peer_holder_destroy([rt |-> r, sv |-> v], s, ps).rt, r, ev)
<1> DEFINE q == mtc_peer_holder_destroy([rt |-> r, sv |-> v], s, ps).rt
<1>1. q = Unrefs(r, ps)
  BY DEF mtc_peer_holder_destroy, Unrefs
<1> HIDE DEF q
<1>2. ps \in SUBSET Peers
  BY DEF ServerState
<1>3. r.rrefs > Cardinality(LastOf(r, ps))
  <2>1. LastOf(r, ps) \subseteq Living(r) /\ Living(r) \in SUBSET Peers
    BY <1>2 DEF LastOf, Living
  <2>2. IsFiniteSet(Living(r))
    BY <2>1, RouterAssumptions, FS_Subset
  <2>3. IsFiniteSet(LastOf(r, ps)) /\ Cardinality(LastOf(r, ps)) <= Cardinality(Living(r))
    BY <2>1, <2>2, FS_Subset
  <2>4. /\ Cardinality(LastOf(r, ps)) \in Nat /\ Cardinality(Living(r)) \in Nat
        /\ Cardinality(LiveSets(v)) \in Nat /\ One(h) \in Nat
    BY <2>2, <2>3, FS_CardinalityType DEF One
  <2>5. r.rrefs = more + One(h) + Cardinality(LiveSets(v)) + Cardinality(Living(r))
    BY DEF Shared
  <2> QED  BY <2>3, <2>4, <2>5
<1>4. AllGood(q, ev)
  BY <1>1, <1>2, <1>3, UnrefsGood
<1>5. Unreffed(q, r, ps)
  BY <1>1, <1>2, <1>3, UnrefsKeeps
<1>6. \A p \in Peers : p \in r.linked /\ p \notin q.linked => q.refs[p] = 0
  BY <1>5 DEF Unreffed, LastOf
<1> QED  BY <1>4, <1>5, <1>6 DEF Unharmed, Unreffed, q

(* The last reference to a set takes its peers and, after them, perhaps    *)
(* the router.                                                             *)
LEMMA SetUnrefUnharmed ==
  ASSUME NEW r, NEW v, NEW ms \in SUBSET Peers, NEW h, NEW s \in Sets,
         Linked(r), v \in ServerState, Shared(r, v, ms, h, 0), IsFiniteSet(LiveSets(v)),
         v.refs[s] > 0, NEW ev \in [Peers -> Nat], AllGood(r, ev)
  PROVE  Unharmed(mtc_peer_set_unref([rt |-> r, sv |-> v], s).rt, r, ev)
<1> DEFINE w == [v EXCEPT !.refs[s] = @ - 1]
           one == [rt |-> r, sv |-> w]
           bare == mtc_peer_holder_destroy(one, s, w.holders[s])
           both == mtc_peer_set_unref([rt |-> r, sv |-> v], s)
<1>1. both = IF one.sv.refs[s] > 0 THEN one ELSE [bare EXCEPT !.rt = RouterUnref(@)]
  BY SetUnrefIs
<1>2. v.refs[s] \in Nat /\ one.sv.refs[s] = v.refs[s] - 1
  BY DEF ServerState
<1>3. /\ w \in ServerState /\ IsFiniteSet(LiveSets(w))
      /\ v.refs[s] = 1 => Shared(r, w, ms, h, 1)
  BY SetDropped
<1>4. CASE v.refs[s] > 1
  <2>1. both.rt = r
    BY <1>1, <1>2, <1>4
  <2> HIDE DEF both
  <2>2. Unharmed(both.rt, r, ev)
    BY <2>1 DEF Unharmed
  <2> QED  BY <2>2 DEF both
<1>5. CASE v.refs[s] = 1
  <2>1. both = [bare EXCEPT !.rt = RouterUnref(@)]
    BY <1>1, <1>2, <1>5
  <2>2. bare.rt = Unrefs(r, w.holders[s]) /\ DOMAIN bare = {"rt", "sv"}
    BY DEF mtc_peer_holder_destroy, Unrefs
  <2> DEFINE ps == w.holders[s]
  <2> HIDE DEF w
  <2>3. 1 + Cardinality(LiveSets(w)) > 0
    BY <1>3, FS_CardinalityType
  <2>4. /\ w \in ServerState /\ Shared(r, w, ms, h, 1) /\ IsFiniteSet(LiveSets(w))
        /\ 1 + Cardinality(LiveSets(w)) > 0 /\ 1 \in Nat /\ ps \in SUBSET w.holders[s]
    BY <1>3, <1>5, <2>3
  <2> HIDE DEF ps
  <2>5. Unharmed(mtc_peer_holder_destroy([rt |-> r, sv |-> w], s, ps).rt, r, ev)
    BY <2>4, HolderDestroyUnharmed
  <2>6. /\ mtc_peer_holder_destroy([rt |-> r, sv |-> w], s, ps).sv = Without(w, s, ps)
        /\ Shares(mtc_peer_holder_destroy([rt |-> r, sv |-> w], s, ps), r, ms, h, 1)
    BY <2>4, HolderDestroyShares
  <2>7. Unharmed(bare.rt, r, ev) /\ bare.sv = Without(w, s, ps) /\ Shares(bare, r, ms, h, 1)
    BY <2>5, <2>6 DEF ps
  <2> DEFINE q == bare.rt
             z == Without(w, s, ps)
  <2>8. both.rt = RouterUnref(q)
    <3> HIDE DEF both, bare
    <3> QED  BY <2>1, <2>2
  <2> HIDE DEF bare
  <2>9. Unharmed(q, r, ev) /\ Linked(q) /\ Shared(q, z, ms, h, 1)
    BY <2>7 DEF Shares
  <2>10. IsFiniteSet(LiveSets(z))
    <3>1. z.refs = w.refs
      BY <1>3 DEF ServerState, Without
    <3> QED  BY <1>3, <3>1 DEF LiveSets
  <2> HIDE DEF q, z, both
  <2>11. q.rrefs > 0 /\ (q.rrefs = 1 => q.linked = {})
    <3>1. 1 \in Nat /\ 1 > 0
      OBVIOUS
    <3> QED  BY <2>9, <2>10, <3>1, RouterReferred
  <2>12. AllGood(RouterUnref(q), ev) /\ RouterUnref(q).linked = q.linked
    <3>1. AllGood(q, ev)
      BY <2>9 DEF Unharmed
    <3>2. /\ AllGood(RouterUnref(q), ev)
          /\ \A x \in Slots \cup Lists : RouterUnref(q)[x] = q[x]
      BY <2>9, <2>11, <3>1, RouterUnrefGood
    <3> QED  BY <3>2 DEF Lists
  <2>13. RouterUnref(q).refs = q.refs /\ RouterUnref(q).born = q.born
    BY <2>9, RouterUnrefKeeps
  <2>14. Unharmed(both.rt, r, ev)
    BY <2>8, <2>9, <2>12, <2>13 DEF Unharmed
  <2> QED  BY <2>14 DEF both
<1> HIDE DEF both
<1>6. Unharmed(both.rt, r, ev)
  BY <1>2, <1>4, <1>5 DEF both
<1> QED  BY <1>6 DEF both

-----------------------------------------------------------------------------
(* The steps, again: those of the server keep the links good, and what they*)
(* do to the peers of sets.                                                *)

(* No peer of a set loses its link while it stays in the set.              *)
Steady ==
  /\ LinkStep
  /\ \A p \in Peers :
       HeldIn(sv', p) /\ p \notin rt'.linked => HeldIn(sv, p) /\ p \notin rt.linked

(* The listener and the references to sets are not about links.            *)
LEMMA StillSteady ==
  ASSUME ServerInv, LinkInv, UNCHANGED <<rt, stack>>, sv'.holders = sv.holders
  PROVE  Steady
  BY DEF Steady, LinkStep, LinkInv, HeldIn

(* A peer that goes is in no set any more.                                 *)
LEMMA DropSteady ==
  ASSUME ServerInv, ServerInv', LinkInv, UNCHANGED stack,
         Unharmed(rt', rt, EventCounts(stack)),
         \A s \in Sets : sv'.holders[s] \subseteq sv.holders[s]
  PROVE  Steady
<1>1. LinkStep
  BY DEF Unharmed, LinkStep, LinkInv
<1>2. ASSUME NEW p \in Peers, HeldIn(sv', p), p \notin rt'.linked
      PROVE  HeldIn(sv, p) /\ p \notin rt.linked
  <2>1. rt'.refs[p] = One(p \in mine') + One(HeldIn(sv', p))
    BY DEF ServerInv, Shared
  <2>2. rt'.refs[p] # 0
    BY <1>2, <2>1 DEF One
  <2> QED  BY <1>2, <2>2 DEF Unharmed, HeldIn
<1> QED  BY <1>1, <1>2 DEF Steady

(* The last reference to a set takes peers with it.                        *)
SetGoes(s, v) ==
  /\ v \in ServerState /\ v.refs = sv.refs /\ v.holders = sv.holders /\ sv.refs[s] > 0
  /\ rt' = mtc_peer_set_unref([rt |-> rt, sv |-> v], s).rt
  /\ sv'.holders = mtc_peer_set_unref([rt |-> rt, sv |-> v], s).sv.holders
(* A call that drops a set leaves the frames steady. *)
LEMMA SetGoesSteady ==
  ASSUME ServerInv, ServerInv', LinkInv, UNCHANGED stack, NEW s \in Sets, NEW v, SetGoes(s, v)
  PROVE  Steady
<1> DEFINE both == mtc_peer_set_unref([rt |-> rt, sv |-> v], s)
           ev == EventCounts(stack)
<1>1. /\ v \in ServerState /\ Shared(rt, v, mine, held, 0) /\ IsFiniteSet(LiveSets(v))
      /\ v.refs[s] > 0 /\ v.holders = sv.holders
  <2>1. LiveSets(v) = LiveSets(sv)
    BY DEF LiveSets, SetGoes
  <2> QED  BY <2>1, ServerFacts, SharedSame DEF SetGoes
<1>2. Linked(rt) /\ mine \in SUBSET Peers /\ ev \in [Peers -> Nat] /\ AllGood(rt, ev)
  BY ServerFacts, LinkFacts
<1>3. rt' = both.rt /\ sv'.holders = both.sv.holders
  BY DEF SetGoes
<1> HIDE DEF ev
<1>4. both.sv = Dropped(v, s)
  BY <1>1, <1>2, SetUnrefShares
<1>5. Unharmed(both.rt, rt, ev)
  BY <1>1, <1>2, SetUnrefUnharmed
<1> HIDE DEF both
<1>6. \A x \in Sets : sv'.holders[x] \subseteq sv.holders[x]
  <2>1. /\ v.holders \in [Sets -> SUBSET Peers]
        /\ sv'.holders = [v.holders EXCEPT ![s] = IF v.refs[s] = 1 THEN {} ELSE @]
    BY <1>1, <1>3, <1>4 DEF ServerState, Dropped
  <2> QED  BY <1>1, <2>1
<1> QED  BY <1>3, <1>5, <1>6, DropSteady DEF ev

(* By the application, or by the listener.                                 *)
LEMMA SetUnrefsSteady ==
  ASSUME ServerInv, ServerInv', LinkInv,
         (\E s \in Sets : PeerSetUnref(s)) \/ UnsetPeerSet \/ ListenerUnref
  PROVE  Steady
<1>1. sv \in ServerState /\ sv.peer_set \in Sets \cup {None}
  BY ServerFacts DEF ServerState
<1>2. ASSUME NEW s \in Sets, PeerSetUnref(s)  PROVE Steady
  <2> DEFINE v == [sv EXCEPT !.mine[s] = @ - 1]
             both == mtc_peer_set_unref([rt |-> rt, sv |-> v], s)
  <2>1. sv.mine[s] > 0 /\ rt' = both.rt /\ sv' = both.sv /\ UNCHANGED stack
    <3>1. [Both EXCEPT !.sv.mine[s] = @ - 1] = [rt |-> rt, sv |-> v]
      BY DEF Both
    <3> HIDE DEF v
    <3> QED  BY <3>1, <1>2 DEF PeerSetUnref, Becomes, v
  <2>2. sv.refs[s] > 0
    BY <2>1, ServerFacts, InUse
  <2>3. v.refs = sv.refs /\ v.holders = sv.holders /\ v.mine = [sv.mine EXCEPT ![s] = @ - 1]
    BY <1>1 DEF ServerState
  <2>4. v \in ServerState
    <3>1. sv.mine \in [Sets -> 0..2]
      BY <1>1 DEF ServerState
    <3>2. v.mine \in [Sets -> 0..2]
      <4>1. sv.mine[s] - 1 \in 0..2
        BY <2>1, <3>1
      <4> HIDE DEF v
      <4> QED  BY <2>3, <3>1, <4>1
    <3> QED  BY <1>1, <3>2 DEF ServerState
  <2> HIDE DEF v
  <2>5. SetGoes(s, v)
    BY <2>1, <2>2, <2>3, <2>4 DEF SetGoes
  <2> QED  BY <2>1, <2>5, SetGoesSteady
<1>3. ASSUME UnsetPeerSet  PROVE Steady
  <2> DEFINE s == sv.peer_set
             v == Activated(sv, FALSE)
             both == mtc_peer_set_unref([rt |-> rt, sv |-> v], s)
  <2>1. /\ sv.lrefs > 0 /\ s # None /\ rt' = both.rt
        /\ sv' = [both.sv EXCEPT !.peer_set = None] /\ UNCHANGED stack
    BY <1>3, UnsetPeerSetIs
  <2>2. s \in Sets
    BY <1>1, <2>1
  <2>3. sv.refs[s] > 0
    BY <2>1, <2>2, ServerFacts, InUse
  <2>4. v \in ServerState /\ v.refs = sv.refs /\ v.holders = sv.holders
    BY <1>1 DEF ServerState, Activated
  <2>5. sv'.holders = both.sv.holders
    <3>1. both.sv = Dropped(v, s)
      <4>1. LiveSets(v) = LiveSets(sv)
        BY <2>4 DEF LiveSets
      <4>2. /\ Linked(rt) /\ Shared(rt, v, mine, held, 0) /\ IsFiniteSet(LiveSets(v))
            /\ v.refs[s] > 0 /\ mine \in SUBSET Peers /\ s \in Sets /\ v \in ServerState
        BY <2>2, <2>3, <2>4, <4>1, ServerFacts, SharedSame
      <4> HIDE DEF v, s
      <4> QED  BY <4>2, SetUnrefShares
    <3> HIDE DEF both, v, s
    <3> QED  BY <2>1, <2>4, <3>1 DEF ServerState, Dropped
  <2>6. SetGoes(s, v)
    <3> HIDE DEF both
    <3> QED  BY <2>1, <2>3, <2>4, <2>5 DEF SetGoes, both
  <2>7. UNCHANGED stack
    BY <2>1
  <2> HIDE DEF v, s
  <2> QED  BY <2>2, <2>6, <2>7, SetGoesSteady
<1>4. ASSUME ListenerUnref  PROVE Steady
  <2> DEFINE s == sv.peer_set
             v == Loosed(sv)
             both == mtc_peer_set_unref([rt |-> rt, sv |-> v], s)
  <2>1. /\ sv.lrefs > 0 /\ UNCHANGED stack
        /\ \/ v.lrefs > 0 /\ rt' = rt /\ sv' = v
           \/ ~(v.lrefs > 0) /\ s = None /\ rt' = rt /\ sv' = Shut(v)
           \/ ~(v.lrefs > 0) /\ s # None /\ rt' = both.rt /\ sv' = Shut(both.sv)
    BY <1>4, ListenerUnrefIs
  <2>2. v.refs = sv.refs /\ v.holders = sv.holders /\ v.lrefs = sv.lrefs - 1
    BY <1>1 DEF ServerState, Loosed
  <2>3. v \in ServerState
    <3>1. sv.lrefs - 1 \in 0..2
      BY <1>1, <2>1 DEF ServerState
    <3> QED  BY <1>1, <3>1 DEF ServerState, Loosed
  <2>4. \A x \in ServerState : Shut(x).holders = x.holders
    BY DEF ServerState, Shut
  <2> HIDE DEF v
  <2>5. CASE rt' = rt /\ (sv' = v \/ sv' = Shut(v))
    <3>1. sv'.holders = sv.holders
      BY <2>2, <2>3, <2>4, <2>5
    <3> QED  BY <2>1, <2>5, <3>1, StillSteady
  <2>6. CASE s # None /\ rt' = both.rt /\ sv' = Shut(both.sv)
    <3>1. s \in Sets
      BY <1>1, <2>6
    <3>2. sv.refs[s] > 0
      BY <2>1, <3>1, ServerFacts, InUse
    <3>3. both.sv = Dropped(v, s)
      <4>1. LiveSets(v) = LiveSets(sv)
        BY <2>2 DEF LiveSets
      <4>2. /\ Linked(rt) /\ Shared(rt, v, mine, held, 0) /\ IsFiniteSet(LiveSets(v))
            /\ v.refs[s] > 0 /\ mine \in SUBSET Peers /\ s \in Sets /\ v \in ServerState
        BY <2>2, <2>3, <3>1, <3>2, <4>1, ServerFacts, SharedSame
      <4> HIDE DEF s
      <4> QED  BY <4>2, SetUnrefShares
    <3> HIDE DEF s
    <3>4. sv'.holders = both.sv.holders
      <4> HIDE DEF both
      <4>1. Dropped(v, s) = [x \in DOMAIN v |-> Dropped(v, s)[x]] /\ DOMAIN Dropped(v, s) = DOMAIN v
        BY <2>3 DEF ServerState, Dropped
      <4>2. DOMAIN v = {"refs", "mine", "made", "holders", "lrefs", "active", "peer_set",
                        "close_fd", "closed", "backed", "ready", "ended"}
        BY <2>3 DEF ServerState
      <4>3. Shut(Dropped(v, s)).holders = Dropped(v, s).holders
        BY <4>1, <4>2 DEF Shut
      <4> QED  BY <2>6, <3>3, <4>3
    <3>5. SetGoes(s, v)
      <4> HIDE DEF both
      <4> QED  BY <2>2, <2>3, <2>6, <3>2, <3>4 DEF SetGoes, both
    <3> QED  BY <2>1, <3>1, <3>5, SetGoesSteady
  <2> QED  BY <2>1, <2>5, <2>6
<1> QED  BY <1>2, <1>3, <1>4


(* The application drops a peer, and a set may still hold it.              *)
LEMMA AppUnrefSteady ==
  ASSUME ServerInv, ServerInv', LinkInv, NEW p \in Peers, AppUnref(p), UNCHANGED sv
  PROVE  Steady
<1> DEFINE ev == EventCounts(stack)
<1>1. p \in mine /\ UNCHANGED stack /\ rt' = PeerUnref(rt, p)
  BY DEF AppUnref
<1>2. Linked(rt) /\ ev \in [Peers -> Nat] /\ AllGood(rt, ev)
  BY ServerFacts, LinkFacts
<1> HIDE DEF ev
<1>3. CASE rt.refs[p] = 1
  <2>1. rt.rrefs > 0 /\ (rt.rrefs = 1 => rt.linked \subseteq {p})
    BY <1>1, ServerReferenced DEF Referenced
  <2>2. AllGood(PeerUnref(rt, p), ev)
    BY <1>2, <1>3, <2>1, PeerUnrefGood
  <2>3. /\ PeerUnref(rt, p).linked = rt.linked \ {p}
        /\ PeerUnref(rt, p).refs = [rt.refs EXCEPT ![p] = 0]
        /\ PeerUnref(rt, p).born = rt.born
    BY <1>2, <1>3, PeerUnrefKeeps
  <2>4. rt.refs \in [Peers -> Int]
    BY <1>2 DEF Linked, CoreType
  <2>5. Unharmed(rt', rt, ev)
    BY <1>1, <2>2, <2>3, <2>4 DEF Unharmed
  <2> QED  BY <1>1, <2>5, DropSteady DEF ev
<1>4. CASE rt.refs[p] # 1
  <2>1. AllGood(PeerUnref(rt, p), ev)
    BY <1>2, <1>4, PeerUnrefMoreGood
  <2>2. /\ PeerUnref(rt, p).linked = rt.linked /\ PeerUnref(rt, p).born = rt.born
    BY <1>2, <1>4, PeerUnrefMore
  <2>3. Unharmed(rt', rt, ev)
    BY <1>1, <2>1, <2>2 DEF Unharmed
  <2> QED  BY <1>1, <2>3, DropSteady DEF ev
<1> QED  BY <1>3, <1>4

(* It drops the router, or adds a peer of its own.                         *)
LEMMA RouterCallsSteady ==
  ASSUME ServerInv, LinkInv, UNCHANGED sv,
         AppUnrefRouter \/ \E p \in Peers, close_fd \in BOOLEAN : RouterAdd(p, close_fd)
  PROVE  Steady
<1>1. CASE AppUnrefRouter
  <2>1. LinkStep
    BY <1>1, ServerFacts, ServerReferenced, AppUnrefRouterLink
  <2>2. rt' = RouterUnref(rt)
    BY <1>1 DEF AppUnrefRouter
  <2>3. rt'.linked = rt.linked
    BY <2>2, ServerFacts, RouterUnrefKeeps
  <2> QED  BY <2>1, <2>3 DEF Steady
<1>2. ASSUME NEW p \in Peers, NEW close_fd \in BOOLEAN, RouterAdd(p, close_fd)
      PROVE  Steady
  <2>1. LinkStep
    BY <1>2, ServerFacts, ServerReferenced, RouterAddLink
  <2> DEFINE q == mtc_simple_router_add(rt, p, close_fd)
  <2>2. /\ Linked(q) /\ q.born = rt.born \cup {p} /\ q.refs = [rt.refs EXCEPT ![p] = 1]
        /\ q.linked = rt.linked \cup {p} /\ q.rrefs = rt.rrefs + 1 /\ q.aborted = rt.aborted
    BY ServerFacts, AddLinks
  <2>3. rt'.linked = rt.linked \cup {p}
    BY <1>2, <2>2 DEF RouterAdd
  <2> QED  BY <2>1, <2>3 DEF Steady
<1> QED  BY <1>1, <1>2

(* A new set refers to the router, and the application to a peer of a set. *)
LEMMA MoreRefsSteady ==
  ASSUME ServerInv, LinkInv,
         (\E s \in Sets : PeerSetNew(s)) \/ (\E p \in Peers : PeerRef(p))
  PROVE  Steady
<1> DEFINE ev == EventCounts(stack)
<1>1. /\ IsRouter(rt) /\ ev \in [Peers -> Nat] /\ AllGood(rt, ev) /\ Shaped(stack)
      /\ sv \in ServerState /\ (held => rt.rrefs > 0) /\ rt.rrefs \in Nat
  BY ServerFacts, LinkFacts, ServerReferenced DEF Referenced
<1> HIDE DEF ev
<1>2. /\ UNCHANGED stack /\ sv'.holders = sv.holders /\ IsRouter(rt')
      /\ \A x \in Fields \ {"refs", "rrefs"} : rt'[x] = rt[x]
      /\ rt'.rrefs > 0 <=> rt.rrefs > 0
  <2>1. ASSUME NEW s \in Sets, PeerSetNew(s)
        PROVE  /\ UNCHANGED stack /\ sv'.holders = sv.holders /\ IsRouter(rt')
               /\ \A x \in Fields \ {"refs", "rrefs"} : rt'[x] = rt[x]
               /\ rt'.rrefs > 0 <=> rt.rrefs > 0
    <3>1. /\ held /\ UNCHANGED stack /\ rt' = [rt EXCEPT !.rrefs = @ + 1]
          /\ sv' = [sv EXCEPT !.made = @ \cup {s}, !.refs[s] = 1, !.mine[s] = 1]
      BY <2>1 DEF PeerSetNew
    <3>2. /\ IsRouter(rt') /\ \A x \in Fields \ {"refs", "rrefs"} : rt'[x] = rt[x]
          /\ rt'.rrefs = rt.rrefs + 1
      BY <1>1, <3>1 DEF IsRouter, Fields
    <3>3. sv'.holders = sv.holders
      BY <1>1, <3>1 DEF ServerState
    <3> QED  BY <1>1, <3>1, <3>2, <3>3
  <2>2. ASSUME NEW p \in Peers, PeerRef(p)
        PROVE  /\ UNCHANGED stack /\ sv'.holders = sv.holders /\ IsRouter(rt')
               /\ \A x \in Fields \ {"refs", "rrefs"} : rt'[x] = rt[x]
               /\ rt'.rrefs > 0 <=> rt.rrefs > 0
    <3>1. rt' = [rt EXCEPT !.refs[p] = @ + 1] /\ UNCHANGED <<stack, sv>>
      BY <2>2 DEF PeerRef, serverVars
    <3>2. /\ IsRouter(rt') /\ \A x \in Fields \ {"refs", "rrefs"} : rt'[x] = rt[x]
          /\ rt'.rrefs = rt.rrefs
      BY <1>1, <3>1 DEF IsRouter, Fields
    <3> QED  BY <3>1, <3>2
  <2> QED  BY <2>1, <2>2
<1>3. AllGood(rt', ev)
  <2> DEFINE r == rt
             q == rt'
  <2>1. /\ AllGood(r, ev) /\ IsRouter(q) /\ (q.rrefs > 0 <=> r.rrefs > 0)
        /\ \A x \in Fields \ {"refs", "rrefs"} : q[x] = r[x]
    BY <1>1, <1>2
  <2> HIDE DEF q
  <2>2. AllGood(q, ev)
    BY <1>1, <2>1, RefsGood
  <2> QED  BY <2>2 DEF q
<1>4. rt'.born = rt.born /\ rt'.linked = rt.linked
  BY <1>2 DEF Fields
<1>5. LinkStep
  BY <1>1, <1>2, <1>3, <1>4 DEF LinkStep, LinkInv, ev
<1> QED  BY <1>2, <1>4, <1>5 DEF Steady, HeldIn

(* A set that is given a new peer, with its link, holds the router.        *)
LEMMA PeerSetAddSteady ==
  ASSUME ServerInv, LinkInv, UNCHANGED stack,
         NEW s \in Sets, NEW p \in Peers, NEW close_fd, p \notin rt.born, sv.refs[s] > 0,
         rt' = mtc_simple_router_add(rt, p, close_fd),
         sv'.holders = [sv.holders EXCEPT ![s] = @ \cup {p}]
  PROVE  Steady
<1> DEFINE ev == EventCounts(stack)
<1>1. /\ Linked(rt) /\ ev \in [Peers -> Nat] /\ AllGood(rt, ev) /\ Shaped(stack)
      /\ sv.holders \in [Sets -> SUBSET Peers]
  BY ServerFacts, LinkFacts DEF ServerState
<1>2. rt.rrefs > 0
  <2>1. LiveSets(sv) # {}
    BY DEF LiveSets
  <2>2. 0 \in Nat
    OBVIOUS
  <2> QED  BY <2>1, <2>2, ServerFacts, RouterReferred
<1> HIDE DEF ev
<1>3. AllGood(rt', ev)
  BY <1>1, <1>2, AddGood
<1>4. rt'.born = rt.born \cup {p} /\ rt'.linked = rt.linked \cup {p}
  <2> DEFINE q == mtc_simple_router_add(rt, p, close_fd)
  <2>1. /\ Linked(q) /\ q.born = rt.born \cup {p} /\ q.refs = [rt.refs EXCEPT ![p] = 1]
        /\ q.linked = rt.linked \cup {p} /\ q.rrefs = rt.rrefs + 1 /\ q.aborted = rt.aborted
    BY <1>1, AddLinks
  <2> QED  BY <2>1
<1>5. LinkStep
  BY <1>1, <1>3, <1>4 DEF LinkStep, LinkInv, ev
<1> QED  BY <1>1, <1>4, <1>5 DEF Steady, HeldIn

(* It is given one by the application, or by the listener.                 *)
LEMMA AddsSteady ==
  ASSUME ServerInv, LinkInv,
         \/ \E s \in Sets, p \in Peers, close_fd \in BOOLEAN : PeerSetAdd(s, p, close_fd)
         \/ \E p \in Peers : Accept(p)
  PROVE  Steady
<1>1. sv \in ServerState /\ Listens(sv) /\ sv.peer_set \in Sets \cup {None}
  BY ServerFacts DEF ServerState, SetsOk
<1>2. ASSUME NEW s \in Sets, NEW p \in Peers, NEW close_fd \in BOOLEAN,
             PeerSetAdd(s, p, close_fd)
      PROVE  Steady
  <2>1. /\ sv.mine[s] > 0 /\ p \notin rt.born /\ UNCHANGED stack
        /\ rt' = mtc_simple_router_add(rt, p, close_fd)
        /\ sv' = [sv EXCEPT !.holders[s] = @ \cup {p}]
    BY <1>2 DEF PeerSetAdd, Becomes, Both, mtc_peer_set_add
  <2>2. sv.refs[s] > 0
    BY <2>1, ServerFacts, InUse
  <2>3. sv'.holders = [sv.holders EXCEPT ![s] = @ \cup {p}]
    BY <1>1, <2>1 DEF ServerState
  <2> QED  BY <2>1, <2>2, <2>3, PeerSetAddSteady
<1>3. ASSUME NEW p \in Peers, Accept(p)  PROVE Steady
  <2> DEFINE v == [sv EXCEPT !.ready = FALSE]
             s == sv.peer_set
  <2>1. /\ sv.ready /\ p \in backlog /\ UNCHANGED stack
        /\ rt' = mtc_simple_router_add(rt, p, TRUE)
        /\ sv' = [v EXCEPT !.holders[s] = @ \cup {p}]
    <3> DEFINE b == [Both EXCEPT !.sv.ready = FALSE]
    <3>1. b = [rt |-> rt, sv |-> v]
      <4>1. b.rt = rt /\ b.sv = v /\ IsBoth(b)
        BY DEF Both, IsBoth
      <4> HIDE DEF b, v
      <4> QED  BY <4>1, AsBoth
    <3> HIDE DEF v, s, b
    <3>2. Becomes(mtc_peer_set_add(b, s, p, TRUE)) /\ sv.ready /\ p \in backlog /\ UNCHANGED stack
      BY <1>3 DEF Accept, b, s
    <3> QED  BY <3>1, <3>2 DEF Becomes, mtc_peer_set_add
  <2>2. v \in ServerState /\ v.holders = sv.holders
    BY <1>1 DEF ServerState
  <2>3. s \in Sets /\ sv.lrefs > 0
    BY <1>1, <2>1 DEF Listens
  <2>4. sv.refs[s] > 0
    BY <2>3, ServerFacts, InUse
  <2>5. p \notin rt.born
    BY <2>1 DEF ServerInv
  <2> HIDE DEF v, s
  <2>6. sv'.holders = [sv.holders EXCEPT ![s] = @ \cup {p}]
    BY <2>1, <2>2 DEF ServerState
  <2>7. UNCHANGED stack /\ rt' = mtc_simple_router_add(rt, p, TRUE)
    BY <2>1
  <2> QED  BY <2>3, <2>4, <2>5, <2>6, <2>7, PeerSetAddSteady
<1> QED  BY <1>2, <1>3

(* The steps that are about the listener or the references to a set.       *)
LEMMA ListenerSteady ==
  ASSUME ServerInv, LinkInv,
         \/ \E s \in Sets : PeerSetRef(s) \/ SetPeerSet(s)
         \/ ListenerBack \/ ListenerRef \/ FoundReady
         \/ \E val \in BOOLEAN : SetActive(val) \/ SetCloseFd(val)
         \/ \E e \in {"EAGAIN", "EMFILE"} : AcceptFails(e)
         \/ \E p \in Peers : Connect(p) \/ Withdraw(p)
  PROVE  Steady
<1>1. sv \in ServerState
  BY ServerFacts
<1> SUFFICES UNCHANGED <<rt, stack>> /\ sv'.holders = sv.holders
  BY StillSteady
<1>2. ASSUME NEW s \in Sets, PeerSetRef(s)
      PROVE  UNCHANGED <<rt, stack>> /\ sv'.holders = sv.holders
  BY <1>1, <1>2 DEF PeerSetRef, routerVars, ServerState
<1>3. ASSUME NEW s \in Sets, SetPeerSet(s)
      PROVE  UNCHANGED <<rt, stack>> /\ sv'.holders = sv.holders
  <2> DEFINE b == [Both EXCEPT !.sv.peer_set = s, !.sv.refs[s] = @ + 1]
             u == [sv EXCEPT !.peer_set = s, !.refs[s] = @ + 1]
  <2>1. b = [rt |-> rt, sv |-> u]
    <3>1. b.rt = rt /\ b.sv = u /\ IsBoth(b)
      BY DEF IsBoth, Both
    <3> HIDE DEF b, u
    <3> QED  BY <3>1, AsBoth
  <2>2. mtc_simple_listener_set_peer_set(Both, s) = mtc_simple_listener_set_active(b, TRUE)
    BY DEF mtc_simple_listener_set_peer_set
  <2>3. u.holders = sv.holders /\ DOMAIN u = DOMAIN sv
    BY <1>1 DEF ServerState
  <2> HIDE DEF u, b
  <2>4. mtc_simple_listener_set_peer_set(Both, s) = [rt |-> rt, sv |-> Activated(u, TRUE)]
    <3>1. mtc_simple_listener_set_active([rt |-> rt, sv |-> u], TRUE)
            = [rt |-> rt, sv |-> Activated(u, TRUE)]
      BY SetActiveIs
    <3> QED  BY <2>1, <2>2, <3>1, Zenon
  <2>5. Activated(u, TRUE).holders = sv.holders
    <3>1. DOMAIN u = {"refs", "mine", "made", "holders", "lrefs", "active", "peer_set",
                      "close_fd", "closed", "backed", "ready", "ended"}
      BY <1>1, <2>3 DEF ServerState
    <3>2. u = [x \in DOMAIN u |-> u[x]]
      BY <1>1 DEF u, ServerState
    <3> QED  BY <2>3, <3>1, <3>2 DEF Activated
  <2> DEFINE w == Activated(u, TRUE)
  <2> HIDE DEF w
  <2>6. rt' = rt /\ sv' = w /\ UNCHANGED stack
    BY <1>3, <2>4 DEF SetPeerSet, Becomes, w
  <2> QED  BY <2>5, <2>6 DEF w
<1>4. ASSUME NEW val \in BOOLEAN, SetActive(val)
      PROVE  UNCHANGED <<rt, stack>> /\ sv'.holders = sv.holders
  <2>1. mtc_simple_listener_set_active(Both, val) = [rt |-> rt, sv |-> Activated(sv, val)]
    BY SetActiveIs DEF Both
  <2>2. Activated(sv, val).holders = sv.holders
    BY <1>1 DEF Activated, ServerState
  <2> QED  BY <1>4, <2>1, <2>2 DEF SetActive, Becomes
<1>5. CASE ListenerBack \/ ListenerRef \/ FoundReady
  BY <1>1, <1>5 DEF ListenerBack, ListenerRef, FoundReady, routerVars, ServerState
<1>6. CASE \E val \in BOOLEAN : SetCloseFd(val)
  BY <1>1, <1>6 DEF SetCloseFd, routerVars, ServerState
<1>7. CASE \E e \in {"EAGAIN", "EMFILE"} : AcceptFails(e)
  BY <1>1, <1>7 DEF AcceptFails, routerVars, ServerState
<1>8. CASE \E p \in Peers : Connect(p) \/ Withdraw(p)
  BY <1>8 DEF Connect, Withdraw, routerVars
<1> QED  BY <1>2, <1>3, <1>4, <1>5, <1>6, <1>7, <1>8


(* The notifications of a peer, and the one that a holder gets.            *)
LEMMA NotifyLink ==
  ASSUME ServerInv, LinkInv, Notify
  PROVE  LinkStep
<1>1. /\ stack # <<>> /\ Top.todo # <<>> /\ UNCHANGED rt
      /\ \/ Then(<<"app">>) \/ Then(<<"holder", "app">>) \/ Then(<<"app", "holder">>)
  BY DEF Notify, At
<1>2. /\ <<"app">> \in Seq(EventItems) /\ <<"holder", "app">> \in Seq(EventItems)
      /\ <<"app", "holder">> \in Seq(EventItems)
  BY DEF Items, EventItems
<1>3. EventCounts(stack') = EventCounts(stack) /\ Shaped(stack')
  BY <1>1, <1>2, ServerFacts, ThenCounts
<1> QED  BY <1>1, <1>3, ServerFacts, StackSteps

(* The notification of a holder keeps what is true of links. *)
LEMMA HolderNotifyLink ==
  ASSUME ServerInv, LinkInv, mtc_peer_holder_reset_notify
  PROVE  LinkStep
<1> DEFINE p == Top.peer
           ev == EventCounts(stack)
<1>1. EventCounts(stack') = ev /\ Shaped(stack')
  <2>1. stack # <<>> /\ Top.todo # <<>> /\ Then(<<>>)
    BY DEF mtc_peer_holder_reset_notify, At
  <2> QED  BY <2>1, EventItemsTyped, ServerFacts, ThenCounts
<1>2. /\ Linked(rt) /\ ev \in [Peers -> Nat] /\ AllGood(rt, ev) /\ sv \in ServerState
      /\ \A s \in Sets : SetOk(sv, s)
  BY ServerFacts, LinkFacts DEF SetsOk
<1>3. CASE Held(p)
  <2>1. PICK s \in Sets : /\ p \in sv.holders[s]
                          /\ Becomes(mtc_peer_holder_destroy(Both, s, {p}))
    BY <1>3 DEF mtc_peer_holder_reset_notify
  <2> DEFINE ps == {p}
             q == mtc_peer_holder_destroy([rt |-> rt, sv |-> sv], s, ps).rt
  <2>2. rt' = q
    BY <2>1 DEF Becomes, Both
  <2>3. 0 + Cardinality(LiveSets(sv)) > 0 /\ 0 \in Nat
    <3>1. sv.refs[s] \in Nat /\ (sv.refs[s] = 0 => sv.holders[s] = {})
      BY <1>2 DEF ServerState, SetOk
    <3>2. s \in LiveSets(sv)
      BY <2>1, <3>1 DEF LiveSets
    <3> QED  BY <3>2, ServerFacts, FS_EmptySet, FS_CardinalityType
  <2>4. ps \in SUBSET sv.holders[s]
    BY <2>1
  <2> HIDE DEF ps, ev
  <2>5. Unharmed(q, rt, ev)
    BY <1>2, <2>3, <2>4, ServerFacts, HolderDestroyUnharmed
  <2> HIDE DEF q
  <2> QED  BY <1>1, <2>2, <2>5 DEF Unharmed, LinkStep, LinkInv
<1>4. CASE ~Held(p)
  <2>1. UNCHANGED rt
    BY <1>4 DEF mtc_peer_holder_reset_notify
  <2> QED  BY <1>1, <2>1, ServerFacts, StackSteps
<1> QED  BY <1>3, <1>4

(* The steps that leave the stack as it is.                                *)
Calls ==
  \/ AppUnrefRouter /\ UNCHANGED serverVars
  \/ \E p \in Peers, close_fd \in BOOLEAN : RouterAdd(p, close_fd) /\ UNCHANGED serverVars
  \/ \E p \in Peers : AppUnref(p) /\ UNCHANGED serverVars
  \/ ServerCalls \/ Listening
(* Every call of the application leaves the frames steady. *)
LEMMA CallsSteady ==
  ASSUME ServerInv, ServerInv', LinkInv, Calls
  PROVE  Steady
<1>1. CASE ServerCalls
  <2>1. CASE \E s \in Sets, p \in Peers, close_fd \in BOOLEAN : PeerSetAdd(s, p, close_fd)
    BY <2>1, AddsSteady
  <2>2. CASE (\E s \in Sets : PeerSetNew(s)) \/ (\E p \in Peers : PeerRef(p))
    BY <2>2, MoreRefsSteady
  <2>3. CASE (\E s \in Sets : PeerSetUnref(s)) \/ UnsetPeerSet \/ ListenerUnref
    BY <2>3, SetUnrefsSteady
  <2>4. CASE \/ \E s \in Sets : PeerSetRef(s) \/ SetPeerSet(s)
             \/ ListenerBack \/ ListenerRef
             \/ \E val \in BOOLEAN : SetActive(val) \/ SetCloseFd(val)
    BY <2>4, ListenerSteady
  <2> QED  BY <1>1, <2>1, <2>2, <2>3, <2>4 DEF ServerCalls
<1>2. CASE Listening
  <2>1. CASE \E p \in Peers : Accept(p)
    BY <2>1, AddsSteady
  <2>2. CASE \/ FoundReady
             \/ \E e \in {"EAGAIN", "EMFILE"} : AcceptFails(e)
             \/ \E p \in Peers : Connect(p) \/ Withdraw(p)
    BY <2>2, ListenerSteady
  <2> QED  BY <1>2, <2>1, <2>2 DEF Listening
<1>3. CASE ~ServerCalls /\ ~Listening
  BY <1>3, AppUnrefSteady, RouterCallsSteady DEF Calls, serverVars
<1> QED  BY <1>1, <1>2, <1>3

(* Every step of the server.                                               *)
LEMMA ServerLinkNext ==
  ASSUME ServerInv, ServerInv', LinkInv, [ServerNext]_vars
  PROVE  LinkInv'
<1>1. CASE UNCHANGED vars
  BY <1>1 DEF vars, routerVars, LinkInv
<1>2. CASE Calls
  BY <1>2, CallsSteady DEF Steady, LinkStep
<1>3. CASE Application /\ ~AppUnrefRouter /\ \A p \in Peers : ~AppUnref(p)
  BY <1>3, ServerFacts, ApplicationLink DEF LinkStep
<1>4. CASE LinkEvent \/ Environment
  BY <1>4, ServerFacts, LinkEventLink, EnvironmentLink DEF LinkStep
<1>5. CASE Notifying
  BY <1>5, NotifyLink, HolderNotifyLink DEF Notifying, LinkStep
<1> QED  BY <1>1, <1>2, <1>3, <1>4, <1>5 DEF ServerNext, RouterSteps, Calls

-----------------------------------------------------------------------------
(* The links of a server's peers and the managers are counted as a         *)
(* router's are, although its sets drop whole groups of peers, from inside *)
(* whichever callback.                                                     *)
THEOREM ServerLinkInvariant == ServerSpec => [](ServerInv /\ LinkInv)
<1>1. ServerInit => ServerInv /\ LinkInv
  BY ServerInvInit, LinkInit DEF ServerInit
<1>2. ServerInv /\ LinkInv /\ [ServerNext]_vars => (ServerInv /\ LinkInv)'
  BY ServerInvNext, ServerLinkNext
<1> QED  BY <1>1, <1>2, PTL DEF ServerSpec

(* The router is referred to by its users, that is the application, each   *)
(* set and each peer, and goes last, with no link; no manager is referred  *)
(* to by what has gone, nor freed while it runs.                           *)
THEOREM ServerRefsAreCounted == ServerSpec => []ServerIsCounted
<1>1. ServerInv /\ LinkInv => ServerIsCounted
  BY ServerFacts, ServerReferenced, ServerRouterRefs, LinkManagersCounted DEF ServerIsCounted
<1> QED  BY <1>1, ServerLinkInvariant, PTL

(* A link of a server lives exactly as long as its peer, the flusher or a  *)
(* running event needs it.                                                 *)
THEOREM ServerLinksAreCounted == ServerSpec => []LinksCounted
<1>1. ServerInv /\ LinkInv => LinksCounted
  BY ServerFacts, LinkLinksCounted
<1> QED  BY <1>1, ServerLinkInvariant, PTL

(* Type correctness of the server, its router and its links.               *)
THEOREM ServerTypes == ServerSpec => []ServerTypeOK
<1>1. ServerInit => RemoteTyped /\ held \in BOOLEAN
  BY RouterAssumptions DEF ServerInit, Init, RemoteTyped
<1>2. ServerInv /\ held \in BOOLEAN /\ [ServerNext]_vars => (held \in BOOLEAN)'
  <2> SUFFICES ASSUME held \in BOOLEAN, [ServerNext]_vars  PROVE held' \in BOOLEAN
    OBVIOUS
  <2>1. CASE RouterSteps
    <3>1. Next
      BY <2>1 DEF RouterSteps, Next
    <3> QED  BY <3>1, HeldNext
  <2>2. CASE ServerCalls \/ Listening \/ Notifying \/ UNCHANGED vars
    BY <2>2 DEF ServerCalls, Listening, Notifying, PeerSetNew, PeerSetRef, PeerSetUnref,
       PeerSetAdd, PeerRef, ListenerBack, ListenerRef, ListenerUnref, SetActive, SetCloseFd,
       SetPeerSet, UnsetPeerSet, Connect, Withdraw, FoundReady, Accept, AcceptFails, Notify,
       mtc_peer_holder_reset_notify, vars, routerVars, appVars
  <2> QED  BY <2>1, <2>2 DEF ServerNext
<1>3. ServerInv /\ RemoteTyped /\ [ServerNext]_vars => RemoteTyped'
  <2> SUFFICES ASSUME ServerInv, RemoteTyped, [ServerNext]_vars  PROVE RemoteTyped'
    OBVIOUS
  <2>1. CASE RouterSteps
    <3>1. Next
      BY <2>1 DEF RouterSteps, Next
    <3> QED  BY <3>1, ServerFacts, RemoteNext
  <2>2. CASE ServerCalls \/ Listening \/ Notifying \/ UNCHANGED vars
    <3>1. UNCHANGED remoteVars
      BY <2>2 DEF ServerCalls, Listening, Notifying, PeerSetNew, PeerSetRef, PeerSetUnref,
         PeerSetAdd, PeerRef, ListenerBack, ListenerRef, ListenerUnref, SetActive, SetCloseFd,
         SetPeerSet, UnsetPeerSet, Connect, Withdraw, FoundReady, Accept, AcceptFails, Notify,
         mtc_peer_holder_reset_notify, vars, routerVars
    <3> QED  BY <3>1, ServerFacts, RemoteNext
  <2> QED  BY <2>1, <2>2 DEF ServerNext
<1>4. ServerInv /\ LinkInv /\ RemoteTyped /\ held \in BOOLEAN => ServerTypeOK
  <2> SUFFICES ASSUME ServerInv, LinkInv, RemoteTyped, held \in BOOLEAN  PROVE ServerTypeOK
    OBVIOUS
  <2>1. TypeOK
    BY ServerFacts, ServerReferenced, LinkTypes
  <2> QED  BY <2>1 DEF ServerTypeOK, ServerInv, SetsOk, ServerState
<1> QED  BY <1>1, <1>2, <1>3, <1>4, ServerLinkInvariant, PTL DEF ServerSpec

-----------------------------------------------------------------------------
(* A reset that is on its way.  A frame calls notifications first, and goes*)
(* on with its link or its loop then, so a link that breaks, or a step that*)
(* returns, leaves none of them uncalled.                                  *)
Telling == {"reset", "holder"}
Loops == {"send", "recv", "wait", "done"}
Tells(todo) == \E i \in 1..Len(todo) : todo[i] \in Telling
Waits(todo) == \E i \in 1..Len(todo) : todo[i] \in Loops
TellsFirst(todo) ==
  \A i, j \in 1..Len(todo) : i < j /\ todo[i] \in Loops => todo[j] \notin Telling

Timely(s) == \A k \in 1..Len(s) : TellsFirst(s[k].todo)
Told(s, p) == \E k \in 1..Len(s) : s[k].peer = p /\ Tells(s[k].todo)

ToldInv ==
  /\ Timely(stack)
  /\ \A p \in Peers : HeldIn(sv, p) /\ p \notin rt.linked => Told(stack, p)

(* What is done next, and what is left.                                    *)
LEMMA TellsTail ==
  ASSUME NEW todo \in Seq(Items), todo # <<>>, TellsFirst(todo)
  PROVE  /\ Tail(todo) \in Seq(Items) /\ TellsFirst(Tail(todo))
         /\ Tells(todo) <=> Head(todo) \in Telling \/ Tells(Tail(todo))
         /\ Head(todo) \in Loops => ~Tells(Tail(todo))
<1> DEFINE rest == Tail(todo)
<1>1. /\ rest \in Seq(Items) /\ Len(todo) \in Nat \ {0} /\ Len(rest) = Len(todo) - 1
      /\ Head(todo) = todo[1]
  OBVIOUS
<1>2. \A i \in 1..Len(rest) : rest[i] = todo[i + 1] /\ i + 1 \in 1..Len(todo)
  BY <1>1
<1>3. \A i \in 1..Len(todo) : i # 1 => i - 1 \in 1..Len(rest) /\ todo[i] = rest[i - 1]
  BY <1>1
<1>4. 1 \in 1..Len(todo)
  BY <1>1
<1> HIDE DEF rest
<1>5. TellsFirst(rest)
  <2> SUFFICES ASSUME NEW i \in 1..Len(rest), NEW j \in 1..Len(rest), i < j, rest[i] \in Loops
               PROVE  rest[j] \notin Telling
    BY DEF TellsFirst
  <2>1. i + 1 < j + 1
    OBVIOUS
  <2> QED  BY <1>2, <2>1 DEF TellsFirst
<1>6. Tells(todo) <=> Head(todo) \in Telling \/ Tells(rest)
  BY <1>1, <1>2, <1>3, <1>4 DEF Tells
<1>7. Head(todo) \in Loops => ~Tells(rest)
  <2> SUFFICES ASSUME todo[1] \in Loops, NEW i \in 1..Len(rest)  PROVE rest[i] \notin Telling
    BY <1>1 DEF Tells
  <2>1. 1 < i + 1
    OBVIOUS
  <2> QED  BY <1>2, <1>4, <2>1 DEF TellsFirst
<1> QED  BY <1>1, <1>5, <1>6, <1>7 DEF rest

(* Something that is done before the rest.                                 *)
LEMMA TellsJoined ==
  ASSUME NEW a \in Seq(Items), NEW b \in Seq(Items), TellsFirst(a), TellsFirst(b),
         Waits(a) => ~Tells(b)
  PROVE  /\ a \o b \in Seq(Items) /\ TellsFirst(a \o b)
         /\ Tells(a \o b) <=> Tells(a) \/ Tells(b)
<1> DEFINE c == a \o b
<1>1. /\ c \in Seq(Items) /\ Len(a) \in Nat /\ Len(b) \in Nat /\ Len(c) = Len(a) + Len(b)
  OBVIOUS
<1>2. \A i \in 1..Len(a) : i \in 1..Len(c) /\ c[i] = a[i]
  BY <1>1
<1>3. \A i \in 1..Len(b) : i + Len(a) \in 1..Len(c) /\ c[i + Len(a)] = b[i]
  BY <1>1
<1>4. \A i \in 1..Len(c) : i \in 1..Len(a) \/ i - Len(a) \in 1..Len(b)
  BY <1>1
<1>5. \A i \in 1..Len(c) : i \notin 1..Len(a) => c[i] = b[i - Len(a)]
  BY <1>1
<1> HIDE DEF c
<1>6. Tells(c) <=> Tells(a) \/ Tells(b)
  BY <1>2, <1>3, <1>4, <1>5 DEF Tells
<1>7. TellsFirst(c)
  <2> SUFFICES ASSUME NEW i \in 1..Len(c), NEW j \in 1..Len(c), i < j, c[i] \in Loops
               PROVE  c[j] \notin Telling
    BY DEF TellsFirst
  <2>1. CASE j \in 1..Len(a)
    <3>1. i \in 1..Len(a)
      BY <1>1, <2>1
    <3> QED  BY <1>2, <2>1, <3>1 DEF TellsFirst
  <2>2. CASE j \notin 1..Len(a) /\ i \in 1..Len(a)
    <3>1. Waits(a)
      BY <1>2, <2>2 DEF Waits
    <3> QED  BY <1>4, <1>5, <2>2, <3>1 DEF Tells
  <2>3. CASE j \notin 1..Len(a) /\ i \notin 1..Len(a)
    <3>1. /\ i - Len(a) \in 1..Len(b) /\ j - Len(a) \in 1..Len(b)
          /\ c[i] = b[i - Len(a)] /\ c[j] = b[j - Len(a)]
      BY <1>4, <1>5, <2>3
    <3>2. i - Len(a) < j - Len(a)
      BY <1>1
    <3> QED  BY <3>1, <3>2 DEF TellsFirst
  <2> QED  BY <2>1, <2>2, <2>3
<1> QED  BY <1>1, <1>6, <1>7 DEF c

(* The lists that the actions leave to do.                                 *)
LEMMA ItemsTell ==
  /\ TellsFirst(<<>>) /\ ~Tells(<<>>) /\ ~Waits(<<>>)
  /\ TellsFirst(<<"app">>) /\ ~Waits(<<"app">>)
  /\ TellsFirst(<<"reset">>) /\ Tells(<<"reset">>) /\ ~Waits(<<"reset">>)
  /\ TellsFirst(<<"holder", "app">>) /\ Tells(<<"holder", "app">>) /\ ~Waits(<<"holder", "app">>)
  /\ TellsFirst(<<"app", "holder">>) /\ Tells(<<"app", "holder">>) /\ ~Waits(<<"app", "holder">>)
  /\ TellsFirst(<<"app", "recv">>) /\ TellsFirst(<<"wait", "done">>)
  /\ TellsFirst(<<"reset", "recv">>) /\ Tells(<<"reset", "recv">>)
  /\ TellsFirst(<<"reset", "deliver", "recv">>) /\ Tells(<<"reset", "deliver", "recv">>)
  /\ TellsFirst(<<"send">>) /\ TellsFirst(<<"recv">>)
<1>1. /\ ~Tells(<<>>) /\ ~Waits(<<>>) /\ ~Waits(<<"app">>) /\ ~Waits(<<"reset">>)
      /\ ~Waits(<<"holder", "app">>) /\ ~Waits(<<"app", "holder">>)
  BY DEF Tells, Waits, Telling, Loops
<1>2. Tells(<<"reset">>)
  <2>1. 1 \in 1..Len(<<"reset">>) /\ <<"reset">>[1] = "reset"
    OBVIOUS
  <2> QED  BY <2>1 DEF Tells, Telling
<1>3. Tells(<<"holder", "app">>) /\ Tells(<<"app", "holder">>)
  <2>1. 1 \in 1..Len(<<"holder", "app">>) /\ <<"holder", "app">>[1] = "holder"
    OBVIOUS
  <2>2. 2 \in 1..Len(<<"app", "holder">>) /\ <<"app", "holder">>[2] = "holder"
    OBVIOUS
  <2> QED  BY <2>1, <2>2 DEF Tells, Telling
<1>4. Tells(<<"reset", "recv">>) /\ Tells(<<"reset", "deliver", "recv">>)
  <2>1. 1 \in 1..Len(<<"reset", "recv">>) /\ <<"reset", "recv">>[1] = "reset"
    OBVIOUS
  <2>2. /\ 1 \in 1..Len(<<"reset", "deliver", "recv">>)
        /\ <<"reset", "deliver", "recv">>[1] = "reset"
    OBVIOUS
  <2> QED  BY <2>1, <2>2 DEF Tells, Telling
<1>5. /\ TellsFirst(<<>>) /\ TellsFirst(<<"app">>) /\ TellsFirst(<<"reset">>)
      /\ TellsFirst(<<"send">>) /\ TellsFirst(<<"recv">>)
  BY DEF TellsFirst
<1>6. /\ TellsFirst(<<"holder", "app">>) /\ TellsFirst(<<"app", "holder">>)
      /\ TellsFirst(<<"app", "recv">>) /\ TellsFirst(<<"wait", "done">>)
      /\ TellsFirst(<<"reset", "recv">>)
  BY DEF TellsFirst, Telling, Loops
<1>7. TellsFirst(<<"reset", "deliver", "recv">>)
  BY DEF TellsFirst, Telling, Loops
<1> QED  BY <1>1, <1>2, <1>3, <1>4, <1>5, <1>6, <1>7

(* A frame on top of others.                                               *)
LEMMA ToldPush ==
  ASSUME NEW s \in Seq(Frames), NEW f \in Frames
  PROVE  /\ Timely(<<f>> \o s) <=> TellsFirst(f.todo) /\ Timely(s)
         /\ \A p : Told(<<f>> \o s, p) <=> (f.peer = p /\ Tells(f.todo)) \/ Told(s, p)
<1> DEFINE t == <<f>> \o s
<1>1. t \in Seq(Frames) /\ Len(t) = Len(s) + 1 /\ Len(s) \in Nat
  OBVIOUS
<1>2. t[1] = f /\ 1 \in 1..Len(t)
  BY <1>1
<1>3. \A k \in 1..Len(s) : k + 1 \in 1..Len(t) /\ t[k + 1] = s[k]
  BY <1>1
<1>4. \A k \in 1..Len(t) : k = 1 \/ (k - 1 \in 1..Len(s) /\ t[k] = s[k - 1])
  BY <1>1
<1> HIDE DEF t
<1>5. Timely(t) <=> TellsFirst(f.todo) /\ Timely(s)
  BY <1>2, <1>3, <1>4 DEF Timely
<1>6. ASSUME NEW p
      PROVE  Told(t, p) <=> (f.peer = p /\ Tells(f.todo)) \/ Told(s, p)
  BY <1>2, <1>3, <1>4 DEF Told
<1> QED  BY <1>5, <1>6 DEF t

(* The frame on top, and those below.                                      *)
LEMMA ToldPop ==
  ASSUME NEW s \in Seq(Frames), s # <<>>, Timely(s)
  PROVE  /\ Head(s) \in Frames /\ Tail(s) \in Seq(Frames)
         /\ TellsFirst(Head(s).todo) /\ Timely(Tail(s))
         /\ \A p : Told(s, p) <=> (Head(s).peer = p /\ Tells(Head(s).todo)) \/ Told(Tail(s), p)
<1>1. Head(s) \in Frames /\ Tail(s) \in Seq(Frames) /\ s = <<Head(s)>> \o Tail(s)
  OBVIOUS
<1> DEFINE h == Head(s)
           t == Tail(s)
<1> HIDE DEF h, t
<1>2. /\ Timely(<<h>> \o t) <=> TellsFirst(h.todo) /\ Timely(t)
      /\ \A p : Told(<<h>> \o t, p) <=> (h.peer = p /\ Tells(h.todo)) \/ Told(t, p)
  BY <1>1, ToldPush DEF h, t
<1> QED  BY <1>1, <1>2 DEF h, t

(* A frame that does something else, perhaps before what was left.         *)
LEMMA DoingTold ==
  ASSUME stack \in Seq(Frames), stack # <<>>, Timely(stack),
         NEW todo \in Seq(Items), TellsFirst(todo), Doing(todo)
  PROVE  /\ Timely(stack')
         /\ Tells(todo) => Told(stack', Top.peer)
         /\ \A p : Told(stack, p) /\ p # Top.peer => Told(stack', p)
         /\ (Tells(Top.todo) => Tells(todo)) => \A p : Told(stack, p) => Told(stack', p)
<1> DEFINE f == [Top EXCEPT !.todo = todo]
           t == Tail(stack)
<1>1. /\ Top \in Frames /\ t \in Seq(Frames) /\ Timely(t)
      /\ \A p : Told(stack, p) <=> (Top.peer = p /\ Tells(Top.todo)) \/ Told(t, p)
  BY ToldPop DEF Top
<1>2. f \in Frames /\ f.peer = Top.peer /\ f.todo = todo
  BY <1>1 DEF Frames
<1>3. stack' = <<f>> \o t
  BY DEF Doing
<1> HIDE DEF f, t
<1>4. /\ Timely(<<f>> \o t) <=> TellsFirst(f.todo) /\ Timely(t)
      /\ \A p : Told(<<f>> \o t, p) <=> (f.peer = p /\ Tells(f.todo)) \/ Told(t, p)
  BY <1>1, <1>2, ToldPush
<1> QED  BY <1>1, <1>2, <1>3, <1>4

(* A frame goes on with a list that tells first: no other notification is lost. *)
LEMMA ThenTold ==
  ASSUME stack \in Seq(Frames), stack # <<>>, Timely(stack), Top.todo # <<>>,
         NEW items \in Seq(Items), TellsFirst(items), Then(items),
         Head(Top.todo) \in Loops \/ ~Waits(items)
  PROVE  /\ Timely(stack')
         /\ Tells(items) => Told(stack', Top.peer)
         /\ \A p : Told(stack, p) /\ p # Top.peer => Told(stack', p)
         /\ Head(Top.todo) \notin Telling \/ Tells(items)
              => \A p : Told(stack, p) => Told(stack', p)
<1> DEFINE rest == Tail(Top.todo)
           todo == items \o rest
<1>1. Top \in Frames /\ TellsFirst(Top.todo)
  BY ToldPop DEF Top
<1>2. Top.todo \in Seq(Items)
  BY <1>1 DEF Frames
<1>3. /\ rest \in Seq(Items) /\ TellsFirst(rest)
      /\ Tells(Top.todo) <=> Head(Top.todo) \in Telling \/ Tells(rest)
      /\ Head(Top.todo) \in Loops => ~Tells(rest)
  BY <1>1, <1>2, TellsTail
<1> HIDE DEF rest
<1>4. todo \in Seq(Items) /\ TellsFirst(todo) /\ (Tells(todo) <=> Tells(items) \/ Tells(rest))
  BY <1>3, TellsJoined
<1>5. Doing(todo)
  BY DEF Then, rest
<1> HIDE DEF todo
<1>6. /\ Timely(stack')
      /\ Tells(todo) => Told(stack', Top.peer)
      /\ \A p : Told(stack, p) /\ p # Top.peer => Told(stack', p)
      /\ (Tells(Top.todo) => Tells(todo)) => \A p : Told(stack, p) => Told(stack', p)
  BY <1>4, <1>5, DoingTold
<1> QED  BY <1>3, <1>4, <1>6

(* A call that is entered.                                                 *)
LEMMA EnterTold ==
  ASSUME stack \in Seq(Frames), Timely(stack), NEW kind \in {"event", "call", "step"},
         NEW p \in Peers, NEW todo \in Seq(Items), TellsFirst(todo),
         Enter(Frame(kind, p, todo))
  PROVE  /\ Timely(stack')
         /\ Tells(todo) => Told(stack', p)
         /\ \A x : Told(stack, x) => Told(stack', x)
<1> DEFINE f == Frame(kind, p, todo)
<1>1. f \in Frames /\ f.peer = p /\ f.todo = todo
  BY FrameTyped DEF Frame
<1>2. stack' = <<f>> \o stack
  BY DEF Enter
<1> HIDE DEF f
<1> QED  BY <1>1, <1>2, ToldPush

(* A step that leaves the sets alone and has the peers told that it takes  *)
(* the link of.                                                            *)
LEMMA QuietTold ==
  ASSUME ToldInv, sv'.holders = sv.holders, NEW gone, Keeps(rt', rt, gone), Timely(stack'),
         \A p : Told(stack, p) => Told(stack', p),
         \A p \in gone : Told(stack', p)
  PROVE  ToldInv'
  BY DEF ToldInv, Keeps, HeldIn

(* One that does not take a link either.                                   *)
LEMMA OutsideTold ==
  ASSUME ServerInv, ToldInv, sv'.holders = sv.holders, IsRouter(rt'), Core(rt') = Core(rt),
         Timely(stack'), \A p : Told(stack, p) => Told(stack', p)
  PROVE  ToldInv'
<1>1. Keeps(rt', rt, {})
  BY ServerFacts, SameCore
<1> QED  BY <1>1, QuietTold

(* The application's calls.                                                *)
LEMMA ApplicationTold ==
  ASSUME ServerInv, ToldInv, sv'.holders = sv.holders, Application, ~AppUnrefRouter,
         \A p \in Peers : ~AppUnref(p)
  PROVE  ToldInv'
<1> USE ItemsTyped, ItemsTell
<1>0. Linked(rt) /\ IsRouter(rt) /\ stack \in Seq(Frames) /\ Timely(stack)
  BY ServerFacts DEF Linked, StepsHeld, ToldInv
<1>1. ASSUME NEW m \in Mgrs \cup {None}, SetEventMgr(m)  PROVE ToldInv'
  <2>1. Keeps(rt', rt, {}) /\ UNCHANGED stack
    BY <1>0, <1>1, SetEventMgrKeeps DEF SetEventMgr
  <2> QED  BY <1>0, <2>1, QuietTold
<1>2. ASSUME NEW p \in Peers, mtc_simple_peer_disconnect(p)  PROVE ToldInv'
  <2>1. Keeps(rt', rt, {p}) /\ Enter(Frame("call", p, <<"reset">>))
    BY <1>0, <1>2, DiscardKeeps DEF mtc_simple_peer_disconnect
  <2>2. Timely(stack') /\ Told(stack', p) /\ \A x : Told(stack, x) => Told(stack', x)
    BY <1>0, <2>1, EnterTold
  <2> QED  BY <2>1, <2>2, QuietTold
<1>3. ASSUME NEW p \in Peers, mtc_simple_peer_sendto(p)  PROVE ToldInv'
  <2>1. CASE p \in rt.linked
    <3>1. rt' = [rt EXCEPT !.unsent[p] = @ + 1] /\ UNCHANGED stack
      BY <1>3, <2>1 DEF mtc_simple_peer_sendto
    <3>2. IsRouter(rt') /\ Core(rt') = Core(rt)
      BY <1>0, <3>1 DEF IsRouter, Fields, Core
    <3> QED  BY <1>0, <3>1, <3>2, OutsideTold
  <2>2. CASE p \notin rt.linked
    <3>1. Enter(Frame("call", p, <<"reset">>)) /\ UNCHANGED rt
      BY <1>3, <2>2 DEF mtc_simple_peer_sendto
    <3>2. Timely(stack') /\ \A x : Told(stack, x) => Told(stack', x)
      BY <1>0, <3>1, EnterTold
    <3> QED  BY <1>0, <3>1, <3>2, OutsideTold
  <2> QED  BY <2>1, <2>2
<1>4. ASSUME NEW p \in Peers, mtc_simple_peer_sync_io_step(p)  PROVE ToldInv'
  <2>1. /\ p \in rt.linked /\ rt' = mtc_simple_router_set_sync_cache(rt, p)
        /\ stack' = stack \/ Enter(Frame("step", p, <<"wait", "done">>))
    BY <1>4 DEF mtc_simple_peer_sync_io_step
  <2>2. Keeps(rt', rt, {})
    BY <1>0, <2>1, SetCacheKeeps
  <2>3. Timely(stack') /\ \A x : Told(stack, x) => Told(stack', x)
    BY <1>0, <2>1, EnterTold
  <2> QED  BY <2>2, <2>3, QuietTold
<1> QED  BY <1>1, <1>2, <1>3, <1>4 DEF Application

(* A link that breaks, when its frame has nobody to tell.                  *)
LEMMA BrokenTold ==
  ASSUME ServerInv, ToldInv, sv'.holders = sv.holders,
         At("send") \/ At("recv"), Broken(Top.peer)
  PROVE  ToldInv'
<1> DEFINE p == Top.peer
           r == [rt EXCEPT !.status[p] = "broken"]
           todo == IF TellsPeer(p) THEN <<"reset">> ELSE <<>>
<1>0. Linked(rt) /\ IsRouter(rt) /\ stack \in Seq(Frames) /\ Timely(stack)
  BY ServerFacts DEF Linked, StepsHeld, ToldInv
<1>1. /\ stack # <<>> /\ Top.todo # <<>> /\ Head(Top.todo) \in Loops
      /\ Head(Top.todo) \notin Telling
  BY DEF At, Loops, Telling
<1>2. p \in Peers
  BY <1>1, ServerFacts, TopPeer
<1>3. ~Tells(Top.todo)
  <2>1. Top \in Frames /\ TellsFirst(Top.todo)
    BY <1>0, <1>1, ToldPop DEF Top
  <2>2. Top.todo \in Seq(Items)
    BY <2>1 DEF Frames
  <2> QED  BY <1>1, <2>1, <2>2, TellsTail
<1>4. /\ Doing(todo)
      /\ rt' = IF TellsPeer(p) THEN mtc_simple_peer_discard(r, p) ELSE FlushEnds(r, p)
  BY DEF Broken
<1>5. todo \in Seq(Items) /\ TellsFirst(todo) /\ (Tells(todo) <=> TellsPeer(p))
  BY ItemsTyped, ItemsTell
<1>6. IsRouter(r) /\ Core(r) = Core(rt)
  BY <1>0 DEF IsRouter, Fields, Core
<1> HIDE DEF r, todo, p
<1>7. Linked(r) /\ Keeps(r, rt, {})
  BY <1>0, <1>6, SameCore
<1>8. /\ Timely(stack') /\ \A x : Told(stack, x) => Told(stack', x)
      /\ TellsPeer(p) => Told(stack', p)
  BY <1>0, <1>1, <1>3, <1>4, <1>5, DoingTold DEF p
<1>9. CASE TellsPeer(p)
  <2>1. Keeps(rt', r, {p})
    BY <1>2, <1>4, <1>7, <1>9, DiscardKeeps
  <2>2. Keeps(rt', rt, {p})
    BY <1>7, <2>1 DEF Keeps
  <2> QED  BY <1>8, <1>9, <2>2, QuietTold
<1>10. CASE ~TellsPeer(p)
  <2>1. IsRouter(rt') /\ Core(rt') = Core(rt)
    BY <1>4, <1>6, <1>10, FlushEndsCore
  <2> QED  BY <1>8, <2>1, OutsideTold
<1> QED  BY <1>9, <1>10

(* What a link reports to its peer, and the ends of frames.                *)
LEMMA LinkEventTold ==
  ASSUME ServerInv, ToldInv, sv'.holders = sv.holders, LinkEvent
  PROVE  ToldInv'
<1> USE ItemsTyped, ItemsTell
<1> DEFINE p == Top.peer
<1>0. Linked(rt) /\ IsRouter(rt) /\ stack \in Seq(Frames) /\ Timely(stack)
  BY ServerFacts DEF Linked, StepsHeld, ToldInv
<1>1. CASE SendSome
  <2>1. /\ stack # <<>> /\ Top.todo # <<>> /\ Head(Top.todo) \notin Telling /\ Then(<<>>)
    BY <1>1 DEF SendSome, At, Telling
  <2>2. PICK n : LET sent == [rt EXCEPT !.unsent[p] = @ - n]
                 IN  rt' = IF sent.unsent[p] = 0 THEN FlushEnds(sent, p) ELSE sent
    BY <1>1 DEF SendSome
  <2> DEFINE sent == [rt EXCEPT !.unsent[p] = @ - n]
  <2>3. IsRouter(sent) /\ Core(sent) = Core(rt)
    BY <1>0 DEF IsRouter, Fields, Core
  <2>4. rt' = FlushEnds(sent, p) \/ rt' = sent
    BY <2>2
  <2> HIDE DEF sent
  <2>5. IsRouter(rt') /\ Core(rt') = Core(rt)
    BY <2>3, <2>4, FlushEndsCore
  <2>6. Timely(stack') /\ \A x : Told(stack, x) => Told(stack', x)
    BY <1>0, <2>1, ThenTold
  <2> QED  BY <2>5, <2>6, OutsideTold
<1>2. CASE SendBreaks \/ ReceiveBreaks
  BY <1>2, BrokenTold DEF SendBreaks, ReceiveBreaks
<1>3. CASE ReceiveMail
  <2>1. /\ stack # <<>> /\ Top.todo # <<>> /\ Then(<<"app", "recv">>) /\ UNCHANGED rt
        /\ Head(Top.todo) \notin Telling /\ Head(Top.todo) \in Loops
    BY <1>3 DEF ReceiveMail, At, Telling, Loops
  <2>2. Timely(stack') /\ \A x : Told(stack, x) => Told(stack', x)
    BY <1>0, <2>1, ThenTold
  <2> QED  BY <1>0, <2>1, <2>2, OutsideTold
<1>4. CASE ReceiveJunk
  <2>1. /\ stack # <<>> /\ Top.todo # <<>> /\ Then(<<"reset", "recv">>)
        /\ Head(Top.todo) \in Loops /\ rt' = mtc_simple_peer_discard(rt, p)
    BY <1>4 DEF ReceiveJunk, At, Loops
  <2>2. Keeps(rt', rt, {p})
    BY <1>0, <2>1, ServerFacts, TopPeer, DiscardKeeps
  <2>3. Timely(stack') /\ Told(stack', p) /\ \A x : Told(stack, x) => Told(stack', x)
    BY <1>0, <2>1, ThenTold
  <2> QED  BY <2>2, <2>3, QuietTold
<1>5. CASE ReceiveStop
  <2> DEFINE r == [rt EXCEPT !.status[p] = "stopped"]
  <2>1. /\ stack # <<>> /\ Top.todo # <<>> /\ Then(<<"reset", "deliver", "recv">>)
        /\ Head(Top.todo) \in Loops /\ rt' = mtc_simple_peer_discard(r, p)
    BY <1>5 DEF ReceiveStop, At, Loops
  <2>2. IsRouter(r) /\ Core(r) = Core(rt)
    BY <1>0 DEF IsRouter, Fields, Core
  <2> HIDE DEF r
  <2>3. Linked(r) /\ Keeps(r, rt, {})
    BY <1>0, <2>2, SameCore
  <2>4. Keeps(rt', r, {p})
    BY <2>1, <2>3, ServerFacts, TopPeer, DiscardKeeps
  <2>5. Keeps(rt', rt, {p})
    BY <2>3, <2>4 DEF Keeps
  <2>6. Timely(stack') /\ Told(stack', p) /\ \A x : Told(stack, x) => Told(stack', x)
    BY <1>0, <2>1, ThenTold
  <2> QED  BY <2>5, <2>6, QuietTold
<1>6. CASE DeliverStopped
  <2>1. /\ stack # <<>> /\ Top.todo # <<>> /\ Head(Top.todo) \notin Telling
        /\ \/ Then(<<"app">>) /\ rt' = rt
           \/ Then(<<"reset">>) /\ rt' = mtc_simple_peer_discard(rt, p)
    BY <1>6 DEF DeliverStopped, At, Telling
  <2>2. CASE Then(<<"app">>) /\ rt' = rt
    <3>1. Timely(stack') /\ \A x : Told(stack, x) => Told(stack', x)
      BY <1>0, <2>1, <2>2, ThenTold
    <3> QED  BY <1>0, <2>2, <3>1, OutsideTold
  <2>3. CASE Then(<<"reset">>) /\ rt' = mtc_simple_peer_discard(rt, p)
    <3>1. Keeps(rt', rt, {p})
      BY <1>0, <2>1, <2>3, ServerFacts, TopPeer, DiscardKeeps
    <3>2. Timely(stack') /\ Told(stack', p) /\ \A x : Told(stack, x) => Told(stack', x)
      BY <1>0, <2>1, <2>3, ThenTold
    <3> QED  BY <3>1, <3>2, QuietTold
  <2> QED  BY <2>1, <2>2, <2>3
<1>7. CASE ReceiveDropped
  <2>1. PICK status : rt' = [rt EXCEPT !.status[p] = status]
    BY <1>7 DEF ReceiveDropped
  <2>2. IsRouter(rt') /\ Core(rt') = Core(rt)
    BY <1>0, <2>1 DEF IsRouter, Fields, Core
  <2>3. UNCHANGED stack
    BY <1>7 DEF ReceiveDropped
  <2> QED  BY <1>0, <2>2, <2>3, OutsideTold
<1>8. CASE ReceiveEnds \/ Return
  <2>1. /\ stack # <<>> /\ Top.todo # <<>> /\ Then(<<>>) /\ UNCHANGED rt
        /\ Head(Top.todo) \notin Telling
    BY <1>8 DEF ReceiveEnds, Return, At, Telling
  <2>2. Timely(stack') /\ \A x : Told(stack, x) => Told(stack', x)
    BY <1>0, <2>1, ThenTold
  <2> QED  BY <1>0, <2>1, <2>2, OutsideTold
<1>9. CASE FrameEnds \/ StepReturns
  <2>1. /\ stack # <<>> /\ stack' = Tail(stack) /\ (rt' = LinkUnref(rt, p) \/ rt' = rt)
        /\ Top.todo = <<>> \/ (Top.todo # <<>> /\ Head(Top.todo) \in Loops)
    BY <1>9 DEF FrameEnds, StepReturns, At, Loops
  <2>2. IsRouter(rt') /\ Core(rt') = Core(rt)
    BY <1>0, <2>1, LinkUnrefCore
  <2>3. /\ Top \in Frames /\ TellsFirst(Top.todo) /\ Timely(Tail(stack))
        /\ \A x : Told(stack, x) <=> (Top.peer = x /\ Tells(Top.todo)) \/ Told(Tail(stack), x)
    BY <1>0, <2>1, ToldPop DEF Top
  <2>4. ~Tells(Top.todo)
    <3>1. CASE Top.todo = <<>>
      BY <3>1
    <3>2. CASE Top.todo # <<>> /\ Head(Top.todo) \in Loops
      <4>1. Top.todo \in Seq(Items) /\ Head(Top.todo) \notin Telling
        BY <2>3, <3>2 DEF Frames, Loops, Telling
      <4> QED  BY <2>3, <3>2, <4>1, TellsTail
    <3> QED  BY <2>1, <3>1, <3>2
  <2>5. Timely(stack') /\ \A x : Told(stack, x) => Told(stack', x)
    BY <2>1, <2>3, <2>4
  <2> QED  BY <2>2, <2>5, OutsideTold
<1> QED  BY <1>1, <1>2, <1>3, <1>4, <1>5, <1>6, <1>7, <1>8, <1>9 DEF LinkEvent

(* An event is a frame of its own, in a loop that goes on afterwards.      *)
LEMMA EventTold ==
  ASSUME ServerInv, ToldInv, sv'.holders = sv.holders, NEW p \in Peers, NEW flags,
         Event(p, flags)
  PROVE  ToldInv'
<1> USE ItemsTyped, ItemsTell
<1>0. Linked(rt) /\ IsRouter(rt) /\ stack \in Seq(Frames) /\ Timely(stack)
  BY ServerFacts DEF Linked, StepsHeld, ToldInv
<1> DEFINE f == EventFrame(p, flags)
<1>1. f \in Frames /\ TellsFirst(f.todo)
  <2> DEFINE a == IF "send" \in flags THEN <<"send">> ELSE <<>>
             b == IF "recv" \in flags THEN <<"recv">> ELSE <<>>
  <2>1. a \in Seq(Items) /\ b \in Seq(Items) /\ TellsFirst(a) /\ TellsFirst(b)
    OBVIOUS
  <2>2. ~Tells(b)
    BY DEF Tells, Telling
  <2>3. f.todo = a \o b
    BY DEF EventFrame, Frame
  <2> HIDE DEF a, b, f
  <2>4. TellsFirst(f.todo)
    BY <2>1, <2>2, <2>3, TellsJoined
  <2> QED  BY <2>4, EventFrameTyped DEF f
<1> HIDE DEF f
<1>2. IsRouter(rt') /\ Core(rt') = Core(rt)
  <2>1. rt' = [rt EXCEPT !.lrefs[p] = @ + 1]
    BY DEF Event
  <2> QED  BY <1>0, <2>1 DEF IsRouter, Fields, Core
<1>3. CASE stack = <<>> /\ stack' = <<f>>
  <2>1. stack' = <<f>> \o stack
    BY <1>1, <1>3
  <2>2. Timely(stack') /\ \A x : Told(stack, x) => Told(stack', x)
    BY <1>0, <1>1, <2>1, ToldPush
  <2> QED  BY <1>2, <2>2, OutsideTold
<1>4. CASE /\ At("wait")
           /\ stack' = <<f, [Top EXCEPT !.todo = Tail(@)]>> \o Tail(stack)
  <2> DEFINE g == [Top EXCEPT !.todo = Tail(@)]
             t == Tail(stack)
  <2>1. /\ stack # <<>> /\ Top.todo # <<>> /\ Head(Top.todo) \in Loops
        /\ Head(Top.todo) \notin Telling
    BY <1>4 DEF At, Loops, Telling
  <2>2. /\ Top \in Frames /\ t \in Seq(Frames) /\ TellsFirst(Top.todo) /\ Timely(t)
        /\ \A x : Told(stack, x) <=> (Top.peer = x /\ Tells(Top.todo)) \/ Told(t, x)
    BY <1>0, <2>1, ToldPop DEF Top
  <2>3. Top.todo \in Seq(Items)
    BY <2>2 DEF Frames
  <2>4. /\ Tail(Top.todo) \in Seq(Items) /\ TellsFirst(Tail(Top.todo))
        /\ ~Tells(Top.todo)
    BY <2>1, <2>2, <2>3, TellsTail
  <2>5. g \in Frames /\ g.todo = Tail(Top.todo)
    <3> DEFINE rest == Tail(Top.todo)
    <3>1. rest \in Seq(Items) /\ g = [Top EXCEPT !.todo = rest]
      BY <2>4
    <3> HIDE DEF g, rest
    <3>2. g \in Frames /\ g.todo = rest
      BY <2>2, <3>1 DEF Frames
    <3> QED  BY <3>2 DEF rest
  <2>6. stack' = <<f, g>> \o t
    BY <1>4
  <2> HIDE DEF g, t
  <2>7. stack' = <<f>> \o (<<g>> \o t) /\ <<g>> \o t \in Seq(Frames)
    BY <1>1, <2>2, <2>5, <2>6
  <2>8. Timely(<<g>> \o t) /\ \A x : Told(t, x) => Told(<<g>> \o t, x)
    BY <2>2, <2>4, <2>5, ToldPush
  <2>9. Timely(stack') /\ \A x : Told(<<g>> \o t, x) => Told(stack', x)
    BY <1>1, <2>7, <2>8, ToldPush
  <2>10. \A x : Told(stack, x) => Told(stack', x)
    BY <2>2, <2>4, <2>8, <2>9
  <2> QED  BY <1>2, <2>9, <2>10, OutsideTold
<1> QED  BY <1>3, <1>4 DEF Event, f

(* The remote ends, the events and the flusher.                            *)
LEMMA EnvironmentTold ==
  ASSUME ServerInv, ToldInv, sv'.holders = sv.holders, Environment
  PROVE  ToldInv'
<1>0. Linked(rt) /\ IsRouter(rt) /\ Timely(stack)
  BY ServerFacts DEF Linked, ToldInv
<1>1. ASSUME NEW p \in Peers, NEW what \in Kinds, RemoteSends(p, what)  PROVE ToldInv'
  BY <1>0, <1>1, OutsideTold DEF RemoteSends
<1>2. ASSUME NEW p \in Peers, FlushAbandons(p)  PROVE ToldInv'
  <2>1. IsRouter(rt') /\ Core(rt') = Core(rt) /\ UNCHANGED stack
    BY <1>0, <1>2, FlushEndsCore DEF FlushAbandons
  <2> QED  BY <1>0, <2>1, OutsideTold
<1> QED  BY <1>1, <1>2, EventTold DEF Environment

(* The notifications of a reset are that of the holder, if there is one,   *)
(* and the application's.                                                  *)
LEMMA NotifyTold ==
  ASSUME ServerInv, ToldInv, Notify
  PROVE  ToldInv'
<1> DEFINE p == Top.peer
<1>0. Linked(rt) /\ IsRouter(rt) /\ stack \in Seq(Frames) /\ Timely(stack)
  BY ServerFacts DEF Linked, StepsHeld, ToldInv
<1>1. stack # <<>> /\ Top.todo # <<>> /\ UNCHANGED <<rt, sv>>
  BY DEF Notify, At, serverVars
<1>2. CASE Held(p)
  <2>1. Then(<<"holder", "app">>) \/ Then(<<"app", "holder">>)
    BY <1>2 DEF Notify
  <2>2. <<"holder", "app">> \in Seq(Items) /\ <<"app", "holder">> \in Seq(Items)
    BY DEF Items
  <2>3. Timely(stack') /\ \A x : Told(stack, x) => Told(stack', x)
    BY <1>0, <1>1, <2>1, <2>2, ItemsTell, ThenTold
  <2> QED  BY <1>0, <1>1, <2>3, OutsideTold
<1>3. CASE ~Held(p)
  <2>1. Then(<<"app">>)
    BY <1>3 DEF Notify
  <2>2. Timely(stack') /\ \A x : Told(stack, x) /\ x # p => Told(stack', x)
    BY <1>0, <1>1, <2>1, ItemsTyped, ItemsTell, ThenTold
  <2>3. ~HeldIn(sv, p)
    BY <1>3 DEF Held, HeldIn
  <2> QED  BY <1>1, <2>2, <2>3 DEF ToldInv
<1> QED  BY <1>2, <1>3

(* That of a holder takes the peer out of the one set that holds it.       *)
LEMMA HolderNotifyTold ==
  ASSUME ServerInv, LinkInv, ToldInv, mtc_peer_holder_reset_notify
  PROVE  ToldInv'
<1> DEFINE p == Top.peer
<1>0. /\ Linked(rt) /\ stack \in Seq(Frames) /\ Timely(stack) /\ sv \in ServerState
      /\ \A s \in Sets : SetOk(sv, s)
  BY ServerFacts DEF StepsHeld, ToldInv, SetsOk
<1>1. stack # <<>> /\ Top.todo # <<>> /\ Then(<<>>)
  BY DEF mtc_peer_holder_reset_notify, At
<1>2. Timely(stack') /\ \A x : Told(stack, x) /\ x # p => Told(stack', x)
  BY <1>0, <1>1, ItemsTyped, ItemsTell, ThenTold
<1> SUFFICES \A x \in Peers : HeldIn(sv', x) /\ x \notin rt'.linked
                                => x # p /\ HeldIn(sv, x) /\ x \notin rt.linked
  BY <1>2 DEF ToldInv
<1>3. CASE ~Held(p)
  BY <1>3 DEF mtc_peer_holder_reset_notify, Held, HeldIn
<1>4. CASE Held(p)
  <2>1. PICK s \in Sets : /\ p \in sv.holders[s]
                          /\ Becomes(mtc_peer_holder_destroy(Both, s, {p}))
    BY <1>4 DEF mtc_peer_holder_reset_notify
  <2> DEFINE ps == {p}
             ev == EventCounts(stack)
             both == mtc_peer_holder_destroy([rt |-> rt, sv |-> sv], s, ps)
  <2>2. rt' = both.rt /\ sv' = both.sv
    BY <2>1 DEF Becomes, Both
  <2>3. 0 + Cardinality(LiveSets(sv)) > 0 /\ 0 \in Nat
    <3>1. sv.refs[s] \in Nat /\ (sv.refs[s] = 0 => sv.holders[s] = {})
      BY <1>0 DEF ServerState, SetOk
    <3>2. s \in LiveSets(sv)
      BY <2>1, <3>1 DEF LiveSets
    <3> QED  BY <3>2, ServerFacts, FS_EmptySet, FS_CardinalityType
  <2>4. ps \in SUBSET sv.holders[s] /\ ev \in [Peers -> Nat] /\ AllGood(rt, ev)
    BY <2>1, ServerFacts, LinkFacts
  <2>5. ~HeldIn(sv', p) /\ \A x : HeldIn(sv', x) => HeldIn(sv, x)
    <3> HIDE DEF ps
    <3>1. both.sv = Without(sv, s, ps) /\ Shares(both, rt, mine, held, 0)
      BY <2>3, <2>4, ServerFacts, HolderDestroyShares
    <3> HIDE DEF both
    <3>2. /\ sv.holders \in [Sets -> SUBSET Peers]
          /\ sv'.holders = [sv.holders EXCEPT ![s] = @ \ {p}]
      BY <1>0, <2>2, <3>1 DEF ServerState, Without, ps
    <3>3. \A z \in Sets : p \in sv.holders[z] => z = s
      BY <2>1, ServerFacts DEF Shared
    <3> HIDE DEF p
    <3> QED  BY <3>2, <3>3 DEF HeldIn
  <2>6. \A x \in Peers : HeldIn(sv', x) => rt'.refs[x] # 0
    <3>1. ServerInv'
      BY HolderNotifyServer
    <3>2. \A x \in Peers : rt'.refs[x] = One(x \in mine') + One(HeldIn(sv', x))
      BY <3>1 DEF ServerInv, Shared
    <3> QED  BY <3>2 DEF One
  <2>7. \A x \in Peers : HeldIn(sv', x) /\ x \notin rt'.linked => x \notin rt.linked
    <3> HIDE DEF ps, ev
    <3>1. Unharmed(both.rt, rt, ev)
      BY <1>0, <2>3, <2>4, ServerFacts, HolderDestroyUnharmed
    <3> HIDE DEF both
    <3> QED  BY <2>2, <2>6, <3>1 DEF Unharmed
  <2> QED  BY <2>5, <2>7
<1> QED  BY <1>3, <1>4

(* Every step of the server.                                               *)
LEMMA ToldNext ==
  ASSUME ServerInv, ServerInv', LinkInv, ToldInv, [ServerNext]_vars
  PROVE  ToldInv'
<1>1. CASE UNCHANGED vars
  BY <1>1 DEF vars, routerVars, serverVars, ToldInv
<1>2. CASE Calls
  <2>1. Steady
    BY <1>2, CallsSteady
  <2>2. UNCHANGED stack
    <3>1. CASE ServerCalls
      <4>1. ASSUME NEW s \in Sets,
                   \/ PeerSetNew(s) \/ PeerSetRef(s) \/ PeerSetUnref(s) \/ SetPeerSet(s)
                   \/ \E p \in Peers, close_fd \in BOOLEAN : PeerSetAdd(s, p, close_fd)
            PROVE  UNCHANGED stack
        BY <4>1 DEF PeerSetNew, PeerSetRef, PeerSetUnref, SetPeerSet, PeerSetAdd, routerVars
      <4>2. CASE \E p \in Peers : PeerRef(p)
        BY <4>2 DEF PeerRef
      <4>3. CASE ListenerBack \/ ListenerRef \/ ListenerUnref \/ UnsetPeerSet
        BY <4>3 DEF ListenerBack, ListenerRef, ListenerUnref, UnsetPeerSet, routerVars
      <4>4. CASE \E val \in BOOLEAN : SetActive(val) \/ SetCloseFd(val)
        BY <4>4 DEF SetActive, SetCloseFd, routerVars
      <4> QED  BY <3>1, <4>1, <4>2, <4>3, <4>4 DEF ServerCalls
    <3>2. CASE Listening
      BY <3>2 DEF Listening, Connect, Withdraw, FoundReady, Accept, AcceptFails, routerVars
    <3>3. CASE ~ServerCalls /\ ~Listening
      BY <1>2, <3>3 DEF Calls, AppUnrefRouter, RouterAdd, AppUnref
    <3> QED  BY <3>1, <3>2, <3>3
  <2> QED  BY <2>1, <2>2 DEF Steady, ToldInv
<1>3. CASE RouterSteps /\ Application /\ ~AppUnrefRouter /\ \A p \in Peers : ~AppUnref(p)
  <2>1. sv'.holders = sv.holders
    BY <1>3 DEF RouterSteps, serverVars
  <2> QED  BY <1>3, <2>1, ApplicationTold
<1>4. CASE RouterSteps /\ (LinkEvent \/ Environment)
  <2>1. sv'.holders = sv.holders
    BY <1>4 DEF RouterSteps, serverVars
  <2> QED  BY <1>4, <2>1, LinkEventTold, EnvironmentTold
<1>5. CASE Notifying
  BY <1>5, NotifyTold, HolderNotifyTold DEF Notifying
<1> QED  BY <1>1, <1>2, <1>3, <1>4, <1>5 DEF ServerNext, RouterSteps, Calls

(* A set does not collect dead connections: a peer without a link is in it *)
(* only while a reset that will tell the set is on its way, whatever the   *)
(* application calls from the callbacks in between (simple_server.c:58,    *)
(* simple_router.c:198).                                                   *)
THEOREM HoldersAreConnected == ServerSpec => []HoldersConnected
<1>1. ServerInit => ToldInv
  <2> SUFFICES ASSUME ServerInit  PROVE ToldInv
    OBVIOUS
  <2>1. stack = <<>> /\ \A s \in Sets : sv.holders[s] = {}
    BY DEF ServerInit, Init
  <2> QED  BY <2>1 DEF ToldInv, Timely, HeldIn
<1>2. (ServerInv /\ LinkInv) /\ (ServerInv /\ LinkInv)' /\ ToldInv /\ [ServerNext]_vars => ToldInv'
  BY ToldNext
<1>3. ToldInv => HoldersConnected
  BY DEF ToldInv, Told, Tells, Telling, HoldersConnected, Held, HeldIn
<1> QED  BY <1>1, <1>2, <1>3, ServerLinkInvariant, PTL DEF ServerSpec

=============================================================================
