------------------------- MODULE FdLinkEventsProofs -------------------------
(***************************************************************************)
(* Wherever an application can see a link, every backend waits for just    *)
(* what the link needs, and every call that runs finds its event test and  *)
(* its link: for every set of backends, however calls nest in each other   *)
(* and whatever their callbacks do.                                        *)
(***************************************************************************)
EXTENDS FdLinkEvents, FiniteSetTheorems, FunctionTheorems, TLAPS

One(condition) == IF condition THEN 1 ELSE 0

(* The tests that the running calls in s refer to.                         *)
RunningIn(s) == {s[k].test : k \in 1..Len(s)}
Running == RunningIn(stack)

(* No base runs inside itself.                                             *)
OneCallEach(running) == \A x, y \in running : x[1] = y[1] => x = y

ListedIn(ts) == {x \in DOMAIN ts : ~ts[x].disposed}

(* The tests ts with their references: one of the list, if it is in it,    *)
(* one of the running call.  libevent only calls those in a list, and of   *)
(* them there is one for each backend and index.                           *)
Sound(ts, running) ==
  /\ DOMAIN ts \subseteq TestIds
  /\ ts \in [DOMAIN ts -> LevTest]
  /\ running \subseteq DOMAIN ts
  /\ \A x \in DOMAIN ts :
       /\ ts[x].refcount = One(~ts[x].disposed) + One(x \in running)
       /\ ts[x].active # {} => ~ts[x].disposed
  /\ \A x, y \in ListedIn(ts) : x[1] = y[1] /\ x[2] = y[2] => x = y

(* While they are on, those in a list wait for events, one of each backend *)
(* in bs and index.                                                        *)
Fits(ts, bs, events, on) ==
  /\ \A x \in ListedIn(ts) :
       on /\ x[1] \in bs /\ ts[x].flags = mtc_poll_to_lev(events[x[2]])
  /\ on => \A b \in bs, i \in TestList :
             \E x \in ListedIn(ts) : x[1] = b /\ x[2] = i

(* The inductive invariant.                                                *)
Accounted == dropped + Len(incoming) <= n_sent_in
TestsFit ==
  ~freed =>
    /\ prepared = (enabled /\ ~mtc_link_is_broken)
    /\ Fits(lev, backs, tests.events, prepared)
FreedIsGone == freed => ~held /\ stack = <<>> /\ DOMAIN lev = {}
AllOff(s) == \A k \in 1..Len(s) : s[k].off
OffIsNoted == ~enabled => AllOff(stack)
Apart(s) == \A j, k \in 1..Len(s) : s[j].test[1] = s[k].test[1] => j = k
FramesApart == Apart(stack)

EventInv ==
  /\ TypeOK /\ Accounted /\ IsFiniteSet(backs)
  /\ Sound(lev, Running) /\ FramesApart
  /\ TestsUpToDate /\ TestsFit /\ FreedIsGone /\ OffIsNoted

-----------------------------------------------------------------------------
(* The tests of the backends.                                              *)

(* A test is known by its backend, its index and its generation.           *)
LEMMA IdFacts ==
  ASSUME NEW x \in TestIds
  PROVE  /\ x[1] \in Backends /\ x[2] \in TestList /\ x[3] \in {0, 1}
         /\ x = <<x[1], x[2], x[3]>>
  BY DEF TestIds

(* The name of a test is made of its backend, its place in the list and its generation. *)
LEMMA IdOf ==
  ASSUME NEW b \in Backends, NEW i \in TestList, NEW g \in {0, 1}, NEW x, x = <<b, i, g>>
  PROVE  x \in TestIds /\ x[1] = b /\ x[2] = i /\ x[3] = g
  BY DEF TestIds

(* ... and these three tell it from every other. *)
LEMMA SameId ==
  ASSUME NEW x \in TestIds, NEW y \in TestIds, x[1] = y[1], x[2] = y[2], x[3] = y[3]
  PROVE  x = y
  BY DEF TestIds

(* A test that is disposed of while a call refers to it.                   *)
LEMMA DisposedTest ==
  ASSUME NEW t \in LevTest, t.refcount = 2
  PROVE  LET g == [t EXCEPT !.disposed = TRUE, !.active = {}, !.refcount = @ - 1]
         IN  g \in LevTest /\ g.disposed /\ g.active = {} /\ g.refcount = 1
  <1> DEFINE a == [t EXCEPT !.disposed = TRUE]
             b == [a EXCEPT !.active = {}]
             g == [b EXCEPT !.refcount = @ - 1]
  <1>1. a \in LevTest /\ a.disposed /\ a.refcount = 2
    BY DEF LevTest
  <1> HIDE DEF a
  <1>2. b \in LevTest /\ b.disposed /\ b.active = {} /\ b.refcount = 2
    BY <1>1 DEF LevTest
  <1> HIDE DEF b
  <1>3. g \in LevTest /\ g.disposed /\ g.active = {} /\ g.refcount = 1
    BY <1>2 DEF LevTest
  <1> QED  BY <1>3 DEF a, b, g

(* What the backends in bs dispose of is gone from their lists, and stays  *)
(* only where a call refers to it; all else is as it was.                  *)
LEMMA PurgeFacts ==
  ASSUME NEW ts, NEW R, Sound(ts, R), NEW bs
  PROVE  LET new == Purge(ts, bs)
         IN  /\ Sound(new, R) /\ DOMAIN new \subseteq DOMAIN ts
             /\ ListedIn(new) = {x \in ListedIn(ts) : x[1] \notin bs}
             /\ \A x \in ListedIn(new) : new[x] = ts[x]
             /\ \A x \in DOMAIN new : x[1] \in bs => x \in R
  <1> DEFINE listed(x) == x[1] \in bs /\ ~ts[x].disposed
             kept == {x \in DOMAIN ts : listed(x) => ts[x].refcount > 1}
             new == Purge(ts, bs)
             gone(x) == [ts[x] EXCEPT !.disposed = TRUE, !.active = {}, !.refcount = @ - 1]
  <1>1. /\ DOMAIN new = kept
        /\ \A x \in kept : new[x] = IF listed(x) THEN gone(x) ELSE ts[x]
    BY DEF Purge
  <1> HIDE DEF new
  <1>2. \A x \in DOMAIN ts : /\ ts[x] \in LevTest
                             /\ ts[x].refcount = One(~ts[x].disposed) + One(x \in R)
    BY DEF Sound
  <1>3. \A x \in kept : listed(x) => x \in R /\ ts[x].refcount = 2 /\ ~ts[x].disposed
    BY <1>2 DEF One
  <1>4. ASSUME NEW x \in kept, listed(x)
        PROVE  /\ new[x] \in LevTest /\ new[x].disposed /\ new[x].active = {}
               /\ new[x].refcount = 1
    <2>1. new[x] = gone(x) /\ ts[x] \in LevTest /\ ts[x].refcount = 2
      BY <1>1, <1>2, <1>3, <1>4
    <2> QED  BY <2>1, DisposedTest
  <1>5. ASSUME NEW x \in kept, ~listed(x) PROVE new[x] = ts[x]
    BY <1>1, <1>5
  <1>6. ListedIn(new) = {x \in ListedIn(ts) : x[1] \notin bs}
    BY <1>1, <1>4, <1>5 DEF ListedIn
  <1>7. \A x \in ListedIn(new) : new[x] = ts[x]
    BY <1>1, <1>5, <1>6 DEF ListedIn
  <1>8. R \subseteq kept
    <2>1. R \subseteq DOMAIN ts
      BY DEF Sound
    <2> QED  BY <1>2, <2>1 DEF One
  <1>9. new \in [DOMAIN new -> LevTest]
    <2>1. \A x \in kept : new[x] \in LevTest
      BY <1>2, <1>4, <1>5
    <2>2. new = [x \in kept |-> new[x]]
      BY <1>1 DEF new, Purge
    <2> QED  BY <1>1, <2>1, <2>2
  <1>10. \A x \in kept : /\ new[x].refcount = One(~new[x].disposed) + One(x \in R)
                         /\ new[x].active # {} => ~new[x].disposed
    BY <1>2, <1>3, <1>4, <1>5 DEF One, Sound
  <1>11. \A x \in kept : x[1] \in bs => x \in R
    <2>1. ASSUME NEW x \in kept, x[1] \in bs, ts[x].disposed PROVE x \in R
      <3>1. ts[x].refcount \in Nat \ {0}
        BY <1>2 DEF LevTest
      <3> QED  BY <1>2, <2>1, <3>1 DEF One
    <2> QED  BY <1>3, <2>1
  <1>12. Sound(new, R)
    <2>1. kept \subseteq TestIds
      BY DEF Sound
    <2>2. \A x, y \in ListedIn(new) : x[1] = y[1] /\ x[2] = y[2] => x = y
      BY <1>6 DEF Sound
    <2> QED  BY <1>1, <1>8, <1>9, <1>10, <2>1, <2>2 DEF Sound
  <1> QED  BY <1>1, <1>6, <1>7, <1>11, <1>12 DEF new

(* What is prepared for the backends in bs: one new test for each index,   *)
(* of a generation that no call refers to.                                 *)
NewTest(events, x) == mtc_lev_test_new(mtc_poll_to_lev(events[x[2]]))

(* mtc_lev_test_new makes a test with one reference that nobody is about to call. *)
LEMMA NewTestType ==
  ASSUME NEW events \in [1..2 -> Pollable], NEW x \in TestIds
  PROVE  /\ NewTest(events, x) \in LevTest /\ NewTest(events, x).refcount = 1
         /\ ~NewTest(events, x).disposed /\ NewTest(events, x).active = {}
         /\ NewTest(events, x).flags = mtc_poll_to_lev(events[x[2]])
  <1>1. x[2] \in 1..2 /\ events[x[2]] \in SUBSET {MTC_POLLIN, MTC_POLLOUT}
    BY IdFacts DEF TestList, Pollable
  <1>2. \A e \in {MTC_POLLIN, MTC_POLLOUT} : translator[e] \in Flags
    BY DEF translator, Flags, MTC_POLLIN, MTC_POLLOUT
  <1>3. mtc_poll_to_lev(events[x[2]]) \in SUBSET Flags
    BY <1>1, <1>2 DEF mtc_poll_to_lev, Flags
  <1> HIDE DEF mtc_poll_to_lev
  <1> QED  BY <1>3 DEF NewTest, mtc_lev_test_new, LevTest

Renewed(ts, new, R, bs, events) ==
  /\ Sound(new, R)
  /\ \A x \in ListedIn(ts) : x[1] \notin bs => x \in ListedIn(new) /\ new[x] = ts[x]
  /\ \A b \in bs, i \in TestList : \E x \in ListedIn(new) : x[1] = b /\ x[2] = i
  /\ \A x \in ListedIn(new) :
       IF x[1] \in bs THEN new[x].flags = mtc_poll_to_lev(events[x[2]])
                      ELSE x \in ListedIn(ts) /\ new[x] = ts[x]

(* mtc_lev_event_backend_prepare leaves a sound set of tests: those of the backends are new,
   the old ones stay only as far as somebody is in them. *)
LEMMA PrepareFacts ==
  ASSUME NEW ts, NEW R, Sound(ts, R), OneCallEach(R),
         NEW bs \in SUBSET Backends, NEW events \in [1..2 -> Pollable]
  PROVE  Renewed(ts, Prepare(ts, bs, events), R, bs, events)
  <1> DEFINE old == Purge(ts, bs)
             gen(b, i) == IF <<b, i, 0>> \in DOMAIN old THEN 1 ELSE 0
             fresh == NewTests(old, bs)
             new == Prepare(ts, bs, events)
  <1>1. /\ Sound(old, R)
        /\ ListedIn(old) = {x \in ListedIn(ts) : x[1] \notin bs}
        /\ \A x \in ListedIn(old) : old[x] = ts[x]
        /\ \A x \in DOMAIN old : x[1] \in bs => x \in R
    BY PurgeFacts
  <1>2. /\ DOMAIN new = DOMAIN old \cup fresh
        /\ \A x \in DOMAIN new : new[x] = IF x \in fresh THEN NewTest(events, x) ELSE old[x]
        /\ new = [x \in DOMAIN old \cup fresh |-> new[x]]
    <2>1. new = [x \in DOMAIN old \cup fresh |->
                   IF x \in fresh THEN NewTest(events, x) ELSE old[x]]
      BY Zenon DEF Prepare, NewTest
    <2> HIDE DEF new, old, fresh, NewTest
    <2> QED  BY <2>1
  <1> HIDE DEF new, old
  <1>3. ASSUME NEW x \in fresh
        PROVE  /\ x \in TestIds /\ x[1] \in bs /\ x[2] \in TestList
               /\ x[3] = IF <<x[1], x[2], 0>> \in DOMAIN old THEN 1 ELSE 0
    <2>1. PICK b \in bs, i \in TestList : x = <<b, i, gen(b, i)>>
      BY DEF NewTests
    <2>2. gen(b, i) \in {0, 1} /\ b \in Backends
      OBVIOUS
    <2> HIDE DEF fresh
    <2>3. x \in TestIds /\ x[1] = b /\ x[2] = i /\ x[3] = gen(b, i)
      <3> HIDE DEF gen
      <3> QED  BY <2>1, <2>2, IdOf
    <2> QED  BY <2>3
  <1>4. ASSUME NEW b \in bs, NEW i \in TestList
        PROVE  \E x \in fresh : x[1] = b /\ x[2] = i
    <2>1. <<b, i, gen(b, i)>> \in fresh
      BY DEF NewTests
    <2>2. gen(b, i) \in {0, 1} /\ b \in Backends
      OBVIOUS
    <2> HIDE DEF fresh, gen
    <2>3. <<b, i, gen(b, i)>>[1] = b /\ <<b, i, gen(b, i)>>[2] = i
      BY <2>2, IdOf
    <2> QED  BY <2>1, <2>3
  <1> HIDE DEF fresh
  <1>5. ASSUME NEW x \in fresh PROVE x \notin DOMAIN old
    <2>1. DOMAIN old \subseteq TestIds /\ R \subseteq DOMAIN old
      BY <1>1 DEF Sound
    <2>2. x = <<x[1], x[2], x[3]>>
      BY <1>3, IdFacts
    <2>3. CASE <<x[1], x[2], 0>> \in DOMAIN old
      <3>1. PICK y : y = <<x[1], x[2], 0>>
        OBVIOUS
      <3>2. y[1] = x[1] /\ y[3] = 0 /\ x[3] = 1 /\ y \in DOMAIN old
        BY <1>3, <2>3, <3>1
      <3>3. y \in R /\ (x \in DOMAIN old => x \in R)
        BY <1>1, <1>3, <3>2
      <3> QED  BY <3>2, <3>3 DEF OneCallEach
    <2>4. CASE <<x[1], x[2], 0>> \notin DOMAIN old
      <3>1. x[3] = 0
        BY <1>3, <2>4
      <3> QED  BY <2>2, <2>4, <3>1
    <2> QED  BY <2>3, <2>4
  <1>6. \A x, y \in fresh : x[1] = y[1] /\ x[2] = y[2] => x = y
    BY <1>3, SameId
  <1>7. \A x \in fresh : /\ new[x] \in LevTest /\ new[x].refcount = 1
                         /\ ~new[x].disposed /\ new[x].active = {}
                         /\ new[x].flags = mtc_poll_to_lev(events[x[2]])
    <2>1. \A x \in fresh : new[x] = NewTest(events, x) /\ x \in TestIds
      BY <1>2, <1>3
    <2> QED  BY <2>1, NewTestType
  <1>8. \A x \in DOMAIN old : x \notin fresh /\ new[x] = old[x]
    BY <1>2, <1>5
  <1>9. ListedIn(new) = ListedIn(old) \cup fresh
    BY <1>2, <1>7, <1>8 DEF ListedIn
  <1>10. Sound(new, R)
    <2>1. DOMAIN new \subseteq TestIds /\ R \subseteq DOMAIN new
      BY <1>1, <1>2, <1>3 DEF Sound
    <2>2. new \in [DOMAIN new -> LevTest]
      <3>1. \A x \in DOMAIN new : new[x] \in LevTest
        BY <1>1, <1>2, <1>7, <1>8 DEF Sound
      <3> QED  BY <1>2, <3>1
    <2>3. ASSUME NEW x \in DOMAIN new
          PROVE  /\ new[x].refcount = One(~new[x].disposed) + One(x \in R)
                 /\ new[x].active # {} => ~new[x].disposed
      <3>1. CASE x \in fresh
        <4>1. x \notin R
          BY <1>1, <1>5, <3>1 DEF Sound
        <4> QED  BY <1>7, <3>1, <4>1 DEF One
      <3>2. CASE x \in DOMAIN old
        BY <1>1, <1>8, <3>2 DEF Sound
      <3> QED  BY <1>2, <3>1, <3>2
    <2>4. ASSUME NEW x \in ListedIn(new), NEW y \in ListedIn(new),
                 x[1] = y[1], x[2] = y[2]
          PROVE  x = y
      <3>1. x \in fresh <=> x[1] \in bs
        BY <1>1, <1>3, <1>9
      <3>2. y \in fresh <=> y[1] \in bs
        BY <1>1, <1>3, <1>9
      <3> QED  BY <1>1, <1>6, <1>9, <2>4, <3>1, <3>2 DEF Sound
    <2> QED  BY <2>1, <2>2, <2>3, <2>4 DEF Sound
  <1>11. \A x \in ListedIn(ts) : x[1] \notin bs => x \in ListedIn(new) /\ new[x] = ts[x]
    BY <1>1, <1>8, <1>9 DEF ListedIn
  <1>12. \A x \in ListedIn(new) :
           IF x[1] \in bs THEN new[x].flags = mtc_poll_to_lev(events[x[2]])
                          ELSE x \in ListedIn(ts) /\ new[x] = ts[x]
    BY <1>1, <1>3, <1>7, <1>8, <1>9 DEF ListedIn
  <1> QED  BY <1>4, <1>9, <1>10, <1>11, <1>12 DEF new, Renewed

(* mtc_event_source_prepare of all backends, with tests and with NULL; and *)
(* of one that joins them, or leaves.                                      *)
LEMMA PrepareFits ==
  ASSUME NEW ts, NEW R, Sound(ts, R), OneCallEach(R), NEW bs \in SUBSET Backends,
         NEW old, NEW on, Fits(ts, bs, old, on), NEW events \in [1..2 -> Pollable]
  PROVE  Fits(Prepare(ts, bs, events), bs, events, TRUE)
  <1> DEFINE new == Prepare(ts, bs, events)
  <1>1. Renewed(ts, new, R, bs, events)
    BY PrepareFacts
  <1> HIDE DEF new
  <1>2. \A x \in ListedIn(ts) : x[1] \in bs
    BY DEF Fits
  <1> QED  BY <1>1, <1>2 DEF Fits, Renewed, new

(* Backends whose tests are thrown away fit a link with its events off. *)
LEMMA PurgeFits ==
  ASSUME NEW ts, NEW R, Sound(ts, R), NEW bs,
         NEW old, NEW on, Fits(ts, bs, old, on), NEW events
  PROVE  Fits(Purge(ts, bs), bs, events, FALSE)
  BY PurgeFacts DEF Fits

(* A backend that is prepared when it is attached fits in with the others. *)
LEMMA JoinFits ==
  ASSUME NEW ts, NEW R, Sound(ts, R), OneCallEach(R), NEW bs \in SUBSET Backends,
         NEW b \in Backends \ bs, NEW events \in [1..2 -> Pollable],
         Fits(ts, bs, events, TRUE)
  PROVE  Fits(Prepare(ts, {b}, events), bs \cup {b}, events, TRUE)
  <1> DEFINE new == Prepare(ts, {b}, events)
  <1>1. {b} \in SUBSET Backends
    OBVIOUS
  <1>2. Renewed(ts, new, R, {b}, events)
    BY <1>1, PrepareFacts
  <1> HIDE DEF new
  <1>3. \A x \in ListedIn(new) :
          x[1] \in bs \cup {b} /\ new[x].flags = mtc_poll_to_lev(events[x[2]])
    BY <1>2 DEF Fits, Renewed
  <1>4. ASSUME NEW c \in bs \cup {b}, NEW i \in TestList
        PROVE  \E x \in ListedIn(new) : x[1] = c /\ x[2] = i
    <2>1. CASE c = b
      BY <1>2, <2>1 DEF Renewed
    <2>2. CASE c # b
      <3>1. PICK x \in ListedIn(ts) : x[1] = c /\ x[2] = i
        BY <2>2 DEF Fits
      <3> QED  BY <1>2, <2>2, <3>1 DEF Renewed
    <2> QED  BY <2>1, <2>2
  <1> QED  BY <1>3, <1>4 DEF Fits, new

(* A backend that is purged when it is detached leaves the others as they fit. *)
LEMMA LeaveFits ==
  ASSUME NEW ts, NEW R, Sound(ts, R), NEW bs, NEW b,
         NEW events, NEW on, Fits(ts, bs, events, on)
  PROVE  Fits(Purge(ts, {b}), bs \ {b}, events, on)
  <1>1. /\ ListedIn(Purge(ts, {b})) = {x \in ListedIn(ts) : x[1] \notin {b}}
        /\ \A x \in ListedIn(Purge(ts, {b})) : Purge(ts, {b})[x] = ts[x]
    BY PurgeFacts
  <1> QED  BY <1>1 DEF Fits

-----------------------------------------------------------------------------
(* The calls that run.                                                     *)

(* No test is of two calls.                                                *)
LEMMA ApartFacts ==
  ASSUME NEW s, Apart(s)
  PROVE  OneCallEach(RunningIn(s))
  BY DEF Apart, OneCallEach, RunningIn

(* The same calls, further on.                                             *)
SameCalls(s, t) ==
  /\ t \in Seq(Frame) /\ Len(t) = Len(s)
  /\ \A k \in 1..Len(s) : t[k].test = s[k].test /\ (s[k].off => t[k].off)

(* Two stacks with the same calls agree in all that the tests know of them. *)
LEMMA SameCallsFacts ==
  ASSUME NEW s \in Seq(Frame), NEW t, SameCalls(s, t)
  PROVE  /\ RunningIn(t) = RunningIn(s) /\ (Apart(s) => Apart(t))
         /\ (AllOff(s) => AllOff(t)) /\ (t = <<>> <=> s = <<>>)
  <1>1. RunningIn(t) = RunningIn(s)
    BY DEF SameCalls, RunningIn
  <1>2. Apart(s) => Apart(t)
    BY DEF SameCalls, Apart
  <1>3. AllOff(s) => AllOff(t)
    BY DEF SameCalls, AllOff
  <1>4. t = <<>> <=> s = <<>>
    BY DEF SameCalls
  <1> QED  BY <1>1, <1>2, <1>3, <1>4

(* Calls that stay as they are; one that goes on at another place.         *)
LEMMA UnchangedCalls ==
  ASSUME NEW s \in Seq(Frame)
  PROVE  SameCalls(s, s)
  BY DEF SameCalls

(* The frame on top is that of a call that runs. *)
LEMMA HeadFrame ==
  ASSUME NEW s \in Seq(Frame), s # <<>>
  PROVE  /\ Head(s) \in Frame /\ Head(s) = s[1] /\ Len(s) \in Nat \ {0}
         /\ Head(s).test \in RunningIn(s)
  BY DEF RunningIn

(* A frame that moves on inside of mtc_fd_link_event_source_event stays the same call. *)
LEMMA MovedCall ==
  ASSUME NEW s \in Seq(Frame), s # <<>>, NEW f \in Frame,
         f.test = Head(s).test, f.off = Head(s).off
  PROVE  SameCalls(s, <<f>> \o Tail(s))
  <1> DEFINE t == <<f>> \o Tail(s)
  <1>1. t \in Seq(Frame) /\ Len(t) = Len(s) /\ t[1] = f
    OBVIOUS
  <1>2. \A k \in 2..Len(s) : t[k] = s[k]
    OBVIOUS
  <1> HIDE DEF t
  <1>3. \A k \in 1..Len(s) : t[k].test = s[k].test /\ (s[k].off => t[k].off)
    BY <1>1, <1>2, HeadFrame
  <1> QED  BY <1>1, <1>3 DEF SameCalls, t

(* A call that begins, of a base that does not run.                        *)
LEMMA NewCall ==
  ASSUME NEW s \in Seq(Frame), NEW f \in Frame
  PROVE  LET t == <<f>> \o s
         IN  /\ t \in Seq(Frame) /\ t # <<>> /\ RunningIn(t) = RunningIn(s) \cup {f.test}
             /\ (AllOff(s) /\ f.off => AllOff(t))
             /\ (Apart(s) /\ (\A x \in RunningIn(s) : x[1] # f.test[1]) => Apart(t))
  <1> DEFINE t == <<f>> \o s
  <1>1. t \in Seq(Frame) /\ Len(t) = Len(s) + 1 /\ t[1] = f /\ Len(s) \in Nat
    OBVIOUS
  <1>2. \A k \in 1..Len(s) : t[k + 1] = s[k]
    OBVIOUS
  <1> HIDE DEF t
  <1>3. ASSUME NEW k \in 1..Len(t)
        PROVE  k = 1 \/ (k - 1 \in 1..Len(s) /\ t[k] = s[k - 1])
    BY <1>1, <1>2
  <1>4. RunningIn(t) = RunningIn(s) \cup {f.test}
    <2>1. ASSUME NEW x \in RunningIn(t) PROVE x \in RunningIn(s) \cup {f.test}
      BY <1>1, <1>3 DEF RunningIn
    <2>2. ASSUME NEW x \in RunningIn(s) PROVE x \in RunningIn(t)
      <3>1. PICK k \in 1..Len(s) : x = s[k].test
        BY DEF RunningIn
      <3>2. k + 1 \in 1..Len(t) /\ t[k + 1].test = x
        BY <1>1, <1>2, <3>1
      <3> QED  BY <3>2 DEF RunningIn
    <2>3. f.test \in RunningIn(t)
      BY <1>1 DEF RunningIn
    <2> QED  BY <2>1, <2>2, <2>3
  <1>5. AllOff(s) /\ f.off => AllOff(t)
    BY <1>1, <1>3 DEF AllOff
  <1>6. ASSUME Apart(s), \A x \in RunningIn(s) : x[1] # f.test[1],
               NEW j \in 1..Len(t), NEW k \in 1..Len(t), t[j].test[1] = t[k].test[1]
        PROVE  j = k
    <2>1. \A i \in 1..Len(s) : s[i].test[1] # f.test[1]
      BY <1>6 DEF RunningIn
    <2>2. CASE j = 1
      BY <1>1, <1>3, <1>6, <2>1, <2>2
    <2>3. CASE k = 1
      BY <1>1, <1>3, <1>6, <2>1, <2>3
    <2>4. CASE j # 1 /\ k # 1
      <3>1. j - 1 \in 1..Len(s) /\ k - 1 \in 1..Len(s) /\ t[j] = s[j - 1] /\ t[k] = s[k - 1]
        BY <1>3, <2>4
      <3>2. j - 1 = k - 1
        BY <1>6, <3>1 DEF Apart
      <3> QED  BY <1>1, <3>2
    <2> QED  BY <2>2, <2>3, <2>4
  <1> QED  BY <1>1, <1>4, <1>5, <1>6 DEF Apart, t

(* The innermost call returns.                                             *)
LEMMA DoneCall ==
  ASSUME NEW s \in Seq(Frame), s # <<>>, Apart(s)
  PROVE  /\ Tail(s) \in Seq(Frame) /\ Apart(Tail(s)) /\ (AllOff(s) => AllOff(Tail(s)))
         /\ RunningIn(Tail(s)) = RunningIn(s) \ {Head(s).test}
         /\ (Tail(s) = <<>> <=> Len(s) = 1)
  <1> DEFINE t == Tail(s)
  <1>1. t \in Seq(Frame) /\ Len(t) = Len(s) - 1 /\ Len(s) \in Nat \ {0} /\ Head(s) = s[1]
    OBVIOUS
  <1>2. \A k \in 1..Len(t) : t[k] = s[k + 1]
    OBVIOUS
  <1>3. t = <<>> <=> Len(s) = 1
    BY <1>1
  <1> HIDE DEF t
  <1>4. Apart(t)
    BY <1>1, <1>2 DEF Apart
  <1>5. AllOff(s) => AllOff(t)
    BY <1>1, <1>2 DEF AllOff
  <1>6. RunningIn(t) = RunningIn(s) \ {Head(s).test}
    <2>1. ASSUME NEW k \in 1..Len(t)
          PROVE  t[k].test \in RunningIn(s) /\ t[k].test # Head(s).test
      <3>1. k + 1 \in 1..Len(s) /\ k + 1 # 1 /\ 1 \in 1..Len(s) /\ t[k] = s[k + 1]
        BY <1>1, <1>2
      <3> QED  BY <1>1, <3>1 DEF Apart, RunningIn
    <2>2. ASSUME NEW k \in 1..Len(s), s[k].test # Head(s).test
          PROVE  s[k].test \in RunningIn(t)
      <3>1. k - 1 \in 1..Len(t) /\ t[k - 1] = s[k]
        BY <1>1, <1>2, <2>2
      <3> QED  BY <3>1 DEF RunningIn
    <2> QED  BY <2>1, <2>2 DEF RunningIn
  <1> QED  BY <1>1, <1>3, <1>4, <1>5, <1>6 DEF t

-----------------------------------------------------------------------------
(* What the tests are and the rest of the state.                           *)
Tests == [events : [1..2 -> Pollable], revents : [1..2 -> Pollable]]

LinkOK ==
  /\ in_status \in Status /\ out_status \in Status /\ enabled \in BOOLEAN
  /\ held \in BOOLEAN /\ freed \in BOOLEAN /\ unsent \in Seq(BOOLEAN)
  /\ prepared \in BOOLEAN
PeerOK ==
  /\ incoming \in Seq({"msg", "stop", "eof"}) /\ writable \in BOOLEAN
  /\ n_queued \in 0..MaxQueue /\ n_sent_in \in 0..MaxIn /\ dropped \in Nat /\ Accounted

(* The same invariant, in the parts that the actions keep.                 *)
Parts ==
  /\ LinkOK /\ PeerOK /\ tests \in Tests /\ stack \in Seq(Frame)
  /\ backs \in SUBSET Backends /\ IsFiniteSet(backs)
  /\ Sound(lev, Running) /\ FramesApart
  /\ TestsUpToDate /\ TestsFit /\ FreedIsGone /\ OffIsNoted

(* The invariant, in the form that the steps are proved for. *)
LEMMA PartsOfInv == EventInv <=> Parts
  <1> USE EventAssumptions
  <1>1. ASSUME Parts PROVE EventInv
    <2>1. dropped \in 0..MaxIn
      BY <1>1 DEF Parts, PeerOK, Accounted
    <2>2. DOMAIN lev \in SUBSET TestIds /\ lev \in [DOMAIN lev -> LevTest]
      BY <1>1 DEF Parts, Sound
    <2>3. TypeOK
      BY <1>1, <2>1, <2>2 DEF Parts, LinkOK, PeerOK, Tests, TypeOK
    <2> QED  BY <1>1, <2>3 DEF Parts, PeerOK, EventInv
  <1>2. ASSUME EventInv PROVE Parts
    <2>1. LinkOK /\ tests \in Tests /\ stack \in Seq(Frame) /\ backs \in SUBSET Backends
      BY <1>2 DEF EventInv, TypeOK, LinkOK, Tests
    <2>2. PeerOK
      BY <1>2 DEF EventInv, TypeOK, PeerOK
    <2> QED  BY <1>2, <2>1, <2>2 DEF EventInv, Parts
  <1> QED  BY <1>1, <1>2

(* mtc_fd_link_calc_events asks for nothing that cannot be polled for. *)
LEMMA CalcType ==
  ASSUME NEW ins, NEW outs, NEW data
  PROVE  mtc_fd_link_calc_events(ins, outs, data) \in [1..2 -> Pollable]
  BY DEF mtc_fd_link_calc_events, Pollable

(* mtc_event_source_prepare, with tests or with NULL.                      *)
LEMMA PrepareTestsFits ==
  ASSUME Parts, NEW events \in [1..2 -> Pollable], NEW bs, PrepareTests(backs, events),
         NEW old, NEW on, Fits(lev, backs, old, on)
  PROVE  /\ Sound(lev', Running) /\ tests' \in Tests /\ tests'.events = events
         /\ Fits(lev', backs, tests'.events, TRUE)
  <1>1. tests' \in Tests /\ tests'.events = events
    BY DEF PrepareTests, Tests, Parts, Pollable
  <1>2. OneCallEach(Running) /\ Sound(lev, Running) /\ backs \in SUBSET Backends
    BY ApartFacts DEF Parts, FramesApart, Running
  <1>3. lev' = Prepare(lev, backs, events)
    BY DEF PrepareTests
  <1>4. Fits(lev', backs, events, TRUE)
    BY <1>2, <1>3, PrepareFits
  <1>5. Sound(lev', Running)
    BY <1>2, <1>3, PrepareFacts DEF Renewed
  <1> QED  BY <1>1, <1>4, <1>5

(* Preparing the event source with no tests, as switching the events off does, leaves all
   backends purged. *)
LEMMA PrepareNullFits ==
  ASSUME Parts, PrepareNull(backs), NEW old, NEW on, Fits(lev, backs, old, on), NEW events
  PROVE  Sound(lev', Running) /\ Fits(lev', backs, events, FALSE)
  BY PurgeFacts, PurgeFits DEF PrepareNull, Parts

(* Switched off, no test is in a list, whatever the tests wait for.        *)
LEMMA OffFits ==
  ASSUME NEW ts, NEW bs, NEW old, Fits(ts, bs, old, FALSE), NEW events
  PROVE  Fits(ts, bs, events, FALSE)
  BY DEF Fits

(* The hook leaves the tests as the rules ask for.                         *)
LEMMA HookFits ==
  ASSUME Parts, ~freed, mtc_fd_link_action_hook, UNCHANGED <<enabled, freed, backs>>,
         in_status' \in Status, mtc_link_is_broken => in_status' = "broken"
  PROVE  /\ Sound(lev', Running) /\ tests' \in Tests /\ prepared' \in BOOLEAN
         /\ TestsUpToDate' /\ TestsFit'
  <1> DEFINE events == mtc_fd_link_calc_events(in_status', out_status', unsent')
  <1>1. events \in [1..2 -> Pollable]
    BY CalcType
  <1>2. /\ TestsFit /\ prepared \in BOOLEAN /\ enabled \in BOOLEAN /\ tests \in Tests
        /\ Fits(lev, backs, tests.events, prepared)
        /\ prepared = (enabled /\ ~mtc_link_is_broken)
        /\ Sound(lev, Running)
    BY DEF Parts, LinkOK, TestsFit
  <1>3. CASE mtc_link_is_broken'
    <2>1. UNCHANGED tests /\ ~freed' /\ TestsUpToDate'
      BY <1>3 DEF mtc_fd_link_action_hook, TestsUpToDate
    <2>2. CASE enabled
      <3>1. PrepareNull(backs) /\ prepared' = FALSE
        BY <1>3, <2>2 DEF mtc_fd_link_action_hook
      <3>2. Sound(lev', Running) /\ Fits(lev', backs, tests.events, FALSE)
        BY <1>2, <3>1, PrepareNullFits
      <3> QED  BY <1>2, <1>3, <2>1, <3>1, <3>2 DEF TestsFit
    <2>3. CASE ~enabled
      <3>1. UNCHANGED <<lev, prepared>> /\ prepared = FALSE
        BY <1>2, <1>3, <2>3 DEF mtc_fd_link_action_hook
      <3> QED  BY <1>2, <1>3, <2>1, <2>3, <3>1 DEF TestsFit
    <2> QED  BY <1>2, <2>2, <2>3
  <1>4. CASE ~mtc_link_is_broken' /\ events = tests.events
    <2>1. UNCHANGED <<lev, tests, prepared>> /\ ~mtc_link_is_broken
      BY <1>4 DEF mtc_fd_link_action_hook, mtc_link_is_broken
    <2>2. TestsUpToDate'
      BY <1>4, <2>1 DEF TestsUpToDate
    <2> HIDE DEF events
    <2> QED  BY <1>2, <1>4, <2>1, <2>2 DEF TestsFit
  <1>5. CASE ~mtc_link_is_broken' /\ events # tests.events
    <2>1. ChangeTests(events) /\ ~mtc_link_is_broken
      BY <1>5 DEF mtc_fd_link_action_hook, mtc_link_is_broken
    <2>2. tests' \in Tests /\ tests'.events = events /\ Sound(lev', Running)
          /\ prepared' = enabled /\ Fits(lev', backs, tests'.events, prepared')
      <3> HIDE DEF events
      <3>1. CASE enabled
        <4>1. PrepareTests(backs, events) /\ prepared' = TRUE
          BY <2>1, <3>1 DEF ChangeTests
        <4> QED  BY <1>1, <1>2, <3>1, <4>1, PrepareTestsFits
      <3>2. CASE ~enabled
        <4>1. /\ tests' = [tests EXCEPT !.events = events]
              /\ UNCHANGED <<lev, prepared>> /\ prepared = FALSE
          BY <1>2, <2>1, <3>2 DEF ChangeTests, ChangeTestsUnprepared
        <4>2. tests' \in Tests /\ tests'.events = events
          BY <1>1, <1>2, <4>1 DEF Tests
        <4> QED  BY <1>2, <3>2, <4>1, <4>2, OffFits
      <3> QED  BY <1>2, <3>1, <3>2
    <2>3. TestsUpToDate'
      BY <2>2 DEF TestsUpToDate
    <2> HIDE DEF events
    <2> QED  BY <1>2, <1>5, <2>2, <2>3 DEF TestsFit
  <1> QED  BY <1>3, <1>4, <1>5

(* A step that calls the hook and goes on with the same calls.             *)
LEMMA HookStep ==
  ASSUME Parts, ~freed, mtc_fd_link_action_hook, UNCHANGED <<enabled, held, freed, backs>>,
         in_status' \in Status, out_status' \in Status, unsent' \in Seq(BOOLEAN),
         mtc_link_is_broken => in_status' = "broken",
         SameCalls(stack, stack'), PeerOK'
  PROVE  Parts'
  <1>1. /\ Sound(lev', Running) /\ tests' \in Tests /\ prepared' \in BOOLEAN
        /\ TestsUpToDate' /\ TestsFit'
    BY HookFits
  <1>2. /\ Running' = Running /\ FramesApart' /\ (AllOff(stack) => AllOff(stack'))
        /\ stack' \in Seq(Frame)
    BY SameCallsFacts DEF Parts, FramesApart, Running, SameCalls
  <1>3. OffIsNoted' /\ FreedIsGone'
    BY <1>2 DEF Parts, OffIsNoted, FreedIsGone
  <1>4. LinkOK'
    BY <1>1 DEF Parts, LinkOK
  <1>5. Sound(lev', Running')
    BY <1>1, <1>2
  <1> QED  BY <1>1, <1>2, <1>3, <1>4 DEF Parts

(* A step that leaves the link and its tests alone.                        *)
LEMMA QuietStep ==
  ASSUME Parts, UNCHANGED <<linkVars, tests, prepared, backs, lev>>,
         SameCalls(stack, stack'), PeerOK'
  PROVE  Parts'
  <1>1. /\ Running' = Running /\ FramesApart' /\ (AllOff(stack) => AllOff(stack'))
        /\ stack' \in Seq(Frame) /\ (stack' = <<>> <=> stack = <<>>)
    BY SameCallsFacts DEF Parts, FramesApart, Running, SameCalls
  <1>2. OffIsNoted' /\ FreedIsGone'
    BY <1>1 DEF Parts, OffIsNoted, FreedIsGone, linkVars
  <1>3. LinkOK'
    BY DEF Parts, LinkOK, linkVars
  <1>4. Sound(lev', Running')
    BY <1>1 DEF Parts
  <1>5. TestsUpToDate' /\ TestsFit'
    BY DEF Parts, TestsUpToDate, TestsFit, mtc_link_is_broken, linkVars
  <1> QED  BY <1>1, <1>2, <1>3, <1>4, <1>5 DEF Parts

-----------------------------------------------------------------------------
(* The application.                                                        *)

(* What a step does to the counts and the stream.                          *)
LEMMA PeerUnchanged ==
  ASSUME Parts, UNCHANGED <<peerVars, n_queued, dropped>>
  PROVE  PeerOK'
  BY DEF Parts, PeerOK, peerVars, Accounted

(* An application that runs, or a call of a test, finds the link still there. *)
LEMMA HeldIsNotFree ==
  ASSUME Parts, AppRuns \/ stack # <<>>
  PROVE  ~freed
  BY DEF Parts, AppRuns, FreedIsGone

(* mtc_link_queue keeps the invariant: the action hook renews the tests. *)
LEMMA QueueStep ==
  ASSUME Parts, NEW stop \in BOOLEAN, Queue(stop)
  PROVE  Parts'
  <1> USE EventAssumptions
  <1>1. ~freed
    BY HeldIsNotFree DEF Queue
  <1>2. unsent' \in Seq(BOOLEAN) /\ in_status' \in Status /\ out_status' \in Status
    BY DEF Queue, Parts, LinkOK
  <1>3. PeerOK'
    BY DEF Queue, Parts, PeerOK, peerVars, Accounted
  <1>4. SameCalls(stack, stack')
    BY UnchangedCalls DEF Parts, Queue
  <1>5. /\ mtc_fd_link_action_hook /\ UNCHANGED <<enabled, held, freed, backs>>
        /\ ~mtc_link_is_broken
    BY DEF Queue
  <1> QED  BY <1>1, <1>2, <1>3, <1>4, <1>5, HookStep

(* mtc_link_resume keeps the invariant. *)
LEMMA ResumeStep ==
  ASSUME Parts, Resume
  PROVE  Parts'
  <1>1. ~freed
    BY HeldIsNotFree DEF Resume
  <1>2. /\ unsent' \in Seq(BOOLEAN) /\ in_status' \in Status /\ out_status' \in Status
        /\ (mtc_link_is_broken => in_status' = "broken")
    BY DEF Resume, Parts, LinkOK, Status, mtc_link_is_broken
  <1>3. PeerOK'
    BY PeerUnchanged DEF Resume
  <1>4. SameCalls(stack, stack')
    BY UnchangedCalls DEF Parts, Resume
  <1>5. mtc_fd_link_action_hook /\ UNCHANGED <<enabled, held, freed, backs>>
    BY DEF Resume
  <1> QED  BY <1>1, <1>2, <1>3, <1>4, <1>5, HookStep

(* A change of events_enabled keeps the invariant: it prepares or purges all backends. *)
LEMMA SwitchStep ==
  ASSUME Parts, NEW value \in BOOLEAN, SetEventsEnabled(value)
  PROVE  Parts'
  <1>1. ~freed
    BY HeldIsNotFree DEF SetEventsEnabled
  <1>2. /\ prepared = (enabled /\ ~mtc_link_is_broken) /\ tests \in Tests
        /\ Fits(lev, backs, tests.events, prepared)
        /\ Sound(lev, Running) /\ enabled \in BOOLEAN /\ prepared \in BOOLEAN
    BY <1>1 DEF Parts, TestsFit, LinkOK
  <1>3. /\ UNCHANGED <<in_status, out_status, held, freed, unsent, backs>>
        /\ enabled' = value /\ value # enabled
    BY DEF SetEventsEnabled
  <1>4. PeerOK'
    BY PeerUnchanged DEF SetEventsEnabled
  <1>5. /\ Sound(lev', Running) /\ tests' \in Tests /\ tests'.events = tests.events
        /\ prepared' = (value /\ ~mtc_link_is_broken)
        /\ Fits(lev', backs, tests'.events, prepared')
    <2>1. CASE mtc_link_is_broken
      <3>1. UNCHANGED <<lev, tests, prepared>> /\ prepared = FALSE
        BY <1>2, <2>1 DEF SetEventsEnabled
      <3> QED  BY <1>2, <2>1, <3>1
    <2>2. CASE ~mtc_link_is_broken /\ value
      <3>1. PrepareTests(backs, tests.events) /\ prepared' = value
        BY <2>2 DEF SetEventsEnabled
      <3>2. tests.events \in [1..2 -> Pollable]
        BY <1>2 DEF Tests
      <3> QED  BY <1>2, <2>2, <3>1, <3>2, PrepareTestsFits
    <2>3. CASE ~mtc_link_is_broken /\ ~value
      <3>1. PrepareNull(backs) /\ prepared' = FALSE /\ UNCHANGED tests
        BY <2>3 DEF SetEventsEnabled
      <3> QED  BY <1>2, <2>3, <3>1, PrepareNullFits
    <2> QED  BY <2>1, <2>2, <2>3
  <1>6. SameCalls(stack, stack') /\ (~value => AllOff(stack'))
    <2>1. stack' = [k \in 1..Len(stack) |-> [stack[k] EXCEPT !.off = @ \/ ~value]]
      BY DEF SetEventsEnabled
    <2>2. stack \in Seq(Frame) /\ Len(stack) \in Nat
      BY DEF Parts
    <2>3. ASSUME NEW k \in 1..Len(stack)
          PROVE  /\ stack'[k] \in Frame /\ stack'[k].test = stack[k].test
                 /\ stack'[k].off = (stack[k].off \/ ~value)
      <3>1. stack[k] \in Frame /\ stack'[k] = [stack[k] EXCEPT !.off = @ \/ ~value]
        BY <2>1, <2>2
      <3> QED  BY <3>1 DEF Frame
    <2>4. stack' \in Seq(Frame) /\ Len(stack') = Len(stack)
      <3>1. DOMAIN stack' = 1..Len(stack) /\ stack' = [k \in 1..Len(stack) |-> stack'[k]]
        BY <2>1
      <3> HIDE DEF SetEventsEnabled
      <3> QED  BY <2>2, <2>3, <3>1
    <2> QED  BY <2>3, <2>4 DEF SameCalls, AllOff
  <1>7. /\ Running' = Running /\ FramesApart' /\ stack' \in Seq(Frame)
        /\ (stack' = <<>> <=> stack = <<>>)
    BY <1>6, SameCallsFacts DEF Parts, FramesApart, Running, SameCalls
  <1>8. OffIsNoted' /\ FreedIsGone'
    BY <1>1, <1>3, <1>6 DEF OffIsNoted, FreedIsGone
  <1>9. LinkOK'
    BY <1>2, <1>3, <1>5 DEF Parts, LinkOK
  <1>10. TestsUpToDate' /\ TestsFit'
    BY <1>3, <1>5 DEF Parts, TestsUpToDate, TestsFit, mtc_link_is_broken
  <1> QED  BY <1>3, <1>4, <1>5, <1>7, <1>8, <1>9, <1>10 DEF Parts

(* Attaching a backend keeps the invariant. *)
LEMMA AttachStep ==
  ASSUME Parts, NEW b \in Backends, Attach(b)
  PROVE  Parts'
  <1>1. ~freed
    BY HeldIsNotFree DEF Attach
  <1>2. /\ prepared = (enabled /\ ~mtc_link_is_broken) /\ tests \in Tests
        /\ Fits(lev, backs, tests.events, prepared) /\ tests.events \in [1..2 -> Pollable]
        /\ Sound(lev, Running) /\ prepared \in BOOLEAN /\ OneCallEach(Running)
        /\ backs \in SUBSET Backends /\ IsFiniteSet(backs)
    BY <1>1, ApartFacts DEF Parts, TestsFit, LinkOK, Tests, FramesApart, Running
  <1>3. /\ UNCHANGED <<linkVars, prepared, stack>>
        /\ backs' = backs \cup {b} /\ b \notin backs
    BY DEF Attach
  <1>4. PeerOK'
    BY PeerUnchanged DEF Attach
  <1>5. /\ Sound(lev', Running) /\ tests' \in Tests /\ tests'.events = tests.events
        /\ Fits(lev', backs', tests.events, prepared)
    <2>1. CASE prepared
      <3>1. PrepareTests({b}, tests.events)
        BY <2>1 DEF Attach
      <3>2. tests' \in Tests /\ tests'.events = tests.events
        BY <1>2, <3>1 DEF PrepareTests, Tests, Pollable
      <3>3. lev' = Prepare(lev, {b}, tests.events) /\ {b} \in SUBSET Backends
        BY <3>1 DEF PrepareTests
      <3>4. Sound(lev', Running)
        BY <1>2, <3>3, PrepareFacts DEF Renewed
      <3>5. Fits(lev', backs', tests.events, TRUE)
        BY <1>2, <1>3, <2>1, <3>3, JoinFits
      <3> QED  BY <2>1, <3>2, <3>4, <3>5
    <2>2. CASE ~prepared
      <3>1. UNCHANGED <<lev, tests>> /\ prepared = FALSE
        BY <1>2, <2>2 DEF Attach
      <3> QED  BY <1>2, <3>1 DEF Fits
    <2> QED  BY <2>1, <2>2
  <1>6. IsFiniteSet(backs') /\ backs' \in SUBSET Backends
    BY <1>2, <1>3, FS_AddElement
  <1>7. LinkOK' /\ OffIsNoted' /\ FreedIsGone' /\ FramesApart' /\ Running' = Running
    BY <1>1, <1>3
    DEF Parts, LinkOK, OffIsNoted, FreedIsGone, FramesApart, Running, linkVars
  <1>8. TestsUpToDate' /\ TestsFit'
    BY <1>2, <1>3, <1>5 DEF Parts, TestsUpToDate, TestsFit, mtc_link_is_broken, linkVars
  <1> QED  BY <1>3, <1>4, <1>5, <1>6, <1>7, <1>8 DEF Parts

(* Detaching a backend keeps the invariant, also from inside of a call of its test. *)
LEMMA DetachStep ==
  ASSUME Parts, NEW b \in Backends, Detach(b)
  PROVE  Parts'
  <1>1. ~freed
    BY HeldIsNotFree DEF Detach
  <1>2. /\ Fits(lev, backs, tests.events, prepared) /\ Sound(lev, Running)
        /\ backs \in SUBSET Backends /\ IsFiniteSet(backs)
    BY <1>1 DEF Parts, TestsFit
  <1>3. /\ UNCHANGED <<linkVars, tests, prepared, stack>>
        /\ backs' = backs \ {b} /\ lev' = Purge(lev, {b})
    BY DEF Detach
  <1>4. PeerOK'
    BY PeerUnchanged DEF Detach
  <1>5. Sound(lev', Running) /\ Fits(lev', backs', tests.events, prepared)
    BY <1>2, <1>3, PurgeFacts, LeaveFits
  <1>6. IsFiniteSet(backs') /\ backs' \in SUBSET Backends
    BY <1>2, <1>3, FS_RemoveElement
  <1>7. /\ LinkOK' /\ OffIsNoted' /\ FreedIsGone' /\ FramesApart' /\ Running' = Running
        /\ tests' \in Tests
    BY <1>1, <1>3
    DEF Parts, LinkOK, OffIsNoted, FreedIsGone, FramesApart, Running, linkVars
  <1>8. TestsUpToDate' /\ TestsFit'
    BY <1>3, <1>5 DEF Parts, TestsUpToDate, TestsFit, mtc_link_is_broken, linkVars
  <1> QED  BY <1>3, <1>4, <1>5, <1>6, <1>7, <1>8 DEF Parts

(* Without calls there is no test but those in the lists.                  *)
LEMMA NothingLeft ==
  ASSUME NEW ts, Sound(ts, {}), ListedIn(ts) = {}
  PROVE  DOMAIN ts = {}
  <1>1. ASSUME NEW x \in DOMAIN ts PROVE FALSE
    <2>1. ts[x].refcount \in Nat \ {0} /\ ts[x].refcount = One(~ts[x].disposed) + One(x \in {})
      BY DEF Sound, LevTest
    <2>2. ts[x].disposed
      BY DEF ListedIn
    <2> QED  BY <2>1, <2>2 DEF One
  <1> QED  BY <1>1

(* Dropping the reference of the application keeps the invariant; the link stays while a call
   holds it. *)
LEMMA UnrefStep ==
  ASSUME Parts, Unref
  PROVE  Parts'
  <1>1. ~freed
    BY HeldIsNotFree DEF Unref
  <1>2. Fits(lev, backs, tests.events, prepared) /\ Sound(lev, Running)
    BY <1>1 DEF Parts, TestsFit
  <1>3. /\ UNCHANGED <<in_status, out_status, enabled, unsent, tests, prepared, stack>>
        /\ held' = FALSE
    BY DEF Unref
  <1>4. PeerOK'
    BY PeerUnchanged DEF Unref
  <1>5. OffIsNoted' /\ FramesApart' /\ Running' = Running /\ tests' \in Tests
    BY <1>3 DEF Parts, OffIsNoted, FramesApart, Running
  <1>6. CASE stack = <<>>
    <2>1. freed' = TRUE /\ backs' = {} /\ lev' = Purge(lev, backs)
      BY <1>6 DEF Unref, FreeLink
    <2>2. Running = {}
      BY <1>6 DEF Running, RunningIn
    <2>3. Sound(lev', {}) /\ ListedIn(lev') = {x \in ListedIn(lev) : x[1] \notin backs}
      BY <1>2, <2>1, <2>2, PurgeFacts
    <2>4. ListedIn(lev') = {}
      BY <1>2, <2>3 DEF Fits
    <2>5. DOMAIN lev' = {}
      BY <2>3, <2>4, NothingLeft
    <2>6. FreedIsGone' /\ TestsUpToDate' /\ TestsFit' /\ LinkOK'
      BY <1>3, <1>6, <2>1, <2>5
      DEF FreedIsGone, TestsUpToDate, TestsFit, LinkOK, Parts
    <2>7. IsFiniteSet(backs') /\ backs' \in SUBSET Backends
      BY <2>1, FS_EmptySet
    <2> QED  BY <1>3, <1>4, <1>5, <2>2, <2>3, <2>6, <2>7 DEF Parts
  <1>7. CASE stack # <<>>
    <2>1. UNCHANGED <<freed, backs, lev>>
      BY <1>7 DEF Unref
    <2>2. FreedIsGone' /\ TestsUpToDate' /\ TestsFit' /\ LinkOK'
      BY <1>1, <1>3, <2>1
      DEF FreedIsGone, TestsUpToDate, TestsFit, LinkOK, Parts, mtc_link_is_broken
    <2> QED  BY <1>2, <1>3, <1>4, <1>5, <2>1, <2>2 DEF Parts
  <1> QED  BY <1>6, <1>7

-----------------------------------------------------------------------------
(* The loops.                                                              *)

(* A loop changes what is active of tests in the lists, and nothing else.  *)
LEMMA PollStep ==
  ASSUME Parts, NEW b \in Backends, Poll(b)
  PROVE  Parts'
  <1> DEFINE mine == {x \in DOMAIN lev : x[1] = b /\ ~lev[x].disposed}
             ready == {x \in mine : lev[x].flags \cap ReadyFlags(x[2]) # {}}
  <1>1. /\ lev' = [x \in DOMAIN lev |->
                     IF x \in ready
                     THEN [lev[x] EXCEPT !.active = lev[x].flags \cap ReadyFlags(x[2])]
                     ELSE lev[x]]
        /\ UNCHANGED <<linkVars, tests, prepared, backs, stack, peerVars, n_queued, dropped>>
    BY DEF Poll
  <1>2. ready \subseteq ListedIn(lev)
    BY DEF ListedIn
  <1> HIDE DEF ready
  <1>3. PeerOK'
    BY <1>1, PeerUnchanged
  <1>4. DOMAIN lev' = DOMAIN lev /\ lev' = [x \in DOMAIN lev |-> lev'[x]]
    BY <1>1
  <1>5. ASSUME NEW x \in DOMAIN lev
        PROVE  /\ lev'[x] \in LevTest /\ lev'[x].refcount = lev[x].refcount
               /\ lev'[x].disposed = lev[x].disposed /\ lev'[x].flags = lev[x].flags
               /\ (x \notin ready => lev'[x] = lev[x])
    <2>1. lev[x] \in LevTest
      BY DEF Parts, Sound
    <2>2. CASE x \in ready
      <3> DEFINE act == lev[x].flags \cap ReadyFlags(x[2])
      <3>1. lev'[x] = [lev[x] EXCEPT !.active = act]
        BY <1>1, <2>2
      <3>2. act \in SUBSET Flags
        BY <2>1 DEF LevTest
      <3> HIDE DEF act
      <3> QED  BY <2>1, <2>2, <3>1, <3>2 DEF LevTest
    <2>3. CASE x \notin ready
      BY <1>1, <2>1, <2>3
    <2> QED  BY <2>2, <2>3
  <1>6. ListedIn(lev') = ListedIn(lev)
    BY <1>4, <1>5 DEF ListedIn
  <1>7. Sound(lev', Running)
    <2>1. lev' \in [DOMAIN lev' -> LevTest]
      BY <1>4, <1>5
    <2>2. \A x \in DOMAIN lev' :
            /\ lev'[x].refcount = One(~lev'[x].disposed) + One(x \in Running)
            /\ lev'[x].active # {} => ~lev'[x].disposed
      <3>1. \A x \in ready : ~lev[x].disposed
        BY <1>2 DEF ListedIn
      <3> QED  BY <1>4, <1>5, <3>1 DEF Parts, Sound
    <2> QED  BY <1>4, <1>6, <2>1, <2>2 DEF Parts, Sound
  <1>8. TestsFit'
    <2>1. ~freed => Fits(lev', backs, tests.events, prepared)
      BY <1>5, <1>6 DEF Parts, TestsFit, Fits, ListedIn
    <2> QED  BY <1>1, <2>1 DEF Parts, TestsFit, mtc_link_is_broken, linkVars
  <1>9. /\ LinkOK' /\ OffIsNoted' /\ FreedIsGone' /\ FramesApart' /\ TestsUpToDate'
        /\ Running' = Running
    BY <1>1, <1>4
    DEF Parts, LinkOK, OffIsNoted, FreedIsGone, FramesApart, TestsUpToDate, Running,
        mtc_link_is_broken, linkVars
  <1> QED  BY <1>1, <1>3, <1>7, <1>8, <1>9 DEF Parts

(* A call takes a reference to a test in a list that no call refers to.    *)
LEMMA RefFacts ==
  ASSUME NEW ts, NEW R, Sound(ts, R), NEW x \in ListedIn(ts), x \notin R
  PROVE  LET new == [ts EXCEPT ![x] = [mtc_lev_test_ref(@) EXCEPT !.active = {}]]
         IN  /\ Sound(new, R \cup {x}) /\ ListedIn(new) = ListedIn(ts)
             /\ \A y \in ListedIn(ts) : new[y].flags = ts[y].flags
  <1> DEFINE new == [ts EXCEPT ![x] = [mtc_lev_test_ref(@) EXCEPT !.active = {}]]
  <1>1. /\ DOMAIN new = DOMAIN ts /\ \A y \in DOMAIN ts \ {x} : new[y] = ts[y]
        /\ new[x] = [mtc_lev_test_ref(ts[x]) EXCEPT !.active = {}]
        /\ new = [y \in DOMAIN ts |-> new[y]]
        /\ x \in DOMAIN ts
    BY DEF ListedIn
  <1> HIDE DEF new
  <1>2. /\ ts[x] \in LevTest /\ ~ts[x].disposed
        /\ ts[x].refcount = One(~ts[x].disposed) + One(x \in R)
    BY DEF Sound, ListedIn
  <1>3. /\ new[x] \in LevTest /\ ~new[x].disposed /\ new[x].refcount = 2
        /\ new[x].active = {} /\ new[x].flags = ts[x].flags
    <2> DEFINE a == mtc_lev_test_ref(ts[x])
    <2>1. /\ a \in LevTest /\ ~a.disposed /\ a.refcount = 2 /\ a.flags = ts[x].flags
      BY <1>2 DEF mtc_lev_test_ref, LevTest, One
    <2> HIDE DEF a
    <2>2. new[x] = [a EXCEPT !.active = {}]
      BY <1>1 DEF a
    <2> QED  BY <2>1, <2>2 DEF LevTest
  <1>4. ListedIn(new) = ListedIn(ts)
    BY <1>1, <1>2, <1>3 DEF ListedIn
  <1>5. Sound(new, R \cup {x})
    <2>1. new \in [DOMAIN new -> LevTest]
      BY <1>1, <1>3 DEF Sound
    <2>2. \A y \in DOMAIN new :
            /\ new[y].refcount = One(~new[y].disposed) + One(y \in R \cup {x})
            /\ new[y].active # {} => ~new[y].disposed
      <3>1. ASSUME NEW y \in DOMAIN ts \ {x}
            PROVE  /\ new[y].refcount = One(~new[y].disposed) + One(y \in R \cup {x})
                   /\ new[y].active # {} => ~new[y].disposed
        <4>1. new[y] = ts[y] /\ (y \in R \cup {x} <=> y \in R)
          BY <1>1
        <4> QED  BY <4>1 DEF Sound, One
      <3>2. One(~new[x].disposed) + One(x \in R \cup {x}) = 2
        BY <1>3 DEF One
      <3> QED  BY <1>1, <1>3, <3>1, <3>2
    <2> QED  BY <1>1, <1>4, <2>1, <2>2 DEF Sound
  <1>6. \A y \in ListedIn(ts) : new[y].flags = ts[y].flags
    BY <1>1, <1>3 DEF ListedIn
  <1> QED  BY <1>4, <1>5, <1>6 DEF new

(* mtc_lev_test_cb keeps the invariant: it takes a reference to its test before it calls the
   link. *)
LEMMA DispatchStep ==
  ASSUME Parts, NEW x \in DOMAIN lev, Dispatch(x)
  PROVE  Parts'
  <1> DEFINE f == [test |-> x, pc |-> "send", next |-> "send", off |-> FALSE]
             act == lev[x].active
  <1>1. /\ act # {} /\ x[1] \notin Bases
        /\ tests' = [tests EXCEPT !.revents[x[2]] = mtc_poll_from_lev(act)]
        /\ lev' = [lev EXCEPT ![x] = [mtc_lev_test_ref(@) EXCEPT !.active = {}]]
        /\ stack' = <<f>> \o stack
        /\ UNCHANGED <<linkVars, prepared, backs, peerVars, n_queued, dropped>>
    BY DEF Dispatch
  <1>2. x \in TestIds /\ x \in ListedIn(lev) /\ Sound(lev, Running) /\ stack \in Seq(Frame)
    BY <1>1 DEF Parts, Sound, ListedIn
  <1>3. ~freed /\ enabled /\ Fits(lev, backs, tests.events, prepared)
    BY <1>2 DEF Parts, FreedIsGone, TestsFit, Fits
  <1>4. /\ \A y \in Running : y[1] # x[1]
        /\ x \notin Running
    BY <1>1 DEF Bases, Running, RunningIn
  <1>5. PeerOK'
    BY <1>1, PeerUnchanged
  <1>6. f \in Frame /\ f.test = x
    BY <1>2 DEF Frame
  <1>7. /\ stack' \in Seq(Frame) /\ stack' # <<>> /\ Running' = Running \cup {x}
        /\ FramesApart'
    <2> HIDE DEF f
    <2> QED  BY <1>1, <1>2, <1>4, <1>6, NewCall DEF Parts, FramesApart, Running
  <1>8. /\ Sound(lev', Running') /\ Fits(lev', backs, tests.events, prepared)
    <2>1. /\ Sound(lev', Running \cup {x}) /\ ListedIn(lev') = ListedIn(lev)
          /\ \A y \in ListedIn(lev) : lev'[y].flags = lev[y].flags
      <3> DEFINE new == [lev EXCEPT ![x] = [mtc_lev_test_ref(@) EXCEPT !.active = {}]]
      <3>1. /\ Sound(new, Running \cup {x}) /\ ListedIn(new) = ListedIn(lev)
            /\ \A y \in ListedIn(lev) : new[y].flags = lev[y].flags
        BY <1>2, <1>4, RefFacts, SMTT(30)
      <3>2. lev' = new
        BY <1>1
      <3> HIDE DEF new
      <3> QED  BY <3>1, <3>2
    <2> QED  BY <1>3, <1>7, <2>1 DEF Fits
  <1>9. tests' \in Tests /\ tests'.events = tests.events
    <2>1. tests \in Tests /\ x[2] \in 1..2
      BY <1>2, IdFacts DEF Parts, TestList
    <2>2. mtc_poll_from_lev(act) \in Pollable
      BY DEF mtc_poll_from_lev, translator, Pollable, MTC_POLLIN, MTC_POLLOUT
    <2> HIDE DEF act
    <2> QED  BY <1>1, <2>1, <2>2 DEF Tests
  <1>10. LinkOK' /\ OffIsNoted' /\ FreedIsGone'
    BY <1>1, <1>3 DEF Parts, LinkOK, OffIsNoted, FreedIsGone, linkVars
  <1>11. TestsUpToDate' /\ TestsFit'
    BY <1>1, <1>3, <1>8, <1>9 DEF Parts, TestsUpToDate, TestsFit, mtc_link_is_broken, linkVars
  <1> QED  BY <1>1, <1>5, <1>7, <1>8, <1>9, <1>10, <1>11 DEF Parts

-----------------------------------------------------------------------------
(* The event source.                                                       *)
Places == {"send", "recv", "loop", "end"}

(* Going on to another place of the event callback leaves the calls as they are. *)
LEMMA GotoCalls ==
  ASSUME stack \in Seq(Frame), stack # <<>>, NEW pc \in Places, Goto(pc)
  PROVE  SameCalls(stack, stack')
  <1> DEFINE h == Head(stack)
             f == [h EXCEPT !.pc = pc, !.next = pc]
  <1>1. h \in Frame
    BY HeadFrame
  <1> HIDE DEF h
  <1>2. f \in Frame /\ f.test = h.test /\ f.off = h.off
    BY <1>1 DEF Frame, Places
  <1>3. stack' = <<f>> \o Tail(stack)
    BY DEF Goto, h
  <1> HIDE DEF f
  <1> QED  BY <1>2, <1>3, MovedCall DEF h

(* So does calling back into the application. *)
LEMMA CallBackCalls ==
  ASSUME stack \in Seq(Frame), stack # <<>>, NEW next \in Places, CallBack(next)
  PROVE  SameCalls(stack, stack')
  <1> DEFINE h == Head(stack)
             f == [h EXCEPT !.pc = IF enabled THEN "app" ELSE next, !.next = next]
  <1>1. h \in Frame
    BY HeadFrame
  <1> HIDE DEF h
  <1>2. f \in Frame /\ f.test = h.test /\ f.off = h.off
    BY <1>1 DEF Frame, Places
  <1>3. stack' = <<f>> \o Tail(stack)
    BY DEF CallBack, h
  <1> HIDE DEF f
  <1> QED  BY <1>2, <1>3, MovedCall DEF h

(* The steps that only go on: nothing to send, nothing to receive, or the  *)
(* callback that returns.                                                  *)
LEMMA GoOnStep ==
  ASSUME Parts, NEW pc \in Places, stack # <<>>, Goto(pc),
         UNCHANGED <<linkVars, tests, prepared, backs, lev, peerVars, n_queued, dropped>>
  PROVE  Parts'
  <1>1. SameCalls(stack, stack')
    BY GotoCalls DEF Parts
  <1>2. PeerOK'
    BY PeerUnchanged
  <1> QED  BY <1>1, <1>2, QuietStep

(* An application that returns from its callback keeps the invariant. *)
LEMMA ReturnStep ==
  ASSUME Parts, Return
  PROVE  Parts'
  <1>1. stack # <<>> /\ Goto(Head(stack).next)
    BY DEF Return, InCallback
  <1>2. Head(stack).next \in Places
    BY <1>1, HeadFrame DEF Parts, Frame, Places
  <1>3. UNCHANGED <<linkVars, tests, prepared, backs, lev, peerVars, n_queued, dropped>>
    BY DEF Return
  <1> QED  BY <1>1, <1>2, <1>3, GoOnStep

(* The event callback passes over what it finds nothing to do for. *)
LEMMA IdleSteps ==
  ASSUME Parts, SkipSend \/ CheckIn \/ ReceiveEnds
  PROVE  Parts'
  <1>1. /\ stack # <<>> /\ \E pc \in Places : Goto(pc)
        /\ UNCHANGED <<linkVars, tests, prepared, backs, lev, peerVars, n_queued, dropped>>
    BY DEF SkipSend, CheckIn, ReceiveEnds, At, Places
  <1> QED  BY <1>1, GoOnStep

(* mtc_link_send that sends something keeps the invariant: the hook renews the tests if the
   queue was emptied. *)
LEMMA SendSomeStep ==
  ASSUME Parts, SendSome
  PROVE  Parts'
  <1>1. /\ stack # <<>> /\ out_status = "open" /\ in_status' = in_status
        /\ mtc_fd_link_action_hook
        /\ UNCHANGED <<enabled, held, freed, backs, incoming, n_sent_in, n_queued, dropped>>
    BY DEF SendSome, At, CanSend
  <1>2. PICK n \in 0..Len(unsent) :
          LET stopped == n \in Stops
              sent == ~stopped /\ n = Len(unsent)
          IN  /\ unsent' = SubSeq(unsent, n + 1, Len(unsent))
              /\ out_status' = IF stopped THEN "stopped" ELSE out_status
              /\ writable' \in IF stopped \/ sent THEN {writable, FALSE} ELSE {FALSE}
              /\ IF stopped \/ sent THEN CallBack("recv") ELSE Goto("recv")
    BY Zenon DEF SendSome
  <1>3. ~freed
    BY <1>1, HeldIsNotFree
  <1>4. /\ in_status' \in Status /\ out_status' \in Status
        /\ (mtc_link_is_broken => in_status' = "broken")
    BY <1>1, <1>2 DEF Parts, LinkOK, Status, mtc_link_is_broken
  <1>5. unsent' \in Seq(BOOLEAN)
    <2>1. unsent \in Seq(BOOLEAN) /\ unsent' = SubSeq(unsent, n + 1, Len(unsent))
      BY <1>2 DEF Parts, LinkOK
    <2> QED  BY <2>1
  <1>6. SameCalls(stack, stack')
    <2>1. CallBack("recv") \/ Goto("recv")
      BY <1>2
    <2>2. "recv" \in Places /\ stack \in Seq(Frame)
      BY DEF Places, Parts
    <2> QED  BY <1>1, <2>1, <2>2, GotoCalls, CallBackCalls
  <1>7. PeerOK'
    <2>1. writable' \in BOOLEAN
      BY <1>2 DEF Parts, PeerOK
    <2> QED  BY <1>1, <2>1 DEF Parts, PeerOK, Accounted
  <1> QED  BY <1>1, <1>3, <1>4, <1>5, <1>6, <1>7, HookStep

(* A link that breaks keeps the invariant: it waits for nothing from then on. *)
LEMMA BreaksStep ==
  ASSUME Parts, stack # <<>>, Breaks, UNCHANGED peerVars
  PROVE  Parts'
  <1>1. /\ in_status' = "broken" /\ out_status' = "broken" /\ unsent' = unsent
        /\ mtc_fd_link_action_hook /\ CallBack("end")
        /\ UNCHANGED <<enabled, held, freed, backs, n_queued, dropped>>
    BY DEF Breaks
  <1>2. ~freed
    BY HeldIsNotFree
  <1>3. in_status' \in Status /\ out_status' \in Status /\ unsent' \in Seq(BOOLEAN)
    BY <1>1 DEF Parts, LinkOK, Status
  <1>4. SameCalls(stack, stack')
    BY <1>1, CallBackCalls DEF Places, Parts
  <1>5. PeerOK'
    BY <1>1, PeerUnchanged
  <1> QED  BY <1>1, <1>2, <1>3, <1>4, <1>5, HookStep

(* mtc_link_receive in the event callback keeps the invariant, whatever it finds. *)
LEMMA ReceiveStep ==
  ASSUME Parts, Receive
  PROVE  Parts'
  <1>1. /\ stack # <<>> /\ incoming # <<>>
        /\ in_status' = IF Head(incoming) = "stop" THEN "stopped" ELSE in_status
        /\ in_status = "open"
        /\ incoming' = Tail(incoming) /\ UNCHANGED <<out_status, unsent>>
        /\ mtc_fd_link_action_hook /\ CallBack("loop")
        /\ dropped' = IF enabled THEN dropped ELSE dropped + 1
        /\ UNCHANGED <<enabled, held, freed, backs, writable, n_sent_in, n_queued>>
    BY DEF Receive, CanReceive, At
  <1>2. ~freed
    BY <1>1, HeldIsNotFree
  <1>3. /\ in_status' \in Status /\ out_status' \in Status /\ unsent' \in Seq(BOOLEAN)
        /\ (mtc_link_is_broken => in_status' = "broken")
    BY <1>1 DEF Parts, LinkOK, Status, mtc_link_is_broken
  <1>4. SameCalls(stack, stack')
    BY <1>1, CallBackCalls DEF Places, Parts
  <1>5. PeerOK'
    <2>1. /\ incoming' \in Seq({"msg", "stop", "eof"}) /\ Len(incoming') = Len(incoming) - 1
          /\ Len(incoming) \in Nat
      BY <1>1 DEF Parts, PeerOK
    <2> QED  BY <1>1, <2>1 DEF Parts, PeerOK, Accounted
  <1> QED  BY <1>1, <1>2, <1>3, <1>4, <1>5, HookStep

(* The call's reference goes; with it the test, if it is in no list.       *)
LEMMA UnrefFacts ==
  ASSUME NEW ts, NEW R, Sound(ts, R), NEW x \in R
  PROVE  LET new == mtc_lev_test_unref(ts, x)
         IN  /\ Sound(new, R \ {x}) /\ ListedIn(new) = ListedIn(ts)
             /\ \A y \in ListedIn(ts) : new[y].flags = ts[y].flags
  <1> DEFINE new == mtc_lev_test_unref(ts, x)
  <1>1. /\ x \in DOMAIN ts /\ R \subseteq DOMAIN ts /\ ts[x] \in LevTest
        /\ ts[x].refcount = One(~ts[x].disposed) + 1
        /\ (ts[x].active # {} => ~ts[x].disposed)
    BY DEF Sound, One
  <1>2. CASE ts[x].refcount > 1
    <2>1. ~ts[x].disposed /\ ts[x].refcount = 2
      BY <1>1, <1>2 DEF One
    <2>2. /\ DOMAIN new = DOMAIN ts /\ \A y \in DOMAIN ts \ {x} : new[y] = ts[y]
          /\ new[x] = [ts[x] EXCEPT !.refcount = @ - 1]
          /\ new = [y \in DOMAIN ts |-> new[y]]
      BY <1>1, <1>2 DEF mtc_lev_test_unref
    <2> HIDE DEF new
    <2>3. /\ new[x] \in LevTest /\ new[x].refcount = 1 /\ ~new[x].disposed
          /\ new[x].flags = ts[x].flags
      BY <1>1, <2>1, <2>2 DEF LevTest
    <2>4. ListedIn(new) = ListedIn(ts)
      BY <1>1, <2>1, <2>2, <2>3 DEF ListedIn
    <2>5. \A y \in ListedIn(ts) : new[y].flags = ts[y].flags
      BY <2>2, <2>3 DEF ListedIn
    <2>6. new \in [DOMAIN new -> LevTest]
      BY <2>2, <2>3 DEF Sound
    <2>7. ASSUME NEW y \in DOMAIN new
          PROVE  /\ new[y].refcount = One(~new[y].disposed) + One(y \in R \ {x})
                 /\ new[y].active # {} => ~new[y].disposed
      <3>1. CASE y = x
        BY <2>3, <3>1 DEF One
      <3>2. CASE y # x
        <4>1. new[y] = ts[y] /\ (y \in R \ {x} <=> y \in R)
          BY <2>2, <3>2
        <4> QED  BY <2>2, <4>1 DEF Sound, One
      <3> QED  BY <3>1, <3>2
    <2>8. Sound(new, R \ {x})
      BY <1>1, <2>2, <2>4, <2>6, <2>7 DEF Sound
    <2> QED  BY <2>4, <2>5, <2>8 DEF new
  <1>3. CASE ~(ts[x].refcount > 1)
    <2>1. ts[x].disposed
      BY <1>1, <1>3 DEF One
    <2>2. /\ DOMAIN new = DOMAIN ts \ {x} /\ \A y \in DOMAIN ts \ {x} : new[y] = ts[y]
          /\ new = [y \in DOMAIN ts \ {x} |-> new[y]]
      BY <1>3 DEF mtc_lev_test_unref
    <2> HIDE DEF new
    <2>3. ListedIn(new) = ListedIn(ts)
      BY <2>1, <2>2 DEF ListedIn
    <2>4. \A y \in ListedIn(ts) : new[y].flags = ts[y].flags
      BY <2>1, <2>2 DEF ListedIn
    <2>5. new \in [DOMAIN new -> LevTest]
      BY <2>2 DEF Sound
    <2>6. ASSUME NEW y \in DOMAIN new
          PROVE  /\ new[y].refcount = One(~new[y].disposed) + One(y \in R \ {x})
                 /\ new[y].active # {} => ~new[y].disposed
      <3>1. new[y] = ts[y] /\ (y \in R \ {x} <=> y \in R) /\ y \in DOMAIN ts
        BY <2>2
      <3> QED  BY <3>1 DEF Sound, One
    <2>7. Sound(new, R \ {x})
      BY <1>1, <2>2, <2>3, <2>5, <2>6 DEF Sound
    <2> QED  BY <2>3, <2>4, <2>7 DEF new
  <1> QED  BY <1>2, <1>3

(* The end of mtc_lev_test_cb keeps the invariant: it gives back the references to the test and
   to the link, of which either may be the last. *)
LEMMA EndStep ==
  ASSUME Parts, End
  PROVE  Parts'
  <1> DEFINE x == Head(stack).test
             last == ~held /\ Len(stack) = 1
             old == IF last THEN Purge(lev, backs) ELSE lev
  <1>1. stack # <<>> /\ stack \in Seq(Frame) /\ Apart(stack)
    BY DEF End, At, Parts, FramesApart
  <1>2. ~freed
    BY <1>1, HeldIsNotFree
  <1>3. Fits(lev, backs, tests.events, prepared) /\ Sound(lev, Running)
    BY <1>2 DEF Parts, TestsFit
  <1>4. /\ x \in Running /\ x \in TestIds /\ x[2] \in 1..2
        /\ stack' \in Seq(Frame) /\ FramesApart' /\ Running' = Running \ {x}
        /\ (AllOff(stack) => AllOff(stack')) /\ (stack' = <<>> <=> Len(stack) = 1)
    <2>1. Head(stack) \in Frame /\ x \in TestIds
      BY <1>1, HeadFrame DEF Frame
    <2>2. x[2] \in 1..2
      BY <2>1, IdFacts DEF TestList
    <2>3. stack' = Tail(stack)
      BY DEF End
    <2> QED  BY <1>1, <2>1, <2>2, <2>3, HeadFrame, DoneCall DEF Running, FramesApart
  <1>5. /\ UNCHANGED <<in_status, out_status, enabled, held, unsent, prepared>>
        /\ UNCHANGED <<peerVars, n_queued, dropped>>
        /\ tests' = IF old[x].disposed THEN tests
                    ELSE [tests EXCEPT !.revents[x[2]] = {}]
        /\ lev' = mtc_lev_test_unref(old, x)
        /\ IF last THEN FreeLink ELSE UNCHANGED <<freed, backs>>
    BY DEF End
  <1>6. PeerOK'
    BY <1>5, PeerUnchanged
  <1>7. tests' \in Tests /\ tests'.events = tests.events
    <2>1. tests \in Tests
      BY DEF Parts
    <2> HIDE DEF x, old
    <2> QED  BY <1>4, <1>5, <2>1 DEF Tests, Pollable
  <1>8. Sound(old, Running) /\ (last => ListedIn(old) = {})
    <2>1. CASE last
      <3>1. /\ Sound(Purge(lev, backs), Running)
            /\ ListedIn(Purge(lev, backs)) = {y \in ListedIn(lev) : y[1] \notin backs}
        BY <1>3, PurgeFacts
      <3> QED  BY <1>3, <2>1, <3>1 DEF Fits
    <2>2. CASE ~last
      BY <1>3, <2>2
    <2> QED  BY <2>1, <2>2
  <1> HIDE DEF x
  <1>9. /\ Sound(lev', Running') /\ ListedIn(lev') = ListedIn(old)
        /\ \A y \in ListedIn(old) : lev'[y].flags = old[y].flags
    <2> HIDE DEF old
    <2> QED  BY <1>4, <1>5, <1>8, UnrefFacts
  <1>10. CASE last
    <2>1. freed' = TRUE /\ backs' = {} /\ held' = FALSE /\ stack' = <<>>
      BY <1>4, <1>5, <1>10 DEF FreeLink, Parts, LinkOK
    <2>2. Running' = {}
      BY <2>1 DEF Running, RunningIn
    <2>3. DOMAIN lev' = {}
      BY <1>8, <1>9, <1>10, <2>2, NothingLeft
    <2>4. FreedIsGone' /\ TestsUpToDate' /\ TestsFit' /\ LinkOK'
      BY <1>5, <2>1, <2>3 DEF FreedIsGone, TestsUpToDate, TestsFit, LinkOK, Parts
    <2>5. IsFiniteSet(backs') /\ backs' \in SUBSET Backends /\ OffIsNoted'
      BY <2>1, FS_EmptySet DEF OffIsNoted, AllOff
    <2> QED  BY <1>4, <1>6, <1>7, <1>9, <2>4, <2>5 DEF Parts
  <1>11. CASE ~last
    <2>1. UNCHANGED <<freed, backs>> /\ old = lev
      BY <1>5, <1>11
    <2> HIDE DEF last, old
    <2>2. Fits(lev', backs, tests.events, prepared)
      BY <1>3, <1>9, <2>1 DEF Fits
    <2>3. FreedIsGone' /\ TestsUpToDate' /\ TestsFit' /\ LinkOK' /\ OffIsNoted'
      BY <1>2, <1>4, <1>5, <1>7, <2>1, <2>2
      DEF FreedIsGone, TestsUpToDate, TestsFit, LinkOK, OffIsNoted, Parts,
          mtc_link_is_broken
    <2> QED  BY <1>4, <1>6, <1>7, <1>9, <2>1, <2>3 DEF Parts
  <1> QED  BY <1>10, <1>11

-----------------------------------------------------------------------------
(* The peer, and all the steps.                                            *)

(* What the remote end and the kernel do does not touch the tests that are prepared. *)
LEMMA PeerSteps ==
  ASSUME Parts, (\E what \in {"msg", "stop", "eof"} : PeerWrites(what)) \/ PeerReads
  PROVE  Parts'
  <1> USE EventAssumptions
  <1>1. UNCHANGED <<linkVars, tests, prepared, backs, lev>> /\ stack' = stack
    BY DEF PeerWrites, PeerReads, evVars
  <1>2. SameCalls(stack, stack')
    BY <1>1, UnchangedCalls DEF Parts
  <1>3. ASSUME NEW what \in {"msg", "stop", "eof"}, PeerWrites(what) PROVE PeerOK'
    <2>1. /\ incoming' \in Seq({"msg", "stop", "eof"}) /\ Len(incoming') = Len(incoming) + 1
          /\ Len(incoming) \in Nat
      BY <1>3 DEF PeerWrites, Parts, PeerOK
    <2>2. n_sent_in' \in 0..MaxIn /\ n_sent_in' >= n_sent_in + 1
      BY <1>3 DEF PeerWrites, Parts, PeerOK
    <2> QED  BY <1>3, <2>1, <2>2 DEF PeerWrites, Parts, PeerOK, Accounted
  <1>4. ASSUME PeerReads PROVE PeerOK'
    BY <1>4 DEF PeerReads, Parts, PeerOK, Accounted
  <1> QED  BY <1>1, <1>2, <1>3, <1>4, QuietStep

(* A link that was just made satisfies the invariant. *)
LEMMA InitParts == Init => Parts
  <1> SUFFICES ASSUME Init PROVE Parts
    OBVIOUS
  <1> USE EventAssumptions
  <1>1. LinkOK /\ PeerOK /\ stack \in Seq(Frame)
    <2>1. LinkOK
      <3>1. unsent = <<>> /\ unsent \in Seq(BOOLEAN)
        BY DEF Init
      <3>2. /\ in_status \in Status /\ out_status \in Status /\ enabled \in BOOLEAN
            /\ held \in BOOLEAN /\ freed \in BOOLEAN /\ prepared \in BOOLEAN
        BY DEF Init, Status
      <3> QED  BY <3>1, <3>2 DEF LinkOK
    <2>4. stack = <<>> /\ stack \in Seq(Frame)
      BY DEF Init
    <2>2. incoming = <<>> /\ Len(incoming) = 0 /\ n_queued = 0 /\ n_sent_in = 0 /\ dropped = 0
          /\ writable = TRUE
      BY DEF Init
    <2>3. incoming \in Seq({"msg", "stop", "eof"})
      BY <2>2
    <2> QED  BY <2>1, <2>2, <2>3, <2>4 DEF PeerOK, Accounted
  <1>2. tests \in Tests /\ tests.events = mtc_fd_link_calc_events("open", "open", <<>>)
    BY CalcType DEF Init, Tests, NoEvents, Pollable
  <1>3. backs \in SUBSET Backends /\ IsFiniteSet(backs)
    BY FS_EmptySet DEF Init
  <1>4. Running = {} /\ FramesApart /\ FreedIsGone /\ OffIsNoted
    BY DEF Init, Running, RunningIn, FramesApart, Apart, FreedIsGone, OffIsNoted, AllOff
  <1>5. Sound(lev, Running) /\ ListedIn(lev) = {}
    <2>1. lev = <<>> /\ DOMAIN lev = {}
      BY DEF Init
    <2>2. lev \in [DOMAIN lev -> LevTest]
      BY <2>1
    <2>3. ListedIn(lev) = {}
      BY <2>1 DEF ListedIn
    <2> HIDE DEF Init
    <2> QED  BY <1>4, <2>1, <2>2, <2>3 DEF Sound
  <1>6. TestsUpToDate
    BY <1>2 DEF Init, TestsUpToDate
  <1>7. TestsFit
    BY <1>5 DEF Init, TestsFit, Fits
  <1> QED  BY <1>1, <1>2, <1>3, <1>4, <1>5, <1>6, <1>7 DEF Parts

(* Every step keeps the invariant.                                         *)
LEMMA EventStep == Parts /\ [Next]_vars => Parts'
  <1> SUFFICES ASSUME Parts, [Next]_vars PROVE Parts'
    OBVIOUS
  <1>1. ASSUME Application PROVE Parts'
    BY <1>1, QueueStep, ResumeStep, SwitchStep, AttachStep, DetachStep, UnrefStep
    DEF Application
  <1>2. ASSUME event_source_event PROVE Parts'
    <2>1. ASSUME SendBreaks PROVE Parts'
      BY <2>1, BreaksStep DEF SendBreaks, At
    <2>2. ASSUME ReceiveBreaks PROVE Parts'
      BY <2>2, BreaksStep DEF ReceiveBreaks, CanReceive, At
    <2> QED  BY <1>2, <2>1, <2>2, SendSomeStep, IdleSteps, ReceiveStep, EndStep
             DEF event_source_event
  <1>3. ASSUME UNCHANGED vars PROVE Parts'
    <2>1. /\ UNCHANGED <<linkVars, tests, prepared, backs, lev>> /\ stack' = stack
          /\ UNCHANGED <<peerVars, n_queued, dropped>>
      BY <1>3 DEF vars, evVars
    <2>2. SameCalls(stack, stack') /\ PeerOK'
      BY <2>1, UnchangedCalls, PeerUnchanged DEF Parts
    <2> QED  BY <2>1, <2>2, QuietStep
  <1> QED  BY <1>1, <1>2, <1>3, ReturnStep, PollStep, DispatchStep, PeerSteps DEF Next

-----------------------------------------------------------------------------
(* Theorems.                                                               *)

(* The invariant above, of every execution.                                *)
THEOREM EventInvariant == Spec => []EventInv
  <1>1. Spec => []Parts
    BY InitParts, EventStep, PTL DEF Spec
  <1> QED  BY <1>1, PartsOfInv, PTL

(* The state of the link, its tests and the calls have their types.        *)
THEOREM EventTypes == Spec => []TypeOK
  <1>1. EventInv => TypeOK
    BY DEF EventInv
  <1> QED  BY <1>1, EventInvariant, PTL

(* The first of the RULES at fd_link.c:685: wherever someone can see it, a *)
(* link's tests wait for what its status and its queue call for.           *)
THEOREM RuleOfTests == Spec => []TestsUpToDate
  <1>1. EventInv => TestsUpToDate
    BY DEF EventInv
  <1> QED  BY <1>1, EventInvariant, PTL

(* The second: while the events of a working link are on, each backend has *)
(* one event for each test, and none otherwise.                            *)
THEOREM RuleOfPreparation == Spec => []PreparedWhenEnabled
  <1>1. ASSUME EventInv, ~freed PROVE PreparedWhenEnabled
    <2>1. /\ Sound(lev, Running) /\ Fits(lev, backs, tests.events, prepared)
          /\ prepared = (enabled /\ ~mtc_link_is_broken)
          /\ IsFiniteSet(backs) /\ Listed = ListedIn(lev)
      BY <1>1 DEF EventInv, TestsFit, Listed, ListedIn
    <2>2. /\ \A x \in Listed : /\ x \in TestIds /\ x[1] \in backs /\ x[2] \in TestList
                               /\ lev[x].flags = mtc_poll_to_lev(tests.events[x[2]])
          /\ ~prepared => Listed = {}
          /\ prepared => \A b \in backs, i \in TestList :
                           \E x \in Listed : x[1] = b /\ x[2] = i
          /\ \A x, y \in Listed : x[1] = y[1] /\ x[2] = y[2] => x = y
      BY <2>1, IdFacts DEF Fits, Sound, ListedIn
    <2> HIDE DEF Listed
    <2>3. {<<x[1], x[2]>> : x \in Listed} = IF prepared THEN backs \X TestList ELSE {}
      BY <2>2
    <2>4. Cardinality(Listed) <= Cardinality(backs \X TestList)
      <3> DEFINE f == [x \in Listed |-> <<x[1], x[2]>>]
                 all == backs \X TestList
      <3>1. f \in [Listed -> all] /\ \A x, y \in Listed : f[x] = f[y] => x = y
        BY <2>2
      <3>2. IsFiniteSet(all)
        <4>1. IsFiniteSet(TestList)
          <5>1. IsFiniteSet({1} \cup {2})
            BY FS_Singleton, FS_AddElement
          <5>2. TestList \in SUBSET ({1} \cup {2})
            BY DEF TestList
          <5> QED  BY <5>1, <5>2, FS_Subset
        <4> QED  BY <2>1, <4>1, FS_Product
      <3> HIDE DEF f, all
      <3>3. f \in Injection(Listed, all)
        BY <3>1, Fun_IsInj
      <3> QED  BY <3>2, <3>3, FS_Injection DEF all
    <2> QED  BY <2>1, <2>2, <2>3, <2>4 DEF PreparedWhenEnabled
  <1>2. EventInv => PreparedWhenEnabled
    BY <1>1 DEF PreparedWhenEnabled
  <1> QED  BY <1>2, EventInvariant, PTL

(* Every call that runs finds its test and its link, and neither is left   *)
(* when the last reference is gone (event.c:120, fd_link.c:719).           *)
THEOREM CallsHold == Spec => []CallsAreHeld
  <1>1. ASSUME EventInv PROVE CallsAreHeld
    <2>1. /\ Sound(lev, Running) /\ Apart(stack) /\ FreedIsGone
      BY <1>1 DEF EventInv, FramesApart
    <2>2. \A k \in 1..Len(stack) : stack[k].test \in DOMAIN lev
      BY <2>1 DEF Sound, Running, RunningIn
    <2>3. ASSUME NEW x
          PROVE  Cardinality({k \in 1..Len(stack) : stack[k].test = x}) = One(x \in Running)
      <3> DEFINE mine == {k \in 1..Len(stack) : stack[k].test = x}
      <3>1. CASE x \in Running
        <4>1. PICK k \in 1..Len(stack) : stack[k].test = x
          BY <3>1 DEF Running, RunningIn
        <4>2. mine = {k}
          BY <2>1, <4>1 DEF Apart
        <4> QED  BY <3>1, <4>2, FS_Singleton DEF One
      <3>2. CASE x \notin Running
        <4>1. mine = {}
          BY <3>2 DEF Running, RunningIn
        <4> QED  BY <3>2, <4>1, FS_EmptySet DEF One
      <3> QED  BY <3>1, <3>2
    <2>4. ASSUME NEW x \in DOMAIN lev
          PROVE  lev[x].refcount = (IF lev[x].disposed THEN 0 ELSE 1)
                   + Cardinality({k \in 1..Len(stack) : stack[k].test = x})
      <3>1. lev[x].refcount = One(~lev[x].disposed) + One(x \in Running)
        BY <2>1 DEF Sound
      <3> QED  BY <2>3, <3>1 DEF One
    <2> QED  BY <2>1, <2>2, <2>4 DEF CallsAreHeld, FreedIsGone
  <1> QED  BY <1>1, EventInvariant, PTL

(* A message that was received is withheld from the application only if it *)
(* has switched the events off in this very call (fd_link.c:761).          *)
THEOREM OnlyToldDrops == Spec => DropsOnlyWhenTold
  <1>1. ASSUME EventInv, [Next]_vars PROVE [dropped' # dropped => Head(stack).off]_vars
    <2>1. ASSUME dropped' # dropped PROVE Receive
      BY <1>1, <2>1
      DEF Next, vars, Application, event_source_event, Queue, Resume, SetEventsEnabled, Attach,
          Detach, Unref, Return, Poll, Dispatch, SendSome, SendBreaks, SkipSend, CheckIn,
          ReceiveBreaks, ReceiveEnds, End, PeerWrites, PeerReads, Breaks
    <2>2. ASSUME Receive, dropped' # dropped PROVE Head(stack).off
      <3>1. stack # <<>> /\ ~enabled
        BY <2>2 DEF Receive, CanReceive, At
      <3>2. AllOff(stack) /\ stack \in Seq(Frame)
        BY <1>1, <3>1 DEF EventInv, OffIsNoted, TypeOK
      <3> QED  BY <3>1, <3>2, HeadFrame DEF AllOff
    <2> QED  BY <2>1, <2>2
  <1> QED  BY <1>1, EventInvariant, PTL DEF Spec, DropsOnlyWhenTold

=============================================================================
