-------------------------- MODULE ObjectMirrorProofs --------------------------
(* Proof of Mirror, that a followed folder and its entries agree once the    *)
(* inotify queue is drained: what the queue tells of the disks, where the    *)
(* watches are, and what the entries of a folder lack until it is handled.   *)
EXTENDS ObjectDbProofs

-----------------------------------------------------------------------------
(* What the queue tells of the disks.                                        *)

\* The event says that name n came to or left the directory of watch w.
Tells(e, w, n) == e.wd = w /\ e.name = n /\ e.mask # "modify"

Told(es, w, n) == \E k \in DOMAIN es : Tells(es[k], w, n)

\* The kernel has one watch for a directory.
OneWatch == \A v, w \in DOMAIN watches : watches[v] = watches[w] => v = w

\* The last word of the queue on a name of a watched directory is the truth.
Truthful ==
  \A w \in DOMAIN watches, n \in Names, k \in DOMAIN events :
    Tells(events[k], w, n) =>
      \/ \E l \in DOMAIN events : l > k /\ Tells(events[l], w, n)
      \/ (events[k].mask = "create" <=> n \in Listing(watches[w]))

\* Events of a step that adds no watch: what they tell of a directory that is
\* still watched is true, what they do not mention is as it was.
Reported(es) ==
  /\ es \in Seq(InotifyEvent) /\ events' = events \o es
  /\ \A k \in DOMAIN es : es[k].wd \in DOMAIN watches
  /\ DOMAIN watches' \subseteq DOMAIN watches
  /\ \A w \in DOMAIN watches', n \in Names :
       IF Told(es, w, n)
       THEN \A k \in DOMAIN es :
              Tells(es[k], w, n) => (es[k].mask = "create" <=> n \in Listing(watches[w])')
       ELSE n \in Listing(watches[w])' <=> n \in Listing(watches[w])

\* The old and the new events in the longer queue.
LEMMA Longer ==
  ASSUME events \in Seq(InotifyEvent), NEW es \in Seq(InotifyEvent), events' = events \o es
  PROVE  /\ \A k \in DOMAIN events : k \in DOMAIN events' /\ events'[k] = events[k]
         /\ \A k \in DOMAIN es : /\ Len(events) + k \in DOMAIN events'
                                 /\ events'[Len(events) + k] = es[k]
         /\ \A k \in DOMAIN events' : k \notin DOMAIN events =>
              k - Len(events) \in DOMAIN es /\ events'[k] = es[k - Len(events)] /\ k > Len(events)
         /\ Len(events) \in Nat /\ DOMAIN events = 1..Len(events) /\ DOMAIN es \subseteq Nat \ {0}
<1>1. PICK a, b : a = Len(events) /\ b = Len(es)
  OBVIOUS
<1>2. a \in Nat /\ b \in Nat /\ DOMAIN events = 1..a /\ DOMAIN es = 1..b
  BY <1>1, LenProperties
<1>3. Len(events') = a + b /\ DOMAIN events' = 1..(a + b)
  BY <1>1, ConcatProperties, LenProperties
<1>4. \A k \in 1..(a + b) : events'[k] = IF k <= a THEN events[k] ELSE es[k - a]
  BY <1>1, ConcatProperties
<1> QED BY <1>1, <1>2, <1>3, <1>4

\* The queue stays truthful.
LEMMA ReportedTruthful ==
  ASSUME KernelOK, Truthful, NEW es, Reported(es)
  PROVE  Truthful'
<1>1. es \in Seq(InotifyEvent) /\ events' = events \o es /\ events \in Seq(InotifyEvent)
  BY DEF Reported, KernelOK
<1>2. SUFFICES ASSUME NEW w \in DOMAIN watches', NEW n \in Names, NEW k \in DOMAIN events',
                      Tells(events'[k], w, n),
                      ~(events'[k].mask = "create" <=> n \in Listing(watches[w])')
               PROVE  \E l \in DOMAIN events' : l > k /\ Tells(events'[l], w, n)
  BY DEF Truthful, Tells
<1>3. w \in DOMAIN watches
  BY DEF Reported
<1>4. k \in DOMAIN events
  <2> SUFFICES ASSUME k \notin DOMAIN events PROVE FALSE
    OBVIOUS
  <2>1. k - Len(events) \in DOMAIN es /\ Tells(es[k - Len(events)], w, n)
        /\ events'[k] = es[k - Len(events)]
    BY <1>1, <1>2, Longer
  <2> QED BY <1>2, <2>1 DEF Reported, Told
<1>5. CASE Told(es, w, n)
  <2>1. PICK l \in DOMAIN es : Tells(es[l], w, n)
    BY <1>5 DEF Told
  <2>2. Len(events) + l \in DOMAIN events' /\ events'[Len(events) + l] = es[l]
        /\ Len(events) + l > k
    BY <1>1, <1>4, Longer
  <2> QED BY <2>1, <2>2
<1>6. CASE ~Told(es, w, n)
  <2>1. n \in Listing(watches[w])' <=> n \in Listing(watches[w])
    BY <1>6 DEF Reported
  <2>2. events'[k] = events[k]
    BY <1>1, <1>4, Longer
  <2>3. PICK l \in DOMAIN events : l > k /\ Tells(events[l], w, n)
    BY <1>2, <1>3, <1>4, <2>1, <2>2 DEF Truthful
  <2>4. l \in DOMAIN events' /\ events'[l] = events[l]
    BY <1>1, Longer
  <2> QED BY <2>3, <2>4
<1> QED BY <1>5, <1>6

\* Some watch hears of p.
Heard(p) == WatchersOf(Front(p)) # {}

\* A path is heard of where the kernel makes an event of what is done to it.
LEMMA HeardIs ==
  ASSUME NEW p, Len(p) > 1 PROVE Heard(p) <=> Watched({p}) # {}
BY DEF Heard, Watched

\* The descriptor of an event is that of a watch.
LEMMA EventHeard ==
  ASSUME NEW p, Heard(p), NEW mask
  PROVE  EventFor(p, mask).wd \in DOMAIN watches
<1>1. EventFor(p, mask).wd = CHOOSE w \in WatchersOf(Front(p)) : TRUE
  BY DEF EventFor
<1> QED BY <1>1 DEF Heard, WatchersOf

\* The event about object p tells of p, to the watch of the directory p is in.
LEMMA EventTells ==
  ASSUME KernelOK, OneWatch, NEW p \in Paths, Len(p) > 1,
         NEW mask \in {"create", "modify", "delete"}, NEW w \in DOMAIN watches, NEW n \in Names
  PROVE  /\ EventFor(p, mask).mask = mask
         /\ p = Append(watches[w], n) <=>
              Heard(p) /\ EventFor(p, mask).wd = w /\ EventFor(p, mask).name = n
<1>1. EventFor(p, mask) = [wd |-> CHOOSE v \in WatchersOf(Front(p)) : TRUE, name |-> Last(p),
                           mask |-> mask]
  BY DEF EventFor
<1>2. watches[w] \in Paths
  BY DEF KernelOK, WatchesSet, DiskTree
<1>3. ASSUME p = Append(watches[w], n)
      PROVE  Heard(p) /\ EventFor(p, mask).wd = w /\ EventFor(p, mask).name = n
  <2>1. Front(p) = watches[w] /\ Last(p) = n
    <3>1. watches[w] \in Seq(Places) /\ n \in Places
      BY <1>2 DEF Paths, Places
    <3>2. PICK d : d = watches[w]
      OBVIOUS
    <3>3. d \in Seq(Places) /\ p = Append(d, n)
      BY <1>3, <3>1, <3>2
    <3>4. Front(Append(d, n)) = d /\ Last(Append(d, n)) = n
      BY <3>1, <3>3, OneMore
    <3> QED BY <3>2, <3>3, <3>4
  <2>2. WatchersOf(Front(p)) = {w}
    BY <2>1 DEF WatchersOf, OneWatch
  <2>3. Heard(p)
    BY <2>2 DEF Heard
  <2> QED BY <1>1, <2>1, <2>2, <2>3
<1>4. ASSUME Heard(p), EventFor(p, mask).wd = w, EventFor(p, mask).name = n
      PROVE  p = Append(watches[w], n)
  <2>1. WatchersOf(Front(p)) # {}
    BY <1>4 DEF Heard
  <2>2. w \in WatchersOf(Front(p)) /\ Last(p) = n
    BY <1>1, <1>4, <2>1
  <2>3. watches[w] = Front(p)
    BY <2>2 DEF WatchersOf
  <2> QED BY <2>2, <2>3, PathEnds
<1>5. EventFor(p, mask).mask = mask
  BY <1>1
<1> QED BY <1>3, <1>4, <1>5

\* An object appears.
LEMMA GainsReport ==
  ASSUME KernelOK, OneWatch, NEW p, NEW kind, Gains(p, kind)
  PROVE  \E es : /\ Reported(es) /\ watches' = watches
                 /\ \A w \in DOMAIN watches, n \in Names :
                      p = Append(watches[w], n) => Told(es, w, n)
<1>1. p \in Paths /\ Len(p) > 1 /\ watches' = watches /\ DOMAIN disk' = DOMAIN disk \cup {p}
      /\ events' = Queued(p, "create")
  BY DEF Gains, DiskGains
<1>2. ASSUME NEW w \in DOMAIN watches, NEW n \in Names
      PROVE  /\ p = Append(watches[w], n) => n \in Listing(watches[w])'
             /\ p # Append(watches[w], n) =>
                  (n \in Listing(watches[w])' <=> n \in Listing(watches[w]))
  BY <1>1 DEF Listing
<1>3. PICK e : e = EventFor(p, "create")
  OBVIOUS
<1>4. ASSUME NEW w \in DOMAIN watches, NEW n \in Names
      PROVE  /\ e.mask = "create"
             /\ p = Append(watches[w], n) => Heard(p) /\ Tells(e, w, n)
             /\ Heard(p) /\ Tells(e, w, n) => p = Append(watches[w], n)
  <2>1. e.mask = "create"
    BY <1>1, <1>3, EventTells
  <2>2. p = Append(watches[w], n) <=> Heard(p) /\ e.wd = w /\ e.name = n
    <3>1. p = Append(watches[w], n) <=> /\ Heard(p) /\ EventFor(p, "create").wd = w
                                        /\ EventFor(p, "create").name = n
      BY <1>1, EventTells
    <3> QED BY <1>3, <3>1, Zenon
  <2> QED BY <2>1, <2>2 DEF Tells
<1>5. CASE ~Heard(p)
  <2>1. events' = events \o <<>> /\ <<>> \in Seq(InotifyEvent)
    BY <1>1, <1>5, HeardIs DEF Queued, KernelOK
  <2>2. \A w, n : ~Told(<<>>, w, n)
    BY DEF Told
  <2>3. Reported(<<>>)
    BY <1>1, <1>2, <1>4, <1>5, <2>1, <2>2 DEF Reported
  <2> QED BY <1>1, <1>4, <1>5, <2>3
<1>6. CASE Heard(p)
  <2>1. e \in InotifyEvent
    BY <1>1, <1>3, <1>6, HeardIs, EventTyped DEF KernelOK
  <2>2. PICK es : es = <<e>>
    OBVIOUS
  <2>3. es \in Seq(InotifyEvent) /\ events' = events \o es /\ DOMAIN es = {1} /\ es[1] = e
    <3>1. events' = Append(events, e)
      BY <1>1, <1>3, <1>6, HeardIs DEF Queued
    <3>2. events \in Seq(InotifyEvent)
      BY DEF KernelOK
    <3>3. Append(events, e) = events \o <<e>>
      BY <2>1, <3>2
    <3> QED BY <2>1, <2>2, <3>1, <3>3
  <2>4. \A w, n : Told(es, w, n) <=> Tells(e, w, n)
    BY <2>3 DEF Told
  <2>5. Reported(es)
    BY <1>1, <1>2, <1>3, <1>4, <1>6, <2>3, <2>4, EventHeard DEF Reported
  <2> QED BY <1>1, <1>4, <2>4, <2>5
<1> QED BY <1>5, <1>6

\* Objects go.
LEMMA LosesReport ==
  ASSUME KernelOK, OneWatch, NEW gone, NEW dropped, Loses(gone, dropped)
  PROVE  \E es : /\ Reported(es)
                 /\ \A w \in DOMAIN watches' : watches'[w] = watches[w]
                 /\ \A w \in DOMAIN watches', n \in Names :
                      Append(watches[w], n) \in gone => Told(es, w, n)
<1>1. DOMAIN disk' = DOMAIN disk \ gone /\ gone \subseteq DOMAIN disk /\ DiskLoses(gone, dropped)
  BY LosesKeep DEF Loses
<1>2. \A w \in DOMAIN watches' : w \in DOMAIN watches /\ watches'[w] = watches[w]
  BY <1>1 DEF DiskLoses, Restrict
<1>3. PICK order \in RemovalOrders(Watched(gone)) :
        events' = events \o [k \in DOMAIN order |-> EventFor(order[k], "delete")]
  BY <1>1 DEF DiskLoses
<1>4. PICK W : W = Watched(gone)
  OBVIOUS
<1>5. W \subseteq DOMAIN disk /\ IsFiniteSet(W)
  BY <1>1, <1>4, FS_Subset DEF Watched, KernelOK, DiskTree
<1>6. PICK m \in Nat : m = Cardinality(W)
  BY <1>5, FS_CardinalityType
<1>7. order \in [1..m -> W] /\ \A a, b \in 1..m : a # b => order[a] # order[b]
  BY <1>3, <1>4, <1>6 DEF RemovalOrders, SetToSeqs
<1>8. \A p \in W : \E k \in 1..m : order[k] = p
  <2>1. order \in Injection(1..m, W)
    BY <1>7 DEF Injection, IsInjective
  <2>2. Cardinality(1..m) = m
    BY FS_Interval
  <2>3. order \in Surjection(1..m, W)
    BY <1>5, <1>6, <2>1, <2>2, FS_Injection
  <2> QED BY <2>3 DEF Surjection
<1>9. PICK es : es = [k \in DOMAIN order |-> EventFor(order[k], "delete")]
  OBVIOUS
<1>10. DOMAIN es = 1..m /\ \A k \in 1..m : es[k] = EventFor(order[k], "delete")
  BY <1>7, <1>9
<1>11. ASSUME NEW p \in W
       PROVE  /\ p \in Paths /\ Len(p) > 1 /\ Heard(p)
              /\ EventFor(p, "delete") \in InotifyEvent
  <2>1. p \in Paths /\ Len(p) > 1 /\ Heard(p)
    BY <1>4, <1>5 DEF Watched, Heard, KernelOK, DiskTree
  <2> QED BY <2>1, HeardIs, EventTyped DEF KernelOK
<1>12. es \in Seq(InotifyEvent)
  <2>1. es = [k \in 1..m |-> EventFor(order[k], "delete")]
    BY <1>7, <1>9
  <2>2. \A k \in 1..m : EventFor(order[k], "delete") \in InotifyEvent
    BY <1>7, <1>11
  <2>3. es \in [1..m -> InotifyEvent]
    BY <2>1, <2>2
  <2> QED BY <2>3, SeqDef
<1>13. ASSUME NEW w \in DOMAIN watches, NEW n \in Names
       PROVE  /\ \A k \in DOMAIN es : /\ es[k].mask = "delete"
                                      /\ Tells(es[k], w, n) => Append(watches[w], n) \in gone
              /\ Append(watches[w], n) \in gone => Told(es, w, n)
  <2>1. ASSUME NEW k \in DOMAIN es
        PROVE  es[k].mask = "delete" /\ (Tells(es[k], w, n) => Append(watches[w], n) \in gone)
    <3>1. PICK p \in W : p = order[k] /\ es[k] = EventFor(p, "delete")
      BY <1>7, <1>10, <2>1
    <3>2. p \in gone
      BY <1>4, <3>1 DEF Watched
    <3>3. /\ es[k].mask = "delete"
          /\ es[k].wd = w /\ es[k].name = n => p = Append(watches[w], n)
      <4>1. p \in Paths /\ Len(p) > 1 /\ Heard(p)
        BY <1>11
      <4>2. /\ EventFor(p, "delete").mask = "delete"
            /\ p = Append(watches[w], n) <=> /\ Heard(p) /\ EventFor(p, "delete").wd = w
                                             /\ EventFor(p, "delete").name = n
        BY <4>1, EventTells
      <4> QED BY <3>1, <4>1, <4>2
    <3> QED BY <3>2, <3>3 DEF Tells
  <2>2. ASSUME Append(watches[w], n) \in gone PROVE Told(es, w, n)
    <3>1. PICK p : p = Append(watches[w], n)
      OBVIOUS
    <3>2. p \in Paths /\ Len(p) > 1
      BY <3>1, PathGrows DEF KernelOK, WatchesSet, DiskTree
    <3>3. /\ Heard(p) /\ EventFor(p, "delete").wd = w /\ EventFor(p, "delete").name = n
          /\ EventFor(p, "delete").mask = "delete"
      <4>1. /\ EventFor(p, "delete").mask = "delete"
            /\ p = Append(watches[w], n) <=> /\ Heard(p) /\ EventFor(p, "delete").wd = w
                                             /\ EventFor(p, "delete").name = n
        BY <3>2, EventTells
      <4> QED BY <3>1, <4>1, Zenon
    <3>4. p \in W
      <4>1. WatchersOf(Front(p)) # {}
        BY <3>3 DEF Heard
      <4> QED BY <1>4, <2>2, <3>1, <3>2, <4>1 DEF Watched
    <3>5. PICK k \in 1..m : order[k] = p
      BY <1>8, <3>4
    <3> QED BY <1>10, <3>3, <3>5 DEF Told, Tells
  <2> QED BY <2>1, <2>2
<1>14. ASSUME NEW w \in DOMAIN watches', NEW n \in Names
       PROVE  n \in Listing(watches[w])' <=>
                n \in Listing(watches[w]) /\ Append(watches[w], n) \notin gone
  BY <1>1, <1>2 DEF Listing
<1>15. Reported(es)
  <2>1. events' = events \o es
    BY <1>3, <1>9
  <2>2. DOMAIN watches' \subseteq DOMAIN watches
    BY <1>2
  <2>3. ASSUME NEW w \in DOMAIN watches', NEW n \in Names, Told(es, w, n),
               NEW k \in DOMAIN es, Tells(es[k], w, n)
        PROVE  es[k].mask = "create" <=> n \in Listing(watches[w])'
    BY <1>13, <1>14, <2>2, <2>3
  <2>4. ASSUME NEW w \in DOMAIN watches', NEW n \in Names, ~Told(es, w, n)
        PROVE  n \in Listing(watches[w])' <=> n \in Listing(watches[w])
    BY <1>13, <1>14, <2>2, <2>4
  <2>5. \A k \in DOMAIN es : es[k].wd \in DOMAIN watches
    BY <1>7, <1>10, <1>11, EventHeard
  <2> QED BY <1>12, <2>1, <2>2, <2>3, <2>4, <2>5 DEF Reported
<1> QED BY <1>2, <1>13, <1>15

\* What lies below p is told from what does not by its directory.
LEMMA BelowByFront ==
  ASSUME NEW p \in Paths, NEW x \in Paths, NEW n \in Names, NEW y, y = Append(x, n)
  PROVE  /\ y \in Paths /\ Len(y) = Len(x) + 1 /\ Len(x) \in Nat
         /\ y # p => (IsPrefix(p, y) <=> IsPrefix(p, x))
         /\ y = p => ~IsPrefix(p, x)
<1>1. p \in Seq(Places) /\ x \in Seq(Places) /\ n \in Places
  BY DEF Paths, Places
<1>2. y \in Paths /\ y # <<>> /\ Front(y) = x
  BY PathGrows
<1>3. Len(y) = Len(x) + 1 /\ Len(x) \in Nat
  BY <1>1
<1>4. y \in Seq(Places)
  BY <1>2 DEF Paths
<1>5. /\ IsPrefix(p, y) /\ p # y => IsPrefix(p, x)
      /\ IsPrefix(p, x) => IsPrefix(p, y) /\ p # y
  <2>1. /\ IsPrefix(p, y) /\ p # y => IsPrefix(p, Front(y))
        /\ IsPrefix(p, Front(y)) => IsPrefix(p, y) /\ p # y
    BY <1>1, <1>2, <1>4, PrefixFront, Zenon
  <2> QED BY <1>2, <2>1
<1> QED BY <1>2, <1>3, <1>5

\* Renaming commutes with a name at the end.
LEMMA RebasedAppend ==
  ASSUME NEW p \in Paths, NEW q \in Paths, NEW x \in Paths, NEW n \in Names, IsPrefix(p, x)
  PROVE  Rebased(p, q, Append(x, n)) = Append(Rebased(p, q, x), n)
<1>1. p \in Seq(Places) /\ q \in Seq(Places) /\ x \in Seq(Places) /\ n \in Places
  BY DEF Paths, Places
<1>2. PICK y : y = Append(x, n)
  OBVIOUS
<1>3. y \in Seq(Places) /\ Len(y) = Len(x) + 1 /\ y[Len(x) + 1] = n
      /\ \A k \in 1..Len(x) : y[k] = x[k]
  BY <1>1, <1>2
<1>4. IsPrefix(p, y)
  BY <1>2, BelowByFront, PathGrows
<1>5. PICK a, b : a = Rebased(p, q, x) /\ b = Rebased(p, q, y)
  OBVIOUS
<1>6. a \in Seq(Places) /\ b \in Seq(Places) /\ Joined(p, q, x, a) /\ Joined(p, q, y, b)
  BY <1>1, <1>3, <1>4, <1>5, RebasedIs
<1>7. PICK lp, lq, lx \in Nat : lp = Len(p) /\ lq = Len(q) /\ lx = Len(x)
  BY <1>1, LenProperties
<1>8. lp <= lx
  BY <1>1, <1>7, PrefixIs
<1>9. Len(a) = lq + (lx - lp) /\ Len(b) = Len(a) + 1
  BY <1>3, <1>6, <1>7, <1>8 DEF Joined
<1>10. \A k \in 1..Len(a) : b[k] = a[k]
  <2>1. ASSUME NEW k \in 1..Len(a) PROVE b[k] = a[k]
    <3>1. CASE k <= lq
      BY <1>6, <1>7, <3>1 DEF Joined
    <3>2. CASE k > lq
      <4>1. PICK j \in 1..(lx - lp) : k = lq + j
        <5>1. k \in Int /\ k > lq /\ k <= lq + (lx - lp)
          BY <1>7, <1>8, <1>9, <3>2
        <5>2. k - lq \in 1..(lx - lp) /\ k = lq + (k - lq)
          BY <1>7, <1>8, <5>1
        <5> QED BY <5>2
      <4>2. a[lq + j] = x[lp + j] /\ b[lq + j] = y[lp + j]
        <5>1. a[lq + j] = x[lp + j]
          BY <1>6, <1>7, <1>8, <4>1 DEF Joined
        <5>2. b[lq + j] = y[lp + j]
          BY <1>3, <1>6, <1>7, <1>8, <4>1 DEF Joined
        <5> QED BY <5>1, <5>2
      <4>3. y[lp + j] = x[lp + j]
        BY <1>3, <1>7, <1>8, <4>1
      <4> QED BY <4>1, <4>2, <4>3
    <3> QED BY <1>7, <1>9, <3>1, <3>2
  <2> QED BY <2>1
<1>11. b[Len(a) + 1] = n
  <2>1. b[lq + (lx + 1 - lp)] = y[lp + (lx + 1 - lp)]
    <3>1. Len(y) - Len(p) = lx + 1 - lp /\ lx + 1 - lp \in 1..(lx + 1 - lp)
      BY <1>3, <1>7, <1>8
    <3>2. \A k \in 1..(Len(y) - Len(p)) : b[Len(q) + k] = y[Len(p) + k]
      BY <1>6 DEF Joined
    <3> QED BY <1>7, <3>1, <3>2
  <2>2. lq + (lx + 1 - lp) = Len(a) + 1 /\ lp + (lx + 1 - lp) = lx + 1
    BY <1>7, <1>8, <1>9
  <2> QED BY <1>3, <1>7, <2>1, <2>2
<1>12. b = Append(a, n)
  <2>1. PICK c : c = Append(a, n)
    OBVIOUS
  <2>2. c \in Seq(Places) /\ Len(c) = Len(a) + 1 /\ c[Len(a) + 1] = n
        /\ \A k \in 1..Len(a) : c[k] = a[k]
    BY <1>1, <1>6, <2>1
  <2>3. Len(b) = Len(c) /\ \A k \in 1..Len(b) : b[k] = c[k]
    BY <1>6, <1>9, <1>10, <1>11, <2>2
  <2> QED BY <1>6, <2>1, <2>2, <2>3, SeqEqual
<1> QED BY <1>2, <1>5, <1>12

\* No two objects get the same place; what has the place an object y gets was y.
LEMMA MovedOnce ==
  ASSUME KernelOK, NEW p, NEW q, Moves(p, q), NEW y \in Paths, ~IsPrefix(q, y),
         NEW z \in DOMAIN disk \ {q}, Moved(p, q, y) = Moved(p, q, z)
  PROVE  y = z
<1>1. q \in Paths /\ p \in Paths /\ z \in Paths /\ ~IsPrefix(q, z)
  BY MovesWhole DEF Moves
<1>2. p \in Seq(Places) /\ q \in Seq(Places) /\ y \in Seq(Places) /\ z \in Seq(Places)
  BY <1>1 DEF Paths
<1>3. \A r \in {y, z} : IsPrefix(p, r) =>
        IsPrefix(q, Rebased(p, q, r)) /\ Rebased(q, p, Rebased(p, q, r)) = r
  BY <1>2, RebasedBack
<1> QED BY <1>1, <1>3 DEF Moved

\* What a directory lists after a move: p is gone from it, q is in it, and the
\* rest is as it was, wherever the directory itself went.
LEMMA MovedListing ==
  ASSUME KernelOK, NEW p, NEW q, Moves(p, q), NEW x \in DOMAIN disk \ {q}, NEW n \in Names
  PROVE  n \in Listing(Moved(p, q, x))' <=>
           \/ Append(x, n) = q
           \/ Append(x, n) # p /\ n \in Listing(x)
<1>1. /\ p \in DOMAIN disk /\ p \in Paths /\ p # q /\ q \in Paths
      /\ DOMAIN disk' = {Moved(p, q, r) : r \in DOMAIN disk \ {q}}
      /\ x \in Paths
      /\ \A r \in DOMAIN disk \ {q} : r \in Paths /\ ~IsPrefix(q, r)
  <2>1. q \in Paths /\ CanMove(p, q) /\ DiskMoves(p, q)
    BY DEF Moves
  <2>2. /\ p \in DOMAIN disk /\ p \in Paths /\ p # q
        /\ DOMAIN disk' = {Moved(p, q, r) : r \in DOMAIN disk \ {q}}
        /\ \A r \in DOMAIN disk \ {q} : r \in Paths /\ ~IsPrefix(q, r)
    BY <2>1, MovesWhole
  <2> QED BY <2>1, <2>2
<1>2. ~IsPrefix(p, q)
  BY DEF Moves, CanMove
<1>3. PICK y : y = Append(x, n)
  OBVIOUS
<1>4. /\ y \in Paths
      /\ y # p => (IsPrefix(p, y) <=> IsPrefix(p, x))
      /\ y = p => ~IsPrefix(p, x)
  BY <1>1, <1>3, BelowByFront
<1>5. n \in Listing(x) <=> y \in DOMAIN disk
  BY <1>3 DEF Listing
<1>6. n \in Listing(Moved(p, q, x))' <=> Append(Moved(p, q, x), n) \in DOMAIN disk'
  BY DEF Listing, Moved
<1>7. ASSUME y # p PROVE Append(Moved(p, q, x), n) = Moved(p, q, y)
  <2>1. CASE IsPrefix(p, x)
    BY <1>1, <1>3, <1>4, <1>7, <2>1, RebasedAppend DEF Moved
  <2>2. CASE ~IsPrefix(p, x)
    BY <1>3, <1>4, <1>7, <2>2 DEF Moved
  <2> QED BY <2>1, <2>2
<1>8. CASE y = p
  <2>1. Append(Moved(p, q, x), n) = p
    BY <1>3, <1>4, <1>8 DEF Moved
  <2>2. ASSUME NEW z \in DOMAIN disk \ {q}, Moved(p, q, z) = p PROVE FALSE
    <3>1. p \in Seq(Places) /\ q \in Seq(Places) /\ z \in Seq(Places)
      BY <1>1 DEF Paths
    <3>2. CASE IsPrefix(p, z)
      <4>1. IsPrefix(q, Rebased(p, q, z))
        BY <3>1, <3>2, RebasedBack
      <4> QED BY <1>1, <2>2, <3>2, <4>1 DEF Moved
    <3>3. CASE ~IsPrefix(p, z)
      <4>1. z = p
        BY <2>2, <3>3 DEF Moved
      <4> QED BY <3>1, <3>3, <4>1, PrefixIs
    <3> QED BY <3>2, <3>3
  <2> QED BY <1>1, <1>3, <1>6, <1>8, <2>1, <2>2
<1>9. CASE y = q
  <2>1. Moved(p, q, x) = x
    BY <1>1, <1>2, <1>4, <1>9 DEF Moved
  <2>2. Moved(p, q, p) = q
    <3>1. p \in Seq(Places) /\ q \in Seq(Places)
      BY <1>1 DEF Paths
    <3>2. IsPrefix(p, p)
      BY <3>1, PrefixIs
    <3> QED BY <3>1, <3>2, RebasedFront DEF Moved
  <2> QED BY <1>1, <1>3, <1>6, <1>9, <2>1, <2>2
<1>10. CASE y # p /\ y # q
  <2>1. ASSUME y \in DOMAIN disk PROVE Append(Moved(p, q, x), n) \in DOMAIN disk'
    BY <1>1, <1>7, <1>10, <2>1
  <2>2. ASSUME Append(Moved(p, q, x), n) \in DOMAIN disk' PROVE y \in DOMAIN disk
    <3>1. PICK z \in DOMAIN disk \ {q} : Moved(p, q, y) = Moved(p, q, z)
      BY <1>1, <1>7, <1>10, <2>2
    <3>2. ~IsPrefix(q, y)
      BY <1>1, <1>3, <1>10, BelowByFront
    <3> QED BY <1>4, <3>1, <3>2, MovedOnce
  <2> QED BY <1>3, <1>5, <1>6, <1>10, <2>1, <2>2
<1> QED BY <1>8, <1>9, <1>10

\* The events of a move: where both names are in one watched directory it is told
\* of both, the old one first.
MoveReported(es, p, q) ==
  /\ Reported(es)
  /\ \A w \in DOMAIN watches' : /\ watches[w] \in DOMAIN disk \ {q}
                                /\ watches'[w] = Moved(p, q, watches[w])
  /\ \A w \in DOMAIN watches, n, m \in Names :
       p = Append(watches[w], n) /\ q = Append(watches[w], m) =>
         /\ DOMAIN es = {1, 2}
         /\ Tells(es[1], w, n) /\ es[1].mask = "delete" /\ Tells(es[2], w, m)

\* An object is renamed: its watches go with it.
LEMMA MovesReport ==
  ASSUME KernelOK, OneWatch, NEW p, NEW q, Moves(p, q), Len(p) > 1
  PROVE  \E es : MoveReported(es, p, q)
<1>1. p \in Paths /\ q \in Paths /\ p # q /\ p \in DOMAIN disk
  BY MovesWhole DEF Moves
<1>2. Len(q) > 1
  <2>1. Front(q) \in DOMAIN disk
    BY DEF Moves, CanMove, IsDir
  <2>2. Front(q) \in Paths
    BY <2>1 DEF KernelOK, DiskTree
  <2>3. q \in Seq(Places) /\ q # <<>>
    BY <1>1 DEF Paths
  <2>4. Len(Front(q)) = Len(q) - 1
    BY <2>3, FrontIs
  <2> QED BY <2>2, <2>3, <2>4 DEF Paths
<1>3. ASSUME NEW w \in DOMAIN watches'
      PROVE  /\ w \in DOMAIN watches /\ watches[w] \in DOMAIN disk \ {q}
             /\ watches'[w] = Moved(p, q, watches[w])
  <2>1. w \in DOMAIN watches /\ watches[w] # q /\ watches'[w] = Moved(p, q, watches[w])
    BY DEF Moves, DiskMoves, Moved, Rebased
  <2> QED BY <2>1 DEF KernelOK, WatchesSet
<1>4. ASSUME NEW w \in DOMAIN watches', NEW n \in Names
      PROVE  n \in Listing(watches[w])' <=>
               \/ Append(watches[w], n) = q
               \/ Append(watches[w], n) # p /\ n \in Listing(watches[w])
  <2>1. PICK x : x = watches[w]
    OBVIOUS
  <2>2. x \in DOMAIN disk \ {q} /\ watches'[w] = Moved(p, q, x)
    BY <1>3, <2>1
  <2>3. n \in Listing(Moved(p, q, x))' <=>
           \/ Append(x, n) = q
           \/ Append(x, n) # p /\ n \in Listing(x)
    BY <2>2, MovedListing
  <2>4. Listing(watches[w])' = Listing(Moved(p, q, x))'
    BY <2>2 DEF Listing, Moved
  <2> QED BY <2>1, <2>3, <2>4
<1>5. PICK a, b : a = EventFor(p, "delete") /\ b = EventFor(q, "create")
  OBVIOUS
<1>6. ASSUME NEW w \in DOMAIN watches, NEW n \in Names
      PROVE  /\ a.mask = "delete" /\ (Heard(p) /\ Tells(a, w, n) <=> p = Append(watches[w], n))
             /\ b.mask = "create" /\ (Heard(q) /\ Tells(b, w, n) <=> q = Append(watches[w], n))
  <2>1. /\ EventFor(p, "delete").mask = "delete"
        /\ p = Append(watches[w], n) <=> /\ Heard(p) /\ EventFor(p, "delete").wd = w
                                         /\ EventFor(p, "delete").name = n
    BY <1>1, EventTells
  <2>2. /\ EventFor(q, "create").mask = "create"
        /\ q = Append(watches[w], n) <=> /\ Heard(q) /\ EventFor(q, "create").wd = w
                                         /\ EventFor(q, "create").name = n
    BY <1>1, <1>2, EventTells
  <2> QED BY <1>5, <2>1, <2>2 DEF Tells
<1>7. PICK from, to :
        /\ from = IF ~Heard(p) THEN <<>> ELSE <<a>>
        /\ to = IF ~Heard(q) THEN <<>> ELSE <<b>>
        /\ events' = events \o from \o to
  BY <1>2, <1>5, HeardIs DEF Moves, DiskMoves
<1>8. (Heard(p) => a \in InotifyEvent) /\ (Heard(q) => b \in InotifyEvent)
  BY <1>1, <1>2, <1>5, HeardIs, EventTyped DEF KernelOK
<1>9. from \in Seq(InotifyEvent) /\ to \in Seq(InotifyEvent) /\ events \in Seq(InotifyEvent)
  BY <1>7, <1>8 DEF KernelOK
<1>10. PICK es : es = from \o to
  OBVIOUS
<1>11. es \in Seq(InotifyEvent) /\ events' = events \o es
  <2>1. es \in Seq(InotifyEvent)
    BY <1>9, <1>10, ConcatProperties
  <2>2. (events \o from) \o to = events \o (from \o to)
    BY <1>9, ConcatAssociative
  <2> QED BY <1>7, <1>10, <2>1, <2>2
<1>12. /\ \A k \in DOMAIN es : (es[k] = a /\ Heard(p)) \/ (es[k] = b /\ Heard(q))
       /\ Heard(p) => \E k \in DOMAIN es : es[k] = a
       /\ Heard(q) => \E k \in DOMAIN es : es[k] = b
       /\ Heard(p) /\ Heard(q) => DOMAIN es = {1, 2} /\ es[1] = a /\ es[2] = b
  <2>1. CASE ~Heard(p) /\ ~Heard(q)
    BY <1>7, <1>10, <2>1
  <2>2. CASE Heard(p) /\ ~Heard(q)
    <3>1. es = <<a>>
      BY <1>7, <1>8, <1>10, <2>2
    <3> QED BY <2>2, <3>1
  <2>3. CASE ~Heard(p) /\ Heard(q)
    <3>1. es = <<b>>
      BY <1>7, <1>8, <1>10, <2>3
    <3> QED BY <2>3, <3>1
  <2>4. CASE Heard(p) /\ Heard(q)
    <3>1. from = <<a>> /\ to = <<b>>
      BY <1>7, <2>4
    <3>2. Len(from) = 1 /\ from[1] = a /\ Len(to) = 1 /\ to[1] = b
      BY <3>1
    <3>3. /\ es \in Seq(InotifyEvent) /\ Len(es) = Len(from) + Len(to)
          /\ \A k \in 1..Len(from) + Len(to) :
               es[k] = IF k <= Len(from) THEN from[k] ELSE to[k - Len(from)]
      BY <1>9, <1>10, ConcatProperties, Zenon
    <3>4. DOMAIN es = {1, 2} /\ es[1] = a /\ es[2] = b
      BY <3>2, <3>3
    <3> QED BY <2>4, <3>4
  <2> QED BY <2>1, <2>2, <2>3, <2>4
<1>13. ASSUME NEW w \in DOMAIN watches, NEW n \in Names
       PROVE  /\ Told(es, w, n) <=> Append(watches[w], n) \in {p, q}
              /\ \A k \in DOMAIN es : Tells(es[k], w, n) =>
                   \/ es[k].mask = "delete" /\ Append(watches[w], n) = p
                   \/ es[k].mask = "create" /\ Append(watches[w], n) = q
  BY <1>6, <1>12 DEF Told
<1>14. Reported(es)
  <2>1. DOMAIN watches' \subseteq DOMAIN watches
    BY <1>3
  <2>2. ASSUME NEW w \in DOMAIN watches', NEW n \in Names, Told(es, w, n),
               NEW k \in DOMAIN es, Tells(es[k], w, n)
        PROVE  es[k].mask = "create" <=> n \in Listing(watches[w])'
    BY <1>1, <1>4, <1>13, <2>1, <2>2
  <2>3. ASSUME NEW w \in DOMAIN watches', NEW n \in Names, ~Told(es, w, n)
        PROVE  n \in Listing(watches[w])' <=> n \in Listing(watches[w])
    BY <1>4, <1>13, <2>1, <2>3
  <2>4. \A k \in DOMAIN es : es[k].wd \in DOMAIN watches
    BY <1>5, <1>12, EventHeard
  <2> QED BY <1>11, <2>1, <2>2, <2>3, <2>4 DEF Reported
<1>15. ASSUME NEW w \in DOMAIN watches, NEW n \in Names, NEW m \in Names,
              p = Append(watches[w], n), q = Append(watches[w], m)
       PROVE  /\ DOMAIN es = {1, 2}
              /\ Tells(es[1], w, n) /\ es[1].mask = "delete" /\ Tells(es[2], w, m)
  BY <1>6, <1>12, <1>15
<1>16. MoveReported(es, p, q)
  BY <1>3, <1>14, <1>15 DEF MoveReported
<1> QED BY <1>16

\* Two watches on one directory do not come from a move.
LEMMA MovesOneWatch ==
  ASSUME KernelOK, OneWatch, NEW p, NEW q, Moves(p, q),
         \A w \in DOMAIN watches' : /\ w \in DOMAIN watches /\ watches[w] \in DOMAIN disk \ {q}
                                    /\ watches'[w] = Moved(p, q, watches[w])
  PROVE  OneWatch'
<1>1. SUFFICES ASSUME NEW v \in DOMAIN watches', NEW w \in DOMAIN watches',
                      watches'[v] = watches'[w]
               PROVE  v = w
  BY DEF OneWatch
<1>2. PICK y, z \in DOMAIN disk \ {q} : y = watches[v] /\ z = watches[w]
  OBVIOUS
<1>3. y \in Paths /\ ~IsPrefix(q, y)
  BY MovesWhole DEF Moves
<1>4. Moved(p, q, y) = Moved(p, q, z)
  BY <1>1, <1>2
<1>5. y = z
  BY <1>3, <1>4, MovedOnce
<1> QED BY <1>2, <1>5 DEF OneWatch

\* A write, or nothing at all; watches are dropped.
LEMMA QuietReport ==
  ASSUME KernelOK, OneWatch, UNCHANGED disk,
         \/ UNCHANGED events
         \/ \E p \in Paths : events' = Queued(p, "modify"),
         \A w \in DOMAIN watches' : w \in DOMAIN watches /\ watches'[w] = watches[w]
  PROVE  \E es : Reported(es)
<1>1. \A w \in DOMAIN watches', n \in Names :
        n \in Listing(watches[w])' <=> n \in Listing(watches[w])
  BY DEF Listing
<1>2. events \in Seq(InotifyEvent)
  BY DEF KernelOK
<1>3. ASSUME NEW es \in Seq(InotifyEvent), events' = events \o es,
             \A k \in DOMAIN es : es[k].mask = "modify" /\ es[k].wd \in DOMAIN watches
      PROVE  Reported(es)
  <2>1. \A w, n : ~Told(es, w, n)
    BY <1>3 DEF Told, Tells
  <2> QED BY <1>1, <1>3, <2>1 DEF Reported
<1>4. CASE UNCHANGED events
  <2>1. PICK es : es = <<>>
    OBVIOUS
  <2>2. events' = events \o es /\ es \in Seq(InotifyEvent) /\ DOMAIN es = {}
    BY <1>2, <1>4, <2>1
  <2> QED BY <1>3, <2>2
<1>5. ASSUME NEW p \in Paths, events' = Queued(p, "modify") PROVE \E es : Reported(es)
  <2>1. CASE Watched({p}) = {}
    BY <1>4, <1>5, <2>1 DEF Queued
  <2>2. CASE Watched({p}) # {}
    <3>1. PICK e : e = EventFor(p, "modify")
      OBVIOUS
    <3>2. e \in InotifyEvent /\ e.mask = "modify" /\ e.wd \in DOMAIN watches
      <4>1. e.mask = "modify"
        BY <3>1 DEF EventFor
      <4>2. Heard(p)
        BY <2>2 DEF Heard, Watched
      <4> QED BY <1>5, <2>2, <3>1, <4>1, <4>2, EventTyped, EventHeard DEF KernelOK
    <3>3. events' = Append(events, e)
      BY <1>5, <2>2, <3>1 DEF Queued
    <3>4. PICK es : es = <<e>>
      OBVIOUS
    <3>5. es \in Seq(InotifyEvent) /\ \A k \in DOMAIN es : es[k] = e
      BY <3>2, <3>4
    <3>6. events' = events \o es
      BY <1>2, <3>2, <3>3, <3>4
    <3> QED BY <1>3, <3>2, <3>5, <3>6
  <2> QED BY <2>1, <2>2
<1> QED BY <1>4, <1>5

-----------------------------------------------------------------------------
(* Where the watches are.                                                    *)

WatchOf(i) == watches[entries[i].wd]

\* Entry i is live and its watch is active.
Watching(i) == i \in LiveEntries /\ entries[i].wd \in DOMAIN watches

\* It is one of the folders Mirror is about.
Follows(i) == Watching(i) /\ i \notin unmirrored

\* Its path is as long as that of the directory it watches.
Even(i) == Follows(i) /\ Len(PathOf(i)) = Len(WatchOf(i))

\* The climb, for the lemmas about two states.
AboveOK ==
  \A k \in DOMAIN entries :
    /\ Above(k) \in 0..k - 1
    /\ Above(k) # 0 => /\ Above(k) \in LiveEntries /\ entries[k].parent # 0
                       /\ entries[Above(k)].handle = entries[k].parent

ClimbOK ==
  \A k \in DOMAIN entries :
    /\ Climb(k) \in Seq(Names) /\ Own(k) \in Seq(Names)
    /\ Climb(k) = IF Above(k) = 0 THEN Own(k) ELSE Climb(Above(k)) \o Own(k)

\* The entry above is older, and the climb of build_full_path goes through it.
LEMMA ClimbsOK == Sane => AboveOK /\ ClimbOK
<1>1. Sane => AboveOK
  BY AboveOlder DEF AboveOK, Above
<1>2. ASSUME NEW k PROVE Own(k) \in Seq(Names)
  BY DEF Own
<1>3. Sane => ClimbOK
  BY <1>2, ClimbIs DEF ClimbOK
<1> QED BY <1>1, <1>3

\* An entry keeps the folder above it, or it is gone.
LEMMA AboveKept ==
  ASSUME Sane, Sane', DbStep, NEW k \in DOMAIN entries
  PROVE  k \in DOMAIN entries' /\ Above(k)' \in {0, Above(k)}
<1>1. AboveOK'
  BY ClimbsOK, PTL
<1>2. /\ DOMAIN entries = 1..Len(entries) /\ DOMAIN entries' = 1..Len(entries')
      /\ Len(entries) \in Nat /\ Len(entries') \in Nat /\ Len(entries) <= Len(entries')
  BY DEF Sane, DbTypeOK, DbStep
<1>3. k \in DOMAIN entries'
  BY <1>2
<1>4. PICK b : b = Above(k)'
  OBVIOUS
<1>5. b \in 0..k - 1 /\ (b # 0 => /\ b \in LiveEntries' /\ entries'[k].parent # 0
                                  /\ entries'[b].handle = entries'[k].parent)
  BY <1>1, <1>3, <1>4 DEF AboveOK
<1>6. ASSUME b # 0 PROVE b = Above(k)
  <2>1. b \in DOMAIN entries /\ Kept(b) /\ Kept(k)
    BY <1>2, <1>5, <1>6 DEF DbStep
  <2>2. b \in LiveEntries /\ entries[b].handle = entries[k].parent /\ entries[k].parent # 0
    BY <1>5, <1>6, <2>1 DEF Kept, LiveEntries, Live
  <2>3. PICK a : a = Above(k)
    OBVIOUS
  <2>4. a # 0
    <3>1. a = FirstInHash({i \in LiveEntries : entries[i].handle = entries[k].parent})
      BY <2>2, <2>3 DEF Above, get_entry_by_handle
    <3>2. {i \in LiveEntries : entries[i].handle = entries[k].parent} # {}
      BY <2>2
    <3>3. {i \in LiveEntries : entries[i].handle = entries[k].parent} \subseteq DOMAIN entries
      BY DEF LiveEntries
    <3> QED BY <3>1, <3>2, <3>3, FirstInHashFinds DEF Sane, DbTypeOK
  <2>5. a \in LiveEntries /\ entries[a].handle = entries[k].parent
    BY <2>3, <2>4, AboveOlder
  <2> QED BY <2>1, <2>2, <2>3, <2>5 DEF Sane, HandlesUnique, LiveEntries
<1> QED BY <1>3, <1>4, <1>6

\* A path never gets longer, and as long as its length is the same it is the
\* same: what is lost is the part above a removed entry.
LEMMA PathKept ==
  ASSUME Sane, Sane', DbStep, \A k \in DOMAIN entries : Len(Own(k)') = Len(Own(k)),
         NEW i \in DOMAIN entries
  PROVE  /\ Len(PathOf(i)') \in Nat /\ Len(PathOf(i)) \in Nat
         /\ Len(PathOf(i)') <= Len(PathOf(i))
         /\ (\A k \in DOMAIN entries : Own(k)' = Own(k)) /\ Len(PathOf(i)') = Len(PathOf(i))
              => PathOf(i)' = PathOf(i)
<1>1. AboveOK /\ ClimbOK /\ ClimbOK'
  BY ClimbsOK, PTL
<1> DEFINE Good(k) ==
      /\ Len(Climb(k)') <= Len(Climb(k))
      /\ (\A j \in DOMAIN entries : Own(j)' = Own(j)) /\ Len(Climb(k)') = Len(Climb(k))
           => Climb(k)' = Climb(k)
<1>2. ASSUME NEW k \in DOMAIN entries, \A j \in 1..(k - 1) : Good(j) PROVE Good(k)
  <2>1. PICK a, b : a = Above(k) /\ b = Above(k)' /\ b \in {0, a} /\ k \in DOMAIN entries'
    BY AboveKept
  <2>2. PICK o, p, c, d \in Seq(Names) : o = Own(k) /\ p = Own(k)' /\ c = Climb(k) /\ d = Climb(k)'
    BY <1>1, <2>1 DEF ClimbOK
  <2>3. Len(o) = Len(p) /\ Len(o) \in Nat
    BY <2>2
  <2>4. a \in 0..(k - 1) /\ k \in Nat
    <3>1. a \in 0..(k - 1)
      BY <1>1, <2>1 DEF AboveOK
    <3>2. k \in Nat
      BY DEF Sane, DbTypeOK
    <3> QED BY <3>1, <3>2
  <2>5. (a = 0 => c = o) /\ (b = 0 => d = p)
    BY <1>1, <2>1, <2>2 DEF ClimbOK
  <2>6. CASE a = 0
    BY <2>1, <2>2, <2>3, <2>5, <2>6
  <2>7. CASE a # 0
    <3>1. a \in 1..(k - 1) /\ a \in DOMAIN entries /\ a \in DOMAIN entries'
      <4>1. a \in LiveEntries
        BY <1>1, <2>1, <2>7 DEF AboveOK
      <4>2. a \in DOMAIN entries
        BY <4>1 DEF LiveEntries
      <4> QED BY <2>4, <2>7, <4>2, AboveKept
    <3>2. PICK e, f \in Seq(Names) : e = Climb(a) /\ f = Climb(a)'
      BY <1>1, <3>1 DEF ClimbOK
    <3>3. c = e \o o
      BY <1>1, <2>1, <2>2, <2>7, <3>2 DEF ClimbOK
    <3>4. Len(c) = Len(e) + Len(o) /\ Len(e) \in Nat
      BY <2>2, <3>2, <3>3
    <3>5. Len(f) <= Len(e)
          /\ ((\A j \in DOMAIN entries : Own(j)' = Own(j)) /\ Len(f) = Len(e) => f = e)
      BY <1>2, <3>1, <3>2
    <3>6. CASE b = a
      <4>1. d = f \o p
        BY <1>1, <2>1, <2>2, <2>7, <3>2, <3>6 DEF ClimbOK
      <4>2. Len(d) = Len(f) + Len(p) /\ Len(f) \in Nat
        BY <2>2, <3>2, <4>1
      <4>3. Len(d) <= Len(c) /\ (Len(d) = Len(c) => Len(f) = Len(e))
        BY <2>3, <3>4, <3>5, <4>2
      <4> QED BY <2>2, <3>3, <3>5, <4>1, <4>3
    <3>7. CASE b = 0
      <4>1. d = p
        BY <2>5, <3>7
      <4>2. Len(d) <= Len(c) /\ (Len(d) = Len(c) => Len(e) = 0)
        BY <2>3, <3>4, <4>1
      <4>3. Len(e) = 0 => c = o
        BY <2>2, <3>2, <3>3
      <4> QED BY <2>2, <4>1, <4>2, <4>3
    <3> QED BY <2>1, <3>6, <3>7
  <2> QED BY <2>6, <2>7
<1>3. \A k \in DOMAIN entries : Good(k)
  <2>1. PICK bad : bad = {k \in DOMAIN entries : ~Good(k)}
    OBVIOUS
  <2>2. DOMAIN entries \subseteq Nat /\ \A k \in DOMAIN entries : 1..(k - 1) \subseteq DOMAIN entries
    BY DEF Sane, DbTypeOK
  <2> HIDE DEF Good
  <2>3. SUFFICES ASSUME bad # {} PROVE FALSE
    BY <2>1
  <2>4. PICK k \in bad : \A j \in bad : k <= j
    BY <2>1, <2>2, <2>3, LeastNatural
  <2>5. \A j \in 1..(k - 1) : j \notin bad
    BY <2>1, <2>2, <2>4
  <2> QED BY <1>2, <2>1, <2>2, <2>4, <2>5
<1>4. i \in DOMAIN entries'
  BY AboveKept
<1>5. PICK c, d \in Seq(Names) : c = Climb(i) /\ d = Climb(i)'
  BY <1>1, <1>4 DEF ClimbOK
<1>6. PathOf(i) = <<entries[i].storage>> \o c /\ PathOf(i)' = <<entries[i].storage>> \o d
  <2>1. entries'[i].storage = entries[i].storage
    BY DEF DbStep, Kept
  <2> QED BY <1>5, <2>1 DEF PathOf
<1>7. Len(PathOf(i)) = 1 + Len(c) /\ Len(PathOf(i)') = 1 + Len(d) /\ Len(c) \in Nat /\ Len(d) \in Nat
  <2>1. PICK S : S = Seq(Names \cup {entries[i].storage})
    OBVIOUS
  <2>2. c \in S /\ d \in S /\ <<entries[i].storage>> \in S
    BY <1>5, <2>1
  <2> QED BY <1>6, <2>1, <2>2, ConcatProperties
<1>8. Good(i)
  BY <1>3
<1> QED BY <1>5, <1>6, <1>7, <1>8

\* The path of a root is its storage.
LEMMA RootPath ==
  ASSUME Sane, NamesKnown, NEW j \in DOMAIN entries, entries[j].handle = 0
  PROVE  PathOf(j) = <<entries[j].storage>>
<1>1. entries[j].parent = 0 /\ entries[j].name \notin Names
  BY ConstantsAssumption DEF NamesKnown, Named
<1>2. Above(j) = 0 /\ Own(j) = <<>>
  BY <1>1 DEF Above, Own
<1>3. Climb(j) = <<>>
  BY <1>2, ClimbIs
<1>4. PICK s : s = entries[j].storage
  OBVIOUS
<1> QED BY <1>3, <1>4 DEF PathOf

\* The entries of one folder.
LEMMA SameFolder ==
  ASSUME Sane, NamesKnown, NEW i \in DOMAIN entries, NEW j \in DOMAIN entries,
         entries[i].handle = entries[j].handle, entries[i].storage = entries[j].storage
  PROVE  PathOf(i) = PathOf(j) /\ (entries[i].handle # 0 => i = j)
<1>1. entries[i].handle # 0 => i = j
  BY DEF Sane, HandlesUnique
<1>2. CASE entries[i].handle = 0
  BY <1>2, RootPath
<1> QED BY <1>1, <1>2

\* The path of an object is that of its folder and its name.
LEMMA FolderPath ==
  ASSUME Sane, NamesKnown, NEW j \in LiveEntries, NEW c \in DOMAIN entries,
         entries[c].parent = entries[j].handle, entries[c].storage = entries[j].storage,
         entries[c].name \in Names
  PROVE  PathOf(c) = Append(PathOf(j), entries[c].name)
<1>1. j \in DOMAIN entries
  BY DEF LiveEntries
<1>2. CASE entries[j].handle = 0
  <2>1. Above(c) = 0
    BY <1>2 DEF Above
  <2> QED BY <1>1, <1>2, <2>1, RootPath, PathOfChild
<1>3. CASE entries[j].handle # 0
  <2>1. PICK S : S = {i \in LiveEntries : entries[i].handle = entries[c].parent}
    OBVIOUS
  <2>2. Above(c) = FirstInHash(S)
    BY <1>3, <2>1 DEF Above, get_entry_by_handle
  <2>3. S # {} /\ S \subseteq DOMAIN entries
    BY <1>1, <2>1 DEF LiveEntries
  <2>4. Above(c) \in S /\ Above(c) # 0
    BY <2>2, <2>3, FirstInHashFinds DEF Sane, DbTypeOK
  <2>5. Above(c) = j
    BY <1>1, <1>3, <2>1, <2>3, <2>4 DEF Sane, HandlesUnique
  <2> QED BY <2>4, <2>5, PathOfChild
<1> QED BY <1>2, <1>3

\* The paths put together for the entries, for the lemmas about two states.
PathsOK == \A k \in DOMAIN entries : PathOf(k) \in Paths

\* The path put together for an entry is a storage and names.
LEMMA PathsTyped == Sane => PathsOK
BY PathOfTyped DEF PathsOK

\* New watches get new descriptors, and no entry waits for one of them.
Numbered == /\ \A k \in DOMAIN events : events[k].wd < next_wd
            /\ \A i \in LiveEntries : entries[i].wd < next_wd

\* The watch of a storage's own directory is that of an entry whose path that is.
TopWatch ==
  \A i \in DOMAIN entries : Watching(i) /\ Len(WatchOf(i)) = 1 => PathOf(i) = WatchOf(i)

\* A rename is done on the disk and not yet in the database.
RenamedOnDisk == io.op \in {"renaming", "removed", "named"}

\* A followed folder has lost no name of its path, or is not where its watch is.
Level ==
  \A i \in DOMAIN entries : Follows(i) =>
    /\ Len(PathOf(i)) <= Len(WatchOf(i))
    /\ Len(PathOf(i)) = Len(WatchOf(i)) /\ ~RenamedOnDisk => PathOf(i) = WatchOf(i)

\* GetObjectHandles sets its watch where the entry is.
ListLevel ==
  io.op = "listing" /\ io.idx # 0 =>
    /\ Live(io.idx) /\ io.path = PathOf(io.idx)
    /\ entries[io.idx].handle = io.parent /\ entries[io.idx].storage = io.storage

Placed == OneWatch /\ Truthful /\ Numbered /\ TopWatch /\ Level /\ ListLevel

\* No live entry gets another watch, the new ones have none.
WdStep ==
  \A i \in LiveEntries' : entries'[i].wd = IF i \in DOMAIN entries THEN entries[i].wd ELSE NONE

\* Every watch that is left stays where it was.
Steady ==
  /\ next_wd' = next_wd
  /\ \A w \in DOMAIN watches' : w \in DOMAIN watches /\ watches'[w] = watches[w]

\* The queue of a step that adds no watch.
LEMMA QueueNumbered ==
  ASSUME KernelOK, \A k \in DOMAIN events : events[k].wd < next_wd, next_wd' = next_wd,
         NEW es, Reported(es)
  PROVE  \A k \in DOMAIN events' : events'[k].wd < next_wd'
<1>1. es \in Seq(InotifyEvent) /\ events' = events \o es /\ events \in Seq(InotifyEvent)
      /\ \A k \in DOMAIN es : es[k].wd \in DOMAIN watches
  BY DEF Reported, KernelOK
<1>2. \A w \in DOMAIN watches : w < next_wd
  BY DEF KernelOK, WatchesSet
<1> QED BY <1>1, <1>2, Longer

\* A live entry of the next state that watches did so before, or is new.
LEMMA StillWatching ==
  ASSUME Sane, Sane', KernelOK', DbStep, WdStep, NEW i \in DOMAIN entries', Watching(i)'
  PROVE  /\ i \in DOMAIN entries /\ i \in LiveEntries /\ entries'[i].wd = entries[i].wd
         /\ Kept(i)
<1>1. NONE \notin DOMAIN watches'
  BY DEF NONE, KernelOK, WatchesSet
<1>2. i \in LiveEntries' /\ entries'[i].wd \in DOMAIN watches'
  BY DEF Watching
<1>3. i \in DOMAIN entries /\ entries'[i].wd = entries[i].wd
  BY <1>1, <1>2 DEF WdStep
<1>4. Kept(i)
  BY <1>3 DEF DbStep
<1> QED BY <1>2, <1>3, <1>4 DEF Kept, LiveEntries, Live

\* A step that moves no watch and renames nothing.
LEMMA PlacedSteady ==
  ASSUME Whole, Whole', Placed, DbStep, NamesStep, WdStep, Steady,
         unmirrored \subseteq unmirrored',
         RenamedOnDisk => RenamedOnDisk'
  PROVE  TopWatch' /\ Level' /\ (\A i \in LiveEntries' : entries'[i].wd < next_wd')
         /\ OneWatch'
         /\ \A i \in DOMAIN entries' : Even(i)' =>
              i \in DOMAIN entries /\ Even(i) /\ PathOf(i)' = PathOf(i) /\ WatchOf(i)' = WatchOf(i)
              /\ entries'[i].wd = entries[i].wd
<1>1. Sane /\ Sane' /\ KernelOK' /\ KernelOK
  BY DEF Whole, Listed
<1>2. \A k \in DOMAIN entries : Own(k)' = Own(k)
  BY DEF NamesStep, Own
<1>3. ASSUME NEW i \in DOMAIN entries', Watching(i)'
      PROVE  /\ i \in DOMAIN entries /\ Watching(i) /\ WatchOf(i)' = WatchOf(i)
             /\ entries'[i].wd = entries[i].wd
             /\ Len(PathOf(i)') \in Nat /\ Len(PathOf(i)) \in Nat
             /\ Len(PathOf(i)') <= Len(PathOf(i))
             /\ Len(PathOf(i)') = Len(PathOf(i)) => PathOf(i)' = PathOf(i)
  <2>1. /\ i \in DOMAIN entries /\ i \in LiveEntries /\ entries'[i].wd = entries[i].wd
    BY <1>1, <1>3, StillWatching
  <2>2. Watching(i) /\ WatchOf(i)' = WatchOf(i)
    BY <1>3, <2>1 DEF Watching, WatchOf, Steady
  <2>3. /\ Len(PathOf(i)') \in Nat /\ Len(PathOf(i)) \in Nat
        /\ Len(PathOf(i)') <= Len(PathOf(i))
        /\ Len(PathOf(i)') = Len(PathOf(i)) => PathOf(i)' = PathOf(i)
    BY <1>1, <1>2, <2>1, PathKept
  <2> QED BY <2>1, <2>2, <2>3
<1>4. \A i \in DOMAIN entries : Watching(i) => Len(WatchOf(i)) \in Nat /\ Len(WatchOf(i)) >= 1
  BY <1>1 DEF Watching, WatchOf, KernelOK, WatchesSet, DiskTree, Paths
<1>5. TopWatch'
  <2>1. SUFFICES ASSUME NEW i \in DOMAIN entries', Watching(i)', Len(WatchOf(i)') = 1
                 PROVE  PathOf(i)' = WatchOf(i)'
    BY DEF TopWatch
  <2>2. PathOf(i) = WatchOf(i)
    BY <1>3, <2>1 DEF Placed, TopWatch
  <2>3. Len(PathOf(i)') >= 1
    <3>1. PathsOK'
      BY <1>1, PathsTyped, PTL
    <3> QED BY <2>1, <3>1 DEF PathsOK, Paths
  <2>4. WatchOf(i)' = WatchOf(i)
    BY <1>3, <2>1
  <2>5. Len(PathOf(i)) = 1
    BY <2>1, <2>2, <2>4
  <2>6. Len(PathOf(i)') = Len(PathOf(i))
    <3>1. PICK k, m : k = Len(PathOf(i)') /\ m = Len(PathOf(i))
      OBVIOUS
    <3>2. k \in Nat /\ m \in Nat /\ k <= m
      BY <1>3, <2>1, <3>1
    <3>3. k >= 1 /\ m = 1
      BY <2>3, <2>5, <3>1
    <3> QED BY <3>1, <3>2, <3>3
  <2>7. PathOf(i)' = PathOf(i)
    BY <1>3, <2>1, <2>6
  <2> QED BY <2>2, <2>4, <2>7
<1>6. Level'
  BY <1>3, <1>4 DEF Placed, Level, Follows
<1>8. \A i \in LiveEntries' : entries'[i].wd < next_wd'
  <2>1. ASSUME NEW i \in LiveEntries' PROVE entries'[i].wd < next_wd'
    <3>1. CASE i \in DOMAIN entries
      <4>1. Kept(i)
        BY <3>1 DEF DbStep
      <4>2. i \in LiveEntries
        BY <2>1, <3>1, <4>1 DEF Kept, LiveEntries, Live
      <4> QED BY <2>1, <3>1, <4>2 DEF WdStep, Placed, Numbered, Steady
    <3>2. CASE i \notin DOMAIN entries
      BY <1>1, <2>1, <3>2 DEF WdStep, NONE, KernelOK, WatchesSet
    <3> QED BY <3>1, <3>2
  <2> QED BY <2>1
<1>9. OneWatch'
  BY DEF Placed, OneWatch, Steady
<1>10. ASSUME NEW i \in DOMAIN entries', Even(i)'
       PROVE  i \in DOMAIN entries /\ Even(i) /\ PathOf(i)' = PathOf(i) /\ WatchOf(i)' = WatchOf(i)
              /\ entries'[i].wd = entries[i].wd
  <2>1. Watching(i)' /\ i \notin unmirrored /\ Len(PathOf(i)') = Len(WatchOf(i)')
    BY <1>10 DEF Even, Follows
  <2>2. Follows(i)
    BY <1>3, <2>1 DEF Follows
  <2>3. Len(PathOf(i)) <= Len(WatchOf(i))
    BY <1>3, <2>1, <2>2 DEF Placed, Level
  <2> QED BY <1>3, <1>4, <2>1, <2>2, <2>3 DEF Even
<1> QED BY <1>5, <1>6, <1>8, <1>9, <1>10


-----------------------------------------------------------------------------
(* What a folder and its entries may disagree in.                            *)

\* Event k was not yet handled for entry i: the inotify thread takes the head
\* of the queue for one entry after another, from the newest to the oldest.
Ahead(k, i) == k > 1 \/ ino.phase = "idle" \/ i <= ino.pos

\* An event about name n waits for folder i.
Waits(i, n) == \E k \in DOMAIN events : Tells(events[k], entries[i].wd, n) /\ Ahead(k, i)

Doubled(i, n) == <<entries[i].storage, entries[i].handle, n>> \in overwritten

NamesOf(i) == DbNames(entries[i].handle, entries[i].storage)

Agrees(i, n) == n \in Listing(WatchOf(i)) <=> n \in NamesOf(i)

\* What differs is doubled, or told of by an event that waits.
Agreement ==
  \A i \in DOMAIN entries, n \in Names :
    Even(i) => Doubled(i, n) \/ Waits(i, n) \/ Agrees(i, n)

\* Both events of a rename wait.
InMove(i, old, new) ==
  \E k, l \in DOMAIN events :
    /\ k < l /\ Ahead(k, i)
    /\ Tells(events[k], entries[i].wd, old) /\ events[k].mask = "delete"
    /\ Tells(events[l], entries[i].wd, new)

\* A rename that is done on the disk was seen by the folder of the object, and the
\* entry goes before its old name is looked for.
Renaming ==
  RenamedOnDisk =>
    /\ entries[io.idx].name \in Names
    /\ Live(io.idx) /\ io.name # entries[io.idx].name => \A i \in DOMAIN entries : Even(i) /\ io.idx \in KidsOf(i) =>
         Doubled(i, entries[io.idx].name) \/ InMove(i, entries[io.idx].name, io.name)

\* A rename under way is of an object, and its paths are those of the folder the
\* object is in, if that is followed.
Heading ==
  /\ io.op \in RenameOps => entries[io.idx].handle # 0
  /\ io.op \in {"naming", "moving"} /\ entries[io.idx].name \in Names =>
       \A i \in DOMAIN entries : Even(i) /\ io.idx \in KidsOf(i) =>
         /\ io.path = Append(PathOf(i), entries[io.idx].name)
         /\ io.op = "moving" => io.to = Append(PathOf(i), io.name)

\* A folder that is even has its path from before.
EvenPaths == \A i \in DOMAIN entries' : Even(i)' => PathOf(i)' = PathOf(i)

\* No rename starts, and its paths stay until it is done on the disk.
HeadKept ==
  /\ io'.op \in RenameOps => io.op \in RenameOps /\ io'.idx = io.idx
  /\ io'.op \in {"naming", "moving"} => io' = io

\* A folder that is even is so from before, with its watch.
EvenKept ==
  \A i \in DOMAIN entries' : Even(i)' =>
    i \in DOMAIN entries /\ Even(i) /\ entries'[i].wd = entries[i].wd

\* The names of a folder change with an event, or to what is on the disk.
NamesKept(es) ==
  \A i \in DOMAIN entries, n \in Names : Even(i) /\ Even(i)' =>
    \/ Told(es, entries[i].wd, n)
    \/ Agrees(i, n)'
    \/ n \in NamesOf(i)' <=> n \in NamesOf(i)

\* A rename goes on.
SameIo == RenamedOnDisk \/ RenamedOnDisk' =>
            RenamedOnDisk /\ RenamedOnDisk' /\ io'.idx = io.idx /\ io'.name = io.name

\* What waits, or is half done, stays so when events are added.
LEMMA StillAhead ==
  ASSUME Whole, NEW es, Reported(es), ino' = ino
  PROVE  /\ \A k \in DOMAIN events : /\ k \in DOMAIN events' /\ events'[k] = events[k]
                                     /\ \A i : Ahead(k, i)' <=> Ahead(k, i)
         /\ \A k \in DOMAIN es : \A m : m = Len(events) + k =>
              m \in DOMAIN events' /\ events'[m] = es[k] /\ \A i : Ahead(m, i)'
<1>1. es \in Seq(InotifyEvent) /\ events' = events \o es /\ events \in Seq(InotifyEvent)
  BY DEF Reported, Whole, KernelOK
<1>2. PICK a \in Nat : a = Len(events) /\ (a = 0 => events = <<>>)
  BY <1>1
<1>3. a = 0 => ino'.phase = "idle"
  BY <1>2 DEF Whole, InoOK
<1>4. \A k \in DOMAIN es : k \in Nat \ {0}
  BY <1>1, Longer
<1>5. \A k \in DOMAIN es : \A m : m = a + k => \A i : Ahead(m, i)'
  BY <1>2, <1>3, <1>4 DEF Ahead
<1>6. \A k : \A i : Ahead(k, i)' <=> Ahead(k, i)
  BY DEF Ahead
<1> QED BY <1>1, <1>2, <1>5, <1>6, Longer

\* A step that only adds events keeps the agreement.
LEMMA AgreementKept ==
  ASSUME Whole, Agreement, DbStep, EvenKept, NEW es, Reported(es), NamesKept(es),
         ino' = ino, overwritten \subseteq overwritten'
  PROVE  Agreement'
<1>1. SUFFICES ASSUME NEW i \in DOMAIN entries', NEW n \in Names, Even(i)'
               PROVE  Doubled(i, n)' \/ Waits(i, n)' \/ Agrees(i, n)'
  BY DEF Agreement
<1>2. i \in DOMAIN entries /\ Even(i) /\ entries'[i].wd = entries[i].wd /\ Kept(i)
  BY <1>1 DEF EvenKept, DbStep
<1>3. entries[i].wd \in DOMAIN watches'
  BY <1>1, <1>2 DEF Even, Follows, Watching
<1>4. CASE Doubled(i, n)
  BY <1>2, <1>4 DEF Doubled, Kept
<1>5. CASE Waits(i, n)
  <2>1. PICK k \in DOMAIN events : Tells(events[k], entries[i].wd, n) /\ Ahead(k, i)
    BY <1>5 DEF Waits
  <2>2. k \in DOMAIN events' /\ Tells(events'[k], entries'[i].wd, n) /\ Ahead(k, i)'
    BY <1>2, <2>1, StillAhead
  <2> QED BY <2>2 DEF Waits, Tells
<1>6. CASE Told(es, entries[i].wd, n)
  <2>1. PICK k \in DOMAIN es : Tells(es[k], entries[i].wd, n)
    BY <1>6 DEF Told
  <2>2. PICK m : m = Len(events) + k
    OBVIOUS
  <2>3. m \in DOMAIN events' /\ Tells(events'[m], entries'[i].wd, n) /\ Ahead(m, i)'
    <3>1. m \in DOMAIN events' /\ events'[m] = es[k] /\ \A j : Ahead(m, j)'
      BY <2>2, StillAhead
    <3> QED BY <1>2, <2>1, <3>1
  <2> QED BY <2>3 DEF Waits, Tells
<1>7. CASE Agrees(i, n) /\ ~Told(es, entries[i].wd, n)
  <2>1. CASE Agrees(i, n)'
    BY <2>1
  <2>2. CASE n \in NamesOf(i)' <=> n \in NamesOf(i)
    <3>1. PICK w : w = entries[i].wd /\ w = entries'[i].wd
      BY <1>2
    <3>2. n \in Listing(watches[w])' <=> n \in Listing(watches[w])
      BY <1>3, <1>7, <3>1 DEF Reported
    <3>3. Listing(WatchOf(i)) = Listing(watches[w]) /\ Listing(WatchOf(i))' = Listing(watches[w])'
      BY <3>1 DEF WatchOf, Listing
    <3>4. n \in Listing(WatchOf(i)) <=> n \in NamesOf(i)
      BY <1>7 DEF Agrees
    <3>5. n \in Listing(WatchOf(i))' <=> n \in NamesOf(i)'
      BY <2>2, <3>2, <3>3, <3>4
    <3> QED BY <3>5 DEF Agrees
  <2> QED BY <1>1, <1>2, <1>7, <2>1, <2>2 DEF NamesKept
<1> QED BY <1>2, <1>4, <1>5, <1>6, <1>7 DEF Agreement

\* A rename that goes on is still seen.
LEMMA RenamingKept ==
  ASSUME Whole, Renaming, DbStep, NamesStep, EvenKept, SameIo, NEW es, Reported(es),
         ino' = ino, overwritten \subseteq overwritten'
  PROVE  Renaming'
<1>1. SUFFICES ASSUME RenamedOnDisk' PROVE Renaming'
  BY DEF Renaming
<1>2. /\ RenamedOnDisk /\ io'.idx = io.idx /\ io'.name = io.name
      /\ io.idx \in DOMAIN entries
  <2>1. RenamedOnDisk /\ io'.idx = io.idx /\ io'.name = io.name
    BY <1>1 DEF SameIo
  <2>2. io.idx \in DOMAIN entries
    BY <2>1, EntriesAreEntries DEF RenamedOnDisk, Whole, Listed, Sane, DbTypeOK, RenameOps
  <2> QED BY <2>1, <2>2
<1>3. PICK c, old, new : c = io.idx /\ old = entries[c].name /\ new = io.name
  OBVIOUS
<1>4. c \in DOMAIN entries /\ Kept(c) /\ entries'[c].name = old /\ c = io'.idx /\ new = io'.name
  BY <1>2, <1>3 DEF DbStep, NamesStep
<1>5. old \in Names
  BY <1>2, <1>3 DEF Renaming
<1>6. ASSUME NEW i \in DOMAIN entries', Even(i)', c \in KidsOf(i)', new # old
      PROVE  Doubled(i, old)' \/ InMove(i, old, new)'
  <2>1. i \in DOMAIN entries /\ Even(i) /\ entries'[i].wd = entries[i].wd /\ Kept(i)
    BY <1>6 DEF EvenKept, DbStep
  <2>2. Live(c) /\ c \in KidsOf(i)
    BY <1>4, <1>6, <2>1 DEF KidsOf, ChildrenInDb, LiveEntries, Live, Kept
  <2>3. Doubled(i, old) \/ InMove(i, old, new)
    BY <1>2, <1>3, <1>6, <2>1, <2>2 DEF Renaming
  <2>4. ASSUME Doubled(i, old) PROVE Doubled(i, old)'
    BY <2>1, <2>4 DEF Doubled, Kept
  <2>5. ASSUME InMove(i, old, new) PROVE InMove(i, old, new)'
    <3>1. PICK k, l \in DOMAIN events :
            /\ k < l /\ Ahead(k, i)
            /\ Tells(events[k], entries[i].wd, old) /\ events[k].mask = "delete"
            /\ Tells(events[l], entries[i].wd, new)
      BY <2>5 DEF InMove
    <3>2. /\ k \in DOMAIN events' /\ events'[k] = events[k] /\ Ahead(k, i)'
          /\ l \in DOMAIN events' /\ events'[l] = events[l]
      BY <3>1, StillAhead
    <3>3. /\ k < l /\ events'[k].mask = "delete"
          /\ Tells(events'[k], entries'[i].wd, old) /\ Tells(events'[l], entries'[i].wd, new)
      BY <2>1, <3>1, <3>2
    <3> QED BY <3>2, <3>3 DEF InMove, Tells
  <2> QED BY <2>3, <2>4, <2>5
<1>7. Live(c)' /\ new # old => \A i \in DOMAIN entries' : Even(i)' /\ c \in KidsOf(i)' =>
        Doubled(i, old)' \/ InMove(i, old, new)'
  BY <1>6
<1>8. \A i : Doubled(i, old)' <=> Doubled(i, entries[io.idx].name)'
  BY <1>4 DEF Doubled
<1>9. \A i : InMove(i, old, new)' <=> InMove(i, entries[io.idx].name, io.name)'
  BY <1>4 DEF InMove, Tells
<1> QED BY <1>4, <1>5, <1>7, <1>8, <1>9 DEF Renaming

\* The paths of a rename that goes on are still those of its folder.
LEMMA HeadingKept ==
  ASSUME Whole, Heading, DbStep, NamesStep, EvenKept, EvenPaths, HeadKept
  PROVE  Heading'
<1>1. ASSUME io.op \in RenameOps
      PROVE  io.idx \in DOMAIN entries /\ Kept(io.idx) /\ entries'[io.idx].name = entries[io.idx].name
  <2>1. io.idx \in DOMAIN entries
    BY <1>1, EntriesAreEntries DEF Whole, Listed, Sane, DbTypeOK, RenameOps
  <2> QED BY <2>1 DEF DbStep, NamesStep
<1>2. io'.op \in RenameOps => entries'[io'.idx].handle # 0
  BY <1>1 DEF HeadKept, Heading, Kept
<1>3. ASSUME io'.op \in {"naming", "moving"}, entries'[io'.idx].name \in Names,
             NEW i \in DOMAIN entries', Even(i)', io'.idx \in KidsOf(i)'
      PROVE  /\ io'.path = Append(PathOf(i)', entries'[io'.idx].name)
             /\ io'.op = "moving" => io'.to = Append(PathOf(i)', io'.name)
  <2>1. io' = io /\ io.op \in RenameOps
    BY <1>3 DEF HeadKept, RenameOps
  <2>2. PICK c : c = io.idx /\ c = io'.idx
    BY <2>1
  <2>3. /\ c \in DOMAIN entries /\ Kept(c) /\ entries'[c].name = entries[c].name
        /\ i \in DOMAIN entries /\ Even(i) /\ Kept(i) /\ PathOf(i)' = PathOf(i)
    BY <1>1, <1>3, <2>1, <2>2 DEF EvenKept, EvenPaths, DbStep
  <2>4. c \in KidsOf(i)'
    BY <1>3, <2>2 DEF KidsOf, ChildrenInDb
  <2>5. c \in KidsOf(i)
    BY <2>3, <2>4 DEF KidsOf, ChildrenInDb, LiveEntries, Live, Kept
  <2> QED BY <1>3, <2>1, <2>2, <2>3, <2>5 DEF Heading
<1> QED BY <1>2, <1>3 DEF Heading

-----------------------------------------------------------------------------
(* Placed, for the steps of each kind.                                       *)

\* The climb goes on when there is an entry to go on to.
NotMissed ==
  \A k \in DOMAIN entries, a \in LiveEntries :
    entries[a].handle = entries[k].parent /\ entries[k].parent # 0 => Above(k) # 0

\* build_full_path goes on where a live entry has the handle of the parent.
LEMMA NothingMissed == Sane => NotMissed
<1> SUFFICES ASSUME Sane, NEW k \in DOMAIN entries, NEW a \in LiveEntries,
                    entries[a].handle = entries[k].parent, entries[k].parent # 0
             PROVE  Above(k) # 0
  BY DEF NotMissed
<1>1. PICK S : S = {j \in LiveEntries : entries[j].handle = entries[k].parent}
  OBVIOUS
<1>2. S # {} /\ S \subseteq DOMAIN entries
  BY <1>1 DEF LiveEntries
<1>3. Above(k) = FirstInHash(S)
  BY <1>1 DEF Above, get_entry_by_handle
<1> QED BY <1>2, <1>3, FirstInHashFinds DEF Sane, DbTypeOK

\* A path stays the same when nothing above it is deleted.
LEMMA PathSame ==
  ASSUME Sane, Sane', DbStep, NamesStep, NEW i \in DOMAIN entries,
         \A k \in 1..i - 1 : entries'[k].deleted = entries[k].deleted
  PROVE  PathOf(i)' = PathOf(i)
<1>1. AboveOK /\ ClimbOK /\ ClimbOK'
  BY ClimbsOK, PTL
<1>2. /\ DOMAIN entries \subseteq Nat /\ DOMAIN entries \subseteq DOMAIN entries'
      /\ \A k \in DOMAIN entries : 1..k - 1 \subseteq DOMAIN entries
  BY AboveKept DEF Sane, DbTypeOK
<1>3. \A k \in DOMAIN entries : Own(k)' = Own(k)
  BY DEF NamesStep, Own
<1>4. ASSUME NEW k \in DOMAIN entries, k <= i PROVE Above(k)' = Above(k)
  <2>1. PICK a, b : a = Above(k) /\ b = Above(k)' /\ b \in {0, a}
    BY AboveKept
  <2>2. CASE a = 0
    BY <2>1, <2>2
  <2>3. CASE a # 0
    <3>1. a \in 1..k - 1 /\ a \in LiveEntries /\ entries[k].parent # 0
          /\ entries[a].handle = entries[k].parent /\ a \in DOMAIN entries
      BY <1>1, <1>2, <2>1, <2>3 DEF AboveOK
    <3>2. a \in 1..i - 1
      BY <1>2, <1>4, <3>1
    <3>3. Kept(a) /\ Kept(k) /\ a \in LiveEntries'
      BY <1>2, <3>1, <3>2 DEF DbStep, LiveEntries, Live
    <3>4. entries'[a].handle = entries'[k].parent /\ entries'[k].parent # 0
      BY <3>1, <3>3 DEF Kept
    <3>5. NotMissed'
      BY NothingMissed, PTL
    <3>8. b # 0
      BY <1>2, <2>1, <3>3, <3>4, <3>5 DEF NotMissed
    <3> QED BY <2>1, <3>8
  <2> QED BY <2>1, <2>2, <2>3
<1> DEFINE Good(k) == k <= i => Climb(k)' = Climb(k)
<1>5. ASSUME NEW k \in DOMAIN entries, \A j \in 1..k - 1 : Good(j) PROVE Good(k)
  <2>1. PICK a : a = Above(k)
    OBVIOUS
  <2>2. a \in 0..k - 1 /\ k \in DOMAIN entries'
    BY <1>1, <1>2, <2>1 DEF AboveOK
  <2>3. SUFFICES ASSUME k <= i PROVE Climb(k)' = Climb(k)
    OBVIOUS
  <2>4. Above(k)' = a
    BY <1>4, <2>1, <2>3
  <2>5. a # 0 => Climb(a)' = Climb(a)
    BY <1>2, <1>5, <2>2, <2>3
  <2> QED BY <1>1, <1>3, <2>1, <2>2, <2>4, <2>5 DEF ClimbOK
<1>6. \A k \in DOMAIN entries : Good(k)
  <2>1. PICK bad : bad = {k \in DOMAIN entries : ~Good(k)}
    OBVIOUS
  <2> HIDE DEF Good
  <2>2. SUFFICES ASSUME bad # {} PROVE FALSE
    BY <2>1
  <2>3. PICK k \in bad : \A j \in bad : k <= j
    BY <1>2, <2>1, <2>2, LeastNatural
  <2>4. \A j \in 1..(k - 1) : j \notin bad
    BY <1>2, <2>1, <2>3
  <2> QED BY <1>2, <1>5, <2>1, <2>3, <2>4
<1>7. Climb(i)' = Climb(i)
  BY <1>2, <1>6
<1> QED BY <1>7 DEF PathOf, DbStep, Kept

\* With the entries the paths stay.
LEMMA SamePaths ==
  ASSUME entries' = entries
  PROVE  /\ LiveEntries' = LiveEntries /\ \A i : PathOf(i)' = PathOf(i)
         /\ \A h, s : DbNames(h, s)' = DbNames(h, s)
<1>1. LiveEntries' = LiveEntries
  BY DEF LiveEntries, Live
<1>2. \A i : Climb(i)' = Climb(i)
  BY <1>1 DEF Climb, ClimbIn, FirstInHash, EarlierInHash
<1> QED BY <1>1, <1>2 DEF PathOf, DbNames, ChildrenInDb

\* GetObjectHandles finds its folder as it left it.
LEMMA ListLevelKept ==
  ASSUME Placed, io' = io, io.op = "listing" => entries' = entries
  PROVE  ListLevel'
<1>1. SUFFICES ASSUME io.op = "listing", io.idx # 0
               PROVE  /\ Live(io.idx)' /\ io.path = PathOf(io.idx)'
                      /\ entries'[io.idx].handle = io.parent /\ entries'[io.idx].storage = io.storage
  BY DEF ListLevel
<1>2. entries' = entries /\ ListLevel
  BY <1>1 DEF Placed
<1>3. PICK i : i = io.idx /\ i = io'.idx
  OBVIOUS
<1>4. PathOf(i)' = PathOf(i)
  BY <1>2, SamePaths
<1>5. Live(i) /\ io.path = PathOf(i)
      /\ entries[i].handle = io.parent /\ entries[i].storage = io.storage
  BY <1>1, <1>2, <1>3 DEF ListLevel
<1>6. PathOf(io.idx)' = PathOf(i)' /\ Live(io.idx)' = Live(i)'
  BY <1>3 DEF PathOf, Live, Climb, ClimbIn
<1> QED BY <1>2, <1>3, <1>4, <1>5, <1>6 DEF Live

\* A step that adds events and may drop watches.
LEMMA PlainPlaced ==
  ASSUME Whole, Whole', Placed, DbStep, NamesStep, WdStep, Steady,
         NEW es, Reported(es), unmirrored \subseteq unmirrored',
         RenamedOnDisk => RenamedOnDisk', ListLevel'
  PROVE  Placed' /\ EvenKept /\ EvenPaths
<1>2. TopWatch' /\ Level' /\ (\A i \in LiveEntries' : entries'[i].wd < next_wd')
      /\ OneWatch' /\ EvenKept /\ EvenPaths
  BY PlacedSteady DEF EvenKept, EvenPaths
<1>3. KernelOK /\ Truthful /\ OneWatch /\ (\A k \in DOMAIN events : events[k].wd < next_wd)
      /\ next_wd' = next_wd
  BY DEF Whole, Placed, Numbered, Steady
<1>4. Truthful'
  BY <1>3, ReportedTruthful
<1>5. \A k \in DOMAIN events' : events'[k].wd < next_wd'
  BY <1>3, QueueNumbered
<1> QED BY <1>2, <1>4, <1>5 DEF Placed, Numbered

\* A path of one element is a storage.
ShortPaths ==
  \A k \in DOMAIN entries : Len(PathOf(k)) = 1 => PathOf(k) = <<entries[k].storage>>

\* Only a root has a path without names.
LEMMA ShortPath == Sane => ShortPaths
<1> SUFFICES ASSUME Sane, NEW k \in DOMAIN entries, Len(PathOf(k)) = 1
             PROVE  PathOf(k) = <<entries[k].storage>>
  BY DEF ShortPaths
<1>1. PICK p \in Paths : p = PathOf(k) /\ p[1] = entries[k].storage /\ Len(p) = 1
  BY PathOfTyped
<1>2. PICK s : s = entries[k].storage
  OBVIOUS
<1>3. p \in Seq(Places)
  BY <1>1 DEF Paths
<1>4. p = <<s>>
  BY <1>1, <1>2, <1>3
<1> QED BY <1>1, <1>2, <1>4

\* A path that resolves is the one put together.
ResolvesOwn ==
  \A k \in DOMAIN entries : build_full_path(k) # <<>> => build_full_path(k) = PathOf(k)

\* build_full_path fails or returns the path put together by the climb.
LEMMA ResolvedOwn == Sane => ResolvesOwn
<1> SUFFICES ASSUME Sane, NEW k \in DOMAIN entries, build_full_path(k) # <<>>
             PROVE  build_full_path(k) = PathOf(k)
  BY DEF ResolvesOwn
<1>1. k # 0
  BY DEF Sane, DbTypeOK
<1> QED BY <1>1 DEF build_full_path, Resolved

\* The name of a renamed entry was and is the name of an object.
LEMMA RenamedOwn ==
  ASSUME Whole, Renaming, RenameInsert
  PROVE  /\ DbStep /\ Len(entries') = Len(entries) /\ LiveEntries' = LiveEntries
         /\ \A k \in DOMAIN entries : /\ Len(Own(k)') = Len(Own(k)) /\ Kept(k)
                                      /\ entries'[k].wd = entries[k].wd
                                      /\ k # io.idx => entries'[k].name = entries[k].name
         /\ io.idx \in DOMAIN entries
         /\ entries[io.idx].name \in Names /\ io.name \in Names
         /\ entries'[io.idx].name = io.name
<1>1. DbTypeOK /\ RenamedOnDisk /\ io.op \in RenameOps
  BY DEF Whole, Listed, Sane, RenameInsert, RenamedOnDisk, RenameOps
<1>2. /\ DbStep /\ Len(entries') = Len(entries) /\ io.idx \in DOMAIN entries
      /\ entries'[io.idx].name = io.name
      /\ \A i \in DOMAIN entries : /\ entries'[i].deleted = entries[i].deleted
                                   /\ i # io.idx => entries'[i].name = entries[i].name
  BY <1>1, RenameInsertStep
<1>3. entries[io.idx].name \in Names /\ io.name \in Names
  BY <1>1 DEF Renaming, DbTypeOK
<1>4. PICK i, n : i = io.idx /\ n = io.name
  OBVIOUS
<1>5. entries' = [entries EXCEPT ![i] = [entries[i] EXCEPT !.name = n, !.gen = renames + 1]]
  BY <1>4 DEF RenameInsert
<1>6. \A k \in DOMAIN entries : entries'[k].wd = entries[k].wd
  BY <1>1, <1>2, <1>4, <1>5, EntriesAreEntries DEF Entry
<1>7. DOMAIN entries' = DOMAIN entries
  BY <1>5
<1>8. LiveEntries' = LiveEntries
  BY <1>2, <1>7 DEF LiveEntries, Live
<1>9. \A k \in DOMAIN entries : Len(Own(k)') = Len(Own(k))
  <2>1. ASSUME NEW k \in DOMAIN entries PROVE Len(Own(k)') = Len(Own(k))
    <3>1. CASE k = io.idx
      <4>1. PICK a, b \in Names : a = entries[k].name /\ b = entries'[k].name
        BY <1>2, <1>3, <3>1
      <4>2. Own(k) = <<a>> /\ Own(k)' = <<b>>
        BY <4>1 DEF Own
      <4> QED BY <4>2
    <3>2. CASE k # io.idx
      BY <1>2, <3>2 DEF Own
    <3> QED BY <3>1, <3>2
  <2> QED BY <2>1
<1> QED BY <1>2, <1>3, <1>6, <1>8, <1>9 DEF DbStep

\* A rename in the database: what is not where its watch is counts no more.
LEMMA RenamePlaced ==
  ASSUME Whole, Whole', Placed, Renaming, RenameInsert
  PROVE  Placed' /\ EvenKept
<1>1. Sane /\ Sane' /\ KernelOK /\ KernelOK'
  BY DEF Whole, Listed
<1>2. /\ DbStep /\ LiveEntries' = LiveEntries /\ DOMAIN entries' = DOMAIN entries
      /\ \A k \in DOMAIN entries : /\ Len(Own(k)') = Len(Own(k)) /\ Kept(k)
                                   /\ entries'[k].wd = entries[k].wd
  BY <1>1, RenamedOwn, EntriesAreEntries DEF Sane, DbTypeOK
<1>3. UNCHANGED <<disk, watches, next_wd, events>> /\ io'.op = "idle"
      /\ unmirrored' = unmirrored \cup
           {j \in LiveEntries : Misplaced(entries[j].wd, build_full_path(j))'}
  BY DEF RenameInsert, diskVars, IoIdle
<1>4. \A k \in DOMAIN entries : /\ Watching(k)' <=> Watching(k)
                                /\ WatchOf(k)' = WatchOf(k)
  BY <1>2, <1>3 DEF Watching, WatchOf
<1>5. \A k \in DOMAIN entries : Watching(k) =>
        Len(WatchOf(k)) \in Nat /\ WatchOf(k) \in DOMAIN disk /\ WatchOf(k) # <<>>
  BY <1>1 DEF Watching, WatchOf, KernelOK, WatchesSet, DiskTree, Paths
<1>6. ASSUME NEW k \in DOMAIN entries, Follows(k)'
      PROVE  PathOf(k)' = WatchOf(k)' /\ Follows(k)
  <2>1. k \in LiveEntries /\ Watching(k)' /\ k \notin unmirrored' /\ Watching(k)
    BY <1>4, <1>6 DEF Follows, Watching
  <2>2. ~Misplaced(entries[k].wd, build_full_path(k))'
    BY <1>3, <2>1
  <2>3. WatchOf(k)' = build_full_path(k)'
    BY <2>1, <2>2 DEF Misplaced, Watching, WatchOf
  <2>4. build_full_path(k)' # <<>>
    BY <1>4, <1>5, <2>1, <2>3
  <2>5. build_full_path(k)' = PathOf(k)'
    <3>1. ResolvesOwn'
      BY <1>1, ResolvedOwn, PTL
    <3> QED BY <1>2, <2>4, <3>1 DEF ResolvesOwn
  <2> QED BY <1>3, <2>1, <2>3, <2>5 DEF Follows
<1>7. Level'
  <2>1. \A k \in DOMAIN entries' : Follows(k)' => Len(WatchOf(k)') \in Nat
    BY <1>2, <1>4, <1>5, <1>6 DEF Follows
  <2> QED BY <1>2, <1>6, <2>1 DEF Level
<1>8. \A k \in DOMAIN entries : /\ Len(PathOf(k)') \in Nat /\ Len(PathOf(k)) \in Nat
                                /\ Len(PathOf(k)') <= Len(PathOf(k))
  BY <1>1, <1>2, PathKept
<1>9. TopWatch'
  <2>1. SUFFICES ASSUME NEW k \in DOMAIN entries, Watching(k), Len(WatchOf(k)) = 1
                 PROVE  PathOf(k)' = WatchOf(k)
    BY <1>2, <1>4 DEF TopWatch
  <2>2. PathOf(k) = WatchOf(k)
    BY <2>1 DEF Placed, TopWatch
  <2>3. PathsOK' /\ ShortPaths'
    BY <1>1, PathsTyped, ShortPath, PTL
  <2>4. PICK m, n : m = Len(PathOf(k)') /\ n = Len(PathOf(k))
    OBVIOUS
  <2>5. m \in Nat /\ n \in Nat /\ m <= n
    BY <1>8, <2>4
  <2>6. n = 1 /\ m >= 1
    BY <1>2, <2>1, <2>2, <2>3, <2>4 DEF PathsOK, Paths
  <2>7. m = 1
    BY <2>5, <2>6
  <2>8. PathOf(k)' = <<entries'[k].storage>>
    BY <1>2, <2>3, <2>4, <2>7 DEF ShortPaths
  <2>9. PathOf(k) = <<entries[k].storage>>
    BY <1>1, <2>4, <2>6, ShortPath DEF ShortPaths
  <2> QED BY <1>2, <2>2, <2>8, <2>9 DEF Kept
<1>10. EvenKept
  <2>1. SUFFICES ASSUME NEW k \in DOMAIN entries, Even(k)' PROVE Even(k)
    BY <1>2 DEF EvenKept
  <2>2. Follows(k) /\ Len(PathOf(k)') = Len(WatchOf(k)) /\ Watching(k)
    BY <1>4, <1>6, <2>1 DEF Even, Follows
  <2>3. Len(PathOf(k)) <= Len(WatchOf(k))
    BY <2>2 DEF Placed, Level
  <2>4. PICK a, b, c : a = Len(PathOf(k)') /\ b = Len(PathOf(k)) /\ c = Len(WatchOf(k))
    OBVIOUS
  <2>5. a = c /\ b <= c /\ a <= b /\ a \in Nat /\ b \in Nat
    BY <1>8, <2>2, <2>3, <2>4
  <2>6. b = c
    BY <2>5
  <2> QED BY <2>2, <2>4, <2>6 DEF Even
<1>11. Numbered'
  <2>1. \A k \in LiveEntries : k \in DOMAIN entries
    BY DEF LiveEntries
  <2> QED BY <1>2, <1>3, <1>4, <2>1 DEF Placed, Numbered, Kept
<1>12. OneWatch' /\ Truthful' /\ ListLevel'
  BY <1>3 DEF Placed, OneWatch, Truthful, ListLevel, Listing
<1> QED BY <1>7, <1>9, <1>10, <1>11, <1>12 DEF Placed

\* No followed folder: after a change of session.
LEMMA ResetPlaced ==
  ASSUME Whole, Whole', Placed, OpenSession \/ CloseSession
  PROVE  Placed' /\ (\A i \in DOMAIN entries' : ~Watching(i)')
<1>1. KernelOK /\ KernelOK' /\ io'.op = "idle"
  BY DEF Whole, OpenSession, CloseSession, IoReady
<1>2. UNCHANGED <<disk, next_wd, events>>
      /\ \A w \in DOMAIN watches' : w \in DOMAIN watches /\ watches'[w] = watches[w]
  BY DEF OpenSession, CloseSession, diskVars, Restrict
<1>3. PICK es : Reported(es)
  BY <1>1, <1>2, QuietReport DEF Placed
<1>4. \A i \in DOMAIN entries' : entries'[i].wd = NONE
  BY DEF OpenSession, CloseSession, alloc_root_entry
<1>5. NONE \notin DOMAIN watches'
  BY <1>1 DEF NONE, KernelOK, WatchesSet
<1>6. \A i \in DOMAIN entries' : ~Watching(i)'
  BY <1>4, <1>5 DEF Watching
<1>7. TopWatch' /\ Level'
  BY <1>6 DEF TopWatch, Level, Follows
<1>8. OneWatch' /\ Truthful'
  BY <1>1, <1>2, <1>3, ReportedTruthful DEF Placed, OneWatch
<1>9. Numbered' /\ ListLevel'
  <2>1. \A i \in LiveEntries' : entries'[i].wd < next_wd'
    BY <1>1, <1>4 DEF LiveEntries, NONE, KernelOK, WatchesSet
  <2> QED BY <1>1, <1>2, <2>1 DEF Placed, Numbered, ListLevel
<1> QED BY <1>6, <1>7, <1>8, <1>9 DEF Placed

\* What a rename does to the length of a path.
MovedSize(p, q, x) ==
  /\ Len(p) \in Nat /\ Len(q) \in Nat /\ Len(x) \in Nat /\ Len(x) >= 1
  /\ ~IsPrefix(p, x) => Moved(p, q, x) = x
  /\ IsPrefix(p, x) => /\ Len(x) >= Len(p)
                       /\ Len(Moved(p, q, x)) = Len(q) + (Len(x) - Len(p))

\* A moved path is longer or shorter by what its beginning is.
LEMMA MovedLength ==
  ASSUME NEW p \in Paths, NEW q \in Paths, NEW x \in Paths
  PROVE  MovedSize(p, q, x)
<1>1. PICK S : S = Places
  OBVIOUS
<1>2. p \in Seq(S) /\ q \in Seq(S) /\ x \in Seq(S) /\ Len(x) >= 1
  BY <1>1 DEF Paths
<1>3. PICK m : m = Moved(p, q, x) /\ (~IsPrefix(p, x) => m = x)
  BY DEF Moved
<1>4. ASSUME IsPrefix(p, x) PROVE Len(x) >= Len(p) /\ Len(m) = Len(q) + (Len(x) - Len(p))
  <2>1. m = Rebased(p, q, x)
    BY <1>3, <1>4 DEF Moved
  <2>2. Joined(p, q, x, m)
    BY <1>2, <1>4, <2>1, RebasedIs
  <2>3. Len(p) <= Len(x)
    BY <1>2, <1>4, PrefixIs
  <2> QED BY <1>2, <2>2, <2>3 DEF Joined
<1> QED BY <1>2, <1>3, <1>4 DEF MovedSize

\* A move takes the watches with it: the folders that watch what moved count no
\* more, or a rename is under way and all paths keep their length.
LEMMA MovePlaced ==
  ASSUME Whole, Whole', Placed, NEW p, NEW q, Moves(p, q), Len(p) > 1, Len(q) > 1,
         NEW es, MoveReported(es, p, q), entries' = entries, ListLevel',
         \/ unmirrored' = unmirrored \cup WatchingUnder(p) /\ (RenamedOnDisk => RenamedOnDisk')
         \/ unmirrored' = unmirrored /\ Len(p) = Len(q) /\ RenamedOnDisk'
  PROVE  Placed' /\ EvenKept /\ EvenPaths
<1>1. /\ KernelOK /\ KernelOK' /\ OneWatch /\ Reported(es) /\ Truthful
      /\ p \in Paths /\ q \in Paths /\ next_wd' = next_wd
  <2>1. KernelOK /\ KernelOK' /\ OneWatch /\ Reported(es) /\ Truthful
    BY DEF Whole, Placed, MoveReported
  <2>2. p \in Paths /\ q \in Paths
    BY <2>1, MovesWhole DEF Moves
  <2>3. next_wd' = next_wd
    BY DEF Moves, DiskMoves
  <2> QED BY <2>1, <2>2, <2>3
<1>2. LiveEntries' = LiveEntries /\ \A i : PathOf(i)' = PathOf(i)
  BY SamePaths
<1>3. \A w \in DOMAIN watches' :
        /\ w \in DOMAIN watches /\ watches[w] \in DOMAIN disk \ {q} /\ watches[w] \in Paths
        /\ watches'[w] = Moved(p, q, watches[w])
  BY <1>1 DEF MoveReported, Reported, KernelOK, DiskTree
<1>4. \A w \in DOMAIN watches' :
        /\ Len(watches[w]) \in Nat /\ Len(watches[w]) >= 1
        /\ ~IsPrefix(p, watches[w]) => watches'[w] = watches[w]
        /\ IsPrefix(p, watches[w]) =>
             /\ Len(watches'[w]) = Len(q) + (Len(watches[w]) - Len(p))
             /\ Len(watches[w]) >= Len(p)
             /\ Len(watches'[w]) > 1 /\ Len(watches'[w]) \in Nat
  <2>1. ASSUME NEW w \in DOMAIN watches'
        PROVE  /\ Len(watches[w]) \in Nat /\ Len(watches[w]) >= 1
               /\ ~IsPrefix(p, watches[w]) => watches'[w] = watches[w]
               /\ IsPrefix(p, watches[w]) =>
                    /\ Len(watches'[w]) = Len(q) + (Len(watches[w]) - Len(p))
                    /\ Len(watches[w]) >= Len(p)
                    /\ Len(watches'[w]) > 1 /\ Len(watches'[w]) \in Nat
    <3>1. PICK x, m : x = watches[w] /\ m = watches'[w] /\ x \in Paths /\ m = Moved(p, q, x)
      BY <1>3, <2>1
    <3>2. MovedSize(p, q, x)
      BY <1>1, <3>1, MovedLength
    <3>4. /\ Len(p) \in Nat /\ Len(q) \in Nat /\ Len(x) \in Nat /\ Len(x) >= 1
          /\ ~IsPrefix(p, x) => m = x
          /\ IsPrefix(p, x) => Len(x) >= Len(p) /\ Len(m) = Len(q) + (Len(x) - Len(p))
      BY <3>1, <3>2 DEF MovedSize
    <3>3. IsPrefix(p, x) => Len(m) > 1 /\ Len(m) \in Nat
      BY <3>4
    <3> QED BY <3>1, <3>3, <3>4
  <2> QED BY <2>1
<1>5. ASSUME NEW i \in DOMAIN entries, Watching(i)'
      PROVE  /\ Watching(i) /\ Len(WatchOf(i)) \in Nat /\ Len(WatchOf(i)') \in Nat
             /\ Len(WatchOf(i)') = 1 => WatchOf(i) = WatchOf(i)'
             /\ Follows(i)' => Follows(i) /\ Len(WatchOf(i)') = Len(WatchOf(i))
             /\ Follows(i)' /\ ~RenamedOnDisk' => WatchOf(i)' = WatchOf(i)
                                                      /\ ~RenamedOnDisk
  <2>1. PICK w : w = entries[i].wd /\ w \in DOMAIN watches'
    BY <1>5 DEF Watching
  <2>2. WatchOf(i)' = watches'[w] /\ WatchOf(i) = watches[w] /\ Watching(i)
    BY <1>2, <1>3, <1>5, <2>1 DEF Watching, WatchOf
  <2>3. /\ Len(watches[w]) \in Nat /\ Len(watches[w]) >= 1
        /\ ~IsPrefix(p, watches[w]) => watches'[w] = watches[w]
        /\ IsPrefix(p, watches[w]) =>
             /\ Len(watches'[w]) = Len(q) + (Len(watches[w]) - Len(p))
             /\ Len(watches[w]) >= Len(p)
             /\ Len(watches'[w]) > 1 /\ Len(watches'[w]) \in Nat
    BY <1>4, <2>1
  <2>4. Len(watches[w]) \in Nat /\ Len(watches'[w]) \in Nat
        /\ (Len(watches'[w]) = 1 => watches[w] = watches'[w])
    <3>1. CASE IsPrefix(p, watches[w])
      <4>1. PICK k : k = Len(watches'[w])
        OBVIOUS
      <4>2. k > 1 /\ k \in Nat
        BY <2>3, <3>1, <4>1
      <4>3. k # 1
        BY <4>2
      <4> QED BY <2>3, <4>1, <4>2, <4>3
    <3>2. CASE ~IsPrefix(p, watches[w])
      BY <2>3, <3>2
    <3> QED BY <3>1, <3>2
  <2>5. ASSUME Follows(i)'
        PROVE  /\ Follows(i) /\ Len(watches'[w]) = Len(watches[w])
               /\ ~RenamedOnDisk' => watches'[w] = watches[w] /\ ~RenamedOnDisk
    <3>1. i \notin unmirrored'
      BY <2>5 DEF Follows
    <3>2. CASE unmirrored' = unmirrored \cup WatchingUnder(p) /\ (RenamedOnDisk => RenamedOnDisk')
      <4>1. i \notin unmirrored /\ i \notin WatchingUnder(p)
        BY <3>1, <3>2
      <4>2. ~IsPrefix(p, watches[w])
        BY <1>3, <2>1, <2>2, <4>1 DEF WatchingUnder, Watching
      <4> QED BY <2>2, <2>3, <3>2, <4>1, <4>2 DEF Follows
    <3>3. CASE unmirrored' = unmirrored /\ Len(p) = Len(q) /\ RenamedOnDisk'
      <4>1. i \notin unmirrored
        BY <3>1, <3>3
      <4>2. Len(p) \in Nat
        BY <1>1 DEF Paths
      <4>3. Len(watches'[w]) = Len(watches[w])
        BY <2>3, <3>3, <4>2
      <4> QED BY <2>2, <3>3, <4>1, <4>3 DEF Follows
    <3> QED BY <3>2, <3>3
  <2> QED BY <2>2, <2>4, <2>5
<1>6. DOMAIN entries' = DOMAIN entries
  OBVIOUS
<1>7. TopWatch'
  <2>1. SUFFICES ASSUME NEW i \in DOMAIN entries, Watching(i)', Len(WatchOf(i)') = 1
                 PROVE  PathOf(i)' = WatchOf(i)'
    BY <1>6 DEF TopWatch
  <2>2. Watching(i) /\ WatchOf(i) = WatchOf(i)'
    BY <1>5, <2>1
  <2>3. PathOf(i) = WatchOf(i)
    BY <2>1, <2>2 DEF Placed, TopWatch
  <2> QED BY <1>2, <2>2, <2>3
<1>8. Level'
  <2>1. SUFFICES ASSUME NEW i \in DOMAIN entries, Follows(i)'
                 PROVE  /\ Len(PathOf(i)') <= Len(WatchOf(i)')
                        /\ Len(PathOf(i)') = Len(WatchOf(i)') /\ ~RenamedOnDisk'
                             => PathOf(i)' = WatchOf(i)'
    BY <1>6 DEF Level
  <2>2. Follows(i) /\ Len(WatchOf(i)') = Len(WatchOf(i))
        /\ (~RenamedOnDisk' => WatchOf(i)' = WatchOf(i) /\ ~RenamedOnDisk)
    BY <1>5, <2>1 DEF Follows
  <2>3. /\ Len(PathOf(i)) <= Len(WatchOf(i))
        /\ Len(PathOf(i)) = Len(WatchOf(i)) /\ ~RenamedOnDisk => PathOf(i) = WatchOf(i)
    BY <2>2 DEF Placed, Level
  <2> QED BY <1>2, <2>2, <2>3
<1>9. EvenKept
  <2>1. SUFFICES ASSUME NEW i \in DOMAIN entries, Even(i)' PROVE Even(i)
    BY <1>6 DEF EvenKept
  <2>2. Follows(i)' /\ Len(PathOf(i)') = Len(WatchOf(i)') /\ Watching(i)'
    BY <2>1 DEF Even, Follows
  <2>3. Follows(i) /\ Len(WatchOf(i)') = Len(WatchOf(i))
    BY <1>5, <2>2
  <2> QED BY <1>2, <2>2, <2>3 DEF Even
<1>11. OneWatch' /\ Truthful'
  <2>1. OneWatch'
    BY <1>1, <1>3, MovesOneWatch
  <2> QED BY <1>1, <2>1, ReportedTruthful
<1>12. Numbered'
  <2>1. \A k \in DOMAIN events : events[k].wd < next_wd
    BY DEF Placed, Numbered
  <2>2. \A k \in DOMAIN events' : events'[k].wd < next_wd'
    BY <1>1, <2>1, QueueNumbered
  <2> QED BY <1>1, <1>2, <2>2 DEF Placed, Numbered
<1> QED BY <1>2, <1>7, <1>8, <1>9, <1>11, <1>12 DEF Placed, EvenPaths

\* The watch of GetObjectHandles, with the descriptor wd, on the path of entry i.
Registers(i, wd) ==
  /\ i = io.idx /\ i \in LiveEntries /\ io.path = PathOf(i)
  /\ entries[i].handle = io.parent /\ entries[i].storage = io.storage
  /\ entries' = [entries EXCEPT ![i].wd = wd]
  /\ \/ wd = NONE /\ watches' = watches /\ next_wd' = next_wd
     \/ /\ wd \in DOMAIN watches /\ watches[wd] = io.path
        /\ watches' = watches /\ next_wd' = next_wd
     \/ /\ wd = next_wd /\ WatchersOf(io.path) = {} /\ next_wd' = next_wd + 1
        /\ DOMAIN watches' = DOMAIN watches \cup {wd} /\ watches'[wd] = io.path
        /\ \A w \in DOMAIN watches : watches'[w] = watches[w]
  /\ unmirrored \ {i} \subseteq unmirrored'
  /\ IF entries[i].wd = wd THEN unmirrored' = unmirrored
     ELSE i \notin unmirrored' => DbNames(io.parent, io.storage) = Listing(io.path)

\* GetObjectHandles registers one entry with a watch of its own or of the
\* directory, or changes nothing that is followed.
LEMMA RegisterCases ==
  ASSUME Whole, Placed, RegisterWatch
  PROVE  \/ UNCHANGED <<entries, watches, next_wd, unmirrored>>
         \/ \E i, wd : Registers(i, wd)
<1>1. CASE ~IsFolder(io.idx)
  BY <1>1 DEF RegisterWatch
<1>2. CASE IsFolder(io.idx)
  <2>1. PICK i, old, path : i = io.idx /\ path = io.path /\ old = WatchersOf(path)
    OBVIOUS
  <2>2. PICK wd : wd = IF old # {} THEN CHOOSE w \in old : TRUE
                       ELSE IF path \in DOMAIN disk /\ next_wd <= MaxWd THEN next_wd
                       ELSE NONE
    OBVIOUS
  <2>3. DbTypeOK /\ KernelOK /\ KernelOK'
    BY RegisterWatchKeeps DEF Whole, Listed, Sane
  <2>4. i # 0 /\ io.op = "listing"
    BY <1>2, <2>1 DEF IsFolder, RegisterWatch
  <2>5. Live(i) /\ path = PathOf(i)
        /\ entries[i].handle = io.parent /\ entries[i].storage = io.storage
    BY <2>1, <2>4 DEF Placed, ListLevel
  <2>6. i \in LiveEntries
    BY <2>1, <2>3, <2>4, <2>5 DEF LiveEntries, DbTypeOK
  <2>7. PICK new : new = (wd # NONE /\ old = {})
    OBVIOUS
  <2>8. /\ entries' = [entries EXCEPT ![i].wd = wd]
        /\ watches' = IF new THEN [w \in DOMAIN watches \cup {wd} |->
                                     IF w = wd THEN path ELSE watches[w]]
                      ELSE watches
        /\ next_wd' = IF new THEN next_wd + 1 ELSE next_wd
        /\ unmirrored' = IF /\ entries[i].wd # wd
                            /\ DbNames(io.parent, io.storage) # Listing(path)
                         THEN unmirrored \cup {i}
                         ELSE IF entries[i].wd # wd THEN unmirrored \ {i}
                         ELSE unmirrored
    BY <1>2, <2>1, <2>2, <2>7 DEF RegisterWatch
  <2>9. unmirrored \ {i} \subseteq unmirrored'
        /\ IF entries[i].wd = wd THEN unmirrored' = unmirrored
           ELSE i \notin unmirrored' => DbNames(io.parent, io.storage) = Listing(io.path)
    BY <2>1, <2>8
  <2>10. \/ wd = NONE /\ watches' = watches /\ next_wd' = next_wd
         \/ /\ wd \in DOMAIN watches /\ watches[wd] = path
            /\ watches' = watches /\ next_wd' = next_wd
         \/ /\ wd = next_wd /\ WatchersOf(path) = {} /\ next_wd' = next_wd + 1
            /\ DOMAIN watches' = DOMAIN watches \cup {wd} /\ watches'[wd] = path
            /\ \A w \in DOMAIN watches : watches'[w] = watches[w]
    <3>1. CASE old # {}
      <4>1. wd \in old
        BY <2>2, <3>1
      <4>2. wd \in DOMAIN watches /\ watches[wd] = path
        BY <2>1, <4>1 DEF WatchersOf
      <4> QED BY <2>7, <2>8, <3>1, <4>2
    <3>2. CASE old = {} /\ ~(path \in DOMAIN disk /\ next_wd <= MaxWd)
      <4>1. wd = NONE /\ ~new
        BY <2>2, <2>7, <3>2
      <4> QED BY <2>8, <4>1
    <3>3. CASE old = {} /\ path \in DOMAIN disk /\ next_wd <= MaxWd
      <4>1. wd = next_wd
        BY <2>2, <3>3
      <4>2. wd # NONE /\ wd \notin DOMAIN watches
        BY <2>3, <4>1 DEF KernelOK, WatchesSet, NONE
      <4>3. new
        BY <2>7, <3>3, <4>2
      <4> QED BY <2>1, <2>8, <3>3, <4>1, <4>2, <4>3
    <3> QED BY <3>1, <3>2, <3>3
  <2>11. Registers(i, wd)
    BY <2>1, <2>5, <2>6, <2>8, <2>9, <2>10 DEF Registers
  <2> QED BY <2>11
<1> QED BY <1>1, <1>2

\* The entries with their new watch.
LEMMA RegisteredEntries ==
  ASSUME Whole, Whole', RegisterWatch, NEW i, NEW wd, Registers(i, wd)
  PROVE  /\ LiveEntries' = LiveEntries /\ DOMAIN entries' = DOMAIN entries
         /\ \A k \in DOMAIN entries :
              /\ Kept(k) /\ entries'[k].wd = IF k = i THEN wd ELSE entries[k].wd
              /\ PathOf(k)' = PathOf(k)
         /\ \A h, s : DbNames(h, s)' = DbNames(h, s)
<1>1. Sane /\ Sane' /\ DbTypeOK
  BY DEF Whole, Listed, Sane
<1>2. DbStep /\ NamesStep
  BY <1>1, RegisterWatchStep
<1>3. entries' = [entries EXCEPT ![i].wd = wd] /\ i \in DOMAIN entries
  BY DEF Registers, LiveEntries
<1>4. \A k \in DOMAIN entries : entries[k] \in Entry
  BY <1>1, EntriesAreEntries
<1>5. DOMAIN entries' = DOMAIN entries
      /\ \A k \in DOMAIN entries :
           /\ entries'[k].deleted = entries[k].deleted
           /\ entries'[k].wd = IF k = i THEN wd ELSE entries[k].wd
  BY <1>3, <1>4 DEF Entry
<1>6. LiveEntries' = LiveEntries
  BY <1>5 DEF LiveEntries, Live
<1>7. ASSUME NEW k \in DOMAIN entries PROVE PathOf(k)' = PathOf(k)
  <2>1. \A j \in 1..k - 1 : j \in DOMAIN entries
    BY <1>1, <1>7 DEF DbTypeOK
  <2>2. \A j \in 1..k - 1 : entries'[j].deleted = entries[j].deleted
    BY <1>5, <2>1
  <2> QED BY <1>1, <1>2, <2>2, PathSame
<1>8. \A h, s : ChildrenInDb(h, s)' = ChildrenInDb(h, s)
  BY <1>2, <1>5, <1>6 DEF ChildrenInDb, DbStep, Kept, LiveEntries
<1>9. \A h, s : DbNames(h, s)' = DbNames(h, s)
  <2>1. \A h, s : \A c \in ChildrenInDb(h, s) : c \in DOMAIN entries
    BY DEF ChildrenInDb, LiveEntries
  <2>2. \A k \in DOMAIN entries : entries'[k].name = entries[k].name
    BY <1>2 DEF NamesStep
  <2> QED BY <1>8, <2>1, <2>2 DEF DbNames
<1> QED BY <1>2, <1>5, <1>6, <1>7, <1>9 DEF DbStep

\* The watch of GetObjectHandles is where its entry is.
LEMMA RegisterPlaced ==
  ASSUME Whole, Whole', Placed, RegisterWatch, NEW i, NEW wd, Registers(i, wd)
  PROVE  Placed' /\ \A k \in DOMAIN entries : k # i /\ Even(k)' =>
           Even(k) /\ WatchOf(k)' = WatchOf(k)
<1>1. Sane /\ KernelOK /\ KernelOK' /\ UNCHANGED <<disk, events>> /\ io.op = "listing"
      /\ io'.op = "idle"
  BY DEF Whole, Listed, RegisterWatch, IoIdle
<1>2. /\ LiveEntries' = LiveEntries /\ DOMAIN entries' = DOMAIN entries
      /\ \A k \in DOMAIN entries :
           /\ Kept(k) /\ entries'[k].wd = IF k = i THEN wd ELSE entries[k].wd
           /\ PathOf(k)' = PathOf(k)
      /\ i \in LiveEntries /\ i \in DOMAIN entries
  <2>1. i \in LiveEntries /\ i \in DOMAIN entries
    BY DEF Registers, LiveEntries
  <2> QED BY <2>1, RegisteredEntries
<1>3. next_wd <= next_wd' /\ next_wd \in Nat /\ next_wd' \in Nat
  BY <1>1 DEF Registers, KernelOK, WatchesSet
<1>4. \A w \in DOMAIN watches : w \in DOMAIN watches' /\ watches'[w] = watches[w]
  BY DEF Registers
<1>5. \A w \in DOMAIN watches' : w \notin DOMAIN watches =>
        w = next_wd /\ w = wd /\ watches'[w] = io.path /\ WatchersOf(io.path) = {}
        /\ next_wd < next_wd'
  BY <1>3 DEF Registers
<1>6. wd \in DOMAIN watches' => watches'[wd] = PathOf(i)
  <2>1. NONE \notin DOMAIN watches'
    BY <1>1 DEF KernelOK, WatchesSet, NONE
  <2> QED BY <2>1 DEF Registers
<1>7. Numbered'
  <2>1. wd < next_wd'
    BY <1>1, <1>3 DEF Registers, KernelOK, WatchesSet, NONE
  <2>2. \A k \in LiveEntries : k \in DOMAIN entries /\ entries[k].wd < next_wd
        /\ entries[k].wd \in Int
    BY <1>1, EntriesAreEntries DEF Placed, Numbered, LiveEntries, Sane, Entry, NONE
  <2>3. \A k \in LiveEntries' : entries'[k].wd < next_wd'
    BY <1>2, <1>3, <2>1, <2>2
  <2>4. \A k \in DOMAIN events' : events'[k].wd < next_wd'
    <3>1. \A k \in DOMAIN events : events[k].wd \in Nat
      <4>1. \A k \in DOMAIN events : events[k] \in InotifyEvent
        BY <1>1 DEF KernelOK
      <4> QED BY <4>1 DEF InotifyEvent
    <3> QED BY <1>1, <1>3, <3>1 DEF Placed, Numbered
  <2> QED BY <2>3, <2>4 DEF Numbered
<1>8. ASSUME NEW k \in DOMAIN entries, k # i, Watching(k)'
      PROVE  Watching(k) /\ WatchOf(k)' = WatchOf(k)
  <2>1. k \in LiveEntries /\ entries'[k].wd = entries[k].wd /\ entries[k].wd \in DOMAIN watches'
    BY <1>2, <1>8 DEF Watching
  <2>2. entries[k].wd < next_wd
    BY <2>1 DEF Placed, Numbered
  <2>3. entries[k].wd \in DOMAIN watches
    BY <1>3, <1>5, <2>1, <2>2
  <2> QED BY <1>4, <2>1, <2>3 DEF Watching, WatchOf
<1>9. Watching(i)' => WatchOf(i)' = PathOf(i)
  BY <1>2, <1>6 DEF Watching, WatchOf
<1>10. OneWatch'
  <2>1. SUFFICES ASSUME NEW v \in DOMAIN watches', NEW w \in DOMAIN watches',
                        watches'[v] = watches'[w]
                 PROVE  v = w
    BY DEF OneWatch
  <2>2. CASE v \in DOMAIN watches /\ w \in DOMAIN watches
    BY <1>4, <2>1, <2>2 DEF Placed, OneWatch
  <2>3. CASE v \notin DOMAIN watches /\ w \notin DOMAIN watches
    BY <1>5, <2>1, <2>3
  <2>4. ASSUME NEW x \in DOMAIN watches', NEW y \in DOMAIN watches, x \notin DOMAIN watches,
               watches'[x] = watches'[y]
        PROVE  FALSE
    <3>1. watches[y] = io.path /\ WatchersOf(io.path) = {}
      BY <1>4, <1>5, <2>4
    <3> QED BY <2>4, <3>1 DEF WatchersOf
  <2> QED BY <2>1, <2>2, <2>3, <2>4
<1>11. Truthful'
  <2>1. SUFFICES ASSUME NEW w \in DOMAIN watches', NEW n \in Names, NEW k \in DOMAIN events,
                        Tells(events[k], w, n)
                 PROVE  \/ \E l \in DOMAIN events : l > k /\ Tells(events[l], w, n)
                        \/ (events[k].mask = "create" <=> n \in Listing(watches[w])')
    BY <1>1 DEF Truthful, Tells
  <2>2. w # next_wd
    BY <1>3, <2>1 DEF Placed, Numbered, Tells
  <2>3. w \in DOMAIN watches /\ watches'[w] = watches[w]
    BY <1>4, <1>5, <2>2
  <2>4. Listing(watches[w])' = Listing(watches[w])
    BY <1>1, <2>3 DEF Listing
  <2> QED BY <2>1, <2>3, <2>4 DEF Placed, Truthful
<1>12. TopWatch'
  <2>1. SUFFICES ASSUME NEW k \in DOMAIN entries, Watching(k)', Len(WatchOf(k)') = 1
                 PROVE  PathOf(k)' = WatchOf(k)'
    BY <1>2 DEF TopWatch
  <2>2. CASE k = i
    BY <1>2, <1>9, <2>1, <2>2
  <2>3. CASE k # i
    BY <1>2, <1>8, <2>1, <2>3 DEF Placed, TopWatch
  <2> QED BY <2>2, <2>3
<1>13. ASSUME NEW k \in DOMAIN entries, k # i, Follows(k)'
       PROVE  Follows(k) /\ WatchOf(k)' = WatchOf(k)
  <2>1. Watching(k)' /\ k \notin unmirrored'
    BY <1>13 DEF Follows
  <2>2. k \notin unmirrored
    BY <1>13, <2>1 DEF Registers
  <2> QED BY <1>8, <1>13, <2>1, <2>2 DEF Follows
<1>14. Level'
  <2>1. SUFFICES ASSUME NEW k \in DOMAIN entries, Follows(k)'
                 PROVE  /\ Len(PathOf(k)') <= Len(WatchOf(k)')
                        /\ Len(PathOf(k)') = Len(WatchOf(k)') => PathOf(k)' = WatchOf(k)'
    BY <1>2 DEF Level
  <2>2. CASE k = i
    <3>1. WatchOf(k)' = PathOf(k)'
      BY <1>2, <1>9, <2>1, <2>2 DEF Follows
    <3>2. Len(PathOf(k)) \in Nat
      BY <1>1, PathOfTyped DEF Paths
    <3> QED BY <1>2, <3>1, <3>2
  <2>3. CASE k # i
    <3>1. Follows(k) /\ WatchOf(k)' = WatchOf(k)
      BY <1>13, <2>1, <2>3
    <3>2. /\ Len(PathOf(k)) <= Len(WatchOf(k))
          /\ Len(PathOf(k)) = Len(WatchOf(k)) => PathOf(k) = WatchOf(k)
      BY <1>1, <3>1 DEF Placed, Level, RenamedOnDisk
    <3> QED BY <1>2, <3>1, <3>2
  <2> QED BY <2>2, <2>3
<1>16. \A k \in DOMAIN entries : k # i /\ Even(k)' => Even(k) /\ WatchOf(k)' = WatchOf(k)
  <2>1. ASSUME NEW k \in DOMAIN entries, k # i, Even(k)'
        PROVE  Even(k) /\ WatchOf(k)' = WatchOf(k)
    <3>1. Follows(k) /\ WatchOf(k)' = WatchOf(k) /\ Len(PathOf(k)') = Len(WatchOf(k)')
      BY <1>13, <2>1 DEF Even
    <3> QED BY <1>2, <3>1 DEF Even
  <2> QED BY <2>1
<1>17. ListLevel'
  BY <1>1 DEF ListLevel
<1> QED BY <1>7, <1>10, <1>11, <1>12, <1>14, <1>16, <1>17 DEF Placed

-----------------------------------------------------------------------------
(* The agreement, for the steps of each kind.                                *)

Mirrored == Placed /\ Agreement /\ Renaming /\ Heading

\* OpenSession and CloseSession leave no folder to follow.
LEMMA ResetMirrored ==
  ASSUME Whole, Whole', Mirrored, OpenSession \/ CloseSession
  PROVE  Mirrored'
<1>1. Placed' /\ (\A i \in DOMAIN entries' : ~Watching(i)')
  BY ResetPlaced DEF Mirrored
<1>2. io'.op = "idle"
  BY DEF OpenSession, CloseSession, IoReady
<1> QED BY <1>1, <1>2 DEF Mirrored, Agreement, Renaming, Heading, RenamedOnDisk, RenameOps,
                         Even, Follows

\* With the queue and the inotify thread what waits stays.
LEMMA StillWaits ==
  ASSUME UNCHANGED <<events, ino>>, NEW i, entries'[i].wd = entries[i].wd, NEW n
  PROVE  Waits(i, n)' <=> Waits(i, n)
BY DEF Waits, Tells, Ahead

\* GetObjectHandles: a folder with a new watch has the names it has on the
\* disk, or it is not followed.
LEMMA RegisterMirrored ==
  ASSUME Whole, Whole', Mirrored, RegisterWatch
  PROVE  Mirrored'
<1>1. /\ Placed /\ Agreement /\ UNCHANGED <<disk, events, ino, overwritten>>
      /\ io.op = "listing" /\ io'.op = "idle"
  BY DEF Mirrored, RegisterWatch, IoIdle
<1>2. Renaming' /\ Heading'
  BY <1>1 DEF Renaming, Heading, RenamedOnDisk, RenameOps
<1>3. CASE UNCHANGED <<entries, watches, next_wd, unmirrored>>
  <2>1. LiveEntries' = LiveEntries /\ (\A i : PathOf(i)' = PathOf(i))
        /\ \A h, s : DbNames(h, s)' = DbNames(h, s)
    BY <1>3, SamePaths
  <2>2. \A i : /\ WatchOf(i)' = WatchOf(i) /\ (Watching(i)' <=> Watching(i))
               /\ NamesOf(i)' = NamesOf(i)
    BY <1>3, <2>1 DEF WatchOf, Watching, NamesOf
  <2>3. \A i : (Follows(i)' <=> Follows(i)) /\ (Even(i)' <=> Even(i))
    BY <1>3, <2>1, <2>2 DEF Follows, Even
  <2>4. Placed'
    BY <1>1, <1>3, <2>1, <2>2, <2>3
       DEF Placed, OneWatch, Truthful, Numbered, TopWatch, Level, ListLevel, Listing, RenamedOnDisk
  <2>5. \A i, n : (Doubled(i, n)' <=> Doubled(i, n)) /\ (Waits(i, n)' <=> Waits(i, n))
                  /\ (Agrees(i, n)' <=> Agrees(i, n))
    BY <1>1, <1>3, <2>2 DEF Doubled, Waits, Tells, Ahead, Agrees, Listing, WatchOf
  <2> QED BY <1>1, <1>2, <1>3, <2>3, <2>4, <2>5 DEF Mirrored, Agreement
<1>4. ASSUME NEW i, NEW wd, Registers(i, wd) PROVE Mirrored'
  <2>1. Placed' /\ \A k \in DOMAIN entries : k # i /\ Even(k)' =>
          Even(k) /\ WatchOf(k)' = WatchOf(k)
    BY <1>1, <1>4, RegisterPlaced
  <2>2. /\ LiveEntries' = LiveEntries /\ DOMAIN entries' = DOMAIN entries
        /\ \A k \in DOMAIN entries :
             /\ Kept(k) /\ entries'[k].wd = IF k = i THEN wd ELSE entries[k].wd
             /\ PathOf(k)' = PathOf(k)
        /\ \A h, s : DbNames(h, s)' = DbNames(h, s)
    BY <1>4, RegisteredEntries
  <2>3. \A k \in DOMAIN entries : NamesOf(k)' = NamesOf(k) /\ \A n : Doubled(k, n)' <=> Doubled(k, n)
    BY <1>1, <2>2 DEF NamesOf, Doubled, Kept
  <2>4. ASSUME NEW k \in DOMAIN entries, NEW n \in Names, Even(k), Even(k)',
               WatchOf(k)' = WatchOf(k), entries'[k].wd = entries[k].wd
        PROVE  Doubled(k, n)' \/ Waits(k, n)' \/ Agrees(k, n)'
    <3>1. Doubled(k, n) \/ Waits(k, n) \/ Agrees(k, n)
      BY <1>1, <2>4 DEF Agreement
    <3>2. Waits(k, n)' <=> Waits(k, n)
      BY <1>1, <2>4, StillWaits
    <3>3. Listing(WatchOf(k))' = Listing(WatchOf(k))
      BY <1>1, <2>4 DEF Listing
    <3>4. Agrees(k, n)' <=> Agrees(k, n)
      BY <2>3, <3>3 DEF Agrees
    <3> QED BY <2>3, <3>1, <3>2, <3>4
  <2>5. ASSUME NEW k \in DOMAIN entries, NEW n \in Names, Even(k)'
        PROVE  Doubled(k, n)' \/ Waits(k, n)' \/ Agrees(k, n)'
    <3>1. CASE k # i
      BY <2>1, <2>2, <2>4, <2>5, <3>1
    <3>2. CASE k = i /\ entries[i].wd # wd
      <4>1. i \notin unmirrored'
        BY <2>5, <3>2 DEF Even, Follows
      <4>2. DbNames(io.parent, io.storage) = Listing(io.path)
        BY <1>4, <3>2, <4>1 DEF Registers
      <4>3. NamesOf(i) = Listing(io.path)
        BY <1>4, <4>2 DEF Registers, NamesOf
      <4>4. Watching(i)' /\ wd \in DOMAIN watches'
        BY <2>2, <2>5, <3>2 DEF Even, Follows, Watching
      <4>5. WatchOf(i)' = io.path
        <5>1. wd # NONE
          BY <4>4 DEF Whole, KernelOK, WatchesSet, NONE
        <5>2. watches'[wd] = io.path
          BY <1>4, <5>1 DEF Registers
        <5>3. entries'[i].wd = wd
          BY <2>2, <2>5, <3>2
        <5> QED BY <5>2, <5>3 DEF WatchOf
      <4>6. PICK path : path = io.path
        OBVIOUS
      <4>7. Listing(WatchOf(i))' = Listing(path)
        BY <1>1, <4>5, <4>6 DEF Listing
      <4>8. n \in Listing(WatchOf(i))' <=> n \in NamesOf(i)'
        BY <2>3, <2>5, <3>2, <4>3, <4>6, <4>7
      <4> QED BY <3>2, <4>8 DEF Agrees
    <3>3. CASE k = i /\ entries[i].wd = wd
      <4>1. unmirrored' = unmirrored /\ i \in LiveEntries
        BY <1>4, <3>3 DEF Registers
      <4>2. Watching(i)' /\ i \notin unmirrored' /\ Len(PathOf(i)') = Len(WatchOf(i)')
            /\ entries'[i].wd = entries[i].wd
        BY <2>2, <2>5, <3>3 DEF Even, Follows
      <4>3. entries[i].wd < next_wd
        BY <1>1, <4>1 DEF Placed, Numbered
      <4>4. next_wd \in Nat
        BY DEF Whole, KernelOK, WatchesSet
      <4>5. wd # NONE /\ wd # next_wd
        <5>1. wd # NONE
          BY <2>2, <2>5, <3>3, <4>2 DEF Watching, Whole, KernelOK, WatchesSet, NONE
        <5> QED BY <3>3, <4>3, <4>4, <5>1
      <4>6. wd \in DOMAIN watches /\ watches' = watches
        BY <1>4, <4>5 DEF Registers
      <4>7. Watching(i) /\ WatchOf(i)' = WatchOf(i)
        BY <3>3, <4>1, <4>2, <4>6 DEF Watching, WatchOf
      <4>8. Even(i)
        BY <2>2, <2>5, <3>3, <4>1, <4>2, <4>7 DEF Even, Follows
      <4> QED BY <2>4, <2>5, <3>3, <4>2, <4>7, <4>8
    <3> QED BY <3>1, <3>2, <3>3
  <2>6. Agreement'
    BY <2>2, <2>5 DEF Agreement
  <2> QED BY <1>2, <2>1, <2>6 DEF Mirrored
<1> QED BY <1>1, <1>3, <1>4, RegisterCases

\* A rename in the database: the events of both names wait for the folder.
LEMMA RenameMirrored ==
  ASSUME Whole, Whole', Mirrored, RenameInsert
  PROVE  Mirrored'
<1>1. /\ Placed /\ Agreement /\ Renaming /\ UNCHANGED <<disk, events, ino, watches>>
      /\ RenamedOnDisk /\ io'.op = "idle"
  BY DEF Mirrored, RenameInsert, IoIdle, diskVars, RenamedOnDisk
<1>2. Placed' /\ EvenKept
  BY <1>1, RenamePlaced
<1>3. PICK c, old, new : c = io.idx /\ old = entries[c].name /\ new = io.name
  OBVIOUS
<1>4. /\ DbStep /\ LiveEntries' = LiveEntries /\ DOMAIN entries' = DOMAIN entries
      /\ c \in DOMAIN entries /\ entries'[c].name = new
      /\ \A k \in DOMAIN entries : /\ Kept(k) /\ entries'[k].wd = entries[k].wd
                                   /\ k # c => entries'[k].name = entries[k].name
  BY <1>1, <1>3, RenamedOwn, EntriesAreEntries DEF Whole, Listed, Sane, DbTypeOK
<1>5. overwritten \subseteq overwritten'
  BY DEF RenameInsert
<1>6. \A h, s : ChildrenInDb(h, s)' = ChildrenInDb(h, s)
  BY <1>4 DEF ChildrenInDb, Kept, LiveEntries
<1>7. \A h, s : c \notin ChildrenInDb(h, s) \/ new = old => DbNames(h, s)' = DbNames(h, s)
  <2>1. \A h, s : ChildrenInDb(h, s) \subseteq DOMAIN entries
    BY DEF ChildrenInDb, LiveEntries
  <2> QED BY <1>3, <1>4, <1>6, <2>1 DEF DbNames
<1>8. \A h, s : \A n : n \notin {old, new} => (n \in DbNames(h, s)' <=> n \in DbNames(h, s))
  <2>1. \A h, s : ChildrenInDb(h, s) \subseteq DOMAIN entries
    BY DEF ChildrenInDb, LiveEntries
  <2>2. \A k \in DOMAIN entries : \A n : n \notin {old, new} =>
          (entries'[k].name = n <=> entries[k].name = n)
    BY <1>3, <1>4
  <2> QED BY <1>6, <2>1, <2>2 DEF DbNames
<1>9. SUFFICES ASSUME NEW i \in DOMAIN entries, NEW n \in Names, Even(i)'
               PROVE  Doubled(i, n)' \/ Waits(i, n)' \/ Agrees(i, n)'
  <2>1. Renaming' /\ Heading'
    BY <1>1 DEF Renaming, Heading, RenamedOnDisk, RenameOps
  <2> QED BY <1>2, <1>4, <1>9, <2>1 DEF Mirrored, Agreement
<1>10. Even(i) /\ Kept(i) /\ entries'[i].wd = entries[i].wd
  BY <1>2, <1>4, <1>9 DEF EvenKept
<1>11. Waits(i, n)' <=> Waits(i, n)
  BY <1>1, <1>10, StillWaits
<1>12. Doubled(i, n) => Doubled(i, n)'
  BY <1>5, <1>10 DEF Doubled, Kept
<1>13. CASE n \in NamesOf(i)' <=> n \in NamesOf(i)
  <2>1. Listing(WatchOf(i))' = Listing(WatchOf(i))
    BY <1>1, <1>10 DEF Listing, WatchOf
  <2>2. Agrees(i, n)' <=> Agrees(i, n)
    BY <1>13, <2>1 DEF Agrees
  <2> QED BY <1>1, <1>10, <1>11, <1>12, <2>2 DEF Agreement
<1>14. CASE ~(n \in NamesOf(i)' <=> n \in NamesOf(i))
  <2>1. PICK h, s : h = entries[i].handle /\ s = entries[i].storage
    OBVIOUS
  <2>2. entries'[i].handle = h /\ entries'[i].storage = s
    BY <1>10, <2>1 DEF Kept
  <2>3. NamesOf(i) = DbNames(h, s) /\ NamesOf(i)' = DbNames(h, s)'
    BY <2>1, <2>2 DEF NamesOf
  <2>4. c \in ChildrenInDb(h, s) /\ new # old /\ n \in {old, new}
    BY <1>7, <1>8, <1>14, <2>3
  <2>5. c \in KidsOf(i) /\ Live(c) /\ entries[c].parent = h /\ entries[c].storage = s
    BY <2>1, <2>4 DEF KidsOf, ChildrenInDb, LiveEntries
  <2>6. Doubled(i, old) \/ InMove(i, old, new)
    BY <1>1, <1>3, <1>10, <2>4, <2>5 DEF Renaming
  <2>7. ASSUME Doubled(i, old) PROVE Doubled(i, n)'
    <3>1. <<s, h, old>> \in overwritten
      BY <2>1, <2>7 DEF Doubled
    <3>2. overwritten' = overwritten \cup {<<s, h, new>>}
      BY <1>3, <2>5, <3>1 DEF RenameInsert
    <3>3. <<s, h, n>> \in overwritten'
      BY <2>4, <3>1, <3>2
    <3> QED BY <2>2, <3>3 DEF Doubled
  <2>8. ASSUME InMove(i, old, new) PROVE Waits(i, n)
    <3>1. PICK k, l \in DOMAIN events :
            /\ k < l /\ Ahead(k, i)
            /\ Tells(events[k], entries[i].wd, old)
            /\ Tells(events[l], entries[i].wd, new)
      BY <2>8 DEF InMove
    <3>2. k \in Nat \ {0} /\ l \in Nat
      BY DEF Whole, KernelOK
    <3>3. Ahead(l, i)
      BY <3>1, <3>2 DEF Ahead
    <3> QED BY <2>4, <3>1, <3>3 DEF Waits
  <2> QED BY <1>11, <2>6, <2>7, <2>8
<1> QED BY <1>13, <1>14

\* mkdir, open(O_CREAT)
LEMMA GainsSteady ==
  ASSUME KernelOK, OneWatch, NEW p, NEW kind, Gains(p, kind)
  PROVE  \E es : /\ Reported(es) /\ Steady /\ watches' = watches
                 /\ \A w \in DOMAIN watches, n \in Names :
                      p = Append(watches[w], n) => Told(es, w, n)
<1>1. PICK es : /\ Reported(es) /\ watches' = watches
                /\ \A w \in DOMAIN watches, n \in Names :
                     p = Append(watches[w], n) => Told(es, w, n)
  BY GainsReport
<1>2. next_wd' = next_wd
  BY DEF Gains, DiskGains
<1> QED BY <1>1, <1>2 DEF Steady

\* unlink, rmdir
LEMMA LosesSteady ==
  ASSUME KernelOK, OneWatch, NEW gone, NEW dropped, Loses(gone, dropped)
  PROVE  \E es : /\ Reported(es) /\ Steady
                 /\ \A w \in DOMAIN watches', n \in Names :
                      Append(watches[w], n) \in gone => Told(es, w, n)
<1>1. PICK es : /\ Reported(es)
                /\ \A w \in DOMAIN watches' : watches'[w] = watches[w]
                /\ \A w \in DOMAIN watches', n \in Names :
                     Append(watches[w], n) \in gone => Told(es, w, n)
  BY LosesReport
<1>2. next_wd' = next_wd /\ DOMAIN watches' \subseteq DOMAIN watches
  BY DEF Loses, DiskLoses, Restrict
<1> QED BY <1>1, <1>2 DEF Steady

\* A write, or nothing, and watches that are dropped.
LEMMA QuietSteady ==
  ASSUME KernelOK, OneWatch, UNCHANGED <<disk, next_wd>>,
         \/ UNCHANGED events
         \/ \E p \in Paths : events' = Queued(p, "modify"),
         \A w \in DOMAIN watches' : w \in DOMAIN watches /\ watches'[w] = watches[w]
  PROVE  \E es : Reported(es) /\ Steady
<1>1. PICK es : Reported(es)
  BY QuietReport
<1> QED BY <1>1 DEF Steady

\* A step that adds events, drops watches and changes no folder unseen.
LEMMA PlainMirrored ==
  ASSUME Whole, Whole', Mirrored, DbStep, NamesStep, WdStep, Steady,
         NEW es, Reported(es), NamesKept(es), unmirrored \subseteq unmirrored',
         overwritten \subseteq overwritten', SameIo, HeadKept \/ Heading', ListLevel',
         ino' = ino
  PROVE  Mirrored'
<1>1. Placed /\ Agreement /\ Renaming /\ Heading
  BY DEF Mirrored
<1>3. Placed' /\ EvenKept /\ EvenPaths
  BY <1>1, PlainPlaced DEF SameIo
<1>4. Agreement'
  BY <1>1, <1>3, AgreementKept
<1>5. Renaming' /\ Heading'
  BY <1>1, <1>3, RenamingKept, HeadingKept
<1> QED BY <1>3, <1>4, <1>5 DEF Mirrored

\* Such a step that leaves the entries alone.
LEMMA SameDbMirrored ==
  ASSUME Whole, Whole', Mirrored, UNCHANGED <<entries, next_handle, ino>>,
         io' = io \/ (SameIo /\ (HeadKept \/ Heading') /\ io'.op # "listing"), Steady,
         NEW es, Reported(es), unmirrored \subseteq unmirrored',
         overwritten \subseteq overwritten'
  PROVE  Mirrored'
<1>1. DbStep /\ NamesStep
  BY SameStep DEF Whole, Listed, Sane
<1>2. LiveEntries' = LiveEntries /\ \A h, s : DbNames(h, s)' = DbNames(h, s)
  BY SamePaths
<1>3. WdStep
  BY <1>2 DEF WdStep, LiveEntries
<1>4. NamesKept(es)
  BY <1>2 DEF NamesKept, NamesOf
<1>5. ListLevel'
  <2>1. CASE io' = io
    BY <2>1, ListLevelKept DEF Mirrored
  <2>2. CASE io'.op # "listing"
    BY <2>2 DEF ListLevel
  <2> QED BY <2>1, <2>2
<1>6. SameIo /\ (HeadKept \/ Heading')
  BY DEF SameIo, HeadKept, RenamedOnDisk
<1> QED BY <1>1, <1>3, <1>4, <1>5, <1>6, PlainMirrored

\* The requests that leave the entries alone, and stuttering.
LEMMA OtherMirrored ==
  ASSUME Whole, Whole', Mirrored,
         SendObject \/ (\E h : SendPartialObject(h)) \/ UNCHANGED vars
  PROVE  Mirrored'
<1>1. /\ UNCHANGED <<entries, next_handle, io, ino, unmirrored, overwritten>>
      /\ Sane /\ KernelOK /\ OneWatch
  BY DEF SendObject, SendPartialObject, vars, dbVars, Whole, Listed, Mirrored, Placed
<1>2. ASSUME UNCHANGED diskVars,
             UNCHANGED events \/ \E p \in Paths : events' = Queued(p, "modify")
      PROVE  Mirrored'
  <2>1. watches' = watches /\ UNCHANGED <<disk, next_wd>>
    BY <1>2 DEF diskVars
  <2>4. PICK es : Reported(es) /\ Steady
    BY <1>1, <1>2, <2>1, QuietSteady
  <2> QED BY <1>1, <2>4, SameDbMirrored
<1>3. CASE SendObject
  <2>1. PICK i, p : i = get_entry_by_handle(sendHandle) /\ p = build_full_path(i)
    OBVIOUS
  <2>2. /\ p # <<>>
        /\ \/ p \notin DOMAIN disk /\ DiskGains(p, "file")
           \/ events' = Queued(p, "modify") /\ UNCHANGED diskVars
    BY <1>3, <2>1 DEF SendObject
  <2>3. i \in DOMAIN entries
    BY <1>1, <2>1, <2>2, ResolvedIsEntry, LookupsFind DEF Sane, DbTypeOK, LiveEntries
  <2>4. p \in Paths /\ (p \notin DOMAIN disk => Len(p) > 1 /\ IsDir(Front(p)))
    BY <1>1, <2>1, <2>2, <2>3, ResolvedIs
  <2>5. CASE events' = Queued(p, "modify") /\ UNCHANGED diskVars
    BY <1>2, <2>4, <2>5
  <2>6. CASE p \notin DOMAIN disk /\ DiskGains(p, "file")
    <3>1. Gains(p, "file")
      BY <2>4, <2>6 DEF Gains
    <3>2. PICK es : Reported(es) /\ Steady
      BY <1>1, <3>1, GainsSteady
    <3> QED BY <1>1, <3>2, SameDbMirrored
  <2> QED BY <2>2, <2>5, <2>6
<1>4. CASE (\E h : SendPartialObject(h)) \/ UNCHANGED vars
  BY <1>2, <1>4 DEF SendPartialObject, vars
<1> QED BY <1>3, <1>4

\* The local users make, remove and write objects.
LEMMA LocalMirrored ==
  ASSUME Whole, Whole', Mirrored, LocalUser,
         ~\E p, r \in DOMAIN disk, n \in Names : LocalMove(p, Append(r, n))
  PROVE  Mirrored'
<1>1. /\ Sane /\ KernelOK /\ OneWatch
      /\ \A p \in DOMAIN disk : p \in Paths
  BY DEF Whole, Listed, Mirrored, Placed, KernelOK, DiskTree
<1>2. ASSUME Local, UNCHANGED unmirrored, Steady, NEW es, Reported(es)
      PROVE  Mirrored'
  BY <1>2, SameDbMirrored DEF Local, dbVars
<1>3. ASSUME NEW p \in DOMAIN disk, LocalRemove(p) PROVE Mirrored'
  <2>1. DiskLoses({p}, {}) /\ Listing(p) = {} /\ Local /\ UNCHANGED unmirrored
    BY <1>3 DEF LocalRemove
  <2>2. ASSUME NEW r \in DOMAIN disk, Len(r) > 1, Front(r) = p PROVE FALSE
    <3>1. Append(p, Last(r)) = r /\ Last(r) \in Names
      BY <1>1, <2>2, PathEnds
    <3> QED BY <2>1, <3>1 DEF Listing
  <2>3. PICK gone, none : gone = {p} /\ none = {}
    OBVIOUS
  <2>4. Loses(gone, none)
    BY <2>1, <2>2, <2>3 DEF Loses
  <2>5. PICK es : Reported(es) /\ Steady
    BY <1>1, <2>3, <2>4, LosesSteady
  <2> QED BY <1>2, <2>1, <2>5
<1>4. ASSUME NEW p \in DOMAIN disk, LocalWrite(p) PROVE Mirrored'
  <2>1. /\ p \in Paths /\ events' = Queued(p, "modify") /\ UNCHANGED diskVars
        /\ Local /\ UNCHANGED unmirrored
    BY <1>1, <1>4 DEF LocalWrite
  <2>2. watches' = watches /\ UNCHANGED <<disk, next_wd>>
    BY <2>1 DEF diskVars
  <2>5. PICK es : Reported(es) /\ Steady
    BY <1>1, <2>1, <2>2, QuietSteady
  <2> QED BY <1>2, <2>1, <2>5
<1>5. ASSUME NEW p \in DOMAIN disk, NEW n \in Names, NEW kind \in {"file", "dir"},
             IsDir(p), LocalCreate(Append(p, n), kind)
      PROVE  Mirrored'
  <2>1. PICK q : q = Append(p, n)
    OBVIOUS
  <2>2. q \in Paths /\ Len(q) > 1 /\ Front(q) = p
    BY <1>1, <2>1, PathGrows
  <2>3. q \notin DOMAIN disk /\ DiskGains(q, kind) /\ Local /\ UNCHANGED unmirrored
    BY <1>5, <2>1 DEF LocalCreate
  <2>4. Gains(q, kind)
    BY <1>5, <2>2, <2>3 DEF Gains
  <2>5. PICK es : Reported(es) /\ Steady
    BY <1>1, <2>4, GainsSteady
  <2> QED BY <1>2, <2>3, <2>5
<1> QED BY <1>3, <1>4, <1>5 DEF LocalUser

\* With the entries their names stay.
LEMMA SameDbKeeps ==
  ASSUME Whole, UNCHANGED <<entries, next_handle>>
  PROVE  DbStep /\ NamesStep /\ \A es : NamesKept(es)
<1>1. \A h, s : DbNames(h, s)' = DbNames(h, s)
  BY SamePaths
<1>2. \A es : NamesKept(es)
  BY <1>1 DEF NamesKept, NamesOf
<1> QED BY <1>2, SameStep DEF Whole, Listed, Sane

\* A local user moves an object: the folders that watch what moved count no more.
LEMMA LocalMoveMirrored ==
  ASSUME Whole, Whole', Mirrored, NEW p, NEW r \in DOMAIN disk, NEW n \in Names,
         LocalMove(p, Append(r, n))
  PROVE  Mirrored'
<1>1. PICK q : q = Append(r, n)
  OBVIOUS
<1>2. /\ Local /\ Len(p) > 1 /\ CanMove(p, q) /\ DiskMoves(p, q)
      /\ unmirrored' = unmirrored \cup WatchingUnder(p)
  BY <1>1 DEF LocalMove
<1>3. q \in Paths /\ Len(q) > 1
  <2>1. r \in Paths
    BY DEF Whole, KernelOK, DiskTree
  <2> QED BY <1>1, <2>1, PathGrows
<1>4. Moves(p, q)
  BY <1>2, <1>3 DEF Moves
<1>5. UNCHANGED <<entries, next_handle, io, ino, overwritten>>
  BY <1>2 DEF Local, dbVars
<1>6. Placed /\ Agreement /\ Renaming /\ Heading /\ OneWatch
  BY DEF Mirrored, Placed
<1>7. PICK es : MoveReported(es, p, q)
  BY <1>2, <1>4, <1>6, MovesReport DEF Whole
<1>8. ListLevel' /\ SameIo /\ HeadKept
  BY <1>5, <1>6, ListLevelKept DEF SameIo, HeadKept, RenamedOnDisk
<1>9. Placed' /\ EvenKept /\ EvenPaths
  BY <1>2, <1>3, <1>4, <1>5, <1>6, <1>7, <1>8, MovePlaced DEF RenamedOnDisk
<1>10. DbStep /\ NamesStep /\ NamesKept(es) /\ Reported(es)
  BY <1>5, <1>7, SameDbKeeps DEF MoveReported
<1>11. Agreement'
  BY <1>5, <1>6, <1>9, <1>10, AgreementKept
<1>12. Renaming' /\ Heading'
  BY <1>5, <1>6, <1>8, <1>9, <1>10, RenamingKept, HeadingKept
<1> QED BY <1>9, <1>11, <1>12 DEF Mirrored

\* A storage's own directory is a prefix of all its paths.
LEMMA NoPrefix ==
  ASSUME NEW p \in Seq(Places), NEW q \in Seq(Places), p # <<>>, q # <<>>, p[1] = q[1],
         ~IsPrefix(p, q)
  PROVE  Len(p) > 1
<1>1. Len(p) \in Nat /\ Len(q) \in Nat /\ Len(p) # 0 /\ Len(q) # 0
  BY EmptySeq
<1>2. PICK m, n \in Nat : m = Len(p) /\ n = Len(q) /\ m # 0 /\ n # 0
  BY <1>1
<1>3. m # 1
  <2>1. m = 1 => \A k \in 1..m : p[k] = q[k]
    OBVIOUS
  <2>2. m = 1 => m <= n
    BY <1>2
  <2> QED BY <1>2, <2>1, <2>2, PrefixIs
<1>4. m > 1
  BY <1>2, <1>3
<1> QED BY <1>2, <1>4

\* What a rename moves is no storage's own directory, nor put in its place.
LEMMA RenameMoves ==
  ASSUME Whole, io.op = "moving", NEW p, NEW q, p = io.path, q = io.to,
         CanMove(p, q), DiskMoves(p, q)
  PROVE  /\ Moves(p, q) /\ Len(p) > 1 /\ Len(q) > 1
         /\ Front(p) = Front(q) => Len(p) = Len(q)
<1>1. p \in Paths /\ q \in Paths /\ p[1] = q[1]
  BY DEF Whole, RequestPaths
<1>2. /\ p \in Seq(Places) /\ Len(p) \in Nat /\ Len(p) >= 1 /\ p # <<>>
      /\ q \in Seq(Places) /\ Len(q) \in Nat /\ Len(q) >= 1 /\ q # <<>>
  <2>1. \A x \in Paths : x \in Seq(Places) /\ Len(x) \in Nat /\ Len(x) >= 1
    BY DEF Paths
  <2>2. p # <<>> /\ q # <<>>
    BY <1>1, <2>1
  <2> QED BY <1>1, <2>1, <2>2
<1>3. Len(p) > 1
  <2>1. ~IsPrefix(p, q)
    BY DEF CanMove
  <2> QED BY <1>1, <1>2, <2>1, NoPrefix
<1>4. Len(Front(p)) = Len(p) - 1 /\ Len(Front(q)) = Len(q) - 1
  BY <1>2, FrontIs
<1>5. Len(q) > 1
  <2>1. Front(q) \in Paths
    BY DEF CanMove, IsDir, Whole, KernelOK, DiskTree
  <2>2. Len(Front(q)) >= 1
    BY <2>1 DEF Paths
  <2> QED BY <1>2, <1>4, <2>2
<1> QED BY <1>1, <1>2, <1>3, <1>4, <1>5 DEF Moves

\* rename(2) of the host: the folder is told of both names.
LEMMA RenameOnDiskMirrored ==
  ASSUME Whole, Whole', Mirrored, RenameOnDisk
  PROVE  Mirrored'
<1>1. /\ UNCHANGED <<entries, next_handle, ino, overwritten>>
      /\ io.op = "moving" /\ io.op \in RenameOps /\ ~RenamedOnDisk
  BY DEF RenameOnDisk, dbVars, RenamedOnDisk, RenameOps
<1>2. PICK c, old, new, p, q :
        c = io.idx /\ old = entries[c].name /\ new = io.name /\ p = io.path /\ q = io.to
  OBVIOUS
<1>3. /\ Placed /\ Agreement /\ Renaming /\ Heading /\ OneWatch /\ KernelOK
      /\ c \in DOMAIN entries /\ new \in Names
  BY <1>1, <1>2, EntriesAreEntries DEF Mirrored, Placed, Whole, Listed, Sane, DbTypeOK
<1>4. CASE io' = IoIdle /\ UNCHANGED <<diskVars, events, unmirrored>>
  <2>1. UNCHANGED <<disk, next_wd, watches>>
    BY <1>4 DEF diskVars
  <2>2. PICK es : Reported(es) /\ Steady
    BY <1>3, <1>4, <2>1, QuietSteady
  <2>3. SameIo /\ HeadKept /\ io'.op # "listing"
    BY <1>1, <1>4 DEF SameIo, HeadKept, IoIdle, RenamedOnDisk, RenameOps
  <2> QED BY <1>1, <1>4, <2>2, <2>3, SameDbMirrored
<1>5. ASSUME old \in Names, io'.op = "renaming", io'.idx = c, io'.name = new,
             NEW es, Reported(es), p # q => MoveReported(es, p, q),
             Placed', EvenKept, EvenPaths
      PROVE  Mirrored'
  <2>1. DbStep /\ NamesStep /\ NamesKept(es) /\ LiveEntries' = LiveEntries
    BY <1>1, SameDbKeeps, SamePaths
  <2>2. Agreement'
    BY <1>1, <1>3, <1>5, <2>1, AgreementKept
  <2>3. Heading'
    <3>1. HeadKept
      BY <1>1, <1>2, <1>5 DEF HeadKept
    <3> QED BY <1>3, <1>5, <2>1, <3>1, HeadingKept
  <2>4. ASSUME NEW i \in DOMAIN entries', Even(i)', c \in KidsOf(i)', new # old
        PROVE  InMove(i, old, new)'
    <3>1. i \in DOMAIN entries /\ Even(i) /\ entries'[i].wd = entries[i].wd
      BY <1>5, <2>4 DEF EvenKept
    <3>2. i \in LiveEntries /\ Follows(i) /\ PathOf(i) = WatchOf(i)
      <4>1. Follows(i) /\ Len(PathOf(i)) = Len(WatchOf(i))
        BY <3>1 DEF Even
      <4> QED BY <1>1, <1>3, <3>1, <4>1 DEF Placed, Level, Follows, Watching
    <3>3. c \in KidsOf(i)
      BY <1>1, <2>1, <2>4 DEF KidsOf, ChildrenInDb
    <3>4. PICK f \in Paths : f = PathOf(i)
      BY <3>1, PathOfTyped DEF Whole, Listed
    <3>5. p = Append(f, old) /\ q = Append(f, new)
      BY <1>1, <1>2, <1>3, <1>5, <3>1, <3>3, <3>4 DEF Heading
    <3>6. p # q
      <4>1. f \in Seq(Places) /\ old \in Places /\ new \in Places
        BY <1>3, <1>5 DEF Paths, Places
      <4>2. Last(p) = old /\ Last(q) = new
        BY <3>5, <4>1, OneMore
      <4> QED BY <2>4, <4>2
    <3>7. PICK w : w = entries[i].wd /\ w \in DOMAIN watches /\ watches[w] = f
      BY <3>2, <3>4 DEF Follows, Watching, WatchOf
    <3>8. /\ DOMAIN es = {1, 2}
          /\ Tells(es[1], w, old) /\ es[1].mask = "delete" /\ Tells(es[2], w, new)
      BY <1>3, <1>5, <3>5, <3>6, <3>7 DEF MoveReported
    <3>9. PICK a \in Nat : a = Len(events)
      BY DEF Whole, KernelOK
    <3>10. PICK k, l : k = a + 1 /\ l = a + 2
      OBVIOUS
    <3>11. k \in DOMAIN events' /\ events'[k] = es[1] /\ Ahead(k, i)'
           /\ l \in DOMAIN events' /\ events'[l] = es[2]
      BY <1>1, <1>5, <3>8, <3>9, <3>10, StillAhead
    <3>12. k < l /\ entries'[i].wd = w
      BY <3>1, <3>7, <3>10
    <3> QED BY <3>8, <3>11, <3>12 DEF InMove, Tells
  <2>5. Renaming'
    <3>1. c = io'.idx /\ new = io'.name /\ entries'[c].name = old
      BY <1>1, <1>2, <1>5
    <3>2. \A i : InMove(i, old, new)' <=> InMove(i, entries[io.idx].name, io.name)'
      BY <3>1 DEF InMove, Tells
    <3> QED BY <1>5, <2>4, <3>1, <3>2 DEF Renaming
  <2> QED BY <1>5, <2>2, <2>3, <2>5 DEF Mirrored
<1>6. ASSUME entries[io.idx].name \in Names,
             io' = [IoIdle EXCEPT !.op = "renaming", !.idx = io.idx, !.name = io.name],
             unmirrored' = IF Front(p) = Front(q) THEN unmirrored
                           ELSE unmirrored \cup WatchingUnder(p),
             \/ p = q /\ UNCHANGED <<diskVars, events>>
             \/ CanMove(p, q) /\ DiskMoves(p, q)
      PROVE  Mirrored'
  <2>1. /\ old \in Names /\ io'.op = "renaming" /\ io'.idx = c /\ io'.name = new
        /\ RenamedOnDisk' /\ ListLevel'
    BY <1>2, <1>6 DEF IoIdle, RenamedOnDisk, ListLevel
  <2>2. CASE p = q /\ UNCHANGED <<diskVars, events>>
    <3>1. UNCHANGED <<disk, next_wd, watches, unmirrored>>
      BY <1>6, <2>2 DEF diskVars
    <3>2. PICK es : Reported(es) /\ Steady
      BY <1>3, <2>2, <3>1, QuietSteady
    <3>3. DbStep /\ NamesStep /\ WdStep
      BY <1>1, SameDbKeeps, SamePaths DEF WdStep, LiveEntries
    <3>4. Placed' /\ EvenKept /\ EvenPaths
      BY <1>3, <2>1, <3>1, <3>2, <3>3, PlainPlaced
    <3> QED BY <1>5, <2>1, <2>2, <3>2, <3>4
  <2>3. CASE CanMove(p, q) /\ DiskMoves(p, q)
    <3>1. /\ Moves(p, q) /\ Len(p) > 1 /\ Len(q) > 1
          /\ Front(p) = Front(q) => Len(p) = Len(q)
      BY <1>1, <1>2, <2>3, RenameMoves
    <3>2. PICK es : MoveReported(es, p, q)
      BY <1>3, <3>1, MovesReport
    <3>3. Placed' /\ EvenKept /\ EvenPaths
      BY <1>1, <1>3, <1>6, <2>1, <3>1, <3>2, MovePlaced
    <3> QED BY <1>5, <2>1, <3>2, <3>3 DEF MoveReported
  <2> QED BY <1>6, <2>2, <2>3
<1> QED BY <1>2, <1>4, <1>6 DEF RenameOnDisk

\* A request that is between two of its steps goes on, or ends.
LEMMA RequestMirrored ==
  ASSUME Whole, Whole', Mirrored, Renamer \/ SendResponse
  PROVE  Mirrored'
<1>1. UNCHANGED <<entries, next_handle, disk, watches, next_wd, events, ino, unmirrored,
                  overwritten>>
  BY RenamerKeeps DEF SendResponse, dbVars, diskVars
<1>2. /\ Placed /\ Renaming /\ Heading /\ OneWatch /\ KernelOK /\ Sane /\ NamesKnown
      /\ \A i \in DOMAIN entries : PathOf(i) \in Paths
  BY PathOfTyped DEF Mirrored, Placed, Whole, Listed
<1>3. PICK es : Reported(es) /\ Steady
  BY <1>1, <1>2, QuietSteady
<1>4. SUFFICES SameIo /\ (HeadKept \/ Heading') /\ io'.op # "listing"
  BY <1>1, <1>3, SameDbMirrored
<1>5. CASE SendResponse
  BY <1>5 DEF SendResponse, SameIo, HeadKept, IoIdle, RenamedOnDisk, RenameOps
<1>6. CASE RenameRemove \/ RenameName
  <2>1. DOMAIN io = DOMAIN IoIdle
    BY <1>2 DEF Sane, DbTypeOK
  <2> QED BY <1>6, <2>1 DEF RenameRemove, RenameName, RenameStep, IoIdle, SameIo, HeadKept,
                            RenamedOnDisk, RenameOps
<1>7. ASSUME NEW h \in 1..next_handle - 1, NEW n \in Names, RenameStart(h, n)
      PROVE  SameIo /\ Heading' /\ io'.op # "listing"
  <2>1. /\ io.op = "idle" /\ io'.op = "naming" /\ io'.name = n
        /\ io'.idx \in LiveEntries /\ entries[io'.idx].handle = h
        /\ io'.path = PathOf(io'.idx)
    BY <1>2, <1>7, RenameStarts
  <2>2. PICK c : c = io'.idx /\ c \in LiveEntries /\ entries[c].handle # 0 /\ io'.path = PathOf(c)
    BY <2>1 DEF Whole, Listed, Sane, DbTypeOK
  <2>3. ASSUME NEW i \in DOMAIN entries, Even(i)', c \in KidsOf(i)', entries[c].name \in Names
        PROVE  io'.path = Append(PathOf(i), entries[c].name)
    <3>1. i \in LiveEntries /\ c \in KidsOf(i)
      BY <1>1, <2>3 DEF Even, Follows, Watching, KidsOf, ChildrenInDb, LiveEntries, Live
    <3>2. /\ entries[c].parent = entries[i].handle /\ entries[c].storage = entries[i].storage
          /\ c \in DOMAIN entries
      BY <3>1 DEF KidsOf, ChildrenInDb, LiveEntries
    <3> QED BY <1>2, <2>2, <2>3, <3>1, <3>2, FolderPath
  <2>4. \A i : PathOf(i)' = PathOf(i)
    BY <1>1, SamePaths
  <2>5. Heading'
    <3>1. \A i : c \in KidsOf(i)' <=> io'.idx \in KidsOf(i)'
      BY <2>2 DEF KidsOf, ChildrenInDb
    <3> QED BY <1>1, <2>1, <2>2, <2>3, <2>4, <3>1 DEF Heading
  <2> QED BY <2>1, <2>5 DEF SameIo, RenamedOnDisk
<1>8. CASE RenamePath
  <2>1. /\ io.op = "naming" /\ io.idx \in DOMAIN entries /\ io.name \in Names
        /\ \/ io' = IoIdle
           \/ /\ io'.op = "moving" /\ io'.idx = io.idx /\ io'.name = io.name
              /\ io'.path = io.path /\ io'.to = PathRenamed(io.idx, io.name) /\ io'.to # <<>>
    BY <1>2, <1>8, RenamePaths
  <2>2. CASE io' = IoIdle
    BY <2>1, <2>2 DEF IoIdle, SameIo, HeadKept, RenamedOnDisk, RenameOps
  <2>3. CASE io'.op = "moving"
    <3>1. PICK c, n : c = io.idx /\ n = io.name /\ c = io'.idx /\ n = io'.name /\ n \in Names
                      /\ c \in DOMAIN entries /\ io'.path = io.path
                      /\ io'.to = PathRenamed(c, n) /\ io'.to # <<>>
      BY <2>1, <2>3 DEF IoIdle
    <3>2. ASSUME NEW i \in DOMAIN entries, Even(i)', c \in KidsOf(i)', entries[c].name \in Names
          PROVE  /\ io'.path = Append(PathOf(i), entries[c].name)
                 /\ io'.to = Append(PathOf(i), n)
      <4>1. i \in LiveEntries /\ c \in KidsOf(i) /\ Even(i)
        BY <1>1, <3>2, SamePaths DEF Even, Follows, Watching, WatchOf, KidsOf, ChildrenInDb, LiveEntries, Live
      <4>2. entries[c].parent = entries[i].handle /\ entries[c].storage = entries[i].storage
        BY <4>1 DEF KidsOf, ChildrenInDb
      <4>3. PathOf(c) = Append(PathOf(i), entries[c].name)
        BY <1>2, <3>1, <3>2, <4>1, <4>2, FolderPath
      <4>4. Front(PathOf(c)) = PathOf(i)
        BY <1>2, <3>2, <4>3, PathGrows
      <4>5. io'.to = Append(PathOf(i), n)
        BY <3>1, <3>2, <4>4 DEF PathRenamed, Resolved
      <4> QED BY <1>2, <2>1, <3>1, <3>2, <4>1, <4>5 DEF Heading
    <3>3. \A i : PathOf(i)' = PathOf(i)
      BY <1>1, SamePaths
    <3>4. Heading'
      <4>1. \A i : c \in KidsOf(i)' <=> io'.idx \in KidsOf(i)'
        BY <3>1 DEF KidsOf, ChildrenInDb
      <4>2. entries[c].handle # 0
        BY <1>2, <2>1, <3>1 DEF Heading, RenameOps
      <4> QED BY <1>1, <2>3, <3>1, <3>2, <3>3, <4>1, <4>2 DEF Heading
    <3> QED BY <2>1, <2>3, <3>4 DEF SameIo, RenamedOnDisk
  <2> QED BY <2>1, <2>2, <2>3
<1> QED BY <1>5, <1>6, <1>7, <1>8 DEF Renamer

\* What a step that renames nothing makes of a name in a folder: it stays when
\* the step neither deletes an entry of that name there nor adds one.
LEMMA NameKept ==
  ASSUME DbTypeOK, DbTypeOK', DbStep, NamesStep, NEW h, NEW s, NEW n \in Names,
         \A c \in ChildrenInDb(h, s) : entries[c].name = n => ~entries'[c].deleted,
         \A c \in Len(entries) + 1..Len(entries') :
           ~(entries'[c].name = n /\ entries'[c].parent = h /\ entries'[c].storage = s)
  PROVE  n \in DbNames(h, s)' <=> n \in DbNames(h, s)
<1>1. /\ DOMAIN entries = 1..Len(entries) /\ DOMAIN entries' = 1..Len(entries')
      /\ Len(entries) \in Nat /\ Len(entries') \in Nat /\ Len(entries) <= Len(entries')
  BY DEF DbTypeOK, DbStep
<1>2. ASSUME n \in DbNames(h, s) PROVE n \in DbNames(h, s)'
  <2>1. PICK c \in ChildrenInDb(h, s) : entries[c].name = n /\ n # NoName
    BY <1>2 DEF DbNames
  <2>2. c \in DOMAIN entries /\ ~entries'[c].deleted /\ Kept(c) /\ entries'[c].name = n
    BY <2>1 DEF ChildrenInDb, LiveEntries, DbStep, NamesStep
  <2>3. c \in ChildrenInDb(h, s)'
    BY <1>1, <2>1, <2>2 DEF ChildrenInDb, LiveEntries, Live, Kept
  <2> QED BY <2>1, <2>2, <2>3 DEF DbNames
<1>3. ASSUME n \in DbNames(h, s)' PROVE n \in DbNames(h, s)
  <2>1. PICK c \in ChildrenInDb(h, s)' : entries'[c].name = n /\ n # NoName
    BY <1>3 DEF DbNames
  <2>2. /\ c \in DOMAIN entries' /\ ~entries'[c].deleted /\ entries'[c].parent = h
        /\ entries'[c].storage = s /\ entries'[c].handle # entries'[c].parent
    BY <2>1 DEF ChildrenInDb, LiveEntries, Live
  <2>3. c \in DOMAIN entries
    BY <1>1, <2>1, <2>2
  <2>4. Kept(c) /\ entries[c].name = n
    BY <2>1, <2>3 DEF DbStep, NamesStep
  <2>5. c \in ChildrenInDb(h, s)
    BY <2>2, <2>3, <2>4 DEF ChildrenInDb, LiveEntries, Live, Kept
  <2> QED BY <2>1, <2>4, <2>5 DEF DbNames
<1> QED BY <1>2, <1>3

\* What Deleting makes of an entry.
LEMMA DeletedEntries ==
  ASSUME DbTypeOK, NEW S, NEW U, U \subseteq S, entries' = Deleting(S, U)
  PROVE  /\ DOMAIN entries' = DOMAIN entries
         /\ \A i \in DOMAIN entries :
              /\ entries'[i].deleted <=> entries[i].deleted \/ i \in S
              /\ i \notin U => entries'[i].wd = entries[i].wd
         /\ LiveEntries' = LiveEntries \ S /\ WdStep
<1>1. DOMAIN entries' = DOMAIN entries
  BY DEF Deleting
<1>2. ASSUME NEW i \in DOMAIN entries
      PROVE  /\ entries'[i].deleted <=> entries[i].deleted \/ i \in S
             /\ i \notin U => entries'[i].wd = entries[i].wd
  <2>1. entries'[i] = [entries[i] EXCEPT !.deleted = entries[i].deleted \/ i \in S,
                                         !.wd = IF i \in U THEN NONE ELSE entries[i].wd]
    BY DEF Deleting
  <2>2. entries[i] \in Entry
    BY EntriesAreEntries
  <2> QED BY <2>1, <2>2 DEF Entry
<1>3. LiveEntries' = LiveEntries \ S
  BY <1>1, <1>2 DEF LiveEntries, Live
<1>4. WdStep
  <2>1. \A i \in LiveEntries' : i \in DOMAIN entries /\ i \notin U
    BY <1>1, <1>3 DEF LiveEntries
  <2> QED BY <1>2, <2>1 DEF WdStep
<1> QED BY <1>1, <1>2, <1>3, <1>4

\* Unmount and lock: the storage goes with its entries and their watches.
LEMMA UmountMirrored ==
  ASSUME Whole, Whole', Mirrored, NEW s, umount_store(s),
         UNCHANGED <<next_handle, disk, next_wd, events, ino, io, unmirrored, overwritten>>,
         io.op # "listing"
  PROVE  Mirrored'
<1>1. PICK all : all = {i \in LiveEntries : entries[i].storage = s}
  OBVIOUS
<1>2. /\ entries' = Deleting(all, all)
      /\ watches' = Restrict(watches, DOMAIN watches \ WdsOf(all))
  BY <1>1 DEF umount_store
<1>3. /\ DbTypeOK /\ DbTypeOK' /\ Sane /\ KernelOK /\ OneWatch /\ TopWatch
      /\ Placed
  BY DEF Whole, Listed, Sane, Mirrored, Placed
<1>4. DbStep /\ NamesStep /\ Len(entries') = Len(entries)
  BY <1>2, <1>3, DeletingStep
<1>5. /\ DOMAIN entries' = DOMAIN entries
      /\ \A i \in DOMAIN entries : entries'[i].deleted <=> entries[i].deleted \/ i \in all
      /\ LiveEntries' = LiveEntries \ all /\ WdStep
  BY <1>2, <1>3, DeletedEntries
<1>6. /\ DOMAIN watches' = DOMAIN watches \ WdsOf(all)
      /\ \A w \in DOMAIN watches' : w \in DOMAIN watches /\ watches'[w] = watches[w]
  BY <1>2 DEF Restrict
<1>7. PICK es : Reported(es)
  BY <1>3, <1>6, QuietReport
<1>8. Steady
  BY <1>6 DEF Steady
<1>10. NamesKept(es)
  <2>1. SUFFICES ASSUME NEW i \in DOMAIN entries, NEW n \in Names, Even(i)'
                 PROVE  n \in NamesOf(i)' <=> n \in NamesOf(i)
    BY DEF NamesKept
  <2>2. i \in LiveEntries /\ i \notin all
    BY <1>5, <2>1 DEF Even, Follows, Watching
  <2>3. PICK h, st : h = entries[i].handle /\ st = entries[i].storage /\ st # s
    BY <1>1, <2>2
  <2>4. entries'[i].handle = h /\ entries'[i].storage = st
    BY <1>4, <2>3 DEF DbStep, Kept
  <2>5. \A c \in ChildrenInDb(h, st) : ~entries'[c].deleted
    BY <1>1, <1>5, <2>3 DEF ChildrenInDb, LiveEntries, Live
  <2>6. \A c \in Len(entries) + 1..Len(entries') : FALSE
    BY <1>3, <1>4 DEF DbTypeOK
  <2>7. n \in DbNames(h, st)' <=> n \in DbNames(h, st)
    BY <1>3, <1>4, <2>5, <2>6, NameKept
  <2> QED BY <2>3, <2>4, <2>7 DEF NamesOf
<1>11. ListLevel' /\ SameIo /\ HeadKept
  BY DEF ListLevel, SameIo, RenamedOnDisk, HeadKept
<1> QED BY <1>4, <1>5, <1>7, <1>8, <1>10, <1>11, PlainMirrored

\* Mount and unlock: a root entry without a watch, or nothing.
LEMMA MountMirrored ==
  ASSUME Whole, Whole', Mirrored, NEW s \in Storages, mount_store(s),
         UNCHANGED <<next_handle, disk, next_wd, events, ino, io, unmirrored, overwritten>>,
         io.op # "listing"
  PROVE  Mirrored'
<1>1. DbTypeOK /\ DbTypeOK' /\ KernelOK /\ OneWatch /\ watches' = watches
  BY DEF Whole, Listed, Sane, Mirrored, Placed, mount_store
<1>2. PICK es : Reported(es) /\ Steady
  BY <1>1, QuietSteady
<1>3. CASE entries' = entries
  BY <1>2, <1>3, SameDbMirrored
<1>4. CASE entries' = Append(entries, alloc_root_entry(s))
  <2>1. DbStep /\ NamesStep /\ Len(entries') = Len(entries) + 1
    BY <1>1, <1>4, RootStep
  <2>2. PICK z \in Nat : z = Len(entries)
    BY <1>1 DEF DbTypeOK
  <2>3. /\ DOMAIN entries = 1..z /\ DOMAIN entries' = 1..z + 1
        /\ \A i \in 1..z : entries'[i] = entries[i]
        /\ entries'[z + 1] = alloc_root_entry(s)
    BY <1>1, <1>4, <2>2 DEF DbTypeOK
  <2>4. entries'[z + 1].wd = NONE /\ entries'[z + 1].name = Root
    BY <2>3 DEF alloc_root_entry
  <2>5. WdStep
    BY <2>2, <2>3, <2>4 DEF WdStep, LiveEntries
  <2>7. NamesKept(es)
    <3>1. SUFFICES ASSUME NEW i \in DOMAIN entries, NEW n \in Names
                   PROVE  n \in NamesOf(i)' <=> n \in NamesOf(i)
      BY DEF NamesKept
    <3>2. PICK h, st : h = entries[i].handle /\ st = entries[i].storage
      OBVIOUS
    <3>3. entries'[i].handle = h /\ entries'[i].storage = st
      BY <2>1, <3>2 DEF DbStep, Kept
    <3>4. \A c \in ChildrenInDb(h, st) : ~entries'[c].deleted
      BY <2>3 DEF ChildrenInDb, LiveEntries, Live
    <3>5. \A c \in Len(entries) + 1..Len(entries') : entries'[c].name # n
      BY <2>1, <2>2, <2>4, <3>1, ConstantsAssumption
    <3>6. n \in DbNames(h, st)' <=> n \in DbNames(h, st)
      BY <1>1, <2>1, <3>4, <3>5, NameKept
    <3> QED BY <3>2, <3>3, <3>6 DEF NamesOf
  <2>8. ListLevel' /\ SameIo /\ HeadKept
    BY DEF ListLevel, SameIo, RenamedOnDisk, HeadKept
  <2> QED BY <1>2, <2>1, <2>5, <2>7, <2>8, PlainMirrored
<1> QED BY <1>3, <1>4 DEF mount_store

\* The message queue.
LEMMA MsgQueueMirrored ==
  ASSUME Whole, Whole', Mirrored, MsgQueue
  PROVE  Mirrored'
<1>1. ASSUME UNCHANGED <<entries, watches, next_handle, disk, next_wd, events, ino, io,
                         unmirrored, overwritten>>
      PROVE  Mirrored'
  <2>1. KernelOK /\ OneWatch
    BY DEF Whole, Mirrored, Placed
  <2>2. PICK es : Reported(es) /\ Steady
    BY <1>1, <2>1, QuietSteady
  <2> QED BY <1>1, <2>2, SameDbMirrored
<1>2. ASSUME NEW s \in Storages, Mount(s) \/ Unmount(s) PROVE Mirrored'
  <2>1. /\ UNCHANGED <<next_handle, disk, next_wd, events, ino, io, unmirrored, overwritten>>
        /\ io.op # "listing"
    BY <1>2 DEF Mount, Unmount, Command, MutexFree
  <2> QED BY <1>2, <2>1, MountMirrored, UmountMirrored DEF Mount, Unmount
<1>3. ASSUME NEW cmd, LockCommand(cmd) PROVE Mirrored'
  BY <1>1, <1>3 DEF LockCommand, dbVars, diskVars
<1>4. CASE LockStep
  <2>1. PICK s : s = Min(mq.todo)
    OBVIOUS
  <2>2. /\ UNCHANGED <<next_handle, disk, next_wd, events, ino, io, unmirrored, overwritten>>
        /\ io.op # "listing"
    BY <1>4 DEF LockStep, Command, MutexFree
  <2>3. \/ mq.cmd = "lock" /\ Min(mq.todo) \in Lockable \ locked /\ umount_store(Min(mq.todo))
        \/ mq.cmd = "unlock" /\ Min(mq.todo) \in Lockable \cap locked /\ mount_store(Min(mq.todo))
        \/ UNCHANGED <<entries, watches>>
    BY <1>4 DEF LockStep
  <2>4. Lockable \subseteq Storages
    BY ConstantsAssumption
  <2> QED BY <1>1, <2>2, <2>3, <2>4, MountMirrored, UmountMirrored
<1> QED BY <1>2, <1>3, <1>4 DEF MsgQueue

\* Only the names n of folder h of storage s may differ.
OthersKept(h, s, n) ==
  \A g, t, m : m \in Names /\ <<g, t, m>> # <<h, s, n>> =>
    (m \in DbNames(g, t)' <=> m \in DbNames(g, t))

\* The database with a new entry of the name n in the folder h.
LEMMA AddedName ==
  ASSUME DbTypeOK, DbTypeOK', DbStep, NamesStep, NEW h \in Nat, NEW s,
         NEW n \in Names \cup {NoName}, NEW d, h # next_handle,
         entries' = Append(entries, alloc_entry(1, h, s, n, d))
  PROVE  /\ WdStep /\ OthersKept(h, s, n) /\ (n # NoName => n \in DbNames(h, s)')
         /\ \A k \in DOMAIN entries : k \in DOMAIN entries' /\ entries'[k] = entries[k]
<1>1. PICK z \in Nat : z = Len(entries)
  BY DEF DbTypeOK
<1>2. PICK e : e = alloc_entry(1, h, s, n, d)
  OBVIOUS
<1>3. /\ DOMAIN entries = 1..z /\ DOMAIN entries' = 1..z + 1 /\ Len(entries') = z + 1
      /\ \A k \in 1..z : entries'[k] = entries[k]
      /\ entries'[z + 1] = e
  BY <1>1, <1>2 DEF DbTypeOK
<1>4. /\ e.wd = NONE /\ e.name = n /\ e.parent = h /\ e.storage = s /\ e.handle = next_handle
      /\ e.deleted = FALSE
  BY <1>2 DEF alloc_entry, DbTypeOK
<1>5. WdStep
  BY <1>1, <1>3, <1>4 DEF WdStep, LiveEntries
<1>6. OthersKept(h, s, n)
  <2>1. SUFFICES ASSUME NEW g, NEW t, NEW m \in Names, <<g, t, m>> # <<h, s, n>>
                 PROVE  m \in DbNames(g, t)' <=> m \in DbNames(g, t)
    BY DEF OthersKept
  <2>2. \A c \in ChildrenInDb(g, t) : ~entries'[c].deleted
    BY <1>3 DEF ChildrenInDb, LiveEntries, Live
  <2>3. \A c \in Len(entries) + 1..Len(entries') :
          ~(entries'[c].name = m /\ entries'[c].parent = g /\ entries'[c].storage = t)
    BY <1>1, <1>3, <1>4, <2>1
  <2> QED BY <2>2, <2>3, NameKept
<1>7. ASSUME n # NoName PROVE n \in DbNames(h, s)'
  <2>1. z + 1 \in DOMAIN entries'
    BY <1>1, <1>3
  <2>2. z + 1 \in ChildrenInDb(h, s)'
    BY <1>3, <1>4, <2>1 DEF ChildrenInDb, LiveEntries, Live
  <2> QED BY <1>3, <1>4, <1>7, <2>2 DEF DbNames
<1>8. \A k \in DOMAIN entries : k \in DOMAIN entries' /\ entries'[k] = entries[k]
  BY <1>1, <1>3
<1> QED BY <1>5, <1>6, <1>7, <1>8

\* The handle of a folder is not the next one.
LEMMA HandleGiven ==
  ASSUME Whole, NEW h, NEW j \in DOMAIN entries, entries[j].handle = h
  PROVE  h # next_handle /\ h \in Nat
<1>1. entries[j].handle < next_handle /\ next_handle \in Nat
  BY DEF Whole, Listed, Sane, HandlesUnique, DbTypeOK
<1>2. entries[j].handle \in Nat
  BY EntriesAreEntries DEF Whole, Listed, Sane, Entry, Handles
<1> QED BY <1>1, <1>2

\* The entry that SendObjectInfo looks up.
LEMMA FolderFound ==
  ASSUME DbTypeOK, NEW h, NEW s, NEW i, i = get_entry_by_handle_and_storageid(h, s), i # 0
  PROVE  i \in LiveEntries /\ entries[i].storage = s /\ entries[i].handle = h
<1>1. PICK S : S = {k \in LiveEntries : entries[k].handle = h /\ entries[k].storage = s}
  OBVIOUS
<1>2. i = FirstInList(S)
  BY <1>1 DEF get_entry_by_handle_and_storageid
<1>3. S \subseteq 1..Len(entries) /\ Len(entries) \in Nat
  BY <1>1 DEF LiveEntries, DbTypeOK
<1>4. i \in S
  BY <1>2, <1>3, FirstInListFinds
<1> QED BY <1>1, <1>4

\* A folder that follows the directory at its path hears of what is made there.
LEMMA EvenWatch ==
  ASSUME Placed, ~RenamedOnDisk, NEW j \in DOMAIN entries, Even(j)
  PROVE  j \in LiveEntries /\ entries[j].wd \in DOMAIN watches
         /\ WatchOf(j) = PathOf(j) /\ watches[entries[j].wd] = PathOf(j)
<1>1. Follows(j) /\ Len(PathOf(j)) = Len(WatchOf(j))
  BY DEF Even
<1> QED BY <1>1 DEF Placed, Level, Follows, Watching, WatchOf

\* The host sends an object: the database has it before the event comes.
LEMMA SendObjectInfoMirrored ==
  ASSUME Whole, Whole', Mirrored, NEW s \in Storages, NEW h \in Nat, NEW n \in Names,
         NEW kind, \E j \in DOMAIN entries : entries[j].handle = h /\ entries[j].storage = s,
         SendObjectInfo(s, h, n, kind)
  PROVE  Mirrored'
<1>1. PICK i, folder : /\ i = get_entry_by_handle_and_storageid(h, s)
                       /\ folder = build_full_path(i)
  OBVIOUS
<1>2. PICK p : p = Append(folder, n)
  OBVIOUS
<1>3. /\ i # 0 /\ io.op = "idle" /\ UNCHANGED <<ino, unmirrored, overwritten>>
      /\ io' = io \/ io'.op = "answering"
      /\ \/ /\ IsDir(folder) /\ p \notin DOMAIN disk
            /\ \E k \in {"file", "dir"} : DiskGains(p, k)
            /\ \E d \in BOOLEAN : add_entry(h, s, n, d)
         \/ /\ IsDir(folder) /\ p \in DOMAIN disk
            /\ events' = Queued(p, "modify") /\ UNCHANGED diskVars
            /\ \E d \in BOOLEAN : add_entry(h, s, n, d)
         \/ UNCHANGED <<entries, next_handle, diskVars, events>>
  BY <1>1, <1>2 DEF SendObjectInfo, IsFolder, IoReady, add_entry, IoIdle
<1>4. /\ Sane /\ Sane' /\ DbTypeOK /\ DbTypeOK' /\ KernelOK /\ OneWatch /\ Placed /\ NamesKnown
      /\ \A r \in DOMAIN disk : r \in Paths
  BY DEF Whole, Listed, Sane, Mirrored, Placed, KernelOK, DiskTree
<1>5. i \in LiveEntries /\ entries[i].storage = s /\ entries[i].handle = h /\ i \in DOMAIN entries
  BY <1>1, <1>3, <1>4, FolderFound DEF LiveEntries
<1>6. SameIo /\ HeadKept /\ ListLevel' /\ ~RenamedOnDisk /\ io'.op # "listing"
  BY <1>3 DEF SameIo, HeadKept, ListLevel, RenamedOnDisk, RenameOps
<1>7. CASE UNCHANGED <<entries, next_handle, diskVars, events>>
  <2>1. UNCHANGED <<disk, watches, next_wd>>
    BY <1>7 DEF diskVars
  <2>2. PICK es : Reported(es) /\ Steady
    BY <1>4, <1>7, <2>1, QuietSteady
  <2> QED BY <1>3, <1>6, <1>7, <2>2, SameDbMirrored
<1>8. ASSUME IsDir(folder), NEW d \in BOOLEAN, add_entry(h, s, n, d),
             NEW es, Reported(es), Steady,
             \/ \A w \in DOMAIN watches : p = Append(watches[w], n) => Told(es, w, n)
             \/ p \in DOMAIN disk /\ UNCHANGED <<disk, watches>>
      PROVE  Mirrored'
  <2>1. folder \in Paths /\ folder = PathOf(i)
    <3>1. folder \in Paths /\ folder # <<>>
      BY <1>4, <1>8 DEF IsDir, Paths
    <3> QED BY <1>1, <1>4, <1>5, <3>1, ResolvedIs
  <2>2. CASE UNCHANGED <<entries, next_handle>>
    BY <1>3, <1>6, <1>8, <2>2, SameDbMirrored
  <2>3. CASE entries' = Append(entries, alloc_entry(1, h, s, n, d)) /\ next_handle' = next_handle + 1
    <3>1. DbStep /\ NamesStep
      BY <1>4, <1>8, AddEntryStep
    <3>2. h # next_handle
      BY <1>5, HandleGiven
    <3>3. /\ WdStep /\ OthersKept(h, s, n) /\ n \in DbNames(h, s)'
          /\ \A k \in DOMAIN entries : k \in DOMAIN entries' /\ entries'[k] = entries[k]
      <4>1. n # NoName
        BY ConstantsAssumption
      <4> QED BY <1>4, <2>3, <3>1, <3>2, <4>1, AddedName
    <3>5. ASSUME NEW j \in DOMAIN entries, NEW m \in Names, Even(j), Even(j)'
          PROVE  \/ Told(es, entries[j].wd, m)
                 \/ Agrees(j, m)'
                 \/ m \in NamesOf(j)' <=> m \in NamesOf(j)
      <4>1. PICK g, t : g = entries[j].handle /\ t = entries[j].storage
        OBVIOUS
      <4>2. entries'[j].handle = g /\ entries'[j].storage = t /\ entries'[j].wd = entries[j].wd
        BY <3>3, <3>5, <4>1
      <4>3. CASE <<g, t, m>> # <<h, s, n>>
        <5>1. m \in DbNames(g, t)' <=> m \in DbNames(g, t)
          BY <3>3, <3>5, <4>3 DEF OthersKept
        <5> QED BY <4>1, <4>2, <5>1 DEF NamesOf
      <4>4. CASE g = h /\ t = s /\ m = n
        <5>1. PathOf(j) = folder
          BY <1>4, <1>5, <2>1, <3>5, <4>1, <4>4, SameFolder
        <5>2. entries[j].wd \in DOMAIN watches /\ watches[entries[j].wd] = folder
          BY <1>4, <1>6, <3>5, <5>1, EvenWatch
        <5>3. p = Append(watches[entries[j].wd], n)
          BY <1>2, <5>2
        <5>4. CASE p \in DOMAIN disk /\ UNCHANGED <<disk, watches>>
          <6>1. n \in Listing(folder)'
            BY <1>2, <5>4 DEF Listing
          <6>2. WatchOf(j)' = folder
            BY <4>2, <5>2, <5>4 DEF WatchOf
          <6>3. n \in NamesOf(j)'
            BY <3>3, <4>2, <4>4 DEF NamesOf
          <6> QED BY <4>4, <6>1, <6>2, <6>3 DEF Agrees
        <5> QED BY <1>8, <4>4, <5>2, <5>3, <5>4
      <4> QED BY <4>3, <4>4
    <3>6. NamesKept(es)
      BY <3>5 DEF NamesKept
    <3> QED BY <1>3, <1>6, <1>8, <3>1, <3>3, <3>6, PlainMirrored
  <2> QED BY <1>8, <2>2, <2>3 DEF add_entry
<1>9. ASSUME IsDir(folder) PROVE p \in Paths /\ Len(p) > 1 /\ Front(p) = folder
  BY <1>2, <1>4, <1>9, PathGrows DEF IsDir
<1>10. ASSUME IsDir(folder), p \notin DOMAIN disk, NEW k \in {"file", "dir"}, DiskGains(p, k),
              NEW d \in BOOLEAN, add_entry(h, s, n, d)
       PROVE  Mirrored'
  <2>1. Gains(p, k)
    BY <1>9, <1>10 DEF Gains
  <2>2. PICK es : /\ Reported(es) /\ Steady
                  /\ \A w \in DOMAIN watches, m \in Names :
                       p = Append(watches[w], m) => Told(es, w, m)
    BY <1>4, <2>1, GainsSteady
  <2> QED BY <1>8, <1>10, <2>2
<1>11. ASSUME IsDir(folder), p \in DOMAIN disk, events' = Queued(p, "modify"), UNCHANGED diskVars,
              NEW d \in BOOLEAN, add_entry(h, s, n, d)
       PROVE  Mirrored'
  <2>1. UNCHANGED <<disk, watches, next_wd>>
    BY <1>11 DEF diskVars
  <2>2. PICK es : Reported(es) /\ Steady
    BY <1>4, <1>9, <1>11, <2>1, QuietSteady
  <2> QED BY <1>8, <1>11, <2>1, <2>2
<1> QED BY <1>3, <1>7, <1>10, <1>11

\* What a scan does to the watches of the entries.
LEMMA ScanWds ==
  ASSUME DbTypeOK, NEW h, NEW s, ScanFolder(h, s)
  PROVE  WdStep
<1>1. PICK size, news, dead, path :
        /\ size = Len(entries) /\ news = Cardinality(Fresh(h, s)) /\ dead = Gone(h, s)
        /\ path = ScanPath(h, s)
  OBVIOUS
<1>2. PICK order \in SetToSeqs(Fresh(h, s)) :
        entries' = [i \in 1..(size + news) |->
                      IF i <= size THEN Deleting(dead, dead)[i]
                      ELSE alloc_entry(i - size, h, s, order[i - size],
                                       IsDir(Append(path, order[i - size])))]
  BY <1>1 DEF ScanFolder, ScanPath, ScanIdx, Fresh, Gone
<1>3. size \in Nat /\ news \in Nat /\ DOMAIN entries = 1..size
  BY <1>1, FreshFinite, EntriesAreEntries
<1>4. ASSUME NEW i \in LiveEntries'
      PROVE  entries'[i].wd = IF i \in DOMAIN entries THEN entries[i].wd ELSE NONE
  <2>1. i \in 1..size + news /\ ~entries'[i].deleted
    BY <1>2, <1>4 DEF LiveEntries, Live
  <2>2. CASE i <= size
    <3>1. i \in DOMAIN entries /\ entries[i] \in Entry
      BY <1>3, <2>1, <2>2, EntriesAreEntries
    <3>2. entries'[i] = Deleting(dead, dead)[i]
      BY <1>2, <2>1, <2>2
    <3>3. entries'[i] = [entries[i] EXCEPT !.deleted = entries[i].deleted \/ i \in dead,
                                           !.wd = IF i \in dead THEN NONE ELSE entries[i].wd]
      BY <3>1, <3>2 DEF Deleting
    <3>4. entries'[i].deleted = (entries[i].deleted \/ i \in dead)
          /\ entries'[i].wd = IF i \in dead THEN NONE ELSE entries[i].wd
      BY <3>1, <3>3 DEF Entry
    <3> QED BY <2>1, <3>1, <3>4
  <2>3. CASE ~(i <= size)
    <3>1. PICK k, n, d : k = i - size /\ n = order[k] /\ d = IsDir(Append(path, n))
      OBVIOUS
    <3>2. entries'[i] = alloc_entry(k, h, s, n, d)
      BY <1>2, <2>1, <2>3, <3>1
    <3>3. i \notin DOMAIN entries
      BY <1>3, <2>3
    <3> QED BY <3>2, <3>3 DEF alloc_entry
  <2> QED BY <2>2, <2>3
<1> QED BY <1>4 DEF WdStep

\* The roots are their storages, for the lemmas about two states.
RootsHome ==
  \A j \in DOMAIN entries : entries[j].handle = 0 => PathOf(j) = <<entries[j].storage>>

\* The path of a root entry is its storage.
LEMMA RootHome == Listed => RootsHome
BY RootPath DEF Listed, RootsHome

\* The folder of a scan: its entry, if there is one, is at the path it reads.
LEMMA ScannedFolder ==
  ASSUME Whole, NEW h, NEW s, HostScans(h, s), NEW path, path = ScanPath(h, s),
         NEW i, i = ScanIdx(h, s), path # <<>>
  PROVE  /\ h # 0 => i # 0
         /\ i # 0 => /\ i \in LiveEntries /\ i \in DOMAIN entries /\ entries[i].handle = h
                     /\ entries[i].storage = s /\ path = PathOf(i)
<1>1. Sane /\ NamesKnown /\ DbTypeOK
  BY DEF Whole, Listed, Sane
<1>2. CASE h = 0
  <2>1. SUFFICES ASSUME i # 0
                 PROVE  /\ i \in LiveEntries /\ i \in DOMAIN entries /\ entries[i].handle = h
                        /\ entries[i].storage = s /\ path = PathOf(i)
    BY <1>2
  <2>2. i = get_entry_by_handle_and_storageid(h, s) /\ path = <<s>>
    BY <1>2 DEF ScanIdx, ScanPath
  <2>3. i \in LiveEntries /\ entries[i].storage = s /\ entries[i].handle = h
    BY <1>1, <2>1, <2>2, FolderFound
  <2>4. i \in DOMAIN entries
    BY <2>3 DEF LiveEntries
  <2> QED BY <1>1, <1>2, <2>2, <2>3, <2>4, RootPath
<1>3. CASE h # 0
  <2>1. i = get_entry_by_handle(h) /\ path = build_full_path(i)
    BY <1>3 DEF ScanIdx, ScanPath
  <2>2. i # 0
    BY <2>1, ResolvedIsEntry
  <2>3. i \in LiveEntries /\ entries[i].handle = h /\ i \in DOMAIN entries
    BY <1>1, <2>1, <2>2, LookupsFind DEF DbTypeOK, LiveEntries
  <2>4. entries[i].storage = s
    BY <1>1, <1>3, <2>3 DEF HostScans, Sane, HandlesUnique
  <2>5. ResolvesOwn
    BY <1>1, ResolvedOwn
  <2>6. path = PathOf(i)
    BY <2>1, <2>3, <2>5 DEF ResolvesOwn
  <2> QED BY <2>2, <2>3, <2>4, <2>6
<1> QED BY <1>2, <1>3

\* The children that a scan misses have names, and their paths lead nowhere.
LEMMA GoneFrom ==
  ASSUME Whole, NEW h, NEW s, NEW c \in Gone(h, s)
  PROVE  /\ c \in ChildrenInDb(h, s) /\ c \in LiveEntries /\ c \in DOMAIN entries
         /\ PathOf(c) \notin DOMAIN disk /\ Len(PathOf(c)) > 1 /\ IsDir(Front(PathOf(c)))
<1>1. c \in ChildrenInDb(h, s) /\ c \in LiveEntries /\ c \in DOMAIN entries
  BY DEF Gone, ChildrenInDb, LiveEntries
<1>2. PICK p : p = build_full_path(c)
  OBVIOUS
<1>3. p # <<>> /\ p \notin DOMAIN disk
  BY <1>2 DEF Gone
<1>4. p = PathOf(c) /\ Len(p) > 1 /\ IsDir(Front(p))
  BY <1>1, <1>2, <1>3, ResolvedIs DEF Whole, Listed
<1> QED BY <1>1, <1>3, <1>4

\* GetObjectHandles up to the end of the scan.
LEMMA ScanFolderMirrored ==
  ASSUME Whole, Whole', Mirrored, NEW h, NEW s, HostScans(h, s)
  PROVE  Mirrored'
<1>1. PICK path, idx, dead : path = ScanPath(h, s) /\ idx = ScanIdx(h, s) /\ dead = Gone(h, s)
  OBVIOUS
<1>2. /\ io.op = "idle" /\ path # <<>>
      /\ UNCHANGED <<disk, events, next_wd, ino, unmirrored, overwritten>>
      /\ watches' = Restrict(watches, DOMAIN watches \ WdsOf(dead))
      /\ io' = IF IsDir(path)
               THEN [IoIdle EXCEPT !.op = "listing", !.idx = idx, !.parent = h,
                                   !.storage = s, !.path = path]
               ELSE IoIdle
  BY <1>1 DEF HostScans, ScanFolder, ScanPath, ScanIdx, Gone, IoReady
<1>3. /\ IsDir(path) => /\ io'.op = "listing" /\ io'.idx = idx /\ io'.parent = h
                        /\ io'.storage = s /\ io'.path = path
      /\ ~IsDir(path) => io'.op = "idle"
  BY <1>2 DEF IoIdle
<1>4. /\ Sane /\ Sane' /\ NamesKnown /\ NamesKnown' /\ DbTypeOK /\ DbTypeOK' /\ KernelOK
      /\ OneWatch /\ Placed /\ TopWatch
      /\ h \in Nat /\ s \in Storages /\ ScanFolder(h, s)
      /\ h = 0 \/ \E j \in DOMAIN entries : entries[j].handle = h /\ entries[j].storage = s
  BY DEF Whole, Listed, Sane, Mirrored, Placed, HostScans
<1>5. DbStep /\ NamesStep /\ WdStep
  BY <1>4, ScanFolderStep, ScanWds
<1>6. PICK size, news : size = Len(entries) /\ news = Cardinality(Fresh(h, s))
  OBVIOUS
<1>7. /\ Len(entries') = size + news
      /\ \A i \in DOMAIN entries : entries'[i].deleted = (entries[i].deleted \/ i \in dead)
      /\ \A i \in size + 1..size + news : entries'[i].parent = h /\ entries'[i].storage = s
  BY <1>1, <1>4, <1>6, ScanParts DEF OldAfterScan, NewAfterScan
<1>8. /\ h # 0 => idx # 0
      /\ idx # 0 => /\ idx \in LiveEntries /\ idx \in DOMAIN entries /\ entries[idx].handle = h
                    /\ entries[idx].storage = s /\ path = PathOf(idx)
  BY <1>1, <1>2, ScannedFolder
<1>9. \A c \in dead : /\ c \in ChildrenInDb(h, s) /\ c \in LiveEntries /\ c \in DOMAIN entries
                      /\ PathOf(c) \notin DOMAIN disk
                      /\ Len(PathOf(c)) > 1 /\ IsDir(Front(PathOf(c)))
  BY <1>1, GoneFrom
<1>10. /\ DOMAIN watches' = DOMAIN watches \ WdsOf(dead)
       /\ \A w \in DOMAIN watches' : w \in DOMAIN watches /\ watches'[w] = watches[w]
  BY <1>2 DEF Restrict
<1>12. PICK es : Reported(es) /\ Steady
  BY <1>2, <1>4, <1>10, QuietSteady
<1>14. ListLevel'
  <2>1. SUFFICES ASSUME IsDir(path), idx # 0
                 PROVE  /\ Live(idx)' /\ path = PathOf(idx)'
                        /\ entries'[idx].handle = h /\ entries'[idx].storage = s
    <3>1. io'.op = "listing" /\ io'.idx # 0 => /\ IsDir(path) /\ idx # 0 /\ io'.idx = idx
                                               /\ io'.parent = h /\ io'.storage = s
                                               /\ io'.path = path
      BY <1>3
    <3>2. io'.idx = idx => (Live(io.idx)' <=> Live(idx)') /\ PathOf(io.idx)' = PathOf(idx)'
      BY DEF Live
    <3> QED BY <3>1, <3>2 DEF ListLevel
  <2>2. entries'[idx].handle = h /\ entries'[idx].storage = s /\ idx \in DOMAIN entries
        /\ idx \in LiveEntries
    BY <1>5, <1>8, <2>1 DEF DbStep, Kept
  <2>3. idx \notin dead
    BY <1>8, <1>9, <2>1 DEF ChildrenInDb
  <2>4. Live(idx)'
    BY <1>7, <2>2, <2>3 DEF Live, LiveEntries
  <2>5. CASE h = 0
    <3>1. idx \in DOMAIN entries'
      BY <1>4, <1>5, <2>2 DEF DbStep, DbTypeOK
    <3>2. PathOf(idx)' = <<entries'[idx].storage>>
      <4>1. Listed'
        BY DEF Whole
      <4>2. RootsHome'
        BY <4>1, RootHome, PTL
      <4> QED BY <2>2, <2>5, <3>1, <4>2 DEF RootsHome
    <3>3. PathOf(idx) = <<s>>
      BY <1>4, <1>8, <2>1, <2>5, RootPath
    <3> QED BY <1>8, <2>1, <2>2, <2>4, <3>2, <3>3
  <2>6. CASE h # 0
    <3>1. ASSUME NEW k \in 1..idx - 1 PROVE entries'[k].deleted = entries[k].deleted
      <4>1. k \in DOMAIN entries /\ k < idx
        BY <1>4, <2>2 DEF DbTypeOK
      <4>2. ASSUME k \in dead PROVE FALSE
        <5>1. entries[k].parent = h
          BY <1>9, <4>2 DEF ChildrenInDb
        <5>2. PICK j \in 1..k - 1 : entries[j].handle = h
          BY <1>4, <2>6, <4>1, <5>1 DEF Sane, ParentsOlder
        <5>3. j \in DOMAIN entries /\ ~(j = idx)
          <6>1. /\ DOMAIN entries = 1..Len(entries) /\ Len(entries) \in Nat
                /\ k \in Nat /\ idx \in Nat /\ j \in Nat /\ k <= Len(entries)
            BY <1>4, <2>2, <4>1, <5>2, EntriesAreEntries
          <6> QED BY <4>1, <5>2, <6>1
        <5>4. idx \in DOMAIN entries /\ entries[idx].handle = h
          BY <1>8, <2>1
        <5>5. j = idx
          BY <1>4, <2>6, <5>2, <5>3, <5>4 DEF Sane, HandlesUnique
        <5> QED BY <5>3, <5>5
      <4>3. entries[k].deleted \in BOOLEAN
        BY <1>4, <4>1, EntriesAreEntries DEF Entry
      <4>4. (entries[k].deleted \/ k \in dead) = entries[k].deleted
        BY <4>2, <4>3
      <4> QED BY <1>7, <4>1, <4>4
    <3>2. PathOf(idx)' = PathOf(idx)
      BY <1>4, <1>5, <2>2, <3>1, PathSame
    <3> QED BY <1>8, <2>1, <2>2, <2>4, <3>2
  <2> QED BY <2>5, <2>6
<1>17. SameIo /\ HeadKept /\ ~RenamedOnDisk
  BY <1>2, <1>3 DEF SameIo, HeadKept, RenamedOnDisk, RenameOps
<1>15. ASSUME NEW j \in DOMAIN entries, NEW m \in Names, Even(j), Even(j)'
       PROVE  Agrees(j, m)' \/ (m \in NamesOf(j)' <=> m \in NamesOf(j))
  <2>1. PICK g, t : g = entries[j].handle /\ t = entries[j].storage
    OBVIOUS
  <2>2. entries'[j].handle = g /\ entries'[j].storage = t
    BY <1>5, <2>1 DEF DbStep, Kept
  <2>3. ASSUME \A c \in ChildrenInDb(g, t) : entries[c].name = m => c \notin dead,
               \A c \in Len(entries) + 1..Len(entries') :
                 ~(entries'[c].name = m /\ entries'[c].parent = g /\ entries'[c].storage = t)
        PROVE  m \in NamesOf(j)' <=> m \in NamesOf(j)
    <3>1. \A c \in ChildrenInDb(g, t) : entries[c].name = m => ~entries'[c].deleted
      BY <1>7, <2>3 DEF ChildrenInDb, LiveEntries, Live
    <3>2. m \in DbNames(g, t)' <=> m \in DbNames(g, t)
      BY <1>4, <1>5, <2>3, <3>1, NameKept
    <3> QED BY <2>1, <2>2, <3>2 DEF NamesOf
  <2>4. CASE ~(g = h /\ t = s)
    <3>1. \A c \in ChildrenInDb(g, t) : c \notin dead
      BY <1>9, <2>4 DEF ChildrenInDb
    <3>2. \A c \in Len(entries) + 1..Len(entries') :
            ~(entries'[c].parent = g /\ entries'[c].storage = t)
      BY <1>6, <1>7, <2>4
    <3> QED BY <2>3, <3>1, <3>2
  <2>5. CASE g = h /\ t = s
    <3>1. /\ j \in LiveEntries /\ entries[j].wd \in DOMAIN watches
          /\ WatchOf(j) = PathOf(j) /\ watches[entries[j].wd] = PathOf(j)
      BY <1>4, <1>15, <1>17, EvenWatch
    <3>2. PathOf(j) = path
      <4>1. CASE h = 0
        <5>1. path = <<s>>
          BY <1>1, <4>1 DEF ScanPath
        <5> QED BY <1>4, <2>1, <2>5, <4>1, <5>1, RootPath
      <4>2. CASE h # 0
        <5>1. j = idx
          BY <1>4, <1>8, <2>1, <2>5, <4>2 DEF Sane, HandlesUnique
        <5> QED BY <1>8, <4>2, <5>1
      <4> QED BY <4>1, <4>2
    <3>3. WatchOf(j)' = path
      <4>1. entries'[j].wd = entries[j].wd /\ entries'[j].wd \in DOMAIN watches'
        BY <1>5, <1>15 DEF Even, Follows, Watching, WdStep
      <4> QED BY <1>10, <3>1, <3>2, <4>1 DEF WatchOf
    <3>4. CASE IsDir(path)
      <4>1. DbNames(io.parent, io.storage)' = Listing(io.path)'
        BY <1>3, <1>4, <3>4, ScanExact
      <4>2. DbNames(h, s)' = DbNames(io.parent, io.storage)' /\ Listing(io.path)' = Listing(path)'
        BY <1>3, <3>4 DEF DbNames, ChildrenInDb, Listing
      <4>3. NamesOf(j)' = DbNames(h, s)'
        BY <2>2, <2>5 DEF NamesOf
      <4>4. Listing(WatchOf(j))' = Listing(path)'
        BY <3>3 DEF Listing
      <4> QED BY <4>1, <4>2, <4>3, <4>4 DEF Agrees
    <3>5. CASE ~IsDir(path)
      <4>1. ASSUME NEW c \in ChildrenInDb(g, t), entries[c].name = m, c \in dead PROVE FALSE
        <5>1. /\ c \in DOMAIN entries /\ entries[c].parent = g /\ entries[c].storage = t
          BY <4>1 DEF ChildrenInDb, LiveEntries
        <5>2. PathOf(c) = Append(path, m)
          BY <1>4, <1>15, <2>1, <3>1, <3>2, <4>1, <5>1, FolderPath
        <5>3. path \in Paths
          BY <1>4, <1>15, <3>2, PathOfTyped
        <5>4. Front(PathOf(c)) = path
          BY <1>15, <5>2, <5>3, PathGrows
        <5> QED BY <1>9, <3>5, <4>1, <5>4
      <4>2. Fresh(h, s) = {}
        BY <1>1, <3>5 DEF Fresh
      <4>3. Len(entries') = Len(entries) /\ Len(entries) \in Nat
        BY <1>4, <1>6, <1>7, <4>2, FS_EmptySet DEF DbTypeOK
      <4> QED BY <2>3, <4>1, <4>3
    <3> QED BY <3>4, <3>5
  <2> QED BY <2>4, <2>5
<1>16. NamesKept(es)
  BY <1>15 DEF NamesKept
<1> QED BY <1>2, <1>5, <1>12, <1>14, <1>16, <1>17, PlainMirrored

\* DeleteObject: what it deletes in the database it has removed from the disk,
\* and the folders that hear of it are told.
LEMMA DeleteObjectMirrored ==
  ASSUME Whole, Whole', Mirrored, NEW h, DeleteObject(h)
  PROVE  Mirrored'
<1>1. PICK e, res : e = get_entry_by_handle(h) /\ res = delete_tree(e)
  OBVIOUS
<1>2. PICK gone, top : gone = DOMAIN disk \ res.left /\ top = res.dead \cap {e}
  OBVIOUS
<1>3. /\ build_full_path(e) # <<>> /\ io.op = "idle" /\ io' = io /\ ino' = ino
      /\ entries' = Deleting(res.dead, top) /\ DiskLoses(gone, WdsOf(top))
      /\ unmirrored' = unmirrored /\ overwritten' = overwritten
      /\ UNCHANGED next_handle
  BY <1>1, <1>2 DEF DeleteObject, IoReady
<1>4. /\ Sane /\ Sane' /\ NamesKnown /\ DbTypeOK /\ DbTypeOK' /\ KernelOK
      /\ OneWatch /\ Placed /\ TopWatch /\ DiskTree
  BY DEF Whole, Listed, Sane, Mirrored, Placed, KernelOK
<1>5. e \in LiveEntries
  BY <1>1, <1>3, <1>4, ResolvedIsEntry, LookupsFind DEF DbTypeOK
<1>6. PICK st : st = entries[e].storage
  OBVIOUS
<1>7. /\ \A r \in res.left : Len(r) > 1 => Front(r) \in res.left
      /\ res.left \subseteq DOMAIN disk
      /\ \A c \in res.dead : c \in LiveEntries /\ PathOf(c) \in DOMAIN disk \ res.left
  BY <1>1, <1>4, <1>5, <1>6, DeleteTreeSound DEF Taken
<1>8. Loses(gone, WdsOf(top))
  <2>1. gone \subseteq DOMAIN disk /\ DOMAIN disk \ gone = res.left
    BY <1>2, <1>7
  <2>2. \A r \in DOMAIN disk \ gone : Len(r) > 1 => Front(r) \notin gone
    BY <1>2, <1>7, <2>1
  <2> QED BY <1>3, <2>1, <2>2 DEF Loses
<1>9. \A c \in res.dead : c \in LiveEntries /\ PathOf(c) \in gone /\ c \in DOMAIN entries
  BY <1>2, <1>7 DEF LiveEntries
<1>10. /\ DbStep /\ NamesStep /\ Len(entries') = Len(entries)
  BY <1>3, <1>4, DeletingStep
<1>11. /\ WdStep
       /\ \A i \in DOMAIN entries : entries'[i].deleted <=> entries[i].deleted \/ i \in res.dead
  <2>1. top \subseteq res.dead
    BY <1>2
  <2> QED BY <1>3, <1>4, <2>1, DeletedEntries
<1>13. PICK es : /\ Reported(es) /\ Steady
                 /\ \A w \in DOMAIN watches', n \in Names :
                      Append(watches[w], n) \in gone => Told(es, w, n)
  BY <1>4, <1>8, LosesSteady
<1>15. ListLevel' /\ SameIo /\ HeadKept /\ ~RenamedOnDisk
  BY <1>3 DEF ListLevel, SameIo, HeadKept, RenamedOnDisk
<1>16. ASSUME NEW j \in DOMAIN entries, NEW n \in Names, Even(j), Even(j)'
       PROVE  Told(es, entries[j].wd, n) \/ (n \in NamesOf(j)' <=> n \in NamesOf(j))
  <2>1. PICK g, t, w : g = entries[j].handle /\ t = entries[j].storage /\ w = entries[j].wd
    OBVIOUS
  <2>2. entries'[j].handle = g /\ entries'[j].storage = t
    BY <1>10, <2>1 DEF DbStep, Kept
  <2>3. j \in LiveEntries /\ w \in DOMAIN watches /\ watches[w] = PathOf(j)
    BY <1>4, <1>15, <1>16, <2>1, EvenWatch
  <2>4. w \in DOMAIN watches'
    BY <1>11, <1>16, <2>1 DEF Even, Follows, Watching, WdStep
  <2>5. CASE \A c \in ChildrenInDb(g, t) : entries[c].name = n => c \notin res.dead
    <3>1. \A c \in ChildrenInDb(g, t) : entries[c].name = n => ~entries'[c].deleted
      BY <1>11, <2>5 DEF ChildrenInDb, LiveEntries, Live
    <3>2. \A c \in Len(entries) + 1..Len(entries') :
            ~(entries'[c].name = n /\ entries'[c].parent = g /\ entries'[c].storage = t)
      <4>1. PICK k \in Nat : k = Len(entries) /\ k = Len(entries')
        BY <1>4, <1>10, EntriesAreEntries
      <4>2. k + 1..k = {}
        OBVIOUS
      <4> QED BY <4>1, <4>2
    <3>3. n \in DbNames(g, t)' <=> n \in DbNames(g, t)
      BY <1>4, <1>10, <3>1, <3>2, NameKept
    <3> QED BY <2>1, <2>2, <3>3 DEF NamesOf
  <2>6. CASE ~\A c \in ChildrenInDb(g, t) : entries[c].name = n => c \notin res.dead
    <3>1. PICK c \in ChildrenInDb(g, t) : entries[c].name = n /\ c \in res.dead
      BY <2>6
    <3>2. /\ c \in DOMAIN entries /\ entries[c].parent = g /\ entries[c].storage = t
          /\ PathOf(c) \in gone
      BY <1>9, <3>1 DEF ChildrenInDb
    <3>3. PathOf(c) = Append(PathOf(j), n)
      BY <1>4, <2>1, <2>3, <3>1, <3>2, FolderPath
    <3>4. Append(watches[w], n) \in gone
      BY <2>3, <3>2, <3>3
    <3> QED BY <1>13, <2>1, <2>4, <3>4
  <2> QED BY <2>5, <2>6
<1>17. NamesKept(es)
  BY <1>16 DEF NamesKept
<1> QED BY <1>3, <1>10, <1>11, <1>13, <1>15, <1>17, PlainMirrored

\* The local users.
LEMMA LocalUserMirrored ==
  ASSUME Whole, Whole', Mirrored, LocalUser
  PROVE  Mirrored'
<1>1. CASE \E p, r \in DOMAIN disk, n \in Names : LocalMove(p, Append(r, n))
  BY <1>1, LocalMoveMirrored
<1>2. CASE ~\E p, r \in DOMAIN disk, n \in Names : LocalMove(p, Append(r, n))
  BY <1>2, LocalMirrored
<1> QED BY <1>1, <1>2

\* The host.
LEMMA HostMirrored ==
  ASSUME Whole, Whole', Mirrored, Host
  PROVE  Mirrored'
<1>1. DbTypeOK
  BY DEF Whole, Listed, Sane
<1>2. ASSUME NEW i \in DOMAIN entries
      PROVE  entries[i].handle \in Nat /\ entries[i].storage \in Storages
  BY <1>1, EntriesAreEntries DEF Entry, Handles
<1>3. CASE OpenSession \/ CloseSession
  BY <1>3, ResetMirrored
<1>4. CASE RegisterWatch
  BY <1>4, RegisterMirrored
<1>5. CASE RenameInsert
  BY <1>5, RenameMirrored
<1>6. CASE SendObject
  BY <1>6, OtherMirrored
<1>7. ASSUME NEW s \in Storages, ScanFolder(0, s) PROVE Mirrored'
  <2>1. HostScans(0, s)
    BY <1>7 DEF HostScans
  <2> QED BY <2>1, ScanFolderMirrored
<1>8. ASSUME NEW i \in DOMAIN entries, ScanFolder(entries[i].handle, entries[i].storage)
      PROVE  Mirrored'
  <2>1. HostScans(entries[i].handle, entries[i].storage)
    BY <1>2, <1>8 DEF HostScans
  <2> QED BY <2>1, ScanFolderMirrored
<1>9. ASSUME NEW i \in DOMAIN entries, NEW n \in Names, NEW kind,
             SendObjectInfo(entries[i].storage, entries[i].handle, n, kind)
      PROVE  Mirrored'
  <2>1. PICK s \in Storages, h \in Nat : s = entries[i].storage /\ h = entries[i].handle
    BY <1>2
  <2>2. SendObjectInfo(s, h, n, kind)
    BY <1>9, <2>1
  <2> QED BY <2>1, <2>2, SendObjectInfoMirrored
<1>10. ASSUME NEW h, SendPartialObject(h) PROVE Mirrored'
  BY <1>10, OtherMirrored
<1>11. ASSUME NEW h, DeleteObject(h) PROVE Mirrored'
  BY <1>11, DeleteObjectMirrored
<1>12. CASE Renamer \/ SendResponse \/ RenameOnDisk
  BY <1>12, RequestMirrored, RenameOnDiskMirrored
<1> QED
  BY <1>3, <1>4, <1>5, <1>6, <1>7, <1>8, <1>9, <1>10, <1>11, <1>12 DEF Host, Renamer

-----------------------------------------------------------------------------
(* The turns of the inotify thread.                                          *)

\* The list lookups find the newest.
LEMMA FirstInListNewest ==
  ASSUME NEW m \in Nat, NEW S, S \subseteq 1..m, NEW y \in S
  PROVE  FirstInList(S) \in S /\ y <= FirstInList(S)
<1> DEFINE T == {m - x : x \in S}
<1>1. T \subseteq Nat /\ T # {}
  OBVIOUS
<1>2. PICK t \in T : \A u \in T : t <= u
  BY <1>1, LeastNatural
<1>3. PICK x \in S : t = m - x
  BY <1>2
<1>4. ASSUME NEW z \in S PROVE x >= z
  <2>1. m - z \in T
    OBVIOUS
  <2>2. t <= m - z
    BY <1>2, <2>1
  <2>3. x \in Nat /\ z \in Nat
    OBVIOUS
  <2> QED BY <1>3, <2>2, <2>3
<1>5. Max(S) \in S /\ \A z \in S : Max(S) >= z
  BY <1>4 DEF Max
<1>6. FirstInList(S) = Max(S)
  BY DEF FirstInList
<1> QED BY <1>5, <1>6

\* The entry of a turn is the newest that watches the directory of the event
\* and had no turn yet.
LEMMA NewestEntry ==
  ASSUME DbTypeOK, NEW e, e = Head(events)
  PROVE  /\ InotifyEntry # 0 => entries[InotifyEntry].wd = e.wd
         /\ \A i \in LiveEntries : /\ entries[i].wd = e.wd
                                   /\ ino.phase = "loop" => i <= ino.pos
              => InotifyEntry # 0 /\ i <= InotifyEntry
<1>1. PICK pos, m : /\ pos = IF ino.phase = "loop" THEN ino.pos ELSE Len(entries)
                    /\ m = Len(entries)
  OBVIOUS
<1>2. m \in Nat /\ DOMAIN entries = 1..m
  BY <1>1, EntriesAreEntries
<1>3. PICK S : S = {i \in LiveEntries : entries[i].wd = e.wd /\ i <= pos}
  OBVIOUS
<1>4. InotifyEntry = FirstInList(S) /\ S \subseteq 1..m
  BY <1>1, <1>2, <1>3 DEF InotifyEntry, get_entry_by_wd, LiveEntries
<1>5. \A i \in LiveEntries : entries[i].wd = e.wd /\ (ino.phase = "loop" => i <= ino.pos)
        => i \in S
  BY <1>1, <1>2, <1>3 DEF LiveEntries
<1>6. InotifyEntry # 0 => InotifyEntry \in S
  BY <1>2, <1>4, FirstInListFinds
<1>7. ASSUME NEW i \in S PROVE i <= InotifyEntry /\ InotifyEntry # 0
  <2>1. FirstInList(S) \in S /\ i <= FirstInList(S)
    BY <1>2, <1>4, FirstInListNewest
  <2>2. FirstInList(S) # 0
    BY <1>4, <2>1
  <2> QED BY <1>4, <2>1, <2>2
<1> QED BY <1>3, <1>5, <1>6, <1>7

\* What waits for an entry waits on, d events nearer, but for the head of the
\* queue and the entry of this turn.
Pending(t, d) ==
  \A i \in LiveEntries, k \in DOMAIN events :
    Ahead(k, i) /\ events[k].wd = entries[i].wd /\ ~(k = 1 /\ i = t) =>
      \E l \in DOMAIN events' : l = k - d /\ events'[l] = events[k] /\ Ahead(l, i)'

\* The queue without its head.
LEMMA Shorter ==
  ASSUME KernelOK, events # <<>>, events' = Tail(events)
  PROVE  /\ \A k \in DOMAIN events : k # 1 => k - 1 \in DOMAIN events' /\ events'[k - 1] = events[k]
         /\ \A k \in DOMAIN events' : k + 1 \in DOMAIN events /\ events'[k] = events[k + 1]
         /\ 1 \in DOMAIN events /\ Head(events) = events[1] /\ events[1] \in InotifyEvent
         /\ DOMAIN events \subseteq Nat \ {0} /\ DOMAIN events' \subseteq Nat
<1>1. events \in Seq(InotifyEvent)
  BY DEF KernelOK
<1>2. PICK m \in Nat : m = Len(events) /\ DOMAIN events = 1..m
  BY <1>1, LenProperties
<1>3. m # 0
  BY <1>1, <1>2
<1>4. /\ events' \in Seq(InotifyEvent) /\ Len(events') = m - 1
      /\ \A k \in 1..m - 1 : events'[k] = events[k + 1]
  BY <1>1, <1>2
<1>5. DOMAIN events' = 1..m - 1
  BY <1>3, <1>4, LenProperties
<1>6. Head(events) = events[1] /\ events[1] \in InotifyEvent
  BY <1>1, <1>2, <1>3
<1> QED BY <1>2, <1>3, <1>4, <1>5, <1>6

\* A turn that moves on to the next entry, or to the next event.
LEMMA PendingMoves ==
  ASSUME Whole, events # <<>>, ino.phase \in {"idle", "loop"},
         NEW t, t = InotifyEntry, NEW code, NEW h, InotifyMoves(t, code, h)
  PROVE  \E d \in {0, 1} : Pending(t, d)
<1>1. DbTypeOK /\ KernelOK /\ InoOK
  BY DEF Whole, Listed, Sane
<1>2. PICK m, e : m = Len(events) /\ e = Head(events)
  OBVIOUS
<1>3. m \in Nat /\ m # 0 /\ DOMAIN events = 1..m /\ e = events[1]
  <2>1. events \in Seq(InotifyEvent)
    BY <1>1 DEF KernelOK
  <2> QED BY <1>2, <2>1, LenProperties
<1>4. t \in Nat /\ \A i \in LiveEntries : i \in Nat
  BY <1>1, EntriesAreEntries, TurnsEntry DEF LiveEntries
<1>5. PICK pos : pos = IF t = 0 THEN 0 ELSE t - 1
  OBVIOUS
<1>6. ASSUME NEW i \in LiveEntries, entries[i].wd = e.wd, Ahead(1, i), i # t
      PROVE  t # 0 /\ i <= pos /\ i # 0
  <2>1. ino.phase = "loop" => i <= ino.pos
    BY <1>6 DEF Ahead
  <2>2. t # 0 /\ i <= t
    BY <1>1, <1>2, <1>6, <2>1, NewestEntry
  <2>3. i # 0
    BY <1>1, <1>6, EntriesAreEntries DEF LiveEntries
  <2> QED BY <1>4, <1>5, <1>6, <2>2, <2>3
<1>7. CASE code = "none" /\ pos = 0
  <2>1. ino' = InoIdle /\ events' = Tail(events)
    BY <1>5, <1>7 DEF InotifyMoves
  <2>2. \A k, i : Ahead(k, i)'
    BY <2>1 DEF Ahead, InoIdle
  <2>3. Pending(t, 1)
    <3>1. SUFFICES ASSUME NEW i \in LiveEntries, NEW k \in DOMAIN events, Ahead(k, i),
                          events[k].wd = entries[i].wd, ~(k = 1 /\ i = t)
                   PROVE  k # 1
      BY <1>1, <2>1, <2>2, Shorter DEF Pending
    <3>2. ASSUME k = 1 PROVE FALSE
      <4>1. i <= pos /\ i # 0
        BY <1>3, <1>6, <3>1, <3>2
      <4> QED BY <1>4, <1>7, <4>1
    <3> QED BY <3>2
  <2> QED BY <2>3
<1>8. CASE ~(code = "none" /\ pos = 0)
  <2>1. events' = events /\ ino'.pos = pos
    <3>1. events' = events
      BY <1>5, <1>8 DEF InotifyMoves
    <3>2. CASE code # "none"
      <4>1. ino' = [phase |-> "push", pos |-> pos, handle |-> h, code |-> code]
        BY <1>5, <3>2 DEF InotifyMoves
      <4> QED BY <3>1, <4>1
    <3>3. CASE code = "none"
      <4>1. ino' = [InoIdle EXCEPT !.phase = "loop", !.pos = pos]
        BY <1>5, <1>8, <3>3 DEF InotifyMoves
      <4> QED BY <3>1, <4>1 DEF InoIdle
    <3> QED BY <3>2, <3>3
  <2>2. Pending(t, 0)
    <3>1. SUFFICES ASSUME NEW i \in LiveEntries, NEW k \in DOMAIN events, Ahead(k, i),
                          events[k].wd = entries[i].wd, ~(k = 1 /\ i = t)
                   PROVE  k - 0 = k /\ Ahead(k, i)'
      BY <2>1 DEF Pending
    <3>2. k \in Nat /\ k # 0
      BY <1>3
    <3>3. CASE k = 1
      <4>1. i <= pos
        BY <1>3, <1>6, <3>1, <3>3
      <4> QED BY <2>1, <3>2, <4>1 DEF Ahead
    <3>4. CASE k # 1
      BY <3>2, <3>4 DEF Ahead
    <3> QED BY <3>3, <3>4
  <2> QED BY <2>2
<1> QED BY <1>7, <1>8

\* After the MTP event the thread goes on with the next entry, or event.
LEMMA PendingPush ==
  ASSUME Whole, InotifyPush
  PROVE  \E d \in {0, 1} : Pending(0, d)
<1>1. DbTypeOK /\ KernelOK /\ InoOK /\ ino.phase = "push" /\ events # <<>>
  BY DEF Whole, Listed, Sane, InotifyPush, InoOK
<1>2. \A i \in LiveEntries : i \in Nat /\ i # 0
  BY <1>1, EntriesAreEntries DEF LiveEntries
<1>3. DOMAIN events \subseteq Nat \ {0}
  <2>1. events \in Seq(InotifyEvent)
    BY <1>1 DEF KernelOK
  <2> QED BY <2>1, LenProperties
<1>4. CASE ino.pos # 0
  <2>1. ino' = [InoIdle EXCEPT !.phase = "loop", !.pos = ino.pos] /\ events' = events
    BY <1>4 DEF InotifyPush
  <2>2. ino'.pos = ino.pos
    BY <2>1 DEF InoIdle
  <2>3. \A k, i : Ahead(k, i) => Ahead(k, i)'
    BY <1>1, <2>2 DEF Ahead
  <2>4. Pending(0, 0)
    <3>1. \A k \in DOMAIN events : k - 0 = k
      BY <1>3
    <3> QED BY <2>1, <2>3, <3>1 DEF Pending
  <2> QED BY <2>4
<1>5. CASE ino.pos = 0
  <2>1. ino' = InoIdle /\ events' = Tail(events)
    BY <1>5 DEF InotifyPush
  <2>2. \A k, i : Ahead(k, i)'
    BY <2>1 DEF Ahead, InoIdle
  <2>3. \A i \in LiveEntries : ~Ahead(1, i)
    BY <1>1, <1>2, <1>5 DEF Ahead
  <2>4. Pending(0, 1)
    BY <1>1, <2>1, <2>2, <2>3, Shorter DEF Pending
  <2> QED BY <2>4
<1> QED BY <1>4, <1>5

\* A later event tells of the name, or the folder has what the disk has.
Settled(j, n) ==
  \/ Doubled(j, n)' \/ Agrees(j, n)'
  \/ \E l \in DOMAIN events : l > 1 /\ Tells(events[l], entries[j].wd, n)

\* What the turn of entry t, with the head of the queue, makes of the names.
TurnKept(t) ==
  \A j \in DOMAIN entries, n \in Names : Even(j) /\ Even(j)' =>
    \/ Settled(j, n)
    \/ /\ n \in NamesOf(j)' <=> n \in NamesOf(j)
       /\ ~(j = t /\ Tells(events[1], entries[j].wd, n))

\* A turn keeps the agreement.
LEMMA TurnAgreement ==
  ASSUME Whole, Agreement, DbStep, EvenKept, disk' = disk, overwritten \subseteq overwritten',
         \A w \in DOMAIN watches' : watches'[w] = watches[w],
         NEW t, NEW d \in {0, 1}, Pending(t, d), TurnKept(t)
  PROVE  Agreement'
<1>1. SUFFICES ASSUME NEW i \in DOMAIN entries', NEW n \in Names, Even(i)'
               PROVE  Doubled(i, n)' \/ Waits(i, n)' \/ Agrees(i, n)'
  BY DEF Agreement
<1>2. i \in DOMAIN entries /\ Even(i) /\ entries'[i].wd = entries[i].wd /\ Kept(i)
  BY <1>1 DEF EvenKept, DbStep
<1>3. entries[i].wd \in DOMAIN watches' /\ i \in LiveEntries
  BY <1>1, <1>2 DEF Even, Follows, Watching
<1>4. ASSUME NEW k \in DOMAIN events, Tells(events[k], entries[i].wd, n), Ahead(k, i),
             ~(k = 1 /\ i = t)
      PROVE  Waits(i, n)'
  <2>1. events[k].wd = entries[i].wd
    BY <1>4 DEF Tells
  <2>2. PICK l \in DOMAIN events' : events'[l] = events[k] /\ Ahead(l, i)'
    BY <1>3, <1>4, <2>1 DEF Pending
  <2>3. Tells(events'[l], entries'[i].wd, n)
    BY <1>2, <1>4, <2>2
  <2> QED BY <2>2, <2>3 DEF Waits, Tells
<1>5. CASE Settled(i, n)
  <2>1. ASSUME NEW l \in DOMAIN events, l > 1, Tells(events[l], entries[i].wd, n)
        PROVE  Waits(i, n)'
    <3>1. Ahead(l, i) /\ l # 1
      <4>1. l \in Nat
        <5>1. events \in Seq(InotifyEvent)
          BY DEF Whole, KernelOK
        <5> QED BY <5>1, LenProperties
      <4> QED BY <2>1, <4>1 DEF Ahead
    <3> QED BY <1>4, <2>1, <3>1
  <2> QED BY <1>5, <2>1 DEF Settled
<1>6. CASE /\ n \in NamesOf(i)' <=> n \in NamesOf(i)
           /\ ~(i = t /\ Tells(events[1], entries[i].wd, n))
  <2>1. CASE Doubled(i, n)
    BY <1>2, <2>1 DEF Doubled, Kept
  <2>2. CASE Waits(i, n)
    <3>1. PICK k \in DOMAIN events : Tells(events[k], entries[i].wd, n) /\ Ahead(k, i)
      BY <2>2 DEF Waits
    <3> QED BY <1>4, <1>6, <3>1
  <2>3. CASE Agrees(i, n)
    <3>1. WatchOf(i)' = WatchOf(i)
      BY <1>2, <1>3 DEF WatchOf
    <3>2. Listing(WatchOf(i))' = Listing(WatchOf(i))
      BY <3>1 DEF Listing
    <3> QED BY <1>6, <2>3, <3>2 DEF Agrees
  <2> QED BY <1>1, <1>2, <2>1, <2>2, <2>3 DEF Agreement
<1> QED BY <1>1, <1>2, <1>5, <1>6 DEF TurnKept

\* The turn does not miss the object of a rename that is not yet in the database.
TurnSees(t) ==
  \A j \in DOMAIN entries, old \in Names :
    /\ RenamedOnDisk /\ old = entries[io.idx].name /\ j = t
    /\ Even(j) /\ Even(j)' /\ io.idx \in KidsOf(j) /\ Live(io.idx)'
    /\ Tells(events[1], entries[j].wd, old) /\ events[1].mask = "delete"
       /\ io.name # old
    => Doubled(j, old)'

\* A turn keeps a rename seen.
LEMMA TurnRenaming ==
  ASSUME Whole, Renaming, DbStep, NamesStep, EvenKept, io' = io,
         overwritten \subseteq overwritten',
         NEW t, NEW d \in {0, 1}, Pending(t, d), TurnSees(t)
  PROVE  Renaming'
<1>1. SUFFICES ASSUME RenamedOnDisk' PROVE Renaming'
  BY DEF Renaming
<1>2. io' = io /\ RenamedOnDisk /\ io.idx \in DOMAIN entries
  <2>1. RenamedOnDisk
    BY <1>1 DEF RenamedOnDisk
  <2> QED BY <2>1, EntriesAreEntries DEF RenamedOnDisk, Whole, Listed, Sane, DbTypeOK, RenameOps
<1>3. PICK c, old, new : c = io.idx /\ old = entries[c].name /\ new = io.name
  OBVIOUS
<1>4. c \in DOMAIN entries /\ Kept(c) /\ entries'[c].name = old /\ c = io'.idx /\ new = io'.name
  BY <1>2, <1>3 DEF DbStep, NamesStep
<1>5. old \in Names
  BY <1>2, <1>3 DEF Renaming
<1>6. ASSUME NEW i \in DOMAIN entries', Even(i)', c \in KidsOf(i)', Live(c)', new # old
      PROVE  Doubled(i, old)' \/ InMove(i, old, new)'
  <2>1. i \in DOMAIN entries /\ Even(i) /\ entries'[i].wd = entries[i].wd /\ Kept(i)
    BY <1>6 DEF EvenKept, DbStep
  <2>2. Live(c) /\ c \in KidsOf(i)
    BY <1>4, <1>6, <2>1 DEF KidsOf, ChildrenInDb, LiveEntries, Live, Kept
  <2>3. Doubled(i, old) \/ InMove(i, old, new)
    BY <1>2, <1>3, <1>6, <2>1, <2>2 DEF Renaming
  <2>4. ASSUME Doubled(i, old) PROVE Doubled(i, old)'
    BY <2>1, <2>4 DEF Doubled, Kept
  <2>5. ASSUME InMove(i, old, new) PROVE Doubled(i, old)' \/ InMove(i, old, new)'
    <3>1. PICK k, l \in DOMAIN events :
            /\ k < l /\ Ahead(k, i)
            /\ Tells(events[k], entries[i].wd, old) /\ events[k].mask = "delete"
            /\ Tells(events[l], entries[i].wd, new)
      BY <2>5 DEF InMove
    <3>2. CASE k = 1 /\ i = t
      <4>1. Live(io.idx)' /\ io.idx \in KidsOf(i) /\ old = entries[io.idx].name
        BY <1>3, <1>6, <2>2 DEF Live
      <4> QED BY <1>2, <1>3, <1>5, <1>6, <2>1, <3>1, <3>2, <4>1 DEF TurnSees
    <3>3. CASE ~(k = 1 /\ i = t)
      <4>1. i \in LiveEntries
        BY <2>1 DEF Even, Follows, Watching
      <4>2. k \in Nat /\ l \in Nat /\ k >= 1 /\ l # 1
        <5>1. events \in Seq(InotifyEvent)
          BY DEF Whole, KernelOK
        <5>2. DOMAIN events \subseteq Nat \ {0}
          BY <5>1, LenProperties
        <5> QED BY <3>1, <5>2
      <4>3. Ahead(l, i)
        BY <3>1, <4>2 DEF Ahead
      <4>4. PICK a \in DOMAIN events' : a = k - d /\ events'[a] = events[k] /\ Ahead(a, i)'
        BY <3>1, <3>3, <4>1 DEF Pending, Tells
      <4>5. PICK b \in DOMAIN events' : b = l - d /\ events'[b] = events[l] /\ Ahead(b, i)'
        BY <3>1, <4>1, <4>2, <4>3 DEF Pending, Tells
      <4>6. a < b
        BY <3>1, <4>2, <4>4, <4>5
      <4>7. /\ events'[a].mask = "delete"
            /\ Tells(events'[a], entries'[i].wd, old) /\ Tells(events'[b], entries'[i].wd, new)
        BY <2>1, <3>1, <4>4, <4>5
      <4> QED BY <4>4, <4>5, <4>6, <4>7 DEF InMove, Tells
    <3> QED BY <3>2, <3>3
  <2> QED BY <2>3, <2>4, <2>5
<1>7. Live(c)' /\ new # old => \A i \in DOMAIN entries' : Even(i)' /\ c \in KidsOf(i)' =>
        Doubled(i, old)' \/ InMove(i, old, new)'
  BY <1>6
<1>8. \A i : Doubled(i, old)' <=> Doubled(i, entries[io.idx].name)'
  BY <1>4 DEF Doubled
<1>9. \A i : InMove(i, old, new)' <=> InMove(i, entries[io.idx].name, io.name)'
  BY <1>4 DEF InMove, Tells
<1> QED BY <1>4, <1>5, <1>7, <1>8, <1>9 DEF Renaming

\* Where the watches are after a turn.
LEMMA TurnPlaced ==
  ASSUME Whole, Whole', Placed, DbStep, NamesStep, WdStep,
         UNCHANGED <<io, disk, next_wd>>, unmirrored \subseteq unmirrored',
         \A w \in DOMAIN watches' : w \in DOMAIN watches /\ watches'[w] = watches[w],
         events' = events \/ (events # <<>> /\ events' = Tail(events)),
         io.op = "listing" => entries' = entries
  PROVE  Placed' /\ EvenKept /\ EvenPaths
<1>1. Steady
  BY DEF Steady
<1>2. DbTypeOK /\ DbTypeOK' /\ KernelOK
  BY DEF Whole, Listed, Sane
<1>5. /\ TopWatch' /\ Level' /\ OneWatch' /\ EvenKept /\ EvenPaths
      /\ \A i \in LiveEntries' : entries'[i].wd < next_wd'
  BY <1>1, PlacedSteady DEF EvenKept, EvenPaths, RenamedOnDisk
<1>6. ListLevel'
  BY ListLevelKept
<1>7. Truthful /\ \A k \in DOMAIN events : events[k].wd < next_wd
  BY DEF Placed, Numbered
<1>8. \A x : Listing(x)' = Listing(x)
  BY DEF Listing
<1>9. CASE events' = events
  <2>1. Truthful'
    BY <1>7, <1>8, <1>9 DEF Truthful, Tells
  <2>2. Numbered'
    BY <1>5, <1>7, <1>9 DEF Numbered
  <2> QED BY <1>5, <1>6, <2>1, <2>2 DEF Placed
<1>10. CASE events # <<>> /\ events' = Tail(events)
  <2>1. /\ \A k \in DOMAIN events : k # 1 => k - 1 \in DOMAIN events' /\ events'[k - 1] = events[k]
        /\ \A k \in DOMAIN events' : k + 1 \in DOMAIN events /\ events'[k] = events[k + 1]
        /\ DOMAIN events \subseteq Nat \ {0} /\ DOMAIN events' \subseteq Nat
    BY <1>2, <1>10, Shorter
  <2>2. Truthful'
    <3>1. SUFFICES ASSUME NEW w \in DOMAIN watches', NEW n \in Names, NEW k \in DOMAIN events',
                          Tells(events'[k], w, n),
                          ~(events'[k].mask = "create" <=> n \in Listing(watches[w])')
                   PROVE  \E l \in DOMAIN events' : l > k /\ Tells(events'[l], w, n)
      BY DEF Truthful, Tells
    <3>2. n \in Listing(watches[w])' <=> n \in Listing(watches[w])
      BY <1>8
    <3>3. PICK l \in DOMAIN events : l > k + 1 /\ Tells(events[l], w, n)
      BY <1>7, <2>1, <3>1, <3>2 DEF Truthful
    <3>4. l - 1 \in DOMAIN events' /\ events'[l - 1] = events[l] /\ l - 1 > k
      <4>1. k \in Nat /\ l \in Nat
        BY <2>1
      <4>2. l # 1 /\ l - 1 > k
        BY <3>3, <4>1
      <4> QED BY <2>1, <4>2
    <3> QED BY <3>3, <3>4
  <2>3. Numbered'
    BY <1>5, <1>7, <2>1 DEF Numbered
  <2> QED BY <1>5, <1>6, <2>2, <2>3 DEF Placed
<1> QED BY <1>9, <1>10

\* A turn of the inotify thread, for all it may make of the folder.
LEMMA TurnMirrored ==
  ASSUME Whole, Whole', Mirrored, DbStep, NamesStep, WdStep,
         UNCHANGED <<io, disk, next_wd>>, unmirrored \subseteq unmirrored',
         overwritten \subseteq overwritten',
         \A w \in DOMAIN watches' : w \in DOMAIN watches /\ watches'[w] = watches[w],
         events' = events \/ (events # <<>> /\ events' = Tail(events)),
         io.op = "listing" => entries' = entries,
         NEW t, NEW d \in {0, 1}, Pending(t, d), TurnKept(t), TurnSees(t)
  PROVE  Mirrored'
<1>1. Placed' /\ EvenKept /\ EvenPaths
  BY TurnPlaced DEF Mirrored
<1>2. Agreement'
  BY <1>1, TurnAgreement DEF Mirrored
<1>3. Renaming'
  BY <1>1, TurnRenaming DEF Mirrored
<1>4. Heading'
  <2>1. HeadKept
    BY DEF HeadKept
  <2> QED BY <1>1, <2>1, HeadingKept DEF Mirrored
<1> QED BY <1>1, <1>2, <1>3, <1>4 DEF Mirrored

\* A turn of the inotify thread for one event.
LEMMA TurnTaken ==
  ASSUME Whole, Whole', Mirrored, Inotify, NEW mask, InotifyTurn(mask),
         NEW t, t = InotifyEntry, NEW code, NEW h, InotifyMoves(t, code, h),
         WdStep, unmirrored \subseteq unmirrored', overwritten \subseteq overwritten',
         \A w \in DOMAIN watches' : w \in DOMAIN watches /\ watches'[w] = watches[w],
         TurnKept(t), TurnSees(t)
  PROVE  Mirrored'
<1>1. /\ UNCHANGED <<io, disk, next_wd>> /\ io.op # "listing"
      /\ events # <<>> /\ ino.phase \in {"idle", "loop"}
  BY DEF InotifyTurn, MutexFree
<1>2. DbStep /\ NamesStep
  BY InotifyStep DEF Whole, Listed, Sane
<1>3. PICK d \in {0, 1} : Pending(t, d)
  BY <1>1, PendingMoves
<1>4. events' = events \/ (events # <<>> /\ events' = Tail(events))
  BY <1>1 DEF InotifyMoves
<1> QED BY <1>1, <1>2, <1>3, <1>4, TurnMirrored

\* A turn that leaves the database and the watches alone.
LEMMA QuietTurn ==
  ASSUME Whole, Whole', Mirrored, Inotify, UNCHANGED <<entries, watches>>,
         NEW mask, InotifyTurn(mask),
         NEW t, t = InotifyEntry, NEW code, NEW h, InotifyMoves(t, code, h),
         unmirrored \subseteq unmirrored', overwritten \subseteq overwritten',
         TurnKept(t), TurnSees(t)
  PROVE  Mirrored'
<1>1. WdStep
  BY DEF WdStep, LiveEntries
<1> QED BY <1>1, TurnTaken

\* The MTP event is pushed.
LEMMA PushMirrored ==
  ASSUME Whole, Whole', Mirrored, InotifyPush
  PROVE  Mirrored'
<1>1. /\ UNCHANGED <<entries, next_handle, watches>>
      /\ UNCHANGED <<io, disk, next_wd, overwritten, unmirrored>>
  BY DEF InotifyPush, dbVars, diskVars
<1>2. events # <<>> /\ (events' = events \/ events' = Tail(events))
  BY DEF InotifyPush, Whole, InoOK
<1>3. DbStep /\ NamesStep /\ WdStep
  BY <1>1, SameDbKeeps DEF WdStep, LiveEntries
<1>4. PICK d \in {0, 1} : Pending(0, d)
  BY PendingPush
<1>5. 0 \notin DOMAIN entries
  BY EntriesAreEntries DEF Whole, Listed, Sane
<1>6. TurnKept(0)
  <2>1. \A j : NamesOf(j)' = NamesOf(j)
    BY <1>1, SamePaths DEF NamesOf
  <2> QED BY <1>5, <2>1 DEF TurnKept
<1>7. TurnSees(0)
  BY <1>5 DEF TurnSees
<1> QED BY <1>1, <1>2, <1>3, <1>4, <1>6, <1>7, TurnMirrored

\* A root has the path of its storage, whatever is being renamed.
LEMMA RootForInotify ==
  ASSUME Whole, Heading, NEW t \in DOMAIN entries, entries[t].handle = 0,
         PathForInotify(t) # <<>>
  PROVE  PathForInotify(t) = <<entries[t].storage>>
<1>1. Sane /\ NamesKnown
  BY DEF Whole, Listed
<1>2. entries[t].parent = 0 /\ entries[t].name \notin Names
  BY <1>1, ConstantsAssumption DEF NamesKnown, Named
<1>3. NameNow(t) = entries[t].name
  BY DEF NameNow, Heading, RenameOps
<1>4. PICK name : name = [k \in DOMAIN entries |-> NameNow(k)]
  OBVIOUS
<1>5. Hashed \in SUBSET LiveEntries
  BY DEF Hashed
<1>6. AboveIn(Hashed, t) = 0 /\ OwnIn(name, t) = <<>>
  BY <1>2, <1>3, <1>4 DEF AboveIn, OwnIn
<1>7. ClimbIn(name, Hashed, t) = <<>>
  BY <1>1, <1>5, <1>6, ClimbInIs
<1>8. PICK s : s = entries[t].storage
  OBVIOUS
<1>9. <<s>> \o <<>> = <<s>>
  OBVIOUS
<1>10. t # 0
  BY <1>1, EntriesAreEntries DEF Sane
<1>11. PathForInotify(t) = Resolved(<<s>>, NameNow(t) \in Names)
  BY <1>4, <1>7, <1>8, <1>9, <1>10 DEF PathForInotify
<1> QED BY <1>8, <1>11 DEF Resolved

\* The followed entries of the folder of the event hear of the directory the turn
\* looks at.
LEMMA TurnWatch ==
  ASSUME Whole, Placed, Heading, NEW e, e = Head(events), e.wd \in Nat,
         NEW t, t = InotifyEntry, t # 0, NEW path, path = PathForInotify(t), path # <<>>,
         NotesMisplaced(t), NEW j \in DOMAIN entries, Even(j), Even(j)',
         entries[j].handle = entries[t].handle, entries[j].storage = entries[t].storage
  PROVE  /\ j \in LiveEntries /\ entries[j].wd = e.wd /\ entries[j].wd \in DOMAIN watches
         /\ WatchOf(j) = path
<1>1. Sane /\ NamesKnown /\ DbTypeOK /\ KernelOK /\ TopWatch /\ OneWatch /\ HandlesUnique
  BY DEF Whole, Listed, Sane, Placed
<1>2. t \in LiveEntries /\ entries[t].wd = e.wd /\ t \in DOMAIN entries
  BY <1>1, TurnsEntry, NewestEntry DEF LiveEntries
<1>3. j \in LiveEntries /\ entries[j].wd \in DOMAIN watches /\ Watching(j)
  BY DEF Even, Follows, Watching
<1>4. e.wd \in DOMAIN watches /\ watches[e.wd] = path
  <2>1. j \notin unmirrored'
    BY DEF Even, Follows
  <2> QED BY <1>3, <2>1 DEF NotesMisplaced
<1>5. CASE j = t
  BY <1>2, <1>3, <1>4, <1>5 DEF WatchOf
<1>6. CASE j # t
  <2>1. entries[j].handle = 0 /\ entries[t].handle = 0
    BY <1>1, <1>2, <1>6 DEF HandlesUnique
  <2>2. PICK s : s = entries[t].storage
    OBVIOUS
  <2>3. PathOf(j) = <<s>>
    BY <1>1, <2>1, <2>2, RootPath
  <2>4. Len(WatchOf(j)) = 1
    BY <2>3 DEF Even
  <2>5. WatchOf(j) = <<s>>
    BY <1>3, <1>1, <2>3, <2>4 DEF TopWatch
  <2>6. path = <<s>>
    BY <1>2, <2>1, <2>2, RootForInotify
  <2>7. entries[j].wd = e.wd
    BY <1>1, <1>3, <1>4, <2>5, <2>6 DEF OneWatch, WatchOf
  <2> QED BY <1>3, <2>5, <2>6, <2>7
<1> QED BY <1>5, <1>6

\* The head of the queue is the truth, or a later event is.
LEMMA HeadTruth ==
  ASSUME Whole, Placed, events # <<>>, NEW e, e = Head(events), e.mask # "modify",
         NEW j \in DOMAIN entries, NEW n, n = e.name,
         entries[j].wd = e.wd, entries[j].wd \in DOMAIN watches
  PROVE  \/ \E l \in DOMAIN events : l > 1 /\ Tells(events[l], entries[j].wd, n)
         \/ e.mask = "create" <=> n \in Listing(WatchOf(j))
<1>1. events \in Seq(InotifyEvent) /\ Truthful
  BY DEF Whole, KernelOK, Placed
<1>2. 1 \in DOMAIN events /\ e = events[1] /\ e \in InotifyEvent
  BY <1>1
<1>3. n \in Names
  BY <1>2 DEF InotifyEvent
<1>4. Tells(events[1], entries[j].wd, n)
  BY <1>2 DEF Tells
<1> QED BY <1>1, <1>2, <1>3, <1>4 DEF Truthful, WatchOf

\* The head of the queue.
LEMMA HeadIs ==
  ASSUME KernelOK, events # <<>>, NEW e, e = Head(events)
  PROVE  /\ e = events[1] /\ e.wd \in Nat /\ e.name \in Names
         /\ e.mask \in {"create", "modify", "delete"}
<1>1. events \in Seq(InotifyEvent)
  BY DEF KernelOK
<1>2. e = events[1] /\ e \in InotifyEvent
  BY <1>1
<1> QED BY <1>2 DEF InotifyEvent

\* What a turn without a word on the names of its folder must know of them:
\* the followed entries of the folder are settled for the name of the event.
LEMMA TurnKeeps ==
  ASSUME Whole, events # <<>>, UNCHANGED entries,
         NEW e, e = Head(events), NEW t, t = InotifyEntry,
         \A j \in DOMAIN entries : /\ j = t /\ e.mask # "modify" /\ Even(j) /\ Even(j)'
                                   => Settled(j, e.name)
  PROVE  TurnKept(t)
<1>1. e = events[1]
  BY HeadIs DEF Whole
<1>2. \A j : NamesOf(j)' = NamesOf(j)
  BY SamePaths DEF NamesOf
<1>3. ASSUME NEW j \in DOMAIN entries, NEW n \in Names, Even(j), Even(j)',
             j = t, Tells(events[1], entries[j].wd, n)
      PROVE  Settled(j, n)
  BY <1>1, <1>3 DEF Tells
<1> QED BY <1>2, <1>3 DEF TurnKept

\* No entry has the watch, or its path leads nowhere: then it is not followed.
LEMMA SkipMirrored ==
  ASSUME Whole, Whole', Mirrored, InotifySkip
  PROVE  Mirrored'
<1>1. PICK mask \in {"create", "modify", "delete"} : InotifyTurn(mask)
  BY DEF InotifySkip
<1>2. PICK t, e : t = InotifyEntry /\ e = Head(events)
  OBVIOUS
<1>3. /\ PathForInotify(t) = <<>> /\ InotifyMoves(t, "none", NONE)
      /\ IF t = 0 THEN UNCHANGED unmirrored ELSE NotesMisplaced(t)
      /\ UNCHANGED <<entries, watches, overwritten>> /\ events # <<>>
  BY <1>1, <1>2 DEF InotifySkip, InotifyTurn
<1>4. unmirrored \subseteq unmirrored' /\ Inotify
  BY <1>3 DEF NotesMisplaced, Inotify
<1>5. DbTypeOK /\ KernelOK
  BY DEF Whole, Listed, Sane
<1>6. ASSUME t \in DOMAIN entries, Even(t), Even(t)' PROVE FALSE
  <2>1. t # 0
    BY <1>5, <1>6, EntriesAreEntries
  <2>2. entries[t].wd = e.wd
    BY <1>2, <1>5, <2>1, NewestEntry
  <2>3. e.wd \in DOMAIN watches
    BY <1>6, <2>2 DEF Even, Follows, Watching
  <2>4. watches[e.wd] \in Paths
    BY <1>5, <2>3 DEF KernelOK, WatchesSet, DiskTree
  <2>5. watches[e.wd] # <<>>
    BY <2>4 DEF Paths
  <2>6. t \in LiveEntries
    BY <1>6 DEF Even, Follows, Watching
  <2>7. t \in unmirrored'
    BY <1>2, <1>3, <2>1, <2>5, <2>6 DEF NotesMisplaced
  <2> QED BY <1>6, <2>7 DEF Even, Follows
<1>7. TurnKept(t)
  BY <1>2, <1>3, <1>6, TurnKeeps
<1>8. TurnSees(t)
  BY <1>6 DEF TurnSees
<1> QED BY <1>1, <1>2, <1>3, <1>4, <1>7, <1>8, QuietTurn

\* IN_MODIFY changes nothing.
LEMMA ModifyMirrored ==
  ASSUME Whole, Whole', Mirrored, InotifyModify
  PROVE  Mirrored'
<1>1. PICK t, e : t = InotifyEntry /\ e = Head(events)
  OBVIOUS
<1>2. /\ InotifyTurn("modify") /\ e.mask = "modify" /\ events # <<>>
      /\ NotesMisplaced(t) /\ UNCHANGED <<entries, watches, overwritten>>
  BY <1>1 DEF InotifyModify, InotifyTurn
<1>3. PICK code, h : InotifyMoves(t, code, h)
  BY <1>1 DEF InotifyModify
<1>4. unmirrored \subseteq unmirrored' /\ Inotify
  BY <1>2 DEF NotesMisplaced, Inotify
<1>5. e = events[1]
  BY <1>1, <1>2, HeadIs DEF Whole
<1>6. TurnKept(t)
  BY <1>1, <1>2, TurnKeeps
<1>7. TurnSees(t)
  BY <1>2, <1>5 DEF TurnSees
<1> QED BY <1>1, <1>2, <1>3, <1>4, <1>6, <1>7, QuietTurn

\* An object has a handle that is not its folder's.
LEMMA NamedChild ==
  ASSUME Sane, NamesKnown, NEW c \in LiveEntries, entries[c].name \in Names
  PROVE  /\ entries[c].handle # 0
         /\ c \in ChildrenInDb(entries[c].parent, entries[c].storage)
<1>1. c \in DOMAIN entries /\ Named(entries[c]) /\ DbTypeOK /\ HandlesUnique /\ ParentsOlder
  BY DEF LiveEntries, NamesKnown, Sane
<1>2. entries[c].handle # 0
  BY <1>1, ConstantsAssumption DEF Named
<1>3. ASSUME entries[c].handle = entries[c].parent PROVE FALSE
  <2>1. PICK j \in 1..c - 1 : entries[j].handle = entries[c].parent
    BY <1>1, <1>2, <1>3 DEF ParentsOlder
  <2>2. j \in DOMAIN entries /\ j # c
    BY <1>1, <2>1, EntriesAreEntries
  <2> QED BY <1>1, <1>2, <1>3, <2>1, <2>2 DEF HandlesUnique
<1> QED BY <1>2, <1>3 DEF ChildrenInDb

\* find_entry and the names of a folder.
LEMMA FoundNames ==
  ASSUME Sane, NamesKnown, NEW n \in Names, NEW h, NEW s
  PROVE  find_entry(n, h, s) # 0 <=> n \in DbNames(h, s)
<1>1. entries \in Seq(Entry) /\ n # NoName
  BY ConstantsAssumption DEF Sane, DbTypeOK
<1>2. ASSUME find_entry(n, h, s) # 0 PROVE n \in DbNames(h, s)
  <2>1. PICK c \in LiveEntries : entries[c].name = n /\ entries[c].parent = h
                                 /\ entries[c].storage = s
    BY <1>1, <1>2, LookupsFind
  <2>2. c \in ChildrenInDb(h, s)
    BY <2>1, NamedChild
  <2> QED BY <1>1, <2>1, <2>2 DEF DbNames
<1>3. ASSUME n \in DbNames(h, s) PROVE find_entry(n, h, s) # 0
  <2>1. PICK c \in ChildrenInDb(h, s) : entries[c].name = n
    BY <1>3 DEF DbNames
  <2>2. /\ c \in LiveEntries /\ entries[c].name = n /\ entries[c].parent = h
        /\ entries[c].storage = s
    BY <2>1 DEF ChildrenInDb
  <2> QED BY <1>1, <2>2, LookupsFind
<1> QED BY <1>2, <1>3

\* The followed entries of a turn's folder for the name of its event, when an
\* object came or left: a later event tells of it, or this one is the truth.
LEMMA TurnTruth ==
  ASSUME Whole, Placed, Heading, events # <<>>, NEW e, e = Head(events), e.mask # "modify",
         NEW t, t = InotifyEntry, t # 0, NEW path, path = PathForInotify(t), path # <<>>,
         NotesMisplaced(t), NEW j \in DOMAIN entries, Even(j), Even(j)',
         entries[j].handle = entries[t].handle, entries[j].storage = entries[t].storage
  PROVE  \/ Settled(j, e.name)
         \/ /\ WatchOf(j) = path /\ entries[j].wd \in DOMAIN watches
            /\ e.mask = "create" <=> e.name \in Listing(path)
<1>1. e.wd \in Nat
  BY HeadIs DEF Whole
<1>2. entries[j].wd = e.wd /\ entries[j].wd \in DOMAIN watches /\ WatchOf(j) = path
  BY <1>1, TurnWatch
<1>3. PICK n : n = e.name
  OBVIOUS
<1>4. \/ \E l \in DOMAIN events : l > 1 /\ Tells(events[l], entries[j].wd, n)
      \/ e.mask = "create" <=> n \in Listing(WatchOf(j))
  BY <1>2, <1>3, HeadTruth
<1> QED BY <1>2, <1>3, <1>4 DEF Settled

\* Where a rename half done makes a difference, the names it is about are doubled.
LEMMA CrossedNames ==
  ASSUME Whole, NEW t \in DOMAIN entries, NEW h, h = entries[t].handle,
         NEW s, s = entries[t].storage, NEW n, NotesCrossed(t, n)
  PROVE  /\ overwritten \subseteq overwritten'
         /\ FoundByInotify(n, h, s) # find_entry(n, h, s) =>
              \A m \in {n, entries[io.idx].name, io.name} : <<s, h, m>> \in overwritten'
<1>1. entries \in Seq(Entry)
  BY DEF Whole, Listed, Sane, DbTypeOK
<1>2. FoundByInotify(n, h, s) # find_entry(n, h, s) => io.op \in RenameOps
  BY <1>1, InotifyFinds
<1>3. PICK new : new = {s} \X {h} \X {n, entries[io.idx].name, io.name}
  OBVIOUS
<1>4. \A m \in {n, entries[io.idx].name, io.name} : <<s, h, m>> \in new
  BY <1>3
<1>5. overwritten' = IF io.op \in RenameOps /\ FoundByInotify(n, h, s) # find_entry(n, h, s)
                     THEN overwritten \cup new ELSE overwritten
  BY <1>3 DEF NotesCrossed
<1> QED BY <1>2, <1>4, <1>5

\* A folder and its watch after a turn.
LEMMA TurnListing ==
  ASSUME Whole', WdStep, disk' = disk, \A w \in DOMAIN watches' : watches'[w] = watches[w],
         NEW j \in DOMAIN entries, Even(j)'
  PROVE  Listing(WatchOf(j))' = Listing(WatchOf(j))
<1>1. j \in LiveEntries' /\ entries'[j].wd \in DOMAIN watches'
  BY DEF Even, Follows, Watching
<1>2. entries'[j].wd = entries[j].wd
  BY <1>1 DEF WdStep
<1>3. WatchOf(j)' = WatchOf(j)
  BY <1>1, <1>2 DEF WatchOf
<1> QED BY <1>3 DEF Listing

\* IN_CREATE, IN_MOVED_TO: the folder gets the name, if it is on the disk.
LEMMA CreateMirrored ==
  ASSUME Whole, Whole', Mirrored, InotifyCreate
  PROVE  Mirrored'
<1>1. PICK t, e, path : t = InotifyEntry /\ e = Head(events) /\ path = PathForInotify(t)
  OBVIOUS
<1>2. PICK h, s, n : /\ h = entries[t].handle /\ s = entries[t].storage
                     /\ n = IF e.name \in Listing(path) THEN e.name ELSE NoName
  OBVIOUS
<1>3. /\ InotifyTurn("create") /\ e.mask = "create" /\ events # <<>> /\ disk' = disk
      /\ path # <<>> /\ NotesMisplaced(t) /\ NotesCrossed(t, n) /\ UNCHANGED watches
      /\ \/ /\ FoundByInotify(n, h, s) # 0
            /\ UNCHANGED entries /\ InotifyMoves(t, "none", NONE)
         \/ /\ FoundByInotify(n, h, s) = 0
            /\ \E d \in BOOLEAN : entries' = Append(entries, alloc_entry(1, h, s, n, d))
            /\ InotifyMoves(t, "ObjectAdded", next_handle)
  BY <1>1, <1>2 DEF InotifyCreate, InotifyTurn
<1>4. unmirrored \subseteq unmirrored' /\ Inotify
  BY <1>3 DEF NotesMisplaced, Inotify
<1>5. DbTypeOK /\ DbTypeOK' /\ KernelOK /\ Sane /\ NamesKnown /\ Placed /\ Heading
  BY DEF Whole, Listed, Sane, Mirrored
<1>6. t # 0 /\ t \in LiveEntries /\ t \in DOMAIN entries
  <2>1. t # 0
    BY <1>1, <1>3 DEF PathForInotify
  <2> QED BY <1>1, <1>5, <2>1, TurnsEntry DEF LiveEntries
<1>7. e = events[1] /\ e.wd \in Nat /\ e.name \in Names /\ e.name # NoName
  BY <1>1, <1>3, <1>5, HeadIs, ConstantsAssumption
<1>8. h \in Nat /\ s \in Storages /\ n \in Names \cup {NoName}
  BY <1>2, <1>5, <1>6, <1>7, EntriesAreEntries DEF Entry, Handles
<1>9. TurnSees(t)
  BY <1>3, <1>7 DEF TurnSees
<1>0. /\ overwritten \subseteq overwritten'
      /\ FoundByInotify(n, h, s) # find_entry(n, h, s) => <<s, h, n>> \in overwritten'
  BY <1>2, <1>3, <1>6, CrossedNames
<1>10. ASSUME WdStep, n # NoName => n \in DbNames(h, s)' \/ <<s, h, n>> \in overwritten', DbStep,
              NEW j \in DOMAIN entries, Even(j), Even(j)',
              entries[j].handle = h, entries[j].storage = s
       PROVE  Settled(j, e.name)
  <2>1. SUFFICES ASSUME ~Settled(j, e.name) PROVE FALSE
    OBVIOUS
  <2>2. WatchOf(j) = path /\ e.name \in Listing(path)
    <3>1. \/ Settled(j, e.name)
          \/ /\ WatchOf(j) = path /\ entries[j].wd \in DOMAIN watches
             /\ e.mask = "create" <=> e.name \in Listing(path)
      BY <1>1, <1>2, <1>3, <1>5, <1>6, <1>10, TurnTruth
    <3> QED BY <1>3, <2>1, <3>1
  <2>4. entries'[j].handle = h /\ entries'[j].storage = s
    BY <1>10 DEF DbStep, Kept
  <2>3. n = e.name /\ n \in DbNames(h, s)'
    <3>1. n = e.name
      BY <1>2, <2>2
    <3>2. ~(<<s, h, n>> \in overwritten')
      BY <2>1, <2>4, <3>1 DEF Settled, Doubled
    <3> QED BY <1>7, <1>10, <3>1, <3>2
  <2>5. n \in NamesOf(j)'
    BY <2>3, <2>4 DEF NamesOf
  <2>6. Listing(WatchOf(j))' = Listing(WatchOf(j))
    BY <1>3, <1>10, TurnListing
  <2>7. Agrees(j, n)'
    BY <2>2, <2>3, <2>5, <2>6 DEF Agrees
  <2> QED BY <2>1, <2>3, <2>7 DEF Settled
<1>11. CASE FoundByInotify(n, h, s) # 0
  <2>1. UNCHANGED entries /\ InotifyMoves(t, "none", NONE)
    BY <1>3, <1>11
  <2>2. WdStep /\ DbStep
    BY <1>4, <1>5, <2>1, InotifyStep DEF WdStep, LiveEntries
  <2>3. n # NoName => n \in DbNames(h, s)' \/ <<s, h, n>> \in overwritten'
    <3>1. DbNames(h, s)' = DbNames(h, s)
      BY <2>1, SamePaths
    <3>2. n # NoName /\ find_entry(n, h, s) # 0 => n \in DbNames(h, s)
      BY <1>5, <1>8, FoundNames
    <3> QED BY <1>0, <1>11, <3>1, <3>2
  <2>4. \A j \in DOMAIN entries : /\ j = t /\ e.mask # "modify" /\ Even(j) /\ Even(j)'
                                  => Settled(j, e.name)
    BY <1>2, <1>10, <2>2, <2>3
  <2>5. TurnKept(t)
    BY <1>1, <1>3, <2>1, <2>4, TurnKeeps
  <2> QED BY <1>0, <1>1, <1>3, <1>4, <1>9, <2>1, <2>5, QuietTurn
<1>12. CASE FoundByInotify(n, h, s) = 0
  <2>1. PICK d \in BOOLEAN : entries' = Append(entries, alloc_entry(1, h, s, n, d))
    BY <1>3, <1>12
  <2>2. DbStep /\ NamesStep /\ h # next_handle
    BY <1>2, <1>4, <1>5, <1>6, InotifyStep, HandleGiven
  <2>3. WdStep /\ OthersKept(h, s, n) /\ (n # NoName => n \in DbNames(h, s)')
    BY <1>5, <1>8, <2>1, <2>2, AddedName
  <2>4. ASSUME NEW j \in DOMAIN entries, NEW m \in Names, Even(j), Even(j)', ~Settled(j, m)
        PROVE  /\ m \in NamesOf(j)' <=> m \in NamesOf(j)
               /\ ~(j = t /\ Tells(events[1], entries[j].wd, m))
    <3>1. ~(entries[j].handle = h /\ entries[j].storage = s /\ m = e.name)
      BY <1>10, <2>2, <2>3, <2>4
    <3>2. PICK g, z : g = entries[j].handle /\ z = entries[j].storage
      OBVIOUS
    <3>3. <<g, z, m>> # <<h, s, n>>
      BY <1>2, <1>7, <2>4, <3>1, <3>2, ConstantsAssumption
    <3>4. m \in DbNames(g, z)' <=> m \in DbNames(g, z)
      BY <2>3, <3>3 DEF OthersKept
    <3>5. entries'[j].handle = g /\ entries'[j].storage = z
      BY <2>2, <3>2 DEF DbStep, Kept
    <3>6. m \in NamesOf(j)' <=> m \in NamesOf(j)
      BY <3>2, <3>4, <3>5 DEF NamesOf
    <3>7. ~(j = t /\ Tells(events[1], entries[j].wd, m))
      BY <1>2, <1>7, <3>1 DEF Tells
    <3> QED BY <3>6, <3>7
  <2>5. TurnKept(t)
    BY <2>4 DEF TurnKept
  <2>6. InotifyMoves(t, "ObjectAdded", next_handle)
    BY <1>3, <1>12
  <2> QED BY <1>0, <1>1, <1>3, <1>4, <1>9, <2>3, <2>5, <2>6, TurnTaken
<1> QED BY <1>11, <1>12

\* Two objects of a folder have the same name: a rename doubled it.
LEMMA TwiceNamed ==
  ASSUME UniqueNames, Sane, NamesKnown, NEW a \in LiveEntries, NEW b \in LiveEntries, a # b,
         SameKey(entries[a], entries[b]), entries[a].name \in Names
  PROVE  <<entries[a].storage, entries[a].parent, entries[a].name>> \in overwritten
<1>1. entries[a].handle # 0 /\ entries[b].handle # 0
  BY NamedChild DEF SameKey
<1> QED BY <1>1 DEF UniqueNames, SameKey

\* IN_DELETE, IN_MOVED_FROM: the entry of the name goes, with its watch.
LEMMA DeleteMirrored ==
  ASSUME Whole, Whole', Mirrored, UniqueNames, InotifyDelete
  PROVE  Mirrored'
<1>1. PICK t, e, path : t = InotifyEntry /\ e = Head(events) /\ path = PathForInotify(t)
  OBVIOUS
<1>2. PICK h, s, n : h = entries[t].handle /\ s = entries[t].storage /\ n = e.name
  OBVIOUS
<1>3. PICK d : d = FoundByInotify(n, h, s)
  OBVIOUS
<1>4. /\ InotifyTurn("delete") /\ e.mask = "delete" /\ events # <<>> /\ disk' = disk
      /\ path # <<>> /\ NotesMisplaced(t) /\ NotesCrossed(t, n) /\ next_handle' = next_handle
      /\ \/ /\ d = 0
            /\ UNCHANGED <<entries, watches>> /\ InotifyMoves(t, "none", NONE)
         \/ /\ d # 0
            /\ entries' = Deleting({d}, {d})
            /\ watches' = Restrict(watches, DOMAIN watches \ WdsOf({d}))
            /\ InotifyMoves(t, "ObjectRemoved", entries[d].handle)
  BY <1>1, <1>2, <1>3 DEF InotifyDelete, InotifyTurn
<1>5. unmirrored \subseteq unmirrored' /\ Inotify
  BY <1>4 DEF NotesMisplaced, Inotify
<1>6. /\ DbTypeOK /\ DbTypeOK' /\ KernelOK /\ Sane /\ NamesKnown /\ Placed /\ Heading
      /\ entries \in Seq(Entry)
  BY DEF Whole, Listed, Sane, Mirrored, DbTypeOK, Placed
<1>7. t # 0 /\ t \in LiveEntries /\ t \in DOMAIN entries
  <2>1. t # 0
    BY <1>1, <1>4 DEF PathForInotify
  <2> QED BY <1>1, <1>6, <2>1, TurnsEntry DEF LiveEntries
<1>8. e = events[1] /\ e.wd \in Nat /\ n \in Names
  BY <1>1, <1>2, <1>4, <1>6, HeadIs
<1>9. /\ DbStep /\ NamesStep
  BY <1>5, <1>6, InotifyStep
<1>13. /\ overwritten \subseteq overwritten'
       /\ d # find_entry(n, h, s) =>
            \A m \in {n, entries[io.idx].name, io.name} : <<s, h, m>> \in overwritten'
  BY <1>2, <1>3, <1>4, <1>7, CrossedNames
<1>14. ASSUME NEW j \in DOMAIN entries, entries[j].handle = h, entries[j].storage = s
       PROVE  \A m : Doubled(j, m)' <=> <<s, h, m>> \in overwritten'
  <2>1. entries'[j].handle = h /\ entries'[j].storage = s
    BY <1>9, <1>14 DEF DbStep, Kept
  <2> QED BY <2>1 DEF Doubled
<1>10. ASSUME NEW j \in DOMAIN entries, Even(j), Even(j)', ~Settled(j, n),
              entries[j].handle = h, entries[j].storage = s
       PROVE  n \notin Listing(WatchOf(j))
  <2>1. \/ Settled(j, e.name)
        \/ /\ WatchOf(j) = path /\ entries[j].wd \in DOMAIN watches
           /\ e.mask = "create" <=> e.name \in Listing(path)
    BY <1>1, <1>2, <1>4, <1>6, <1>7, <1>10, TurnTruth
  <2> QED BY <1>2, <1>4, <1>10, <2>1
<1>11. CASE d = 0
  <2>1. UNCHANGED <<entries, watches>> /\ InotifyMoves(t, "none", NONE)
    BY <1>4, <1>11
  <2>2. WdStep
    BY <2>1 DEF WdStep, LiveEntries
  <2>3. n \in DbNames(h, s) => <<s, h, n>> \in overwritten'
    <3>1. n \in DbNames(h, s) => find_entry(n, h, s) # 0
      BY <1>6, <1>8, FoundNames
    <3> QED BY <1>11, <1>13, <3>1
  <2>4. ASSUME t \in DOMAIN entries, Even(t), Even(t)' PROVE Settled(t, n)
    <3>1. SUFFICES ASSUME ~Settled(t, n) PROVE FALSE
      OBVIOUS
    <3>2. n \notin Listing(WatchOf(t))
      BY <1>2, <1>10, <2>4, <3>1
    <3>3. Listing(WatchOf(t))' = Listing(WatchOf(t))
      BY <1>4, <2>1, <2>2, <2>4, TurnListing
    <3>4. NamesOf(t)' = NamesOf(t)
      BY <2>1, SamePaths DEF NamesOf
    <3>5. n \notin NamesOf(t)
      <4>1. ~Doubled(t, n)'
        BY <3>1 DEF Settled
      <4> QED BY <1>2, <1>7, <1>14, <2>3, <4>1 DEF NamesOf
    <3>6. Agrees(t, n)'
      BY <3>2, <3>3, <3>4, <3>5 DEF Agrees
    <3> QED BY <3>1, <3>6 DEF Settled
  <2>5. TurnKept(t)
    BY <1>1, <1>2, <1>4, <2>1, <2>4, TurnKeeps
  <2>6. TurnSees(t)
    <3>1. ASSUME NEW c \in KidsOf(t), entries[c].name = n PROVE Doubled(t, n)'
      <4>2. n \in DbNames(h, s)
        <5>1. c \in ChildrenInDb(h, s) /\ n # NoName
          BY <1>2, <1>8, <3>1, ConstantsAssumption DEF KidsOf
        <5> QED BY <3>1, <5>1 DEF DbNames
      <4> QED BY <1>2, <1>7, <1>14, <2>3, <4>2
    <3> QED BY <1>2, <1>8, <3>1 DEF TurnSees, Tells
  <2> QED BY <1>1, <1>4, <1>5, <1>13, <2>1, <2>5, <2>6, QuietTurn
<1>12. CASE d # 0
  <2>1. PICK one : one = {d}
    OBVIOUS
  <2>2. /\ entries' = Deleting(one, one)
        /\ watches' = Restrict(watches, DOMAIN watches \ WdsOf(one))
        /\ InotifyMoves(t, "ObjectRemoved", entries[d].handle)
    BY <1>4, <1>12, <2>1
  <2>3. /\ d \in LiveEntries /\ d \in DOMAIN entries /\ NameNow(d) = n
        /\ entries[d].parent = h /\ entries[d].storage = s
    BY <1>3, <1>6, <1>12, InotifyFinds DEF LiveEntries
  <2>6. \/ entries[d].name = n /\ d = find_entry(n, h, s)
        \/ <<s, h, n>> \in overwritten' /\ <<s, h, entries[d].name>> \in overwritten'
    <3>1. CASE d = find_entry(n, h, s)
      BY <1>6, <1>12, <3>1, LookupsFind
    <3>2. CASE d # find_entry(n, h, s)
      <4>1. entries[d].name = n \/ d = io.idx
        BY <2>3 DEF NameNow
      <4> QED BY <1>13, <3>2, <4>1
    <3> QED BY <3>1, <3>2
  <2>4. /\ DOMAIN entries' = DOMAIN entries /\ LiveEntries' = LiveEntries \ one /\ WdStep
        /\ \A i \in DOMAIN entries : entries'[i].deleted <=> entries[i].deleted \/ i \in one
    BY <1>6, <2>2, DeletedEntries
  <2>5. /\ DOMAIN watches' = DOMAIN watches \ WdsOf(one)
        /\ \A w \in DOMAIN watches' : w \in DOMAIN watches /\ watches'[w] = watches[w]
    BY <2>2 DEF Restrict
  <2>7. ASSUME NEW j \in DOMAIN entries, NEW m \in Names, Even(j), Even(j)', ~Settled(j, m)
        PROVE  /\ m \in NamesOf(j)' <=> m \in NamesOf(j)
               /\ ~(j = t /\ Tells(events[1], entries[j].wd, m))
    <3>1. PICK g, z : g = entries[j].handle /\ z = entries[j].storage
      OBVIOUS
    <3>2. entries'[j].handle = g /\ entries'[j].storage = z
      BY <1>9, <3>1 DEF DbStep, Kept
    <3>3. ASSUME g = h, z = s, m \in {n, entries[d].name} PROVE FALSE
      <4>0. ~Doubled(j, m)' /\ <<s, h, m>> \notin overwritten'
        BY <1>14, <2>7, <3>1, <3>3 DEF Settled
      <4>10. m = n /\ entries[d].name = n
        BY <2>6, <3>3, <4>0
      <4>1. n \notin Listing(WatchOf(j))
        BY <1>10, <2>7, <3>1, <3>3, <4>10
      <4>2. Listing(WatchOf(j))' = Listing(WatchOf(j))
        BY <1>4, <2>4, <2>5, <2>7, TurnListing
      <4>3. ~Agrees(j, n)' /\ ~Doubled(j, n)'
        BY <2>7, <4>10 DEF Settled
      <4>4. n \in DbNames(h, s)'
        BY <3>2, <3>3, <4>1, <4>2, <4>3 DEF Agrees, NamesOf
      <4>5. PICK c \in ChildrenInDb(h, s)' : entries'[c].name = n
        BY <4>4 DEF DbNames
      <4>6. /\ c \in LiveEntries' /\ entries'[c].parent = h /\ entries'[c].storage = s
        BY <4>5 DEF ChildrenInDb
      <4>7. c \in LiveEntries /\ c # d /\ c \in DOMAIN entries
        BY <2>1, <2>4, <4>6 DEF LiveEntries
      <4>8. entries[c].parent = h /\ entries[c].storage = s /\ entries[c].name = n
        BY <1>9, <4>5, <4>6, <4>7 DEF DbStep, NamesStep, Kept
      <4>9. <<s, h, n>> \in overwritten
        BY <1>6, <1>8, <2>3, <4>7, <4>8, <4>10, TwiceNamed DEF SameKey
      <4> QED BY <1>13, <4>0, <4>9, <4>10
    <3>4. m \in NamesOf(j)' <=> m \in NamesOf(j)
      <4>1. \A c \in ChildrenInDb(g, z) : entries[c].name = m => ~entries'[c].deleted
        <5>1. SUFFICES ASSUME NEW c \in ChildrenInDb(g, z), entries[c].name = m
                       PROVE  c # d
          BY <2>1, <2>4 DEF ChildrenInDb, LiveEntries, Live
        <5> QED BY <2>3, <3>3, <5>1 DEF ChildrenInDb
      <4>2. \A c \in Len(entries) + 1..Len(entries') :
              ~(entries'[c].name = m /\ entries'[c].parent = g /\ entries'[c].storage = z)
        <5>1. PICK k \in Nat : k = Len(entries) /\ k = Len(entries')
          BY <1>4, <1>6, <2>2, DeletingStep, EntriesAreEntries
        <5>2. k + 1..k = {}
          OBVIOUS
        <5> QED BY <5>1, <5>2
      <4>3. m \in DbNames(g, z)' <=> m \in DbNames(g, z)
        BY <1>6, <1>9, <4>1, <4>2, NameKept
      <4> QED BY <3>1, <3>2, <4>3 DEF NamesOf
    <3>5. ~(j = t /\ Tells(events[1], entries[j].wd, m))
      BY <1>2, <1>8, <3>1, <3>3 DEF Tells
    <3> QED BY <3>4, <3>5
  <2>8. TurnKept(t)
    BY <2>7 DEF TurnKept
  <2>9. TurnSees(t)
    <3>1. SUFFICES ASSUME NEW c \in KidsOf(t), entries[c].name = n, Live(c)'
                   PROVE  Doubled(t, n)'
      <4>1. \A c : Live(io.idx)' /\ io' = io /\ c = io.idx => Live(c)'
        BY DEF Live
      <4>2. io' = io
        BY <1>4 DEF InotifyTurn
      <4> QED BY <1>2, <1>8, <3>1, <4>1, <4>2 DEF TurnSees, Tells
    <3>2. c \in LiveEntries /\ entries[c].parent = h /\ entries[c].storage = s
      BY <1>2, <3>1 DEF KidsOf, ChildrenInDb
    <3>3. c # d
      BY <2>1, <2>3, <2>4, <3>1 DEF Live
    <3>4. entries[d].name = n => <<s, h, n>> \in overwritten
      BY <1>6, <1>8, <2>3, <3>1, <3>2, <3>3, TwiceNamed DEF SameKey
    <3>5. <<s, h, n>> \in overwritten'
      BY <1>13, <2>6, <3>4
    <3> QED BY <1>2, <1>7, <1>14, <3>5
  <2> QED BY <1>1, <1>4, <1>5, <1>13, <2>2, <2>4, <2>5, <2>8, <2>9, TurnTaken
<1> QED BY <1>11, <1>12

-----------------------------------------------------------------------------
(* The theorem.                                                              *)

\* The inotify thread.
LEMMA InotifyMirrored ==
  ASSUME Whole, Whole', Mirrored, UniqueNames, Inotify
  PROVE  Mirrored'
BY SkipMirrored, CreateMirrored, ModifyMirrored, DeleteMirrored, PushMirrored DEF Inotify

\* No folder is followed at first.
LEMMA InitMirrored == Init => Mirrored
<1> SUFFICES ASSUME Init PROVE Mirrored
  OBVIOUS
<1>1. /\ entries = <<>> /\ DOMAIN entries = {} /\ LiveEntries = {}
  <2>1. entries = <<>>
    BY DEF Init
  <2> QED BY <2>1 DEF LiveEntries
<1>2. DOMAIN watches = {} /\ DOMAIN events = {} /\ io.op = "idle"
  BY DEF Init, IoIdle
<1>3. Placed
  BY <1>1, <1>2 DEF Placed, OneWatch, Truthful, Numbered, TopWatch, Level, ListLevel
<1>4. Agreement /\ Renaming /\ Heading
  BY <1>1, <1>2 DEF Agreement, Renaming, RenamedOnDisk, Heading, RenameOps
<1> QED BY <1>3, <1>4 DEF Mirrored

\* Every step keeps Mirrored.
LEMMA MirroredStep ==
  ASSUME Whole, Whole', Mirrored, UniqueNames, [Next]_vars
  PROVE  Mirrored'
<1>1. CASE Host
  BY <1>1, HostMirrored
<1>2. CASE LocalUser
  BY <1>2, LocalUserMirrored
<1>3. CASE Inotify
  BY <1>3, InotifyMirrored
<1>4. CASE MsgQueue
  BY <1>4, MsgQueueMirrored
<1>5. CASE UNCHANGED vars
  BY <1>5, OtherMirrored
<1> QED BY <1>1, <1>2, <1>3, <1>4, <1>5 DEF Next

\* With an empty queue nothing waits: what a followed folder and the disk
\* disagree in is a name that a rename doubled.
LEMMA MirroredMirror ==
  ASSUME Whole, Mirrored
  PROVE  Mirror
<1>1. SUFFICES ASSUME Quiescent, NEW i \in LiveEntries \ unmirrored,
                      NEW p, p = build_full_path(i),
                      entries[i].dir, entries[i].wd \in DOMAIN watches,
                      watches[entries[i].wd] = p, NEW n \in Names
               PROVE  \/ <<entries[i].storage, entries[i].handle, n>> \in overwritten
                      \/ n \in Listing(p) <=>
                           n \in DbNames(entries[i].handle, entries[i].storage)
  BY DEF Mirror
<1>2. Sane /\ KernelOK /\ ResolvesOwn /\ i \in DOMAIN entries
  BY ResolvedOwn DEF Whole, Listed, LiveEntries
<1>3. p \in Paths
  BY <1>1, <1>2 DEF KernelOK, WatchesSet, DiskTree
<1>4. p # <<>>
  BY <1>3 DEF Paths
<1>5. p = PathOf(i)
  BY <1>1, <1>2, <1>4 DEF ResolvesOwn
<1>6. Even(i) /\ WatchOf(i) = p
  BY <1>1, <1>5 DEF Even, Follows, Watching, WatchOf
<1>7. ~Waits(i, n)
  <2>1. DOMAIN events = {}
    BY <1>1 DEF Quiescent
  <2> QED BY <2>1 DEF Waits
<1>8. Doubled(i, n) \/ Agrees(i, n)
  BY <1>2, <1>6, <1>7 DEF Mirrored, Agreement
<1> QED BY <1>6, <1>8 DEF Doubled, Agrees, NamesOf

\* Whenever the inotify queue is drained, a folder whose watch is where it is
\* has in the database exactly the names it has on the disk: whatever local
\* users, host, inotify thread and message queue thread did, in whatever order,
\* but for the changes the code cannot see, which unmirrored and overwritten name.
THEOREM MirrorCorrect == Spec => []Mirror
<1>1. Init /\ Whole => Mirrored
  BY InitMirrored
<1>2. Whole /\ Whole' /\ UniqueNames /\ Mirrored /\ [Next]_vars => Mirrored'
  BY MirroredStep
<1>3. Whole /\ Mirrored => Mirror
  BY MirroredMirror
<1> QED BY <1>1, <1>2, <1>3, WholeCorrect, UniqueNamesCorrect, PTL DEF Spec
=============================================================================
